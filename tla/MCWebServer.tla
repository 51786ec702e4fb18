---------------------------- MODULE MCWebServer ----------------------------
(* Two NZBs, the first of two files, two browsers of which one has the     *)
(* password, and three connections: a login, a page with its cookie, and   *)
(* one of the other browser.                                               *)
EXTENDS WebServer
MCNFiles == <<2, 1>>
=============================================================================
