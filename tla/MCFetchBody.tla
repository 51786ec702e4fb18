---------------------------- MODULE MCFetchBody ----------------------------
(* Two threads, two fetches, at the same time or one after the other, when *)
(* the buffers hold another article.  The articles have lines with no, one *)
(* and two dots at their start, an empty line, and none at all.  The       *)
(* answers have 4, 5, 10, 10 and 11 characters: with a Room of 10 some fit,*)
(* two fill it to the last, and one does not fit.                          *)
EXTENDS FetchBody
MCArticles == { <<>>, <<"n">>, <<".", "n", ".", "n">>, <<".", ".", "n", "x", "n">>, <<"x", ".", "n", ".", "x", "n">> }
=============================================================================
