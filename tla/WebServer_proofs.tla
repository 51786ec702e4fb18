------------------------- MODULE WebServer_proofs --------------------------
(***************************************************************************)
(* What WebServer keeps for every number of NZBs, files, segments, browsers*)
(* and connections.                                                        *)
(*                                                                         *)
(* A page reads two mutexes one after the other.  Its rows agree with its  *)
(* bars because the status of an NZB never goes back, so that a row is not *)
(* ahead of what is published when its bar is read, and because what is    *)
(* published is itself ahead by one file at most: main updates the status  *)
(* before the bar.  The inductive invariant says both, and, of the pass-   *)
(* word, that a sid a browser has was given to it after the password.      *)
(***************************************************************************)
EXTENDS WebServer, TLAPS, FiniteSetTheorems

\* The types, main's, what is published, and the thread's.
TypeMain ==
    /\ main \in {"add", "next", "update", "reset", "fetch", "stop", "close", "join", "end"}
    /\ nzb \in Nzbs /\ fl \in Nat /\ fl <= NFiles[nzb]
    /\ run \in BOOLEAN /\ srv \in {"null", "open", "closed"}
TypePub ==
    /\ got \subseteq Nzbs \X Nat \X Segs
    /\ DOMAIN status \subseteq Nzbs /\ \A z \in DOMAIN status : status[z] \in 0 .. Finished(z)
    /\ current = None \/ current.fl \in 1 .. NFiles[current.nzb]
    /\ progress = <<>> \/ progress \in [Segs -> Marks]
TypeThr ==
    /\ thr \in {"off", "new", "test", "accept", "accepted", "read", "status", "rows", "send", "end"}
    /\ client \in Clients \cup {"nobody"}
    /\ reply.kind \in {"none", "login", "status"} /\ reply.ask \in {"none", "get", "post"}
    /\ reply.sid \in 0 .. NConn /\ cookie \in [Clients -> 0 .. NConn]
    /\ sids \subseteq 1 .. NConn
    /\ conns \in 0 .. NConn
TypePage == DOMAIN page.bar \subseteq DOMAIN page.rows /\ DOMAIN page.rows \subseteq Nzbs

\* Where main is in its second loop, and what it has published there.
InvMain ==
    /\ main = "add" => fl = 0 /\ current = None /\ DOMAIN status = 1 .. nzb - 1
    /\ main \in {"next", "update", "reset", "fetch"} => DOMAIN status = Nzbs
    /\ main \in {"update", "reset", "fetch"} => fl >= 1
    /\ main = "fetch" => current = [nzb |-> nzb, fl |-> fl] /\ progress \in [Segs -> Marks]
    /\ current \in [nzb : Nat, fl : Nat] /\ current.nzb <= nzb
    /\ current # None => current.nzb \in Nzbs

\* The status of an NZB with files: not begun, or where main is.
InvStatus ==
    /\ \A z \in DOMAIN status :
        /\ NFiles[z] > 0 /\ (main = "add" \/ z > nzb) => status[z] = 0
        /\ current.nzb = z => status[z] <= current.fl + 1
    /\ main \in {"next", "reset", "fetch"} /\ NFiles[nzb] > 0 => status[nzb] <= fl
    /\ main = "update" => status[nzb] <= fl - 1
    /\ main \in {"next", "update", "reset"} /\ current.nzb = nzb =>
        current.fl = IF main = "next" THEN fl ELSE fl - 1

\* The bar that is published: a good segment of the current file is there.
InvBar ==
    \A j \in DOMAIN progress :
        progress[j] = "ok" => <<current.nzb, current.fl, j>> \in got

\* The page being made is not ahead of what is published.
InvPage ==
    /\ page = [rows |-> page.rows, bar |-> page.bar]
    /\ \A z \in DOMAIN page.rows :
        /\ z \in DOMAIN status
        /\ page.rows[z] \in Int /\ page.rows[z] <= status[z]

\* A sid is in a browser's hands, or on its way there, after the password.
InvSid ==
    /\ \A c \in Clients : cookie[c] # 0 => c \in Knows /\ cookie[c] \in sids
    /\ thr \in {"accepted", "read", "status", "rows", "send"} => client \in Clients
    /\ thr \notin {"status", "rows", "send"} => reply = NoReply
    /\ reply.sid # 0 => client \in Knows /\ reply.sid \in sids

\* Each connection makes one sid at most.
InvConns ==
    /\ Cardinality(sids) <= conns
    /\ thr \in {"accepted", "read"} => Cardinality(sids) < conns

IInv ==
    /\ TypeMain /\ TypePub /\ TypeThr /\ TypePage
    /\ InvMain /\ InvStatus /\ InvBar /\ InvPage /\ PageAgrees
    /\ InvSid /\ InvConns /\ LoggedInOnce

-----------------------------------------------------------------------------
\* The NZBs and their numbers of files.
LEMMA Files ==
    /\ Len(NFiles) \in Nat \ {0} /\ Nzbs = 1 .. Len(NFiles)
    /\ \A z \in Nzbs : NFiles[z] \in Nat /\ Finished(z) = NFiles[z] + 1
BY ServerAssumption DEF Nzbs, Finished

\* The NZB after one that is not the last.
LEMMA NextNzb ==
    ASSUME NEW z \in Nzbs
    PROVE  /\ z \in Nat \ {0} /\ z <= Len(NFiles) /\ 1 \in Nzbs
           /\ z < Len(NFiles) => z + 1 \in Nzbs
           /\ NFiles[z] \in Nat /\ NFiles[z] + 1 = Finished(z)
           /\ \A n \in 0 .. NFiles[z] + 1 : n \in 0 .. Finished(z)
BY Files

\* The sessions can be counted.
LEMMA CountSids ==
    ASSUME sids \subseteq 1 .. NConn
    PROVE  IsFiniteSet(sids) /\ Cardinality(sids) \in Nat
<1>1. IsFiniteSet(1 .. NConn)
  BY ServerAssumption, FS_Interval
<1>2. IsFiniteSet(sids)
  BY <1>1, FS_Subset
<1>. QED  BY <1>2, FS_CardinalityType

\* www::update sets one status and keeps the others.
LEMMA UpdateFacts ==
    ASSUME NEW z, NEW s, Update(z, s)
    PROVE  /\ DOMAIN status' = DOMAIN status \cup {z}
           /\ status'[z] = s
           /\ \A x \in DOMAIN status \ {z} : status'[x] = status[x]
BY DEF Update

\* The server starts before main has added an NZB.
LEMMA InitIInv == Init => IInv
<1>. SUFFICES ASSUME Init PROVE IInv
  OBVIOUS
<1>. USE Files, ServerAssumption DEF Init, None, NoReply
<1>1. TypeMain /\ TypePub /\ TypeThr /\ TypePage
  BY DEF TypeMain, TypePub, TypeThr, TypePage
<1>2. InvMain /\ InvStatus /\ InvBar /\ InvPage /\ PageAgrees
  BY DEF InvMain, InvStatus, InvBar, InvPage, PageAgrees
<1>3. InvSid /\ LoggedInOnce
  BY DEF InvSid, LoggedInOnce
<1>4. InvConns
  BY FS_EmptySet DEF InvConns
<1>. QED  BY <1>1, <1>2, <1>3, <1>4 DEF IInv

\* main leaves the server alone,
LEMMA MainFrame == Main => UNCHANGED srvVars
BY DEF Main, AddNzb, NextFile, NzbDone, UpdateStatus, ProgressReset, ProgressSet, Fetched, Leaves, StopRun, StopClose, Join

\* the server and the browsers leave main alone,
LEMMA ServerFrame == Server \/ Browser => UNCHANGED <<mainVars, pubVars, run>>
BY DEF Server, Browser, Listen, TestRun, AcceptEnds, Accepted, BadRequest, CopyStatus,
   MakeRow, MadeRows, Send, Connects, Get, Post, pubRest

\* and nobody but main frees the server's socket.
LEMMA ServerSocket ==
    (Server \/ Browser) /\ srv \in {"null", "open", "closed"} => srv' \in {"null", "open", "closed"}
BY DEF Server, Browser, Listen, TestRun, AcceptEnds, Accepted, BadRequest, CopyStatus,
   MakeRow, MadeRows, Send, Connects, Get, Post

\* The steps of main: the page that is being made stays as it is.
LEMMA MainParts ==
    ASSUME IInv, Main
    PROVE  /\ TypeMain' /\ TypePub' /\ InvMain' /\ InvStatus' /\ InvBar'
           /\ InvPage' /\ PageAgrees'
<1>. USE DEF IInv, MainGoes, pubVars, srvVars, Segs, None, Marks
<1>0. nzb \in Nzbs /\ nzb \in Nat /\ NFiles[nzb] \in Nat /\ fl \in Nat /\ fl <= NFiles[nzb]
  BY NextNzb DEF TypeMain
<1>00. \A z \in DOMAIN status : z \in Nat /\ status[z] \in Nat /\ NFiles[z] \in Nat
  BY NextNzb DEF TypePub
<1>. USE <1>0, <1>00
<1>1. CASE AddNzb
  <2>0. PICK n \in 0 .. Finished(nzb) :
          /\ main = "add" /\ (NFiles[nzb] > 0 => n = 0) /\ Update(nzb, n)
    BY <1>1, NextNzb DEF AddNzb
  <2>a. /\ DOMAIN status' = DOMAIN status \cup {nzb} /\ status'[nzb] = n
        /\ \A x \in DOMAIN status \ {nzb} : status'[x] = status[x]
    BY <2>0, UpdateFacts
  <2>b. \/ nzb' = nzb + 1 /\ UNCHANGED main
        \/ nzb' = 1 /\ main' = "next" /\ DOMAIN status \cup {nzb} = Nzbs
    BY <1>1, Files DEF AddNzb, InvMain
  <2>d. nzb' \in Nzbs /\ nzb' \in Nat \ {0} /\ NFiles[nzb'] \in Nat
    BY <1>1, <2>b, NextNzb DEF AddNzb
  <2>c. UNCHANGED <<fl, got, current, progress, run, srv, srvVars>>
    BY <1>1 DEF AddNzb
  <2>e. /\ fl = 0 /\ nzb \notin DOMAIN status /\ 0 \in 0 .. Finished(nzb)
        /\ main' = "add" => DOMAIN status' = 1 .. nzb' - 1
        /\ main' = "next" => DOMAIN status' = Nzbs
    BY <2>0, <2>a, <2>b, NextNzb DEF InvMain
  <2>1. TypeMain'
    BY <2>0, <2>a, <2>b, <2>c, <2>d, <2>e DEF TypeMain
  <2>2. TypePub'
    BY <2>0, <2>a, <2>b, <2>c, <2>d, <2>e DEF TypePub, InvMain
  <2>3. InvMain'
    BY <2>0, <2>a, <2>b, <2>c, <2>d, <2>e DEF TypeMain, InvMain
  <2>4. InvStatus'
    BY <2>0, <2>a, <2>b, <2>c, <2>d, <2>e DEF TypeMain, TypePub, InvMain, InvStatus
  <2>5. InvBar'
    BY <2>0, <2>a, <2>b, <2>c, <2>d, <2>e DEF TypePub, InvMain, InvBar
  <2>6. InvPage'
    BY <2>0, <2>a, <2>b, <2>c, <2>d, <2>e DEF TypePub, TypePage, InvStatus, InvPage
  <2>7. PageAgrees'
    BY <2>0, <2>a, <2>b, <2>c, <2>d, <2>e DEF TypePage, InvMain, InvStatus, InvBar, InvPage, PageAgrees
  <2>. QED  BY <2>1, <2>2, <2>3, <2>4, <2>5, <2>6, <2>7
<1>2. CASE NextFile
  <2>1. TypeMain'
    BY <1>2 DEF NextFile, TypeMain
  <2>2. TypePub'
    BY <1>2 DEF NextFile, TypePub
  <2>3. InvMain'
    BY <1>2 DEF NextFile, TypeMain, InvMain
  <2>4. InvStatus'
    BY <1>2 DEF NextFile, TypeMain, TypePub, InvMain, InvStatus
  <2>5. InvBar' /\ InvPage' /\ PageAgrees'
    BY <1>2 DEF NextFile, InvBar, InvPage, PageAgrees
  <2>. QED  BY <2>1, <2>2, <2>3, <2>4, <2>5
<1>3. CASE NzbDone
  <2>0. main = "next" /\ fl = NFiles[nzb]
    BY <1>3 DEF NzbDone
  <2>a. /\ DOMAIN status' = DOMAIN status \cup {nzb} /\ status'[nzb] = Finished(nzb)
        /\ \A x \in DOMAIN status \ {nzb} : status'[x] = status[x]
    BY <1>3, UpdateFacts DEF NzbDone
  <2>e. Finished(nzb) = fl + 1 /\ Finished(nzb) \in 0 .. Finished(nzb)
    BY <2>0, NextNzb
  <2>b. \/ nzb' = nzb + 1 /\ fl' = 0 /\ UNCHANGED main
        \/ main' = "stop" /\ UNCHANGED <<nzb, fl>>
    BY <1>3 DEF NzbDone
  <2>d. nzb' \in Nzbs /\ nzb' \in Nat /\ NFiles[nzb'] \in Nat
    BY <1>3, <2>b, NextNzb DEF NzbDone
  <2>c. UNCHANGED <<got, current, progress, run, srv, srvVars>>
    BY <1>3 DEF NzbDone
  <2>1. TypeMain'
    BY <2>0, <2>a, <2>b, <2>c, <2>d, <2>e DEF TypeMain
  <2>2. TypePub'
    BY <2>0, <2>a, <2>b, <2>c, <2>d, <2>e DEF TypePub, InvMain
  <2>3. InvMain'
    BY <2>0, <2>a, <2>b, <2>c, <2>d, <2>e DEF TypeMain, InvMain
  <2>4. InvStatus'
    <3>1. CASE nzb' = nzb + 1 /\ fl' = 0 /\ UNCHANGED main
      BY SMTT(30), <3>1, <2>0, <2>a, <2>c, <2>d, <2>e DEF TypeMain, TypePub, InvMain, InvStatus
    <3>2. CASE main' = "stop" /\ UNCHANGED <<nzb, fl>>
      BY <3>2, <2>0, <2>a, <2>c, <2>d, <2>e DEF TypeMain, TypePub, InvMain, InvStatus
    <3>. QED  BY <2>b, <3>1, <3>2
  <2>5. InvBar'
    BY <2>0, <2>a, <2>b, <2>c, <2>d, <2>e DEF TypePub, InvMain, InvBar
  <2>6. InvPage'
    BY <2>0, <2>a, <2>b, <2>c, <2>d, <2>e DEF TypePub, TypePage, InvStatus, InvPage
  <2>7. PageAgrees'
    BY <2>0, <2>a, <2>b, <2>c, <2>d, <2>e DEF TypePage, InvMain, InvStatus, InvBar, InvPage, PageAgrees
  <2>. QED  BY <2>1, <2>2, <2>3, <2>4, <2>5, <2>6, <2>7
<1>4. CASE UpdateStatus
  <2>0. main = "update" /\ main' = "reset" /\ fl \in 0 .. Finished(nzb)
    BY <1>4, NextNzb DEF UpdateStatus
  <2>a. /\ DOMAIN status' = DOMAIN status \cup {nzb} /\ status'[nzb] = fl
        /\ \A x \in DOMAIN status \ {nzb} : status'[x] = status[x]
    BY <1>4, UpdateFacts DEF UpdateStatus
  <2>b. UNCHANGED <<nzb, fl, got, current, progress, run, srv, srvVars>>
    BY <1>4 DEF UpdateStatus
  <2>1. TypeMain'
    BY <2>0, <2>a, <2>b DEF TypeMain
  <2>2. TypePub'
    BY <2>0, <2>a, <2>b DEF TypePub, InvMain
  <2>3. InvMain'
    BY <2>0, <2>a, <2>b DEF TypeMain, InvMain
  <2>4. InvStatus'
    BY <2>0, <2>a, <2>b DEF TypeMain, TypePub, InvMain, InvStatus
  <2>5. InvBar'
    BY <2>0, <2>a, <2>b DEF TypePub, InvMain, InvBar
  <2>6. InvPage'
    BY <2>0, <2>a, <2>b DEF TypePub, TypePage, InvStatus, InvPage
  <2>7. PageAgrees'
    BY <2>0, <2>a, <2>b DEF TypePage, InvMain, InvStatus, InvBar, InvPage, PageAgrees
  <2>. QED  BY <2>1, <2>2, <2>3, <2>4, <2>5, <2>6, <2>7
<1>5. CASE ProgressReset
  BY <1>5 DEF ProgressReset, TypeMain, TypePub, InvMain, InvStatus, InvBar, InvPage, PageAgrees
<1>6. CASE ProgressSet
  <2>0. PICK j \in Segs, m \in Marks :
          /\ main = "fetch" /\ progress' = [progress EXCEPT ![j] = m]
          /\ got \subseteq got' /\ got' \subseteq got \cup {<<nzb, fl, j>>}
          /\ m = "ok" => <<nzb, fl, j>> \in got'
    BY <1>6 DEF ProgressSet
  <2>a. UNCHANGED <<main, nzb, fl, status, current, run, srv, srvVars>>
    BY <1>6 DEF ProgressSet
  <2>1. TypeMain'
    BY <2>0, <2>a DEF TypeMain
  <2>2. TypePub'
    BY <2>0, <2>a DEF TypePub, InvMain
  <2>3. InvMain'
    BY <2>0, <2>a DEF TypeMain, InvMain
  <2>4. InvStatus'
    BY <2>0, <2>a DEF TypeMain, TypePub, InvMain, InvStatus
  <2>5. InvBar'
    BY <2>0, <2>a DEF TypePub, InvMain, InvBar
  <2>6. InvPage'
    BY <2>0, <2>a DEF TypePub, TypePage, InvStatus, InvPage
  <2>7. PageAgrees'
    BY <2>0, <2>a DEF TypePage, InvMain, InvStatus, InvBar, InvPage, PageAgrees
  <2>. QED  BY <2>1, <2>2, <2>3, <2>4, <2>5, <2>6, <2>7
<1>7. CASE Fetched
  BY <1>7 DEF Fetched, TypeMain, TypePub, InvMain, InvStatus, InvBar, InvPage, PageAgrees
<1>8. CASE Leaves
  BY <1>8 DEF Leaves, TypeMain, TypePub, InvMain, InvStatus, InvBar, InvPage, PageAgrees
<1>9. CASE StopRun
  BY <1>9 DEF StopRun, TypeMain, TypePub, InvMain, InvStatus, InvBar, InvPage, PageAgrees
<1>10. CASE StopClose
  BY <1>10 DEF StopClose, TypeMain, TypePub, InvMain, InvStatus, InvBar, InvPage, PageAgrees
<1>11. CASE Join
  BY <1>11 DEF Join, TypeMain, TypePub, InvMain, InvStatus, InvBar, InvPage, PageAgrees
<1>. QED
  BY <1>1, <1>2, <1>3, <1>4, <1>5, <1>6, <1>7, <1>8, <1>9, <1>10, <1>11 DEF Main

\* The steps of the thread: what is published stays as it is.
LEMMA ServerParts ==
    ASSUME IInv, Server \/ Browser
    PROVE  /\ TypeThr' /\ TypePage' /\ InvPage' /\ PageAgrees'
           /\ InvSid' /\ InvConns' /\ LoggedInOnce'
<1>. USE DEF IInv, ThrGoes, mainVars, pubVars, pubRest, None, NoReply, Marks
<1>0. NConn \in Nat /\ IsFiniteSet(sids) /\ Cardinality(sids) \in Nat
  BY ServerAssumption, CountSids DEF TypeThr
<1>b. Cardinality(sids \cup {Cardinality(sids) + 1}) \in Nat
  BY <1>0, FS_AddElement, FS_CardinalityType
<1>. USE <1>0
<1>1. CASE Listen
  BY <1>1 DEF Listen, TypeThr, TypePage, InvPage, PageAgrees, InvSid, InvConns, LoggedInOnce
<1>2. CASE TestRun
  BY <1>2 DEF TestRun, TypeThr, TypePage, InvPage, PageAgrees, InvSid, InvConns, LoggedInOnce
<1>3. CASE AcceptEnds
  BY <1>3 DEF AcceptEnds, TypeThr, TypePage, InvPage, PageAgrees, InvSid, InvConns, LoggedInOnce
<1>4. CASE Accepted
  BY <1>4 DEF Accepted, TypeThr, TypePage, InvPage, PageAgrees, InvSid, InvConns, LoggedInOnce
<1>5. CASE BadRequest
  BY <1>5 DEF BadRequest, TypeThr, TypePage, InvPage, PageAgrees, InvSid, InvConns, LoggedInOnce
<1>6. CASE CopyStatus
  <2>1. TypeThr'
    BY <1>6 DEF CopyStatus, TypeThr
  <2>2. TypePage'
    BY <1>6 DEF CopyStatus, TypePub, TypePage
  <2>3. InvPage'
    BY <1>6 DEF CopyStatus, TypePub, TypePage, InvStatus, InvPage
  <2>4. PageAgrees'
    BY <1>6 DEF CopyStatus, TypePage, InvMain, InvStatus, InvBar, InvPage, PageAgrees
  <2>5. InvSid'
    BY <1>6 DEF CopyStatus, TypeThr, InvSid
  <2>6. InvConns'
    BY <1>6 DEF CopyStatus, TypeThr, InvConns
  <2>7. LoggedInOnce'
    BY <1>6 DEF CopyStatus, TypeThr, InvSid, LoggedInOnce
  <2>. QED  BY <2>1, <2>2, <2>3, <2>4, <2>5, <2>6, <2>7
<1>7. CASE MakeRow
  <2>1. TypeThr'
    BY <1>7 DEF MakeRow, TypeThr
  <2>2. TypePage'
    BY <1>7 DEF MakeRow, TypePage
  <2>3. InvPage'
    BY <1>7 DEF MakeRow, TypePub, TypePage, InvStatus, InvPage
  <2>4. PageAgrees'
    <3>1. PICK z \in DOMAIN page.rows :
            page' = [page EXCEPT !.bar =
                       [x \in DOMAIN page.bar \cup {z} |-> IF x = z THEN Bar(z) ELSE page.bar[x]]]
      BY <1>7 DEF MakeRow
    <3>2. /\ page'.rows = page.rows /\ DOMAIN page'.bar = DOMAIN page.bar \cup {z}
          /\ page'.bar[z] = Bar(z) /\ \A x \in DOMAIN page.bar \ {z} : page'.bar[x] = page.bar[x]
      BY <3>1 DEF InvPage
    <3>3. CASE current.nzb = z
      <4>1. Bar(z) = [of |-> current, marks |-> progress]
        BY <3>3 DEF Bar
      <4>2. current.fl >= page.rows[z] - 1
        BY <3>3 DEF InvPage, InvStatus, InvMain, TypePub
      <4>3. UNCHANGED got
        BY <1>7 DEF MakeRow
      <4>. QED  BY <3>2, <3>3, <4>1, <4>2, <4>3 DEF PageAgrees, InvBar
    <3>4. CASE current.nzb # z
      BY <1>7, <3>2, <3>4 DEF MakeRow, Bar, PageAgrees
    <3>. QED  BY <3>3, <3>4
  <2>5. InvSid'
    BY <1>7 DEF MakeRow, TypeThr, InvSid
  <2>6. InvConns'
    BY <1>7 DEF MakeRow, TypeThr, InvConns
  <2>7. LoggedInOnce'
    BY <1>7 DEF MakeRow, TypeThr, InvSid, LoggedInOnce
  <2>. QED  BY <2>1, <2>2, <2>3, <2>4, <2>5, <2>6, <2>7
<1>8. CASE MadeRows
  BY <1>8 DEF MadeRows, TypeThr, TypePage, InvPage, PageAgrees, InvSid, InvConns, LoggedInOnce
<1>9. CASE Send
  BY <1>9 DEF Send, TypeThr, TypePage, InvPage, PageAgrees, InvSid, InvConns, LoggedInOnce
<1>10. CASE Connects
  BY <1>10 DEF Connects, TypeThr, TypePage, InvPage, PageAgrees, InvSid, InvConns, LoggedInOnce
<1>11. CASE Get
  <2>1. TypeThr'
    BY <1>11 DEF Get, Replies, TypeThr, InvSid
  <2>2. TypePage'
    BY <1>11 DEF Get, Replies, TypePage
  <2>3. InvPage'
    BY <1>11 DEF Get, Replies, TypePub, TypePage, InvStatus, InvPage
  <2>4. PageAgrees'
    BY <1>11 DEF Get, Replies, TypePage, InvMain, InvStatus, InvBar, InvPage, PageAgrees
  <2>5. InvSid'
    BY <1>11 DEF Get, Replies, TypeThr, InvSid
  <2>6. InvConns'
    BY <1>11 DEF Get, Replies, TypeThr, InvConns
  <2>7. LoggedInOnce'
    BY <1>11 DEF Get, Replies, TypeThr, InvSid, LoggedInOnce
  <2>. QED  BY <2>1, <2>2, <2>3, <2>4, <2>5, <2>6, <2>7
<1>12. CASE Post
  <2>0. conns \in 0 .. NConn /\ NConn \in Nat /\ Cardinality(sids) < conns
    BY <1>12, ServerAssumption DEF Post, TypeThr, InvConns
  <2>a. Cardinality(sids) + 1 \in 1 .. NConn
    BY <2>0, <1>b
  <2>b. sids' \subseteq 1 .. NConn
    BY <1>12, <2>a DEF Post, TypeThr
  <2>c. /\ reply'.kind \in {"login", "status"} /\ reply'.ask = "post"
        /\ reply'.sid \in 0 .. NConn /\ thr' \in {"status", "send"}
    BY <1>12, <2>0, <2>a DEF Post, Replies
  <2>1. TypeThr'
    BY <1>12, <2>b, <2>c DEF Post, TypeThr
  <2>2. TypePage'
    BY <1>12 DEF Post, Replies, TypePage
  <2>3. InvPage'
    BY <1>12 DEF Post, Replies, TypePub, TypePage, InvStatus, InvPage
  <2>4. PageAgrees'
    BY <1>12 DEF Post, Replies, TypePage, InvMain, InvStatus, InvBar, InvPage, PageAgrees
  <2>5. InvSid'
    BY <1>12 DEF Post, Replies, TypeThr, InvSid
  <2>6. InvConns'
    <3>1. Cardinality(sids \cup {Cardinality(sids) + 1}) <= Cardinality(sids) + 1
      <4>1. Cardinality(sids \cup {Cardinality(sids) + 1}) \in {Cardinality(sids), Cardinality(sids) + 1}
        BY FS_AddElement
      <4>. QED  BY <4>1
    <3>2. sids' \in {sids, sids \cup {Cardinality(sids) + 1}}
      BY <1>12 DEF Post
    <3>3. Cardinality(sids') <= Cardinality(sids) + 1
      BY <3>1, <3>2
    <3>4. Cardinality(sids) < conns /\ conns' = conns /\ thr' \notin {"accepted", "read"}
      BY <1>12 DEF Post, Replies, InvConns
    <3>. QED  BY <3>2, <3>3, <3>4, <1>b DEF InvConns, TypeThr
  <2>7. LoggedInOnce'
    BY <1>12 DEF Post, Replies, TypeThr, InvSid, LoggedInOnce
  <2>. QED  BY <2>1, <2>2, <2>3, <2>4, <2>5, <2>6, <2>7
<1>. QED
  BY <1>1, <1>2, <1>3, <1>4, <1>5, <1>6, <1>7, <1>8, <1>9, <1>10, <1>11, <1>12 DEF Server, Browser

\* A step that changes nothing keeps it.
LEMMA UnchangedIInv ==
    ASSUME IInv, UNCHANGED vars
    PROVE  IInv'
<1>. USE DEF IInv, vars, mainVars, pubVars, srvVars
<1>1. TypeMain' /\ TypePub' /\ TypeThr' /\ TypePage'
  BY DEF TypeMain, TypePub, TypeThr, TypePage
<1>2. InvMain' /\ InvStatus' /\ InvBar' /\ InvPage' /\ PageAgrees'
  BY DEF InvMain, InvStatus, InvBar, InvPage, PageAgrees
<1>3. InvSid' /\ InvConns' /\ LoggedInOnce'
  BY DEF InvSid, InvConns, LoggedInOnce
<1>. QED  BY <1>1, <1>2, <1>3

\* A step of main, of the server or of a browser keeps it.
LEMMA NextIInv ==
    ASSUME IInv, [Next]_vars
    PROVE  IInv'
<1>1. CASE Main
  <2>1. /\ TypeMain' /\ TypePub' /\ InvMain' /\ InvStatus' /\ InvBar'
        /\ InvPage' /\ PageAgrees'
    BY <1>1, MainParts
  <2>2. UNCHANGED srvVars
    BY <1>1, MainFrame
  <2>3. TypeThr' /\ TypePage' /\ InvSid' /\ InvConns' /\ LoggedInOnce'
    BY <2>2 DEF IInv, srvVars, TypeThr, TypePage, InvSid, InvConns, LoggedInOnce
  <2>. QED  BY <2>1, <2>3 DEF IInv
<1>2. CASE Server \/ Browser
  <2>1. UNCHANGED <<mainVars, pubVars, run>>
    BY <1>2, ServerFrame
  <2>2. TypeThr' /\ TypePage' /\ InvPage' /\ PageAgrees' /\ InvSid' /\ InvConns' /\ LoggedInOnce'
    BY <1>2, ServerParts
  <2>3. srv' \in {"null", "open", "closed"}
    BY <1>2, ServerSocket DEF IInv, TypeMain
  <2>4. TypeMain' /\ TypePub'
    BY <2>1, <2>3 DEF IInv, mainVars, pubVars, TypeMain, TypePub
  <2>5. InvMain' /\ InvStatus' /\ InvBar'
    BY <2>1 DEF IInv, mainVars, pubVars, InvMain, InvStatus, InvBar
  <2>. QED  BY <2>2, <2>4, <2>5 DEF IInv
<1>3. CASE UNCHANGED vars
  BY <1>3, UnchangedIInv
<1>. QED  BY <1>1, <1>2, <1>3 DEF Next

\* IInv holds in every reachable state.
LEMMA Invariance == Spec => []IInv
<1>1. Init => IInv
  BY InitIInv
<1>2. IInv /\ [Next]_vars => IInv'
  BY NextIInv
<1>. QED  BY <1>1, <1>2, PTL DEF Spec

-----------------------------------------------------------------------------
\* Every variable keeps its type: main is at a file of an NZB, a status is one
\* of its NZB's files or Done, the bar has a mark for each segment, and no
\* more sids are given than connections are made (www.cpp against main.cpp).
THEOREM TypeCorrect == Spec => []TypeOK
<1>1. IInv => TypeOK
  BY DEF IInv, TypeMain, TypePub, TypeThr, TypePage, TypeOK
<1>. QED  BY <1>1, Invariance, PTL

\* Although a page takes _mtx and _mtx_progress one after the other, with main
\* and the pool's threads publishing in between, each bar is of its row's NZB,
\* is not older than the row by more than a file, and marks as good only what
\* has been downloaded (get_status_html, get_progress_html).
THEOREM PageAgreesHolds == Spec => []PageAgrees
<1>1. IInv => PageAgrees
  BY DEF IInv
<1>. QED  BY <1>1, Invariance, PTL

\* A browser without the password never sees the status, and one that has
\* logged in is not asked again (check_sid_http, add_sid).
THEOREM LoggedInOnceHolds == Spec => []LoggedInOnce
<1>1. IInv => LoggedInOnce
  BY DEF IInv
<1>. QED  BY <1>1, Invariance, PTL

\* What is published of an NZB never goes back, from its addition to "Done":
\* a page that is made later has no row that is behind an earlier page's
\* (www::update, which main calls before each file and at the end of an NZB).
THEOREM StatusForward ==
    Spec => [][\A z \in DOMAIN status : z \in DOMAIN status' /\ status[z] <= status'[z]]_vars
<1>1. ASSUME IInv, Main
      PROVE  \A z \in DOMAIN status : z \in DOMAIN status' /\ status[z] <= status'[z]
  <2>0. /\ nzb \in Nzbs /\ NFiles[nzb] \in Nat /\ Finished(nzb) = NFiles[nzb] + 1 /\ fl \in Nat
        /\ \A z \in DOMAIN status : status[z] \in 0 .. Finished(z) /\ Finished(z) \in Nat /\ status[z] \in Int
    BY <1>1, Files DEF IInv, TypeMain, TypePub
  <2>1. CASE AddNzb
    <3>1. nzb \notin DOMAIN status
      BY <1>1, <2>1, Files DEF IInv, InvMain, AddNzb, TypeMain
    <3>2. PICK s : Update(nzb, s)
      BY <2>1 DEF AddNzb
    <3>3. /\ DOMAIN status' = DOMAIN status \cup {nzb}
          /\ \A x \in DOMAIN status \ {nzb} : status'[x] = status[x]
      BY <3>2, UpdateFacts
    <3>. QED  BY <2>0, <3>1, <3>3
  <2>2. CASE NzbDone
    <3>1. Update(nzb, Finished(nzb))
      BY <2>2 DEF NzbDone
    <3>2. /\ DOMAIN status' = DOMAIN status \cup {nzb} /\ status'[nzb] = Finished(nzb)
          /\ \A x \in DOMAIN status \ {nzb} : status'[x] = status[x]
      BY <3>1, UpdateFacts
    <3>. QED  BY <2>0, <3>2
  <2>3. CASE UpdateStatus
    <3>1. status[nzb] <= fl - 1
      BY <1>1, <2>3 DEF IInv, InvStatus, UpdateStatus, MainGoes
    <3>2. Update(nzb, fl)
      BY <2>3 DEF UpdateStatus
    <3>3. /\ DOMAIN status' = DOMAIN status \cup {nzb} /\ status'[nzb] = fl
          /\ \A x \in DOMAIN status \ {nzb} : status'[x] = status[x]
      BY <3>2, UpdateFacts
    <3>. QED  BY <2>0, <3>1, <3>3
  <2>4. CASE UNCHANGED status
    BY <2>0, <2>4
  <2>. QED
    BY <1>1, <2>1, <2>2, <2>3, <2>4
    DEF Main, NextFile, ProgressReset, ProgressSet, Fetched, Leaves, StopRun, StopClose, Join, pubVars
<1>2. ASSUME IInv, UNCHANGED status
      PROVE  \A z \in DOMAIN status : z \in DOMAIN status' /\ status[z] <= status'[z]
  BY <1>2 DEF IInv, TypePub, Finished
<1>3. ASSUME IInv, Server \/ Browser
      PROVE  UNCHANGED status
  BY <1>3, ServerFrame DEF pubVars
<1>4. IInv /\ [Next]_vars =>
        [\A z \in DOMAIN status : z \in DOMAIN status' /\ status[z] <= status'[z]]_vars
  BY <1>1, <1>2, <1>3 DEF Next, vars, pubVars
<1>. QED  BY <1>4, Invariance, PTL DEF Spec
=============================================================================
