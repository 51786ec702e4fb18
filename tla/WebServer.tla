----------------------------- MODULE WebServer -----------------------------
(***************************************************************************)
(* The report web server (www.cpp): the thread that answers browsers, one  *)
(* connection at a time, while main and the threads of the pool tell it    *)
(* what they do, and the end of the program, which has to stop that        *)
(* thread.                                                                 *)
(*                                                                         *)
(* What is published is under two mutexes, _status under _mtx, _current    *)
(* and _progress under _mtx_progress, and a page takes them one after the  *)
(* other: a copy of _status, then the bar of each row.                     *)
(***************************************************************************)
EXTENDS Integers, Sequences, FiniteSets

CONSTANTS
    NFiles,    \* the number of files of each NZB: a sequence
    NSeg,      \* the segments of a file
    Clients,   \* the browsers
    Knows,     \* those that have the password
    Pass,      \* settings::WWW_PASS is set
    NConn      \* how many connections are made

ASSUME ServerAssumption ==
    /\ NFiles \in Seq(Nat) /\ NFiles # <<>>
    /\ NSeg \in Nat \ {0} /\ NConn \in Nat
    /\ Knows \subseteq Clients /\ Pass \in BOOLEAN

Nzbs == DOMAIN NFiles          \* in the order of the map
Segs == 1 .. NSeg
Finished(z) == NFiles[z] + 1   \* the status "Done"

VARIABLES
    main, nzb, fl,          \* where main is, and at which file of which NZB
    got,                    \* history: the segments that have been downloaded
    status,                 \* _status: the file "k/N" of each NZB added
    current,                \* _current, with the file it was set for
    progress,               \* _progress
    run, srv,               \* www_srv's _run, and its _srv's socket
    thr,                    \* where the thread is
    client, reply, cookie,  \* who is served, with what; each browser's sid
    sids,                   \* _sids
    page,                   \* the page being made: its rows, and their bars
    conns

mainVars == <<main, nzb, fl, got>>
pubVars == <<status, current, progress>>
srvVars == <<thr, client, reply, cookie, sids, page, conns>>
vars == <<mainVars, pubVars, run, srv, srvVars>>

None == [nzb |-> 0, fl |-> 0]
NoReply == [kind |-> "none", ask |-> "none", sid |-> 0]
Marks == {"undef", "dl", "ok", "err"}
NoBar == [of |-> None, marks |-> <<>>]

TypeOK ==
    /\ main \in {"add", "next", "update", "reset", "fetch", "stop", "close", "join", "end"}
    /\ nzb \in Nzbs /\ fl \in Nat /\ fl <= NFiles[nzb]
    /\ got \subseteq Nzbs \X Nat \X Segs
    /\ DOMAIN status \subseteq Nzbs /\ \A z \in DOMAIN status : status[z] \in 0 .. Finished(z)
    /\ current = None \/ current.fl \in 1 .. NFiles[current.nzb]
    /\ progress = <<>> \/ progress \in [Segs -> Marks]
    /\ run \in BOOLEAN /\ srv \in {"null", "open", "closed"}
    /\ thr \in {"off", "new", "test", "accept", "accepted", "read", "status", "rows", "send", "end"}
    /\ client \in Clients \cup {"nobody"}
    /\ reply.kind \in {"none", "login", "status"} /\ reply.ask \in {"none", "get", "post"}
    /\ reply.sid \in 0 .. NConn /\ cookie \in [Clients -> 0 .. NConn]
    /\ sids \subseteq 1 .. NConn
    /\ DOMAIN page.bar \subseteq DOMAIN page.rows /\ DOMAIN page.rows \subseteq Nzbs
    /\ conns \in 0 .. NConn

\* The thread may not be there: no port, or one that cannot be bound.
Init ==
    /\ main = "add" /\ nzb = 1 /\ fl = 0 /\ got = {}
    /\ status = <<>> /\ current = None /\ progress = <<>>
    /\ run = TRUE /\ srv = "null"
    /\ thr \in {"off", "new"}
    /\ client = "nobody" /\ reply = NoReply /\ cookie = [c \in Clients |-> 0]
    /\ sids = {} /\ page = [rows |-> <<>>, bar |-> <<>>] /\ conns = 0

-----------------------------------------------------------------------------
(* What main and the threads of the pool publish.                          *)

MainGoes(from, to) == main = from /\ main' = to
Update(z, s) ==
    status' = [x \in DOMAIN status \cup {z} |-> IF x = z THEN s ELSE status[x]]

\* The first loop adds the NZBs; one without files is done already.
AddNzb ==
    /\ main = "add"
    /\ Update(nzb, IF NFiles[nzb] = 0 THEN Finished(nzb) ELSE 0)
    /\ IF nzb < Len(NFiles) THEN nzb' = nzb + 1 /\ UNCHANGED main
                            ELSE nzb' = 1 /\ main' = "next"
    /\ UNCHANGED <<fl, got, current, progress, run, srv, srvVars>>

\* Mutant: one file too many.
NextFileOneMore ==
    /\ MainGoes("next", "update")
    /\ fl <= NFiles[nzb]
    /\ fl' = fl + 1
    /\ UNCHANGED <<nzb, got, pubVars, run, srv, srvVars>>

\* The second loop: the next file of the NZB ...
NextFile ==
    /\ MainGoes("next", "update")
    /\ fl < NFiles[nzb]
    /\ fl' = fl + 1
    /\ UNCHANGED <<nzb, got, pubVars, run, srv, srvVars>>

\* ... or its end, and the next NZB, or the program's.
NzbDone ==
    /\ main = "next" /\ fl = NFiles[nzb]
    /\ Update(nzb, Finished(nzb))
    /\ IF nzb < Len(NFiles) THEN nzb' = nzb + 1 /\ fl' = 0 /\ UNCHANGED main
                            ELSE main' = "stop" /\ UNCHANGED <<nzb, fl>>
    /\ UNCHANGED <<got, current, progress, run, srv, srvVars>>

UpdateStatus ==
    /\ MainGoes("update", "reset")
    /\ Update(nzb, fl)
    /\ UNCHANGED <<nzb, fl, got, current, progress, run, srv, srvVars>>

\* Mutant: a vector that has its size already is not cleared.
ProgressResetKeeps ==
    /\ MainGoes("reset", "fetch")
    /\ current' = [nzb |-> nzb, fl |-> fl]
    /\ progress' = IF progress = <<>> THEN [j \in Segs |-> "undef"] ELSE progress
    /\ UNCHANGED <<nzb, fl, got, status, run, srv, srvVars>>

ProgressReset ==
    /\ MainGoes("reset", "fetch")
    /\ current' = [nzb |-> nzb, fl |-> fl]
    /\ progress' = [j \in Segs |-> "undef"]
    /\ UNCHANGED <<nzb, fl, got, status, run, srv, srvVars>>

\* progress_set, by a thread of the pool or by main's retries.
ProgressSet ==
    /\ main = "fetch"
    /\ \E j \in Segs :
        \/ /\ progress[j] = "undef"
           /\ progress' = [progress EXCEPT ![j] = "dl"] /\ UNCHANGED got
        \/ /\ progress[j] = "dl"
           /\ progress' = [progress EXCEPT ![j] = "err"] /\ UNCHANGED got
        \/ /\ progress[j] \in {"dl", "err"}
           /\ progress' = [progress EXCEPT ![j] = "ok"]
           /\ got' = got \cup {<<nzb, fl, j>>}
    /\ UNCHANGED <<main, nzb, fl, status, current, run, srv, srvVars>>

\* fetch_nzb_file returns, whatever it has achieved.
Fetched ==
    /\ MainGoes("fetch", "next")
    /\ UNCHANGED <<nzb, fl, got, pubVars, run, srv, srvVars>>

\* The signal ends the download of a file, and main; so does a bad setting,
\* before the first NZB.
Leaves ==
    /\ (main = "add" /\ status = <<>>) \/ main = "fetch"
    /\ main' = "stop"
    /\ UNCHANGED <<nzb, fl, got, pubVars, run, srv, srvVars>>

-----------------------------------------------------------------------------
(* ~f_status_hndl, at the program's exit.                                  *)

\* stop() ends the loop ...
StopRun ==
    /\ MainGoes("stop", "close")
    /\ run' = FALSE
    /\ UNCHANGED <<nzb, fl, got, pubVars, srv, srvVars>>

\* Mutant: stop() relies on the time-out of the listening socket.
StopCloseNothing ==
    /\ MainGoes("close", "join")
    /\ UNCHANGED <<nzb, fl, got, pubVars, run, srv, srvVars>>

\* ... and closes the listening socket, if the thread has got that far.
StopClose ==
    /\ MainGoes("close", "join")
    /\ srv' = IF srv = "open" THEN "closed" ELSE srv
    /\ UNCHANGED <<nzb, fl, got, pubVars, run, srvVars>>

\* join(), if the thread was started.
Join ==
    /\ MainGoes("join", "end")
    /\ thr \in {"off", "end"}
    /\ UNCHANGED <<nzb, fl, got, pubVars, run, srv, srvVars>>

Main ==
    \/ AddNzb \/ NextFile \/ NzbDone \/ UpdateStatus \/ ProgressReset \/ ProgressSet
    \/ Fetched \/ Leaves \/ StopRun \/ StopClose \/ Join

-----------------------------------------------------------------------------
(* www_srv::run.                                                           *)

pubRest == <<mainVars, pubVars, run>>
ThrGoes(from, to) == thr = from /\ thr' = to

\* The listening socket: _srv is assigned once it is there; a port that cannot
\* be bound ends the thread.
Listen ==
    /\ \/ ThrGoes("new", "test") /\ srv' = "open"
       \/ ThrGoes("new", "end") /\ UNCHANGED srv
    /\ UNCHANGED <<pubRest, client, reply, cookie, sids, page, conns>>

TestRun ==
    /\ thr = "test" /\ thr' = IF run THEN "accept" ELSE "end"
    /\ UNCHANGED <<pubRest, srv, client, reply, cookie, sids, page, conns>>

\* A browser connects.  Until one does Accept goes round its own loop: the
\* time-out of the socket (250 ms) is EAGAIN.
Connects ==
    /\ ThrGoes("accept", "accepted")
    /\ srv = "open" /\ conns < NConn
    /\ \E c \in Clients : client' = c
    /\ conns' = conns + 1
    /\ UNCHANGED <<pubRest, srv, reply, cookie, sids, page>>

\* The socket is not there any more.
AcceptEnds ==
    /\ ThrGoes("accept", "end")
    /\ srv = "closed"
    /\ UNCHANGED <<pubRest, srv, client, reply, cookie, sids, page, conns>>

Accepted ==
    /\ thr = "accepted" /\ thr' = IF run THEN "read" ELSE "end"
    /\ UNCHANGED <<pubRest, srv, client, reply, cookie, sids, page, conns>>

\* The request does not come, in two seconds a receive, or is not one that
\* is answered.
BadRequest ==
    /\ ThrGoes("read", "test") /\ client' = "nobody"
    /\ UNCHANGED <<pubRest, srv, reply, cookie, sids, page, conns>>

Replies(ask, kind, sid) ==
    /\ reply' = [kind |-> kind, ask |-> ask, sid |-> sid]
    /\ thr' = IF kind = "status" THEN "status" ELSE "send"

\* GET, with the cookie the browser has: the status, or the login page.
Get ==
    /\ thr = "read"
    /\ IF ~Pass \/ cookie[client] \in sids
       THEN Replies("get", "status", IF Pass THEN cookie[client] ELSE 0)
       ELSE Replies("get", "login", 0)
    /\ UNCHANGED <<pubRest, srv, client, cookie, sids, page, conns>>

\* Mutant: add_sid does not remember.
PostForgets ==
    /\ thr = "read"
    /\ \/ client \in Knows /\ Replies("post", "status", Cardinality(sids) + 1)
       \/ Replies("post", "login", 0)
    /\ UNCHANGED <<pubRest, srv, client, cookie, sids, page, conns>>

\* POST, with the password (all of it has come): add_sid, then the status; or
\* with another.
Post ==
    /\ thr = "read"
    /\ \/ /\ client \in Knows
          /\ Replies("post", "status", Cardinality(sids) + 1)
          /\ sids' = sids \cup {Cardinality(sids) + 1}
       \/ Replies("post", "login", 0) /\ UNCHANGED sids
    /\ UNCHANGED <<pubRest, srv, client, cookie, page, conns>>

\* get_status_html, under _mtx: a copy of the rows ...
CopyStatus ==
    /\ ThrGoes("status", "rows")
    /\ page' = [rows |-> status, bar |-> <<>>]
    /\ UNCHANGED <<pubRest, srv, client, reply, cookie, sids, conns>>

\* Mutant: the bar goes to any NZB that has begun.
BarOfAny(z) ==
    IF page.rows[z] > 0 THEN [of |-> current, marks |-> progress] ELSE NoBar

\* get_progress_html, under _mtx_progress: the bar, for the current NZB only.
Bar(z) == IF current.nzb = z THEN [of |-> current, marks |-> progress] ELSE NoBar

\* ... then the bar of the first row that has none ...
MakeRow ==
    /\ thr = "rows" /\ UNCHANGED thr
    /\ \E z \in DOMAIN page.rows :
        /\ DOMAIN page.bar = {x \in DOMAIN page.rows : x < z}
        /\ page' = [page EXCEPT !.bar =
                       [x \in DOMAIN page.bar \cup {z} |-> IF x = z THEN Bar(z) ELSE page.bar[x]]]
    /\ UNCHANGED <<pubRest, srv, client, reply, cookie, sids, conns>>

\* ... and the page is complete.
MadeRows ==
    /\ ThrGoes("rows", "send")
    /\ DOMAIN page.bar = DOMAIN page.rows
    /\ UNCHANGED <<pubRest, srv, client, reply, cookie, sids, page, conns>>

\* SendAll, the whole of it or not; the browser keeps the cookie it is given.
Send ==
    /\ ThrGoes("send", "test")
    /\ \/ UNCHANGED cookie
       \/ reply.sid # 0 /\ cookie' = [cookie EXCEPT ![client] = reply.sid]
    /\ client' = "nobody" /\ reply' = NoReply
    /\ page' = [rows |-> <<>>, bar |-> <<>>]
    /\ UNCHANGED <<pubRest, srv, sids, conns>>

\* What the thread does by itself, or because a time-out has passed.
Server ==
    \/ Listen \/ TestRun \/ AcceptEnds \/ Accepted \/ BadRequest
    \/ CopyStatus \/ MakeRow \/ MadeRows \/ Send

Browser == Connects \/ Get \/ Post

Ended == main = "end"

Next == Main \/ Server \/ Browser \/ (Ended /\ UNCHANGED vars)

\* main and the thread run; a browser need not connect, but takes what it is
\* sent, or goes away.
Fairness == WF_vars(Main) /\ WF_vars(Server)

Spec == Init /\ [][Next]_vars /\ Fairness
-----------------------------------------------------------------------------
\* A page is made of two mutexes' data, read at different times, but its rows
\* agree with their bars: a bar belongs to the row's NZB, is of a file not
\* older than the one before the row's "k/N", marks as good only segments of
\* that file that have been downloaded, and a row that is done keeps the bar
\* of its last file, if it has one (get_status_html against main's loop).
PageAgrees ==
    \A z \in DOMAIN page.bar :
        LET b == page.bar[z] IN
        b # NoBar =>
            /\ b.of.nzb = z
            /\ b.of.fl >= page.rows[z] - 1
            /\ \A j \in DOMAIN b.marks : b.marks[j] = "ok" => <<z, b.of.fl, j>> \in got

\* With a password, a browser that does not have it sees the login page only,
\* and one that has logged in never sees that page again unless it posts
\* another password (check_sid_http, add_sid and the two handlers).
LoggedInOnce ==
    Pass /\ thr \in {"status", "rows", "send"} =>
        /\ reply.kind = "status" => client \in Knows
        /\ reply.kind = "login" /\ reply.ask = "get" => cookie[client] = 0

\* The program ends: the thread is stopped wherever it is, before it listens,
\* while it waits in Accept or while it answers (~f_status_hndl).
ServerStops == <>Ended
=============================================================================
