----------------------------- MODULE FetchFile -----------------------------
(***************************************************************************)
(* The life of the files of one NZB: main's loop (main.cpp) over           *)
(* fetch_nzb_file (nzb.cpp), which downloads the segments of a file in the *)
(* pool of threads, downloads again in the main thread those that failed,  *)
(* puts them together in one temporary file and has it decoded.            *)
(*                                                                         *)
(* The thread pool is the one JobPool promises, the connections are those  *)
(* of ConnMgr: a step of FetchFile that uses one of them is a step of that *)
(* module.  A thread of the pool that runs a segment's job is named by the *)
(* segment; the main thread is one more caller of fetch_nzb_segment.       *)
(***************************************************************************)
EXTENDS Integers, Sequences, FiniteSets

CONSTANTS
    NSeg,      \* the segments of each file
    NExec,     \* settings::NNTP_max_conn: the threads, and the slots of ConnMgr
    Repair,    \* settings::MAX_PERC_REPAIR, in percent
    Given      \* what the program may be started with: the files of the NZB, and
               \* settings::MAX_SEG_RETRY, USE_CONN_POOL (not -r), TEMPORARY_FILES (-F)

ASSUME SizesAssumption ==
    /\ NSeg \in Nat /\ NExec \in Nat \ {0} /\ Repair \in Nat
    /\ Given \subseteq [files : Nat \ {0}, retry : Nat, pool : BOOLEAN, tmp : BOOLEAN]

Segs == 0 .. NSeg - 1
MainThr == NSeg              \* the main thread, as a caller of fetch_nzb_segment
Thr == Segs \cup {MainThr}
Big == NSeg                  \* the ".big" file; segment i's temporary file is i

VARIABLES
    status,                                          \* JobPool
    vec_conn, mtx, pc, slot, sig, dangling,          \* ConnMgr
    outcome,   \* what fetch_nzb_segment has returned to each of its callers
    is_ok,     \* job_info::is_ok of the file's segments
    data,      \* the segments whose filedata holds the article's body
    prog,      \* www's _progress: what the web page shows of each segment
    main,      \* where the main thread is
    ri, rj,    \* the segment downloaded again, and the attempts made
    result,    \* how fetch_nzb_file ends
    disk,      \* the temporary files that exist
    af,        \* auto_filer::_files
    file,      \* the number of the file being downloaded
    nzb_ok,    \* main's is_ok
    decoded,   \* history: the files yydecode has decoded
    given      \* the member of Given; it does not change

Conn == INSTANCE ConnMgr WITH MaxConn <- NExec, NoThr <- -1
Pool == INSTANCE JobPool

connVars == <<vec_conn, mtx, pc, slot, sig, dangling>>
segVars == <<is_ok, data, prog>>
fileVars == <<disk, af>>
nzbVars == <<file, nzb_ok, decoded, given>>
retryVars == <<ri, rj>>
vars == <<status, vec_conn, mtx, pc, slot, sig, dangling, outcome, is_ok, data,
          prog, main, ri, rj, result, disk, af, file, nzb_ok, decoded, given>>

\* none: not in fetch_nzb_segment, or still in it; done: the caller has used
\* the answer.
Outcome == {"none", "ok", "fail", "done"}

MainPC == {"loop", "enter", "add", "wait", "check", "reset", "results", "retry",
           "open", "concat", "decode", "join", "clean", "returned", "done", "dead", "killed"}

TypeOK ==
    /\ given \in Given
    /\ Pool!TypeOK /\ Conn!TypeOK
    /\ outcome \in [Thr -> Outcome]
    /\ is_ok \subseteq Segs /\ data \subseteq Segs
    /\ prog \in [Segs -> {"undef", "dl", "ok", "err"}]
    /\ main \in MainPC
    /\ ri \in 0 .. NSeg /\ rj \in 0 .. given.retry
    /\ result \in {"none", "ok", "false", "throw", "noopen"}
    /\ disk \subseteq Segs \cup {Big} /\ af \subseteq Segs \cup {Big}
    /\ file \in 1 .. given.files
    /\ nzb_ok \in BOOLEAN
    /\ decoded \subseteq 1 .. given.files

Init ==
    /\ given \in Given
    /\ Pool!Init /\ Conn!Init
    /\ outcome = [t \in Thr |-> "none"]
    /\ is_ok = {} /\ data = {}
    /\ prog = [j \in Segs |-> "undef"]
    /\ main = "loop"
    /\ ri = 0 /\ rj = 0
    /\ result = "none"
    /\ disk = {} /\ af = {}
    /\ file = 1 /\ nzb_ok = TRUE /\ decoded = {}

-----------------------------------------------------------------------------
(* fetch_nzb_segment, called by thread t for segment Seg(t).               *)

Seg(t) == IF t = MainThr THEN ri ELSE t
Returns(t, o) == outcome' = [outcome EXCEPT ![t] = o]

fetchRest == <<status, is_ok, prog, main, ri, rj, result, disk, af, file, nzb_ok, decoded, given>>

\* GetHandle, or with -r a connection of the segment's own.
Enters(t) ==
    IF given.pool THEN Conn!Call(t)
    ELSE Conn!Goes(t, "idle", "connect") /\ UNCHANGED <<vec_conn, mtx, slot, sig, dangling>>

Connects(t) ==
    /\ given.pool
    /\ \/ /\ Conn!Reuse(t) \/ Conn!BeginReconnect(t) \/ Conn!ReconnectOk(t)
             \/ Conn!BeginConnect(t) \/ Conn!ConnectOk(t)
          /\ UNCHANGED outcome
       \/ /\ Conn!ReconnectFail(t) \/ Conn!ConnectFail(t) \/ Conn!NoneLeft(t)
          /\ Returns(t, "fail")
    /\ UNCHANGED <<data, fetchRest>>

Greets(t) ==
    /\ given.pool
    /\ Conn!Greet(t) \/ Conn!SkipGreeting(t)
    /\ UNCHANGED <<outcome, data, fetchRest>>

\* The body is received and written: the signal was not there at the last test.
Gets(t) ==
    /\ given.pool
    /\ pc[t] = "talk" /\ ~sig /\ Conn!EndSession(t)
    /\ data' = data \cup {Seg(t)}
    /\ Returns(t, "ok")
    /\ UNCHANGED fetchRest

\* Anything else ends in an exception: a bad answer, the signal, a dropped or
\* silent connection.
Fails(t) ==
    /\ given.pool
    /\ Conn!EndSession(t) \/ Conn!Drop(t)
    /\ Returns(t, "fail")
    /\ UNCHANGED <<data, fetchRest>>

Releases(t) ==
    /\ given.pool
    /\ Conn!Release(t)
    /\ UNCHANGED <<outcome, data, fetchRest>>

\* Mutant: an exception after the greeting does not make the segment fail.
OwnConnectionSwallows(t) ==
    /\ ~given.pool
    /\ Conn!Goes(t, "connect", "idle")
    /\ \/ Returns(t, "fail") /\ UNCHANGED data
       \/ Returns(t, "ok") /\ (UNCHANGED data \/ (~sig /\ data' = data \cup {Seg(t)}))
    /\ UNCHANGED <<vec_conn, mtx, slot, sig, dangling, fetchRest>>

\* With -r the connection is local, and the QUIT that follows the body is a
\* command like the others: when it fails so does the segment, body written.
OwnConnection(t) ==
    /\ ~given.pool
    /\ Conn!Goes(t, "connect", "idle")
    /\ \/ Returns(t, "fail") /\ UNCHANGED data
       \/ /\ ~sig /\ data' = data \cup {Seg(t)}
          /\ Returns(t, "ok") \/ Returns(t, "fail")
    /\ UNCHANGED <<vec_conn, mtx, slot, sig, dangling, fetchRest>>

Fetches(t) ==
    \/ Connects(t) \/ Greets(t) \/ Gets(t) \/ Fails(t) \/ Releases(t) \/ OwnConnection(t)

Returned(t) == pc[t] = "idle" /\ outcome[t] \in {"ok", "fail"}

-----------------------------------------------------------------------------
(* A thread of the pool on job j: seg_job::run.                            *)

jobRest == <<main, ri, rj, result, disk, af, file, nzb_ok, decoded, given>>

\* get_job() in the pool.
StartJob(j) ==
    /\ Pool!Start(j)
    /\ UNCHANGED <<connVars, outcome, segVars, jobRest>>

\* progress_set(S_DL), then the call.
BeginSegment(j) ==
    /\ status[j] = "running" /\ outcome[j] = "none"
    /\ Enters(j)
    /\ prog' = [prog EXCEPT ![j] = "dl"]
    /\ UNCHANGED <<status, outcome, is_ok, data, jobRest>>

\* Mutant: the page is told before the answer is looked at.
EndSegmentShownOk(j) ==
    /\ status[j] = "running" /\ Returned(j)
    /\ is_ok' = IF outcome[j] = "ok" THEN is_ok \cup {j} ELSE is_ok \ {j}
    /\ prog' = [prog EXCEPT ![j] = "ok"]
    /\ Returns(j, "done")
    /\ UNCHANGED <<status, connVars, data, jobRest>>

EndSegment(j) ==
    /\ status[j] = "running" /\ Returned(j)
    /\ is_ok' = IF outcome[j] = "ok" THEN is_ok \cup {j} ELSE is_ok \ {j}
    /\ prog' = [prog EXCEPT ![j] = IF outcome[j] = "ok" THEN "ok" ELSE "err"]
    /\ Returns(j, "done")
    /\ UNCHANGED <<status, connVars, data, jobRest>>

\* run() has returned: the pool posts the job's semaphore.
FinishJob(j) ==
    /\ outcome[j] = "done"
    /\ Pool!Finish(j)
    /\ UNCHANGED <<connVars, outcome, segVars, jobRest>>

Worker(j) ==
    \/ StartJob(j) \/ BeginSegment(j) \/ (Fetches(j) /\ status[j] = "running")
    \/ EndSegment(j) \/ FinishJob(j)

-----------------------------------------------------------------------------
(* The main thread.                                                        *)

MainGoes(from, to) == main = from /\ main' = to

\* Mutant: progress_reset is not called.
NextFileNoReset ==
    /\ MainGoes("loop", "enter")
    /\ UNCHANGED <<status, connVars, outcome, segVars, retryVars, result, fileVars, nzbVars>>

\* www::update, www::progress_reset, and the call of fetch_nzb_file.
NextFile ==
    /\ MainGoes("loop", "enter")
    /\ prog' = [j \in Segs |-> "undef"]
    /\ UNCHANGED <<status, connVars, outcome, is_ok, data, retryVars, result, fileVars, nzbVars>>

\* fetch_nzb_file begins with test_raised(): the exception ends main.
Interrupted ==
    /\ MainGoes("enter", "dead")
    /\ sig
    /\ UNCHANGED <<status, connVars, outcome, segVars, retryVars, result, fileVars, nzbVars>>

\* A new vec_job_info, auto_filer and ThreadPool.
Enter ==
    /\ MainGoes("enter", "add")
    /\ ~sig
    /\ status' = [j \in Segs |-> "none"]
    /\ outcome' = [t \in Thr |-> "none"]
    /\ is_ok' = {} /\ data' = {}
    /\ af' = {}
    /\ result' = "none"
    /\ ri' = 0 /\ rj' = 0
    /\ UNCHANGED <<connVars, prog, disk, nzbVars>>

\* One turn of the first loop.  f_bstream opens its file for reading and
\* writing and does not create it.
AddJob ==
    /\ main = "add" /\ UNCHANGED main
    /\ \E j \in Segs :
        /\ given.tmp => j \in disk
        /\ af' = IF given.tmp THEN af \cup {j} ELSE af
        /\ Pool!Submit(j)
    /\ UNCHANGED <<connVars, outcome, segVars, retryVars, result, disk, nzbVars>>

\* A stream that does not open, or an allocation that fails, ends the function.
AddThrows ==
    /\ MainGoes("add", "join")
    /\ \E j \in Segs :
        /\ status[j] = "none"
        /\ result' = IF given.tmp /\ j \notin disk THEN "noopen" ELSE "throw"
    /\ UNCHANGED <<status, connVars, outcome, segVars, retryVars, fileVars, nzbVars>>

AllAdded ==
    /\ MainGoes("add", "wait")
    /\ \A j \in Segs : status[j] # "none"
    /\ UNCHANGED <<status, connVars, outcome, segVars, retryVars, result, fileVars, nzbVars>>

\* One turn of the second loop: the jobs are waited for in order.
Wait ==
    /\ main = "wait" /\ UNCHANGED main
    /\ \E j \in Segs :
        /\ \A k \in 0 .. j - 1 : status[k] = "taken"
        /\ Pool!Take(j)
    /\ UNCHANGED <<connVars, outcome, segVars, retryVars, result, fileVars, nzbVars>>

\* Mutant: the last job is not waited for.
AllWaitedButOne ==
    /\ MainGoes("wait", "check")
    /\ \A j \in 0 .. NSeg - 2 : status[j] = "taken"
    /\ UNCHANGED <<status, connVars, outcome, segVars, retryVars, result, fileVars, nzbVars>>

AllWaited ==
    /\ MainGoes("wait", "check")
    /\ \A j \in Segs : status[j] = "taken"
    /\ UNCHANGED <<status, connVars, outcome, segVars, retryVars, result, fileVars, nzbVars>>

\* The second test_raised().
CheckSignal ==
    /\ \/ sig /\ MainGoes("check", "join") /\ result' = "throw"
       \/ ~sig /\ MainGoes("check", "reset") /\ UNCHANGED result
    /\ UNCHANGED <<status, connVars, outcome, segVars, retryVars, fileVars, nzbVars>>

\* ConnMgr::Reset, which may refuse, and goes on all the same.
ResetPool ==
    /\ MainGoes("reset", "results")
    /\ \/ given.pool /\ Conn!Reset
       \/ given.pool /\ mtx = -1 /\ Conn!ResetRefused /\ UNCHANGED connVars
       \/ ~given.pool /\ UNCHANGED connVars
    /\ UNCHANGED <<status, outcome, segVars, retryVars, result, fileVars, nzbVars>>

Bad == Segs \ is_ok

\* All well, too many errors, or a second chance for those that failed.
Results ==
    /\ \/ Bad = {} /\ MainGoes("results", "open") /\ UNCHANGED <<ri, result>>
       \/ /\ Bad # {} /\ 100 * Cardinality(Bad) <= Repair * NSeg
          /\ MainGoes("results", "retry")
          /\ ri' = CHOOSE i \in Bad : \A k \in Bad : i <= k
          /\ UNCHANGED result
       \/ /\ 100 * Cardinality(Bad) > Repair * NSeg
          /\ MainGoes("results", "join") /\ result' = "false"
          /\ UNCHANGED ri
    /\ rj' = 0
    /\ UNCHANGED <<status, connVars, outcome, segVars, fileVars, nzbVars>>

\* Mutant: one attempt too many (j <= MAX_SEG_RETRY).
RetryCallOneMore ==
    /\ main = "retry" /\ outcome[MainThr] = "none"
    /\ rj <= given.retry
    /\ Enters(MainThr)
    /\ UNCHANGED <<status, outcome, segVars, main, retryVars, result, fileVars, nzbVars>>

\* fetch_nzb_segment, in the main thread.
RetryCall ==
    /\ main = "retry" /\ outcome[MainThr] = "none"
    /\ rj < given.retry
    /\ Enters(MainThr)
    /\ UNCHANGED <<status, outcome, segVars, main, retryVars, result, fileVars, nzbVars>>

RetryFetches == main = "retry" /\ Fetches(MainThr)

\* It succeeds: the next bad segment, if there is one.
RetryOk ==
    /\ main = "retry" /\ Returned(MainThr) /\ outcome[MainThr] = "ok"
    /\ is_ok' = is_ok \cup {ri}
    /\ prog' = [prog EXCEPT ![ri] = "ok"]
    /\ rj' = 0
    /\ LET left == Bad \ {ri} IN
       \/ left = {} /\ main' = "open" /\ UNCHANGED ri
       \/ /\ left # {} /\ UNCHANGED main
          /\ ri' = CHOOSE i \in left : \A k \in left : i <= k
    /\ Returns(MainThr, "none")
    /\ UNCHANGED <<status, connVars, data, result, fileVars, nzbVars>>

\* Mutant: the attempts are not counted.
RetryFailUncounted ==
    /\ main = "retry" /\ UNCHANGED main
    /\ Returned(MainThr) /\ outcome[MainThr] = "fail"
    /\ Returns(MainThr, "none")
    /\ UNCHANGED <<status, connVars, segVars, retryVars, result, fileVars, nzbVars>>

\* It fails: another attempt.
RetryFail ==
    /\ main = "retry" /\ UNCHANGED main
    /\ Returned(MainThr) /\ outcome[MainThr] = "fail"
    /\ rj' = rj + 1
    /\ Returns(MainThr, "none")
    /\ UNCHANGED <<status, connVars, segVars, ri, result, fileVars, nzbVars>>

\* Mutant: is_all_ok is not cleared.
RetryGiveUpAsOk ==
    /\ MainGoes("retry", "open")
    /\ rj = given.retry
    /\ UNCHANGED <<status, connVars, outcome, segVars, retryVars, result, fileVars, nzbVars>>

\* Mutant: the attempts never run out.
RetryGiveUpLate ==
    /\ MainGoes("retry", "join")
    /\ rj > given.retry
    /\ result' = "false"
    /\ UNCHANGED <<status, connVars, outcome, segVars, retryVars, fileVars, nzbVars>>

\* No attempt left: the file is given up at the first such segment.
RetryGiveUp ==
    /\ MainGoes("retry", "join")
    /\ rj = given.retry
    /\ result' = "false"
    /\ UNCHANGED <<status, connVars, outcome, segVars, retryVars, fileVars, nzbVars>>

\* Mutant: the big file is not given to the auto_filer.
OpenBigUnfiled ==
    /\ \/ MainGoes("open", "concat") /\ disk' = disk \cup {Big} /\ UNCHANGED result
       \/ MainGoes("open", "join") /\ result' = "throw" /\ UNCHANGED disk
    /\ UNCHANGED <<status, connVars, outcome, segVars, retryVars, af, nzbVars>>

\* af.add(big_file), then the file is opened, which creates it, or is not.
OpenBig ==
    /\ af' = af \cup {Big}
    /\ \/ MainGoes("open", "concat") /\ disk' = disk \cup {Big} /\ UNCHANGED result
       \/ MainGoes("open", "join") /\ result' = "throw" /\ UNCHANGED disk
    /\ UNCHANGED <<status, connVars, outcome, segVars, retryVars, nzbVars>>

\* The segments are written one after the other, or the disk is full.
Concat ==
    /\ \/ MainGoes("concat", "decode") /\ UNCHANGED result
       \/ MainGoes("concat", "join") /\ result' = "throw"
    /\ UNCHANGED <<status, connVars, outcome, segVars, retryVars, fileVars, nzbVars>>

\* yDec: yydecode's exit status is all that counts.
Decode ==
    /\ MainGoes("decode", "join")
    /\ \/ result' = "ok" /\ decoded' = decoded \cup {file}
       \/ result' = "false" /\ UNCHANGED decoded
    /\ UNCHANGED <<status, connVars, outcome, segVars, retryVars, fileVars, file, nzb_ok, given>>

\* The locals go in reverse order: ~ThreadPool joins the threads ...
JoinPool ==
    /\ MainGoes("join", "clean")
    /\ Pool!Shutdown
    /\ UNCHANGED <<connVars, outcome, segVars, retryVars, result, fileVars, nzbVars>>

\* ... and ~auto_filer removes the files it knows; an exception goes on to main.
Clean ==
    /\ main = "clean"
    /\ main' = IF result \in {"throw", "noopen"} THEN "dead" ELSE "returned"
    /\ disk' = disk \ af /\ af' = {}
    /\ UNCHANGED <<status, connVars, outcome, segVars, retryVars, result, nzbVars>>

\* Mutant: the last file decides for the NZB.
ReportLast ==
    /\ main = "returned"
    /\ nzb_ok' = (result = "ok")
    /\ \/ file < given.files /\ file' = file + 1 /\ main' = "loop"
       \/ file = given.files /\ UNCHANGED file /\ main' = "done"
    /\ UNCHANGED <<status, connVars, outcome, segVars, retryVars, result, fileVars, decoded, given>>

\* main takes the answer down and goes to the next file or reports the NZB.
Report ==
    /\ main = "returned"
    /\ nzb_ok' = (nzb_ok /\ result = "ok")
    /\ \/ file < given.files /\ file' = file + 1 /\ main' = "loop"
       \/ file = given.files /\ UNCHANGED file /\ main' = "done"
    /\ UNCHANGED <<status, connVars, outcome, segVars, retryVars, result, fileVars, decoded, given>>

Main ==
    \/ NextFile \/ Interrupted \/ Enter \/ AddJob \/ AddThrows \/ AllAdded \/ Wait
    \/ AllWaited \/ CheckSignal \/ ResetPool \/ Results \/ RetryCall \/ RetryFetches
    \/ RetryOk \/ RetryFail \/ RetryGiveUp \/ OpenBig \/ Concat \/ Decode
    \/ JoinPool \/ Clean \/ Report

-----------------------------------------------------------------------------
Ended == main \in {"done", "dead", "killed"}

\* stop_sig: the first INT or TERM.
Signal ==
    /\ Conn!Signal
    /\ UNCHANGED <<status, outcome, segVars, main, retryVars, result, fileVars, nzbVars>>

\* The handler has put the default action back: the second one kills.
Kill ==
    /\ sig
    /\ main' = "killed"
    /\ UNCHANGED <<status, connVars, outcome, segVars, retryVars, result, fileVars, nzbVars>>

Terminated == Ended /\ UNCHANGED vars

Next ==
    \/ ~Ended /\ (Main \/ (\E j \in Segs : Worker(j)) \/ Signal \/ Kill)
    \/ Terminated

\* Every thread runs; connections and receives end, by their time-outs.
Fairness ==
    /\ WF_vars(~Ended /\ Main)
    /\ \A j \in Segs : WF_vars(~Ended /\ Worker(j))

Spec == Init /\ [][Next]_vars /\ Fairness

-----------------------------------------------------------------------------
\* yydecode is only run on a file made of the body of every segment, when no
\* thread of the pool can still write one (fetch_nzb_file's two result loops).
DecodesWhole ==
    main = "decode" => data = Segs /\ is_ok = Segs /\ Pool!Running = {}

\* Whatever ends a file, an error, an exception or the signal, no temporary
\* file is left when fetch_nzb_file is over (auto_filer's comment, nzb.cpp:536).
TmpRemoved == main \in {"loop", "returned", "done", "dead"} => disk = {}

\* When main resets the pool of connections, or downloads again by itself, no
\* thread of the pool of threads has a handle or waits for one.
ResetQuiescent ==
    main \in {"reset", "results", "retry", "open"} =>
        \A t \in Segs : pc[t] = "idle"

\* What the user is told is true, from one file to the next: the web page shows
\* a segment as downloaded only when the body is there, and as being downloaded
\* only while its job runs (seg_job::run, progress_reset); "NZB completed, all
\* ok" is said only when every file was decoded (main's is_ok).
ReportsHonest ==
    /\ \A j \in Segs :
        /\ prog[j] = "ok" => j \in data
        /\ prog[j] = "dl" => status[j] = "running"
    /\ main = "done" /\ nzb_ok => decoded = 1 .. given.files

\* GetHandle only answers "No connections available" when a failed reconnection
\* has kept a slot: there are as many slots as threads.
EnoughConnections ==
    \A t \in Thr :
        pc[t] = "get" /\ mtx = -1 /\ Conn!NoneFree /\ Len(vec_conn) = NExec =>
            \E i \in DOMAIN vec_conn :
                vec_conn[i].in_use /\ \A u \in Thr : slot[u] # i

\* The program always ends: every wait of fetch_nzb_file is answered, however
\* the connections, the signal and the errors fall.
Terminates == <>Ended
=============================================================================
