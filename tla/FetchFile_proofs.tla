------------------------- MODULE FetchFile_proofs --------------------------
(***************************************************************************)
(* What FetchFile keeps for every number of segments, threads, files and   *)
(* attempts, with and without the pool of connections.                     *)
(*                                                                         *)
(* The inductive invariant follows a segment from its job's submission to  *)
(* the answer main takes: only a running job is inside fetch_nzb_segment,  *)
(* its result is written before its semaphore is posted, and a segment that*)
(* counts as good has its body.  The rest says where the main thread may be*)
(* with jobs still queued or running, which temporary files it still owns, *)
(* and what the flag of the NZB stands for.  The connections are those of  *)
(* ConnMgr, whose own invariant is used as ConnMgr_proofs proves it.       *)
(***************************************************************************)
EXTENDS FetchFile, TLAPS, FiniteSetTheorems

CP == INSTANCE ConnMgr_proofs WITH MaxConn <- NExec, NoThr <- -1

\* With -r nothing of the pool of connections is used.
InvConn ==
    IF given.pool
    THEN CP!IInv
    ELSE /\ vec_conn = <<>> /\ mtx = -1 /\ dangling = {} /\ sig \in BOOLEAN
         /\ slot = [t \in Thr |-> 0]
         /\ pc \in [Thr -> {"idle", "connect"}]

InvSeg ==
    \A j \in Segs :
        /\ status[j] \in {"none", "queued", "dropped"} => outcome[j] = "none"
        /\ status[j] \in {"done", "taken"} => outcome[j] = "done"
        /\ outcome[j] = "done" => prog[j] # "dl" /\ pc[j] = "idle"
        /\ outcome[j] = "ok" => j \in data
        /\ pc[j] # "idle" => status[j] = "running"
        /\ prog[j] = "dl" => status[j] = "running"
        /\ prog[j] = "ok" => j \in data
        /\ j \in is_ok => j \in data

AllTaken == \A j \in Segs : status[j] = "taken"

\* The main thread, inside fetch_nzb_segment or with its answer.
InvRetry ==
    /\ pc[MainThr] # "idle" \/ outcome[MainThr] # "none" =>
        /\ main \in {"retry", "killed"} /\ AllTaken
        /\ main = "retry" => rj < given.retry
    /\ outcome[MainThr] # "done"
    /\ outcome[MainThr] = "ok" => ri \in data
    /\ main = "retry" => ri \in Segs

InvMain ==
    /\ main \in {"check", "reset", "results", "retry", "open", "concat", "decode"} => AllTaken
    /\ main \in {"loop", "enter", "clean", "returned", "done", "dead"} =>
        \A j \in Segs : status[j] \notin {"queued", "running"}
    /\ main = "enter" => prog = [j \in Segs |-> "undef"]
    /\ main \in {"open", "concat", "decode"} => is_ok = Segs

InvDisk ==
    /\ main \in {"loop", "enter", "returned", "done", "dead"} => disk = {}
    /\ main \notin {"loop", "enter", "returned", "done", "dead", "killed"} => disk \subseteq af

InvReport ==
    /\ nzb_ok => 1 .. file - 1 \subseteq decoded
    /\ main \notin {"loop", "enter", "dead", "killed"} /\ result = "ok" => file \in decoded
    /\ main = "done" => file = given.files /\ (nzb_ok => file \in decoded)

InvCount == Cardinality(Pool!Running) <= NExec

IInv ==
    /\ TypeOK /\ InvConn /\ InvSeg /\ InvRetry /\ InvMain
    /\ InvDisk /\ InvReport /\ InvCount
-----------------------------------------------------------------------------
(* Constants, and the counting of segments.                                *)

\* The constants are what their assumption says they are.
LEMMA Sizes ==
    /\ NSeg \in Nat /\ NExec \in Nat \ {0} /\ -1 \notin Thr
    /\ MainThr \notin Segs /\ MainThr \in Thr /\ Segs \subseteq Thr
    /\ \A j \in Segs : j \in Nat
BY SizesAssumption DEF Thr, Segs, MainThr

\* What the command line gives.
LEMMA GivenType ==
    ASSUME given \in Given
    PROVE  given.files \in Nat \ {0} /\ given.retry \in Nat /\ given.pool \in BOOLEAN
BY SizesAssumption

\* The segments of a set, whatever jobs they are, can be counted.
LEMMA CountSegs ==
    ASSUME NEW S \in SUBSET Segs
    PROVE  IsFiniteSet(S) /\ Cardinality(S) \in Nat
<1>1. IsFiniteSet(Segs)
  BY Sizes, FS_Interval DEF Segs
<1>2. IsFiniteSet(S)
  BY <1>1, FS_Subset
<1>. QED  BY <1>2, FS_CardinalityType

\* The search for the next bad segment finds one, the first: among the initial
\* pieces of the set there is a smallest.
LEMMA FirstExists ==
    ASSUME NEW S \in SUBSET Segs, S # {}
    PROVE  (CHOOSE i \in S : \A k \in S : i <= k) \in S
<1>. DEFINE Upto(n) == {k \in S : k <= n}
            T == {Upto(n) : n \in S}
            R == StrictSubsetOrdering(S)
<1>1. IsFiniteSet(S)
  BY CountSegs
<1>2. T \subseteq FiniteSubsetsOf(S) /\ T # {}
  <2>1. FiniteSubsetsOf(S) = SUBSET S
    BY <1>1, FS_FiniteSubsetsOfFinite
  <2>2. T \subseteq SUBSET S
    OBVIOUS
  <2>3. T # {}
    OBVIOUS
  <2>. QED  BY <2>1, <2>2, <2>3
<1>3. PICK X \in T : \A Y \in T : <<Y, X>> \notin R
  BY <1>2, FS_StrictSubsetOrderingWellFounded, WFMin
<1>4. PICK n \in S : X = Upto(n)
  OBVIOUS
<1>5. \A k \in S : n <= k
  <2>. SUFFICES ASSUME NEW k \in S, k < n PROVE FALSE
    BY Sizes
  <2>1. Upto(k) \subseteq Upto(n) /\ n \in Upto(n) /\ n \notin Upto(k)
    BY Sizes
  <2>2. <<Upto(k), X>> \in R
    BY <1>4, <2>1 DEF StrictSubsetOrdering
  <2>. QED  BY <1>3, <2>2
<1>. QED  BY <1>5

-----------------------------------------------------------------------------
(* The connections: a step of FetchFile is a step of ConnMgr, or none.     *)

\* A thread that enters fetch_nzb_segment takes a step of ConnMgr.
LEMMA EntersConn ==
    ASSUME given.pool, NEW t \in Thr, Enters(t)
    PROVE  CP!Next
BY DEF Enters, Conn!Call, Conn!Goes, CP!Next, CP!Call, CP!Goes

\* So does a thread that is inside it.
LEMMA FetchesConn ==
    ASSUME given.pool, NEW t \in Thr, Fetches(t)
    PROVE  CP!Next
<1>1. CASE Connects(t)
  <2>1. CP!GetHandle(t)
    BY <1>1 DEF Connects, CP!GetHandle,
       Conn!Reuse, Conn!BeginReconnect, Conn!ReconnectOk, Conn!BeginConnect, Conn!ConnectOk,
       Conn!ReconnectFail, Conn!ConnectFail, Conn!NoneLeft,
       CP!Reuse, CP!BeginReconnect, CP!ReconnectOk, CP!BeginConnect, CP!ConnectOk,
       CP!ReconnectFail, CP!ConnectFail, CP!NoneLeft,
       Conn!Goes, CP!Goes, Conn!Slots, CP!Slots, Conn!FirstFree, CP!FirstFree,
       Conn!Free, CP!Free, Conn!NoneFree, CP!NoneFree, Conn!NoSlot, CP!NoSlot,
       Conn!Holders, CP!Holders
  <2>. QED  BY <2>1 DEF CP!Next
<1>2. CASE ~Connects(t)
  <2>1. CP!Session(t)
    BY <1>2 DEF Fetches, Greets, Gets, Fails, Releases, OwnConnection, CP!Session,
       Conn!Greet, Conn!SkipGreeting, Conn!EndSession, Conn!Drop, Conn!Release,
       CP!Greet, CP!SkipGreeting, CP!EndSession, CP!Drop, CP!Release,
       Conn!Goes, CP!Goes, Conn!ReadsGreeting, CP!ReadsGreeting, Conn!Mine, CP!Mine,
       Conn!NoSlot, CP!NoSlot
  <2>. QED  BY <2>1 DEF CP!Next
<1>. QED  BY <1>1, <1>2

\* Without -r every step of FetchFile is a step of ConnMgr or leaves it alone.
LEMMA ConnSteps ==
    ASSUME given.pool, [Next]_vars
    PROVE  [CP!Next]_(CP!vars)
<1>. USE DEF connVars, CP!vars
<1>1. CASE UNCHANGED vars
  BY <1>1 DEF vars
<1>2. CASE Main
  <2>1. CASE RetryCall
    BY <2>1, EntersConn, Sizes DEF RetryCall
  <2>2. CASE RetryFetches
    BY <2>2, FetchesConn, Sizes DEF RetryFetches
  <2>3. CASE ResetPool
    <3>1. CASE Conn!Reset
      BY <3>1 DEF Conn!Reset, Conn!ResetRefused, Conn!Slots, Conn!Holders, CP!Next, CP!Reset,
         CP!ResetRefused, CP!Slots, CP!Holders
    <3>. QED  BY <2>3, <3>1 DEF ResetPool
  <2>4. CASE ~(RetryCall \/ RetryFetches \/ ResetPool)
    BY <1>2, <2>4 DEF Main, NextFile, Interrupted, Enter, AddJob, AddThrows, AllAdded,
       Wait, AllWaited, CheckSignal, Results, RetryOk, RetryFail, RetryGiveUp, OpenBig,
       Concat, Decode, JoinPool, Clean, Report
  <2>. QED  BY <2>1, <2>2, <2>3, <2>4
<1>3. ASSUME NEW j \in Segs, Worker(j) PROVE [CP!Next]_(CP!vars)
  <2>1. CASE BeginSegment(j)
    BY <2>1, EntersConn, Sizes DEF BeginSegment
  <2>2. CASE Fetches(j)
    BY <2>2, FetchesConn, Sizes
  <2>3. CASE StartJob(j) \/ EndSegment(j) \/ FinishJob(j)
    BY <2>3 DEF StartJob, EndSegment, FinishJob
  <2>. QED  BY <1>3, <2>1, <2>2, <2>3 DEF Worker
<1>4. CASE Signal
  BY <1>4 DEF Signal, Conn!Signal, Conn!connVars, CP!Next, CP!Signal, CP!connVars
<1>5. CASE Kill
  BY <1>5 DEF Kill
<1>. QED  BY <1>1, <1>2, <1>3, <1>4, <1>5 DEF Next, Terminated
\* The command line does not change.
LEMMA GivenStays == [Next]_vars => given' = given
BY DEF Next, vars, Terminated, Main, NextFile, Interrupted, Enter, AddJob, AddThrows, AllAdded,
   Wait, AllWaited, CheckSignal, ResetPool, Results, RetryCall, RetryFetches, RetryOk,
   RetryFail, RetryGiveUp, OpenBig, Concat, Decode, JoinPool, Clean, Report, Signal, Kill,
   Worker, StartJob, BeginSegment, EndSegment, FinishJob, Fetches, Connects, Greets, Gets,
   Fails, Releases, OwnConnection, fetchRest, jobRest, nzbVars

\* With -r only the threads' places move, between two of them.
LEMMA NextInvConn == IInv /\ [Next]_vars => InvConn'
<1>. SUFFICES ASSUME IInv, [Next]_vars PROVE InvConn'
  OBVIOUS
<1>1. given' = given
  BY GivenStays
<1>2. CASE given.pool
  <2>1. CP!IInv
    BY <1>2 DEF IInv, InvConn
  <2>2. CP!IInv'
    BY <2>1, <1>2, ConnSteps, CP!NextIInv, Sizes
  <2>. QED  BY <1>1, <1>2, <2>2 DEF InvConn
<1>3. CASE ~given.pool
  <2>1. /\ vec_conn = <<>> /\ mtx = -1 /\ dangling = {} /\ sig \in BOOLEAN
        /\ slot = [t \in Thr |-> 0] /\ pc \in [Thr -> {"idle", "connect"}]
    BY <1>3 DEF IInv, InvConn
  <2>2. UNCHANGED <<vec_conn, mtx, dangling, slot>> /\ sig' \in BOOLEAN
    BY <1>3, <2>1 DEF Next, vars, connVars, Terminated, Main, NextFile, Interrupted, Enter,
       AddJob, AddThrows, AllAdded, Wait, AllWaited, CheckSignal, ResetPool, Results, RetryCall,
       RetryFetches, RetryOk, RetryFail, RetryGiveUp, OpenBig, Concat, Decode, JoinPool, Clean,
       Report, Signal, Kill, Worker, StartJob, BeginSegment, EndSegment, FinishJob, Fetches,
       Enters, Connects, Greets, Gets, Fails, Releases, OwnConnection, Conn!Signal, Conn!connVars
  <2>3. \/ pc' = pc
        \/ \E t \in Thr : pc' = [pc EXCEPT ![t] = "connect"] \/ pc' = [pc EXCEPT ![t] = "idle"]
    BY <1>3, Sizes DEF Next, vars, connVars, Terminated, Main, NextFile, Interrupted, Enter,
       AddJob, AddThrows, AllAdded, Wait, AllWaited, CheckSignal, ResetPool, Results, RetryCall,
       RetryFetches, RetryOk, RetryFail, RetryGiveUp, OpenBig, Concat, Decode, JoinPool, Clean,
       Report, Signal, Kill, Worker, StartJob, BeginSegment, EndSegment, FinishJob, Fetches,
       Enters, Connects, Greets, Gets, Fails, Releases, OwnConnection, Conn!Goes,
       Conn!Signal, Conn!connVars
  <2>. QED  BY <1>1, <1>3, <2>1, <2>2, <2>3 DEF InvConn
<1>4. given.pool \in BOOLEAN
  BY GivenType DEF IInv, TypeOK
<1>. QED  BY <1>2, <1>3, <1>4

\* Whatever the mode, the connections keep their types, and a caller that is
\* not in fetch_nzb_segment, or only about to ask for a handle, has no slot.
LEMMA ConnFacts ==
    ASSUME InvConn
    PROVE  /\ Conn!TypeOK
           /\ \A t \in Thr : pc[t] \in {"idle", "get"} => slot[t] = 0
<1>1. CASE given.pool
  BY <1>1 DEF InvConn, CP!IInv, CP!InvLock, CP!TypeOK, CP!Slot, CP!PC, CP!NoSlot,
     Conn!TypeOK, Conn!Slot, Conn!PC
<1>2. CASE ~given.pool
  <2>1. <<>> \in Seq(Conn!Slot) /\ Len(<<>>) <= NExec
    BY Sizes
  <2>. QED  BY <1>2, <2>1, Sizes DEF InvConn, Conn!TypeOK, Conn!PC
<1>. QED  BY <1>1, <1>2

\* What the pool of connections keeps, after the step as well.
LEMMA ConnFactsNext ==
    InvConn' => Conn!TypeOK' /\ (\A t \in Thr : pc[t] \in {"idle", "get"} => slot[t] = 0)'
<1>1. InvConn => Conn!TypeOK /\ (\A t \in Thr : pc[t] \in {"idle", "get"} => slot[t] = 0)
  BY ConnFacts
<1>. QED  BY <1>1, PTL

\* What a step inside fetch_nzb_segment may change, for its caller t alone.
LEMMA FetchEffects ==
    ASSUME TypeOK, NEW t \in Thr, Fetches(t)
    PROVE  /\ UNCHANGED fetchRest
           /\ pc[t] # "idle"
           /\ \A u \in Thr \ {t} : pc'[u] = pc[u] /\ outcome'[u] = outcome[u]
           /\ outcome' \in [Thr -> Outcome]
           /\ data \subseteq data' /\ data' \subseteq data \cup {Seg(t)}
           /\ \/ outcome'[t] \in {outcome[t], "fail"}
              \/ outcome'[t] = "ok" /\ Seg(t) \in data'
BY DEF TypeOK, Conn!TypeOK, Fetches, Connects, Greets, Gets, Fails, Releases, OwnConnection,
   Conn!Reuse, Conn!BeginReconnect, Conn!ReconnectOk, Conn!BeginConnect, Conn!ConnectOk,
   Conn!ReconnectFail, Conn!ConnectFail, Conn!NoneLeft, Conn!Greet, Conn!SkipGreeting,
   Conn!EndSession, Conn!Drop, Conn!Release, Conn!Goes, Returns, Outcome

\* A thread that enters moves its own place only.
LEMMA EntersEffects ==
    ASSUME TypeOK, NEW t \in Thr, Enters(t)
    PROVE  /\ pc[t] = "idle" /\ pc'[t] # "idle"
           /\ \A u \in Thr \ {t} : pc'[u] = pc[u]
BY DEF TypeOK, Conn!TypeOK, Enters, Conn!Call, Conn!Goes
-----------------------------------------------------------------------------
(* The inductive invariant.                                                *)

\* The first file has not been looked at.
LEMMA InitIInv == Init => IInv
<1>. SUFFICES ASSUME Init PROVE IInv
  OBVIOUS
<1>. USE Sizes DEF Init, Conn!Init, Pool!Init
<1>1. given.files \in Nat \ {0} /\ given.retry \in Nat /\ given.pool \in BOOLEAN
  BY GivenType
<1>2. InvConn
  <2>1. CP!IInv
    BY CP!InitIInv DEF CP!Init, CP!NoSlot, Conn!NoSlot
  <2>. QED  BY <1>1, <2>1 DEF InvConn, Conn!NoSlot
<1>3. TypeOK
  BY <1>1, <1>2, ConnFacts DEF TypeOK, Pool!TypeOK, Pool!Status, Outcome, MainPC
<1>4. InvSeg /\ InvRetry /\ InvMain /\ InvDisk /\ InvReport
  BY <1>1 DEF InvSeg, InvRetry, InvMain, InvDisk, InvReport, Conn!Init, Pool!Segs, Segs, Thr
<1>5. InvCount
  <2>1. Pool!Running = {}
    BY DEF Pool!Running
  <2>. QED  BY <2>1, FS_EmptySet DEF InvCount
<1>. QED  BY <1>2, <1>3, <1>4, <1>5 DEF IInv

\* A move of the pool of threads changes the status of one job.
LEMMA JobMoves ==
    ASSUME status \in [Segs -> Pool!Status], NEW j \in Segs, NEW from, NEW to \in Pool!Status,
           Pool!Move(j, from, to)
    PROVE  /\ status' \in [Segs -> Pool!Status]
           /\ status[j] = from /\ status'[j] = to
           /\ \A k \in Segs \ {j} : status'[k] = status[k]
BY DEF Pool!Move

\* The states of a job are those of JobPool.
LEMMA StatusTypes ==
    {"none", "queued", "running", "done", "taken", "dropped"} = Pool!Status /\ Pool!Segs = Segs
BY DEF Pool!Status, Pool!Segs, Segs

\* One step per action.  What is inside fetch_nzb_segment is known by its
\* effects, the connections and the number of running jobs are apart.
LEMMA NextParts ==
    ASSUME IInv, [Next]_vars
    PROVE  TypeOK' /\ InvSeg' /\ InvRetry' /\ InvMain' /\ InvDisk' /\ InvReport'
<1>. DEFINE Parts == TypeOK /\ InvSeg /\ InvRetry /\ InvMain /\ InvDisk /\ InvReport
<1>1. given' = given /\ Conn!TypeOK'
  BY GivenStays, NextInvConn, ConnFactsNext
<1>2. given.files \in Nat \ {0} /\ given.retry \in Nat
  BY GivenType DEF IInv, TypeOK
<1>. USE <1>1, <1>2, Sizes, StatusTypes
     DEF IInv, MainGoes, Returns, Returned, AllTaken, MainPC, Outcome,
         connVars, segVars, fileVars, nzbVars, retryVars, fetchRest, jobRest,
         Pool!TypeOK
<1>3. CASE NextFile
  BY <1>3 DEF NextFile, TypeOK, InvSeg, InvRetry, InvMain, InvDisk, InvReport
<1>4. CASE Interrupted
  BY <1>4 DEF Interrupted, TypeOK, InvSeg, InvRetry, InvMain, InvDisk, InvReport
<1>5. CASE Enter
  BY <1>5 DEF Enter, TypeOK, InvSeg, InvRetry, InvMain, InvDisk, InvReport
<1>6. CASE AddJob
  <2>0. PICK j \in Segs :
          /\ status' \in [Segs -> Pool!Status]
          /\ status[j] = "none" /\ status'[j] = "queued"
          /\ \A k \in Segs \ {j} : status'[k] = status[k]
          /\ af' = (IF given.tmp THEN af \cup {j} ELSE af)
    BY <1>6, JobMoves DEF AddJob, Pool!Submit, TypeOK
  <2>00. /\ main = "add" /\ UNCHANGED main
         /\ UNCHANGED <<connVars, outcome, segVars, retryVars, result, disk, nzbVars>>
    BY <1>6 DEF AddJob
  <2>1. TypeOK'
    BY <2>0, <2>00 DEF TypeOK, TypeOK
  <2>2. InvSeg'
    BY <2>0, <2>00 DEF TypeOK, InvSeg
  <2>3. InvRetry'
    BY <2>0, <2>00 DEF TypeOK, InvRetry
  <2>4. InvMain'
    BY <2>0, <2>00 DEF TypeOK, InvMain
  <2>5. InvDisk'
    BY <2>0, <2>00 DEF TypeOK, InvDisk
  <2>6. InvReport'
    BY <2>0, <2>00 DEF TypeOK, InvReport
  <2>. QED  BY <2>1, <2>2, <2>3, <2>4, <2>5, <2>6
<1>7. CASE AddThrows
  BY <1>7 DEF AddThrows, TypeOK, InvSeg, InvRetry, InvMain, InvDisk, InvReport
<1>8. CASE AllAdded
  BY <1>8 DEF AllAdded, TypeOK, InvSeg, InvRetry, InvMain, InvDisk, InvReport
<1>9. CASE Wait
  <2>0. PICK j \in Segs :
          /\ status' \in [Segs -> Pool!Status]
          /\ status[j] = "done" /\ status'[j] = "taken"
          /\ \A k \in Segs \ {j} : status'[k] = status[k]
    BY <1>9, JobMoves DEF Wait, Pool!Take, TypeOK
  <2>00. /\ main = "wait" /\ UNCHANGED main
         /\ UNCHANGED <<connVars, outcome, segVars, retryVars, result, fileVars, nzbVars>>
    BY <1>9 DEF Wait
  <2>1. TypeOK'
    BY <2>0, <2>00 DEF TypeOK, TypeOK
  <2>2. InvSeg'
    BY <2>0, <2>00 DEF TypeOK, InvSeg
  <2>3. InvRetry'
    BY <2>0, <2>00 DEF TypeOK, InvRetry
  <2>4. InvMain'
    BY <2>0, <2>00 DEF TypeOK, InvMain
  <2>5. InvDisk'
    BY <2>0, <2>00 DEF TypeOK, InvDisk
  <2>6. InvReport'
    BY <2>0, <2>00 DEF TypeOK, InvReport
  <2>. QED  BY <2>1, <2>2, <2>3, <2>4, <2>5, <2>6
<1>10. CASE AllWaited
  BY <1>10 DEF AllWaited, TypeOK, InvSeg, InvRetry, InvMain, InvDisk, InvReport
<1>11. CASE CheckSignal
  BY <1>11 DEF CheckSignal, TypeOK, InvSeg, InvRetry, InvMain, InvDisk, InvReport
<1>12. CASE ResetPool
  <2>0. /\ main = "reset" /\ main' = "results" /\ UNCHANGED pc
        /\ UNCHANGED <<status, outcome, segVars, retryVars, result, fileVars, nzbVars>>
    BY <1>12 DEF ResetPool, Conn!Reset
  <2>1. TypeOK'
    BY <2>0 DEF TypeOK, TypeOK
  <2>2. InvSeg'
    BY <2>0 DEF TypeOK, InvSeg
  <2>3. InvRetry'
    BY <2>0 DEF TypeOK, InvRetry
  <2>4. InvMain'
    BY <2>0 DEF TypeOK, InvMain
  <2>5. InvDisk'
    BY <2>0 DEF TypeOK, InvDisk
  <2>6. InvReport'
    BY <2>0 DEF TypeOK, InvReport
  <2>. QED  BY <2>1, <2>2, <2>3, <2>4, <2>5, <2>6
<1>13. CASE Results
  <2>0. /\ main = "results" /\ main' \in {"open", "retry", "join"} /\ rj' = 0
        /\ ri' \in 0 .. NSeg /\ (main' = "retry" => ri' \in Segs)
        /\ result' \in {result, "false"}
        /\ main' = "open" => is_ok = Segs
        /\ UNCHANGED <<status, connVars, outcome, segVars, fileVars, nzbVars>>
    <3>1. Bad \in SUBSET Segs /\ (Bad = {} => is_ok = Segs)
      BY DEF Bad, TypeOK
    <3>2. Bad # {} => (CHOOSE i \in Bad : \A k \in Bad : i <= k) \in Segs
      BY <3>1, FirstExists
    <3>3. \A i \in Segs : i \in 0 .. NSeg
      BY DEF Segs
    <3>. QED  BY <1>13, <3>1, <3>2, <3>3 DEF Results, TypeOK
  <2>1. TypeOK'
    BY <2>0 DEF TypeOK, TypeOK
  <2>2. InvSeg'
    BY <2>0 DEF TypeOK, InvSeg
  <2>3. InvRetry'
    BY <2>0 DEF TypeOK, InvRetry
  <2>4. InvMain'
    BY <2>0 DEF TypeOK, InvMain
  <2>5. InvDisk'
    BY <2>0 DEF TypeOK, InvDisk
  <2>6. InvReport'
    BY <2>0 DEF TypeOK, InvReport
  <2>. QED  BY <2>1, <2>2, <2>3, <2>4, <2>5, <2>6
<1>14. CASE RetryCall
  <2>0. /\ main = "retry" /\ UNCHANGED main /\ rj < given.retry
        /\ \A u \in Segs : pc'[u] = pc[u]
        /\ UNCHANGED <<status, outcome, segVars, retryVars, result, fileVars, nzbVars>>
    BY <1>14, EntersEffects DEF RetryCall
  <2>1. TypeOK'
    BY <2>0 DEF TypeOK, TypeOK
  <2>2. InvSeg'
    BY <2>0 DEF TypeOK, InvSeg
  <2>3. InvRetry'
    BY <2>0 DEF TypeOK, TypeOK, InvRetry, InvMain
  <2>4. InvMain'
    BY <2>0 DEF TypeOK, InvMain
  <2>5. InvDisk'
    BY <2>0 DEF TypeOK, InvDisk
  <2>6. InvReport'
    BY <2>0 DEF TypeOK, InvReport
  <2>. QED  BY <2>1, <2>2, <2>3, <2>4, <2>5, <2>6
<1>15. CASE RetryFetches
  <2>0. /\ main = "retry" /\ pc[MainThr] # "idle" /\ UNCHANGED fetchRest
        /\ \A u \in Segs : pc'[u] = pc[u] /\ outcome'[u] = outcome[u]
        /\ outcome' \in [Thr -> Outcome]
        /\ data \subseteq data' /\ data' \subseteq data \cup {ri}
        /\ \/ outcome'[MainThr] \in {outcome[MainThr], "fail"}
           \/ outcome'[MainThr] = "ok" /\ ri \in data'
    BY <1>15, FetchEffects DEF RetryFetches, Seg
  <2>1. TypeOK'
    BY <2>0 DEF TypeOK, TypeOK, InvRetry
  <2>2. InvSeg'
    BY <2>0 DEF TypeOK, InvSeg
  <2>3. InvRetry'
    BY <2>0 DEF TypeOK, InvRetry
  <2>4. InvMain'
    BY <2>0 DEF TypeOK, InvMain
  <2>5. InvDisk'
    BY <2>0 DEF TypeOK, InvDisk
  <2>6. InvReport'
    BY <2>0 DEF TypeOK, InvReport
  <2>. QED  BY <2>1, <2>2, <2>3, <2>4, <2>5, <2>6
<1>16. CASE RetryOk
  <2>0. /\ main = "retry" /\ main' \in {"retry", "open"} /\ rj' = 0
        /\ ri' \in Segs /\ ri' \in 0 .. NSeg
        /\ is_ok' = is_ok \cup {ri} /\ prog' = [prog EXCEPT ![ri] = "ok"]
        /\ main' = "open" => is_ok' = Segs
        /\ outcome[MainThr] = "ok" /\ outcome' = [outcome EXCEPT ![MainThr] = "none"]
        /\ pc[MainThr] = "idle"
        /\ UNCHANGED <<status, connVars, data, result, fileVars, nzbVars>>
    <3>. DEFINE left == Bad \ {ri}
    <3>1. /\ left \in SUBSET Segs /\ ri \in Segs
          /\ left = {} => is_ok \cup {ri} = Segs
      BY <1>16 DEF RetryOk, Bad, TypeOK, InvRetry
    <3>2. left # {} => (CHOOSE i \in left : \A k \in left : i <= k) \in Segs
      BY <3>1, FirstExists
    <3>3. \A i \in Segs : i \in 0 .. NSeg
      BY DEF Segs
    <3>. QED  BY <1>16, <3>1, <3>2, <3>3 DEF RetryOk, TypeOK
  <2>1. TypeOK'
    BY <2>0 DEF TypeOK, TypeOK, InvRetry
  <2>2. InvSeg'
    BY <2>0 DEF TypeOK, TypeOK, InvSeg, InvRetry
  <2>3. InvRetry'
    BY <2>0 DEF TypeOK, InvRetry
  <2>4. InvMain'
    BY <2>0 DEF TypeOK, InvMain
  <2>5. InvDisk'
    BY <2>0 DEF TypeOK, InvDisk
  <2>6. InvReport'
    BY <2>0 DEF TypeOK, InvReport
  <2>. QED  BY <2>1, <2>2, <2>3, <2>4, <2>5, <2>6
<1>17. CASE RetryFail
  BY <1>17 DEF RetryFail, TypeOK, InvSeg, InvRetry, InvMain, InvDisk, InvReport
<1>18. CASE RetryGiveUp
  BY <1>18 DEF RetryGiveUp, TypeOK, InvSeg, InvRetry, InvMain, InvDisk, InvReport
<1>19. CASE OpenBig
  BY <1>19 DEF OpenBig, TypeOK, InvSeg, InvRetry, InvMain, InvDisk, InvReport
<1>20. CASE Concat
  BY <1>20 DEF Concat, TypeOK, InvSeg, InvRetry, InvMain, InvDisk, InvReport
<1>21. CASE Decode
  <2>1. TypeOK'
    BY <1>21 DEF Decode, TypeOK
  <2>2. InvSeg'
    BY <1>21 DEF Decode, InvSeg
  <2>3. InvRetry'
    BY <1>21 DEF Decode, InvRetry
  <2>4. InvMain'
    BY <1>21 DEF Decode, InvMain
  <2>5. InvDisk'
    BY <1>21 DEF Decode, InvDisk
  <2>6. InvReport'
    BY <1>21 DEF Decode, InvReport
  <2>. QED  BY <2>1, <2>2, <2>3, <2>4, <2>5, <2>6
<1>22. CASE JoinPool
  <2>0. /\ status' \in [Segs -> Pool!Status]
        /\ \A k \in Segs : /\ status[k] # "running"
                           /\ status'[k] = IF status[k] = "queued" THEN "dropped" ELSE status[k]
    BY <1>22 DEF JoinPool, Pool!Shutdown, Pool!Running, TypeOK
  <2>00. /\ main = "join" /\ main' = "clean"
         /\ UNCHANGED <<connVars, outcome, segVars, retryVars, result, fileVars, nzbVars>>
    BY <1>22 DEF JoinPool
  <2>1. TypeOK'
    BY <2>0, <2>00 DEF TypeOK, TypeOK
  <2>2. InvSeg'
    BY <2>0, <2>00 DEF TypeOK, InvSeg
  <2>3. InvRetry'
    BY <2>0, <2>00 DEF TypeOK, InvRetry
  <2>4. InvMain'
    BY <2>0, <2>00 DEF TypeOK, InvMain
  <2>5. InvDisk'
    BY <2>0, <2>00 DEF TypeOK, InvDisk
  <2>6. InvReport'
    BY <2>0, <2>00 DEF TypeOK, InvReport
  <2>. QED  BY <2>1, <2>2, <2>3, <2>4, <2>5, <2>6
<1>23. CASE Clean
  BY <1>23 DEF Clean, TypeOK, InvSeg, InvRetry, InvMain, InvDisk, InvReport
<1>24. CASE Report
  <2>1. TypeOK'
    BY <1>24 DEF Report, TypeOK
  <2>2. InvSeg'
    BY <1>24 DEF Report, InvSeg
  <2>3. InvRetry'
    BY <1>24 DEF Report, InvRetry
  <2>4. InvMain'
    BY <1>24 DEF Report, InvMain
  <2>5. InvDisk'
    BY <1>24 DEF Report, InvDisk
  <2>6. InvReport'
    <3>1. nzb_ok' => nzb_ok /\ result = "ok" /\ file \in decoded
      BY <1>24 DEF Report, InvReport
    <3>2. file \in Nat \ {0} /\ UNCHANGED decoded
      BY <1>24 DEF Report, TypeOK
    <3>3. nzb_ok' => 1 .. file \subseteq decoded
      BY <3>1, <3>2 DEF InvReport
    <3>. QED  BY <1>24, <3>1, <3>2, <3>3 DEF Report, InvReport
  <2>. QED  BY <2>1, <2>2, <2>3, <2>4, <2>5, <2>6
<1>25. ASSUME NEW j \in Segs, StartJob(j) PROVE Parts'
  <2>0. /\ status' \in [Segs -> Pool!Status]
        /\ status[j] = "queued" /\ status'[j] = "running"
        /\ \A k \in Segs \ {j} : status'[k] = status[k]
    BY <1>25, JobMoves DEF StartJob, Pool!Start, TypeOK
  <2>00. UNCHANGED <<connVars, outcome, segVars, jobRest>>
    BY <1>25 DEF StartJob
  <2>1. TypeOK'
    BY <2>0, <2>00 DEF TypeOK, TypeOK
  <2>2. InvSeg'
    BY <2>0, <2>00 DEF TypeOK, InvSeg
  <2>3. InvRetry'
    BY <2>0, <2>00 DEF TypeOK, InvRetry
  <2>4. InvMain'
    BY <2>0, <2>00 DEF TypeOK, InvMain
  <2>5. InvDisk'
    BY <2>0, <2>00 DEF TypeOK, InvDisk
  <2>6. InvReport'
    BY <2>0, <2>00 DEF TypeOK, InvReport
  <2>. QED  BY <2>1, <2>2, <2>3, <2>4, <2>5, <2>6
<1>26. ASSUME NEW j \in Segs, BeginSegment(j) PROVE Parts'
  <2>0. /\ status[j] = "running" /\ outcome[j] = "none" /\ prog' = [prog EXCEPT ![j] = "dl"]
        /\ \A u \in Thr \ {j} : pc'[u] = pc[u]
        /\ UNCHANGED <<status, outcome, is_ok, data, jobRest>>
    BY <1>26, EntersEffects DEF BeginSegment
  <2>1. TypeOK'
    BY <2>0 DEF TypeOK, TypeOK
  <2>2. InvSeg'
    BY <2>0 DEF TypeOK, InvSeg
  <2>3. InvRetry'
    BY <2>0 DEF TypeOK, InvRetry
  <2>4. InvMain'
    BY <2>0 DEF TypeOK, InvMain
  <2>5. InvDisk'
    BY <2>0 DEF TypeOK, InvDisk
  <2>6. InvReport'
    BY <2>0 DEF TypeOK, InvReport
  <2>. QED  BY <2>1, <2>2, <2>3, <2>4, <2>5, <2>6
<1>27. ASSUME NEW j \in Segs, Fetches(j), status[j] = "running" PROVE Parts'
  <2>0. /\ pc[j] # "idle" /\ UNCHANGED fetchRest
        /\ \A u \in Thr \ {j} : pc'[u] = pc[u] /\ outcome'[u] = outcome[u]
        /\ outcome' \in [Thr -> Outcome]
        /\ data \subseteq data' /\ data' \subseteq data \cup {j}
        /\ \/ outcome'[j] \in {outcome[j], "fail"}
           \/ outcome'[j] = "ok" /\ j \in data'
    BY <1>27, FetchEffects DEF Seg
  <2>1. TypeOK'
    BY <1>27, <2>0 DEF TypeOK, TypeOK
  <2>2. InvSeg'
    BY <1>27, <2>0 DEF TypeOK, InvSeg
  <2>3. InvRetry'
    BY <1>27, <2>0 DEF TypeOK, InvRetry
  <2>4. InvMain'
    BY <1>27, <2>0 DEF TypeOK, InvMain
  <2>5. InvDisk'
    BY <1>27, <2>0 DEF TypeOK, InvDisk
  <2>6. InvReport'
    BY <1>27, <2>0 DEF TypeOK, InvReport
  <2>. QED  BY <2>1, <2>2, <2>3, <2>4, <2>5, <2>6
<1>28. ASSUME NEW j \in Segs, EndSegment(j) PROVE Parts'
  BY <1>28 DEF EndSegment, TypeOK, InvSeg, InvRetry, InvMain, InvDisk, InvReport
<1>29. ASSUME NEW j \in Segs, FinishJob(j) PROVE Parts'
  <2>0. /\ status' \in [Segs -> Pool!Status]
        /\ status[j] = "running" /\ status'[j] = "done"
        /\ \A k \in Segs \ {j} : status'[k] = status[k]
    BY <1>29, JobMoves DEF FinishJob, Pool!Finish, TypeOK
  <2>00. outcome[j] = "done" /\ UNCHANGED <<connVars, outcome, segVars, jobRest>>
    BY <1>29 DEF FinishJob
  <2>1. TypeOK'
    BY <2>0, <2>00 DEF TypeOK, TypeOK
  <2>2. InvSeg'
    BY <2>0, <2>00 DEF TypeOK, InvSeg
  <2>3. InvRetry'
    BY <2>0, <2>00 DEF TypeOK, InvRetry
  <2>4. InvMain'
    BY <2>0, <2>00 DEF TypeOK, InvMain
  <2>5. InvDisk'
    BY <2>0, <2>00 DEF TypeOK, InvDisk
  <2>6. InvReport'
    BY <2>0, <2>00 DEF TypeOK, InvReport
  <2>. QED  BY <2>1, <2>2, <2>3, <2>4, <2>5, <2>6
<1>30. CASE Signal
  BY <1>30 DEF Signal, Conn!Signal, Conn!connVars, TypeOK, InvSeg, InvRetry, InvMain, InvDisk, InvReport
<1>31. CASE Kill
  BY <1>31 DEF Kill, Conn!Signal, Conn!connVars, TypeOK, InvSeg, InvRetry, InvMain, InvDisk, InvReport
<1>32. CASE UNCHANGED vars
  BY <1>32 DEF vars, TypeOK, InvSeg, InvRetry, InvMain, InvDisk, InvReport
<1>. QED
  BY <1>3, <1>4, <1>5, <1>6, <1>7, <1>8, <1>9, <1>10, <1>11, <1>12, <1>13, <1>14,
     <1>15, <1>16, <1>17, <1>18, <1>19, <1>20, <1>21, <1>22, <1>23, <1>24, <1>25, <1>26,
     <1>27, <1>28, <1>29, <1>30, <1>31, <1>32
  DEF Next, Main, Worker, Terminated
\* Only a job that starts adds to those that run, and the pool of threads starts
\* one when a thread is idle.
LEMMA NextInvCount == IInv /\ [Next]_vars => InvCount'
<1>. SUFFICES ASSUME IInv, [Next]_vars PROVE InvCount'
  OBVIOUS
<1>. DEFINE R == Pool!Running
<1>0. /\ Cardinality(R) \in Nat /\ Cardinality(R) <= NExec /\ IsFiniteSet(R)
      /\ R \in SUBSET Segs
  BY CountSegs, StatusTypes DEF IInv, InvCount, Pool!Running
<1>1. ASSUME R' \subseteq R PROVE InvCount'
  BY <1>0, <1>1, FS_Subset, FS_CardinalityType, Sizes DEF InvCount
<1>2. ASSUME NEW j \in Segs, StartJob(j) PROVE InvCount'
  <2>1. Cardinality(R) < NExec
    BY <1>2 DEF StartJob, Pool!Start, Pool!Cardinality, Cardinality
  <2>2. status'[j] = "running" /\ \A k \in Segs \ {j} : status'[k] = status[k]
    BY <1>2, JobMoves, StatusTypes DEF StartJob, Pool!Start, IInv, TypeOK, Pool!TypeOK
  <2>3. R' = R \cup {j}
    <3>1. R = {k \in Segs : status[k] = "running"} /\ R' = {k \in Segs : status'[k] = "running"}
      BY StatusTypes DEF Pool!Running
    <3>. HIDE DEF R
    <3>. QED  BY <2>2, <3>1
  <2>4. Cardinality(R \cup {j}) <= Cardinality(R) + 1
    <3>1. Cardinality(R \cup {j}) = IF j \in R THEN Cardinality(R) ELSE Cardinality(R) + 1
      BY <1>0, FS_AddElement
    <3>. HIDE DEF R
    <3>. QED  BY <1>0, <3>1
  <2>5. Cardinality(R \cup {j}) \in Nat
    BY <1>0, FS_AddElement, FS_CardinalityType
  <2>. QED  BY <1>0, <2>1, <2>3, <2>4, <2>5, Sizes DEF InvCount
<1>3. CASE Enter \/ AddJob \/ Wait \/ JoinPool
  <2>1. R' \subseteq R
    BY <1>3, JobMoves, StatusTypes DEF Enter, AddJob, Wait, JoinPool, Pool!Submit, Pool!Take, Pool!Shutdown,
       Pool!Running, IInv, TypeOK, Pool!TypeOK
  <2>. QED  BY <1>1, <2>1
<1>4. ASSUME NEW j \in Segs, FinishJob(j) PROVE InvCount'
  <2>1. R' \subseteq R
    BY <1>4, JobMoves, StatusTypes DEF FinishJob, Pool!Finish, Pool!Running, IInv, TypeOK, Pool!TypeOK
  <2>. QED  BY <1>1, <2>1
<1>5. CASE UNCHANGED status
  BY <1>1, <1>5 DEF Pool!Running
<1>. QED
  BY <1>2, <1>3, <1>4, <1>5
  DEF Next, vars, Terminated, Main, NextFile, Interrupted, AddThrows, AllAdded, AllWaited,
      CheckSignal, ResetPool, Results, RetryCall, RetryFetches, RetryOk, RetryFail,
      RetryGiveUp, OpenBig, Concat, Decode, Clean, Report, Signal, Kill, Worker, BeginSegment,
      EndSegment, Fetches, Connects, Greets, Gets, Fails, Releases, OwnConnection, fetchRest

\* IInv holds in every reachable state.
LEMMA Invariance == Spec => []IInv
<1>1. IInv /\ [Next]_vars => IInv'
  <2>. SUFFICES ASSUME IInv, [Next]_vars PROVE IInv'
    OBVIOUS
  <2>. QED  BY NextParts, NextInvConn, NextInvCount DEF IInv
<1>. QED  BY <1>1, InitIInv, PTL DEF Spec

-----------------------------------------------------------------------------
(* The theorems.                                                           *)

\* Every variable keeps to its set, among them the attempts, which never pass
\* MAX_SEG_RETRY, and the number of the file.
THEOREM TypeCorrect == Spec => []TypeOK
BY Invariance, PTL DEF IInv

\* However many segments fail, are downloaded again or are interrupted, the
\* decoder is run only when fetch_nzb_file has the body of every one of them and
\* no thread of the pool still runs a job that could write one.
THEOREM DecodesWholeHolds == Spec => []DecodesWhole
<1>1. IInv => DecodesWhole
  <2>. SUFFICES ASSUME IInv, main = "decode" PROVE data = Segs /\ is_ok = Segs /\ Pool!Running = {}
    BY DEF DecodesWhole
  <2>1. AllTaken /\ is_ok = Segs
    BY DEF IInv, InvMain
  <2>2. data = Segs
    BY <2>1 DEF IInv, InvSeg, TypeOK
  <2>3. Pool!Running = {}
    BY <2>1, StatusTypes DEF Pool!Running, AllTaken
  <2>. QED  BY <2>1, <2>2, <2>3
<1>. QED  BY <1>1, Invariance, PTL

\* Whatever way fetch_nzb_file is left, ~auto_filer has removed what it wrote.
THEOREM TmpRemovedHolds == Spec => []TmpRemoved
<1>1. IInv => TmpRemoved
  BY DEF IInv, InvDisk, TmpRemoved
<1>. QED  BY <1>1, Invariance, PTL

\* ConnMgr::Reset and the second attempts happen with no thread of the pool of
\* threads inside fetch_nzb_segment.
THEOREM ResetQuiescentHolds == Spec => []ResetQuiescent
<1>1. IInv => ResetQuiescent
  BY DEF IInv, InvSeg, InvMain, AllTaken, ResetQuiescent
<1>. QED  BY <1>1, Invariance, PTL

\* The web page shows a segment as downloaded only when its body is there, and
\* as being downloaded only while its job runs; "all ok" is said of the NZB only
\* when each of its files was decoded.
THEOREM ReportsHonestHolds == Spec => []ReportsHonest
<1>1. IInv => ReportsHonest
  <2>. SUFFICES ASSUME IInv PROVE ReportsHonest
    OBVIOUS
  <2>1. file \in Nat \ {0} /\ given.files \in Nat /\ file <= given.files
    BY GivenType DEF IInv, TypeOK
  <2>2. main = "done" /\ nzb_ok => decoded = 1 .. given.files
    <3>. SUFFICES ASSUME main = "done", nzb_ok PROVE decoded = 1 .. given.files
      OBVIOUS
    <3>1. file = given.files /\ file \in decoded /\ 1 .. file - 1 \subseteq decoded
      BY DEF IInv, InvReport
    <3>2. 1 .. given.files = (1 .. file - 1) \cup {file}
      BY <2>1, <3>1
    <3>. QED  BY <3>1, <3>2 DEF IInv, TypeOK
  <2>. QED  BY <2>2 DEF IInv, InvSeg, ReportsHonest
<1>. QED  BY <1>1, Invariance, PTL

\* A thread that finds every slot in use while it holds none: the other callers
\* are fewer than the slots, so some slot is in use that none of them has.  Either
\* the main thread is the only caller, or the callers are running jobs.
THEOREM EnoughConnectionsHolds == Spec => []EnoughConnections
<1>1. IInv => EnoughConnections
  <2>. SUFFICES ASSUME IInv, NEW t \in Thr, pc[t] = "get", Conn!NoneFree, Len(vec_conn) = NExec,
                       \A i \in DOMAIN vec_conn : \E u \in Thr : slot[u] = i
                PROVE  FALSE
    BY DEF EnoughConnections, Conn!NoneFree, Conn!Slots, Conn!Free
  <2>. DEFINE S == 1 .. NExec
              User(i) == CHOOSE u \in Thr : slot[u] = i
              f == [i \in S |-> User(i)]
              W == Pool!Running \ {t}
  <2>1. DOMAIN vec_conn = S
    BY DEF IInv, TypeOK, Conn!TypeOK
  <2>2. \A i \in S : User(i) \in Thr /\ slot[User(i)] = i
    BY <2>1
  <2>3. \A u \in Thr : slot[u] \in S => pc[u] # "idle" /\ u # t
    BY ConnFacts, Sizes DEF IInv
  <2>4. CASE pc[MainThr] # "idle"
    <3>1. \A u \in Segs : pc[u] = "idle"
      BY <2>4 DEF IInv, InvRetry, AllTaken, InvSeg
    <3>2. t = MainThr
      BY <3>1, Sizes DEF Thr
    <3>3. 1 \in S
      BY Sizes
    <3>. QED  BY <2>2, <2>3, <3>1, <3>2, <3>3 DEF Thr
  <2>5. CASE pc[MainThr] = "idle"
    <3>1. \A u \in Thr : pc[u] # "idle" => u \in Pool!Running
      BY <2>5, StatusTypes DEF Thr, IInv, InvSeg, Pool!Running
    <3>2. t \in Pool!Running
      BY <3>1
    <3>3. f \in Injection(S, W)
      <4>1. \A i \in S : User(i) \in W
        BY <2>2, <2>3, <3>1
      <4>2. \A i, k \in S : User(i) = User(k) => i = k
        BY <2>2
      <4>. HIDE DEF User, W
      <4>. QED  BY <4>1, <4>2 DEF Injection, IsInjective
    <3>4. /\ IsFiniteSet(Pool!Running) /\ Cardinality(Pool!Running) \in Nat
          /\ Cardinality(Pool!Running) <= NExec
      BY CountSegs, StatusTypes DEF IInv, InvCount, Pool!Running
    <3>5. IsFiniteSet(W) /\ Cardinality(W) = Cardinality(Pool!Running) - 1
      BY <3>2, <3>4, FS_RemoveElement
    <3>6. Cardinality(S) <= Cardinality(W)
      BY <3>3, <3>5, FS_Injection
    <3>7. Cardinality(S) = NExec
      BY Sizes, FS_Interval
    <3>. QED  BY <3>4, <3>5, <3>6, <3>7, Sizes
  <2>. QED  BY <2>4, <2>5
<1>. QED  BY <1>1, Invariance, PTL

\* ConnMgr_proofs's instance of ConnMgr takes the same steps as FetchFile's.
LEMMA SameConnMgr == [CP!Next]_(CP!vars) => [Conn!Next]_(Conn!vars)
<1>. USE DEF CP!vars, Conn!vars
<1>1. CP!vars = Conn!vars
  OBVIOUS
<1>2. ASSUME NEW t \in Thr PROVE CP!Call(t) => Conn!Call(t)
  BY DEF CP!Call, Conn!Call, CP!Goes, Conn!Goes
<1>3. ASSUME NEW t \in Thr PROVE CP!GetHandle(t) => Conn!GetHandle(t)
  BY DEF CP!GetHandle, CP!Reuse, CP!BeginReconnect, CP!ReconnectOk, CP!ReconnectFail,
     CP!BeginConnect, CP!ConnectOk, CP!ConnectFail, CP!NoneLeft, CP!Goes, CP!FirstFree,
     CP!NoneFree, CP!Free, CP!Slots, CP!Holders, CP!NoSlot,
     Conn!GetHandle, Conn!Reuse, Conn!BeginReconnect, Conn!ReconnectOk, Conn!ReconnectFail,
     Conn!BeginConnect, Conn!ConnectOk, Conn!ConnectFail, Conn!NoneLeft, Conn!Goes,
     Conn!FirstFree, Conn!NoneFree, Conn!Free, Conn!Slots, Conn!Holders, Conn!NoSlot
<1>4. ASSUME NEW t \in Thr PROVE CP!Session(t) => Conn!Session(t)
  BY DEF CP!Session, CP!Greet, CP!SkipGreeting, CP!EndSession, CP!Drop, CP!Release, CP!Goes,
     CP!ReadsGreeting, CP!Mine, CP!NoSlot,
     Conn!Session, Conn!Greet, Conn!SkipGreeting, Conn!EndSession, Conn!Drop, Conn!Release,
     Conn!Goes, Conn!ReadsGreeting, Conn!Mine, Conn!NoSlot
<1>5. CP!Reset \/ CP!Signal => Conn!Reset \/ Conn!Signal
  BY DEF CP!Reset, CP!ResetRefused, CP!Slots, CP!Holders, CP!Signal, CP!connVars,
     Conn!Reset, Conn!ResetRefused, Conn!Slots, Conn!Holders, Conn!Signal, Conn!connVars
<1>. QED  BY <1>1, <1>2, <1>3, <1>4, <1>5 DEF CP!Next, Conn!Next

\* Without -r the threads and the main thread that download the files use the
\* pool of connections as ConnMgr prescribes, so that all that ConnMgr promises
\* holds of them, the exclusiveness of a handle above all; with -r they leave it
\* alone (fetch_nzb_segment's two ways to a connection).
THEOREM UsesConnMgr ==
    Spec => /\ given.pool => Conn!Spec
            /\ [](given.pool => Conn!Exclusive /\ Conn!NoDangling /\ Conn!GreetingBehind)
            /\ [](~given.pool => vec_conn = <<>> /\ \A t \in Thr : slot[t] = Conn!NoSlot)
<1>1. Init => Conn!Init
  BY DEF Init
<1>2. given.pool /\ [Next]_vars => given.pool'
  BY GivenStays
<1>3. given.pool /\ [Next]_vars => [Conn!Next]_(Conn!vars)
  BY ConnSteps, SameConnMgr
<1>4. IInv => (given.pool => Conn!Exclusive /\ Conn!NoDangling /\ Conn!GreetingBehind)
  BY DEF IInv, InvConn, CP!IInv, CP!InvOwn, CP!InvGreet, CP!Owners, CP!Holders, CP!Slots,
     CP!ToGreet, Conn!Exclusive, Conn!NoDangling, Conn!GreetingBehind, Conn!Mine,
     Conn!Holders, Conn!Slots
<1>5. IInv => (~given.pool => vec_conn = <<>> /\ \A t \in Thr : slot[t] = Conn!NoSlot)
  BY DEF IInv, InvConn, Conn!NoSlot
<1>. QED  BY <1>1, <1>2, <1>3, <1>4, <1>5, Invariance, PTL DEF Spec, Conn!Spec

\* The pool of threads that a file has had is over: it has nothing left to run.
PoolOver == \A j \in Segs : status[j] \notin {"queued", "running"}

\* One step: the pool's own, or the creation of another one for the next file.
LEMMA PoolStep ==
    ASSUME IInv, [Next]_vars
    PROVE  [Pool!Next]_status \/ (Enter /\ PoolOver /\ Pool!Init')
<1>. USE StatusTypes
<1>1. CASE Enter
  BY <1>1 DEF Enter, MainGoes, IInv, InvMain, PoolOver, Pool!Init
<1>2. CASE AddJob
  BY <1>2 DEF AddJob, Pool!Next
<1>3. CASE Wait
  BY <1>3 DEF Wait, Pool!Next
<1>4. CASE JoinPool
  BY <1>4 DEF JoinPool, Pool!Next
<1>5. ASSUME NEW j \in Segs, StartJob(j) \/ FinishJob(j) PROVE Pool!Next
  BY <1>5 DEF StartJob, FinishJob, Pool!Next
<1>6. CASE UNCHANGED status
  BY <1>6
<1>. QED
  BY <1>1, <1>2, <1>3, <1>4, <1>5, <1>6
  DEF Next, vars, Terminated, Main, NextFile, Interrupted, AddThrows, AllAdded, AllWaited,
      CheckSignal, ResetPool, Results, RetryCall, RetryFetches, RetryOk, RetryFail,
      RetryGiveUp, OpenBig, Concat, Decode, Clean, Report, Signal, Kill, Worker, BeginSegment,
      EndSegment, Fetches, Connects, Greets, Gets, Fails, Releases, OwnConnection, fetchRest

\* The pool of threads is the one JobPool promises, file after file: all that
\* fetch_nzb_file, its jobs and ~ThreadPool do with it are steps of JobPool, and
\* the next file makes a new pool only when the one before has nothing left to run.
THEOREM UsesJobPool ==
    Spec => /\ Pool!Init
            /\ [][[Pool!Next]_status \/ (Enter /\ PoolOver /\ Pool!Init')]_vars
<1>1. Init => Pool!Init
  BY DEF Init
<1>2. IInv /\ [Next]_vars => [[Pool!Next]_status \/ (Enter /\ PoolOver /\ Pool!Init')]_vars
  BY PoolStep
<1>. QED  BY <1>1, <1>2, Invariance, PTL DEF Spec
=============================================================================
