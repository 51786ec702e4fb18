------------------------- MODULE ThreadPool_proofs -------------------------
(***************************************************************************)
(* What ThreadPool keeps for every number of threads and of segments.      *)
(*                                                                         *)
(* The inductive invariant IInv says which jobs can be where.  The queue is*)
(* strictly increasing, and every job a thread holds is older than every   *)
(* listed one, so no job can be listed or held twice; a job's semaphore is *)
(* up, or has been waited for, only after its run() is over and no thread  *)
(* will touch it again; and the jobs that exist are those created and not  *)
(* yet waited for.                                                         *)
(***************************************************************************)
EXTENDS ThreadPool, TLAPS, FiniteSetTheorems

\* The jobs main has created, deleted or not.
Created == IF main \in {"add", "post"} THEN ai + 1 ELSE ai

\* The jobs whose wait() has taken their semaphore.
Waited(j) == j < wi \/ (j = wi /\ main \in {"repost", "delete"})

InvMain ==
    /\ wi <= ai
    /\ main \in {"add", "post"} => ai < NSeg
    /\ main \in {"wait", "repost", "delete"} => ai = NSeg
    /\ main \in {"repost", "delete"} => wi < NSeg
    /\ main \in {"new", "add", "post"} => wi = 0
    /\ main \in {"free", "end"} => \A w \in Execs : pc[w] = "exited"

InvAlive == main # "end" => alive = wi .. Created - 1

InvList ==
    /\ \A k \in DOMAIN list_jobs : list_jobs[k] < Added /\ list_jobs[k] \notin ran
    /\ \A k, l \in DOMAIN list_jobs : k < l => list_jobs[k] < list_jobs[l]

InvHeld ==
    \A w \in Execs : Busy(w) =>
        /\ curJob[w] \in 0 .. Added - 1
        /\ pc[w] = "run" => curJob[w] \notin ran
        /\ pc[w] = "pop" => curJob[w] \in ran
        /\ \A k \in DOMAIN list_jobs : curJob[w] < list_jobs[k]
        /\ \A v \in Execs : v # w /\ Busy(v) => curJob[v] # curJob[w]

InvRan == \A j \in ran : j < Added

InvSem ==
    \A j \in Segs : job_sem[j] > 0 \/ Waited(j) =>
        /\ j \in ran
        /\ \A w \in Execs : Busy(w) => curJob[w] # j

IInv == TypeOK /\ InvMain /\ InvAlive /\ InvList /\ InvHeld /\ InvRan /\ InvSem
-----------------------------------------------------------------------------
(* Sequences, as the queue uses them.                                      *)

\* push_back adds one last entry and keeps the others where they are.
LEMMA AppendFacts ==
    ASSUME NEW S, NEW s \in Seq(S), NEW e \in S
    PROVE  /\ Append(s, e) \in Seq(S)
           /\ DOMAIN Append(s, e) = (DOMAIN s) \cup {Len(s) + 1}
           /\ \A k \in DOMAIN s : k <= Len(s) /\ Append(s, e)[k] = s[k]
           /\ Append(s, e)[Len(s) + 1] = e
OBVIOUS

\* front is the first entry and pop_front moves the others one place down.
LEMMA HeadTailFacts ==
    ASSUME NEW S, NEW s \in Seq(S), s # <<>>
    PROVE  /\ Head(s) \in S /\ Tail(s) \in Seq(S)
           /\ 1 \in DOMAIN s /\ Head(s) = s[1]
           /\ \A k \in DOMAIN Tail(s) :
                k \in Nat /\ 1 < k + 1 /\ k + 1 \in DOMAIN s /\ Tail(s)[k] = s[k + 1]
OBVIOUS

-----------------------------------------------------------------------------
(* The inductive invariant.                                                *)

\* The number of threads is a number.
LEMMA NExecNat == NExec \in Nat
BY ExecsAssumption, FS_CardinalityType DEF NExec

\* The constructor has made the pool with an empty queue.
LEMMA InitIInv == Init => IInv
<1>. SUFFICES ASSUME Init PROVE IInv
  OBVIOUS
<1>1. TypeOK
  <2>1. list_jobs \in Seq(Segs) /\ list_sem \in Nat
    <3>1. <<>> \in Seq(Segs)
      OBVIOUS
    <3>. QED  BY <3>1 DEF Init
  <2>5. tp_quit \in BOOLEAN
    BY DEF Init
  <2>2. pc \in [Execs -> ExecPC] /\ curJob \in [Execs -> Segs \cup {NoJob}]
    BY DEF Init, ExecPC
  <2>3. job_sem \in [Segs -> Nat] /\ alive \subseteq Segs /\ ran \subseteq Segs
    BY DEF Init
  <2>4. main \in MainPC /\ ai \in 0 .. NSeg /\ wi \in 0 .. NSeg /\ qi \in 0 .. NExec
    BY NSegAssumption, NExecNat DEF Init, MainPC
  <2>. QED  BY <2>1, <2>2, <2>3, <2>4, <2>5 DEF TypeOK
<1>2. InvMain /\ InvAlive /\ InvHeld
  BY NSegAssumption DEF Init, InvMain, InvAlive, InvHeld, Busy, Created
<1>3. InvList /\ InvRan
  BY DEF Init, InvList, InvRan
<1>4. InvSem
  BY NSegAssumption DEF Init, InvSem, Segs, Waited
<1>. QED  BY <1>1, <1>2, <1>3, <1>4 DEF IInv

\* One step per action; the actions that only move a program counter or a
\* semaphore of the pool need no more than the definitions.
LEMMA NextIInv == IInv /\ [Next]_vars => IInv'
<1>. SUFFICES ASSUME IInv, [Next]_vars
              PROVE  IInv'
  OBVIOUS
<1>. USE NSegAssumption, NExecNat
     DEF IInv, MainGoes, ExecGoes, poolVars, jobVars, mainVars, MainPC, ExecPC,
         Segs, NoJob, Busy, Added, Created, Waited
<1>1. CASE NewJob
  <2>1. TypeOK'
    BY <1>1 DEF NewJob, TypeOK, InvMain
  <2>2. InvMain'
    BY <1>1 DEF NewJob, TypeOK, InvMain
  <2>3. InvAlive'
    BY <1>1 DEF NewJob, TypeOK, InvMain, InvAlive
  <2>4. InvList'
    BY <1>1 DEF NewJob, TypeOK, InvMain, InvList
  <2>5. InvHeld'
    BY <1>1 DEF NewJob, TypeOK, InvMain, InvHeld
  <2>6. InvRan'
    BY <1>1 DEF NewJob, TypeOK, InvMain, InvRan
  <2>7. InvSem'
    BY <1>1 DEF NewJob, TypeOK, InvMain, InvSem, InvRan
  <2>. QED  BY <2>1, <2>2, <2>3, <2>4, <2>5, <2>6, <2>7
<1>2. CASE NewThrows
  BY <1>2 DEF NewThrows, TypeOK, InvMain, InvAlive, InvList, InvHeld, InvRan,
     InvSem
<1>3. CASE AllAdded
  BY <1>3 DEF AllAdded, TypeOK, InvMain, InvAlive, InvList, InvHeld, InvRan,
     InvSem
<1>4. CASE AddPush
  <2>1. TypeOK'
    BY <1>4, AppendFacts DEF AddPush, TypeOK, InvMain
  <2>2. InvMain'
    BY <1>4 DEF AddPush, TypeOK, InvMain
  <2>3. InvAlive'
    BY <1>4 DEF AddPush, TypeOK, InvMain, InvAlive
  <2>4. InvList'
    <3>. DEFINE s == list_jobs
    <3>1. /\ s \in Seq(Segs) /\ ai \in Segs /\ list_jobs' = Append(s, ai)
          /\ main = "add" /\ main' = "post" /\ UNCHANGED <<ran, ai>>
      BY <1>4 DEF AddPush, TypeOK, InvMain
    <3>2. /\ DOMAIN list_jobs' = (DOMAIN s) \cup {Len(s) + 1}
          /\ \A l \in DOMAIN s : l \in Nat /\ l <= Len(s) /\ list_jobs'[l] = s[l]
          /\ list_jobs'[Len(s) + 1] = ai /\ Len(s) \in Nat
      BY <3>1, AppendFacts
    <3>3. \A l \in DOMAIN s : s[l] < ai /\ s[l] \in Int
      BY <3>1 DEF InvList
    <3>. HIDE DEF s
    <3>. QED
      BY <3>1, <3>2, <3>3 DEF InvList, InvRan, s
  <2>5. InvHeld'
    <3>1. \A l \in DOMAIN list_jobs' :
            list_jobs'[l] = ai \/ (l \in DOMAIN list_jobs /\ list_jobs'[l] = list_jobs[l])
      BY <1>4, AppendFacts DEF AddPush, TypeOK, InvMain
    <3>. QED
      BY SMTT(30), <1>4, <3>1 DEF AddPush, TypeOK, InvHeld
  <2>6. InvRan'
    BY <1>4 DEF AddPush, TypeOK, InvMain, InvRan
  <2>7. InvSem'
    BY <1>4 DEF AddPush, TypeOK, InvMain, InvSem
  <2>. QED  BY <2>1, <2>2, <2>3, <2>4, <2>5, <2>6, <2>7
<1>5. CASE AddPost
  <2>1. TypeOK'
    BY <1>5 DEF AddPost, TypeOK, InvMain
  <2>2. InvMain'
    BY <1>5 DEF AddPost, TypeOK, InvMain
  <2>3. InvAlive'
    BY <1>5 DEF AddPost, TypeOK, InvMain, InvAlive
  <2>4. InvList'
    BY <1>5 DEF AddPost, TypeOK, InvMain, InvList
  <2>5. InvHeld'
    BY <1>5 DEF AddPost, TypeOK, InvMain, InvHeld
  <2>6. InvRan'
    BY <1>5 DEF AddPost, TypeOK, InvMain, InvRan
  <2>7. InvSem'
    BY <1>5 DEF AddPost, TypeOK, InvMain, InvSem
  <2>. QED  BY <2>1, <2>2, <2>3, <2>4, <2>5, <2>6, <2>7
<1>6. CASE WaitPush
  <2>1. TypeOK'
    BY SMTT(30), <1>6 DEF WaitPush, TypeOK, InvMain
  <2>2. InvMain'
    BY <1>6 DEF WaitPush, TypeOK, InvMain
  <2>3. InvAlive'
    BY <1>6 DEF WaitPush, TypeOK, InvMain, InvAlive
  <2>4. InvList'
    BY <1>6 DEF WaitPush, TypeOK, InvMain, InvList
  <2>5. InvHeld'
    BY <1>6 DEF WaitPush, TypeOK, InvMain, InvHeld
  <2>6. InvRan'
    BY <1>6 DEF WaitPush, TypeOK, InvMain, InvRan
  <2>7. InvSem'
    BY <1>6 DEF WaitPush, TypeOK, InvMain, InvSem
  <2>. QED  BY <2>1, <2>2, <2>3, <2>4, <2>5, <2>6, <2>7
<1>7. CASE WaitPop
  <2>1. TypeOK'
    BY <1>7 DEF WaitPop, TypeOK, InvMain
  <2>2. InvMain'
    BY <1>7 DEF WaitPop, TypeOK, InvMain
  <2>3. InvAlive'
    BY <1>7 DEF WaitPop, TypeOK, InvMain, InvAlive
  <2>4. InvList'
    BY <1>7 DEF WaitPop, TypeOK, InvMain, InvList
  <2>5. InvHeld'
    BY <1>7 DEF WaitPop, TypeOK, InvMain, InvHeld
  <2>6. InvRan'
    BY <1>7 DEF WaitPop, TypeOK, InvMain, InvRan
  <2>7. InvSem'
    BY <1>7 DEF WaitPop, TypeOK, InvMain, InvSem
  <2>. QED  BY <2>1, <2>2, <2>3, <2>4, <2>5, <2>6, <2>7
<1>8. CASE DeleteJob
  <2>1. TypeOK'
    BY <1>8 DEF DeleteJob, TypeOK, InvMain
  <2>2. InvMain'
    BY <1>8 DEF DeleteJob, TypeOK, InvMain
  <2>3. InvAlive'
    BY <1>8 DEF DeleteJob, TypeOK, InvMain, InvAlive
  <2>4. InvList'
    BY <1>8 DEF DeleteJob, TypeOK, InvMain, InvList
  <2>5. InvHeld'
    BY <1>8 DEF DeleteJob, TypeOK, InvMain, InvHeld
  <2>6. InvRan'
    BY <1>8 DEF DeleteJob, TypeOK, InvMain, InvRan
  <2>7. InvSem'
    BY <1>8 DEF DeleteJob, TypeOK, InvMain, InvSem
  <2>. QED  BY <2>1, <2>2, <2>3, <2>4, <2>5, <2>6, <2>7
<1>9. CASE AllWaited
  BY <1>9 DEF AllWaited, TypeOK, InvMain, InvAlive, InvList, InvHeld, InvRan,
     InvSem
<1>10. CASE SetQuit
  BY <1>10 DEF SetQuit, TypeOK, InvMain, InvAlive, InvList, InvHeld, InvRan,
     InvSem
<1>11. CASE PostQuit
  BY <1>11 DEF PostQuit, TypeOK, InvMain, InvAlive, InvList, InvHeld, InvRan,
     InvSem
<1>12. CASE AllPosted
  BY <1>12 DEF AllPosted, TypeOK, InvMain, InvAlive, InvList, InvHeld, InvRan,
     InvSem
<1>13. CASE Join
  BY <1>13 DEF Join, TypeOK, InvMain, InvAlive, InvList, InvHeld, InvRan,
     InvSem
<1>14. CASE FreeJobs
  <2>1. TypeOK'
    BY <1>14 DEF FreeJobs, TypeOK, InvMain
  <2>2. InvMain'
    BY <1>14 DEF FreeJobs, TypeOK, InvMain
  <2>3. InvAlive'
    BY <1>14 DEF FreeJobs, TypeOK, InvMain, InvAlive
  <2>4. InvList'
    BY <1>14 DEF FreeJobs, TypeOK, InvMain, InvList
  <2>5. InvHeld'
    BY <1>14 DEF FreeJobs, TypeOK, InvMain, InvHeld
  <2>6. InvRan'
    BY <1>14 DEF FreeJobs, TypeOK, InvMain, InvRan
  <2>7. InvSem'
    BY <1>14 DEF FreeJobs, TypeOK, InvMain, InvSem
  <2>. QED  BY <2>1, <2>2, <2>3, <2>4, <2>5, <2>6, <2>7
<1>15. ASSUME NEW w \in Execs, TakeToken(w) PROVE IInv'
  <2>1. TypeOK'
    BY <1>15 DEF TakeToken, TypeOK
  <2>2. InvMain' /\ InvAlive'
    BY <1>15 DEF TakeToken, TypeOK, InvMain, InvAlive
  <2>3. InvList' /\ InvRan'
    BY <1>15 DEF TakeToken, TypeOK, InvList, InvRan
  <2>4. InvHeld'
    BY <1>15 DEF TakeToken, TypeOK, InvHeld
  <2>5. InvSem'
    BY <1>15 DEF TakeToken, TypeOK, InvSem
  <2>. QED  BY <2>1, <2>2, <2>3, <2>4, <2>5
<1>16. ASSUME NEW w \in Execs, CheckQuit(w) PROVE IInv'
  <2>1. TypeOK'
    BY <1>16 DEF CheckQuit, TypeOK
  <2>2. InvMain' /\ InvAlive'
    BY <1>16 DEF CheckQuit, TypeOK, InvMain, InvAlive
  <2>3. InvList' /\ InvRan'
    BY <1>16 DEF CheckQuit, TypeOK, InvList, InvRan
  <2>4. InvHeld'
    BY <1>16 DEF CheckQuit, TypeOK, InvHeld
  <2>5. InvSem'
    BY <1>16 DEF CheckQuit, TypeOK, InvSem
  <2>. QED  BY <2>1, <2>2, <2>3, <2>4, <2>5
<1>17. ASSUME NEW w \in Execs, GetJob(w) PROVE IInv'
  <2>1. TypeOK'
    BY <1>17, HeadTailFacts DEF GetJob, TypeOK, InvMain
  <2>2. InvMain'
    BY <1>17 DEF GetJob, TypeOK, InvMain
  <2>3. InvAlive'
    BY <1>17 DEF GetJob, TypeOK, InvMain, InvAlive
  <2>4. InvList'
    <3>1. \A l \in DOMAIN list_jobs' :
            l \in Nat /\ l + 1 \in DOMAIN list_jobs /\ list_jobs'[l] = list_jobs[l + 1]
      BY <1>17, HeadTailFacts DEF GetJob, TypeOK
    <3>2. \A l \in DOMAIN list_jobs : list_jobs[l] \in Int
      BY DEF TypeOK
    <3>3. UNCHANGED <<ran, main, ai>>
      BY <1>17 DEF GetJob
    <3>4. Added' = Added
      BY <3>3 DEF Added
    <3>. QED
      BY <3>1, <3>2, <3>3, <3>4 DEF InvList
  <2>5. InvHeld'
    <3>. DEFINE s == list_jobs
    <3>1. /\ s \in Seq(Segs) /\ s # <<>> /\ curJob' = [curJob EXCEPT ![w] = s[1]]
          /\ list_jobs' = Tail(s) /\ pc' = [pc EXCEPT ![w] = "run"]
          /\ UNCHANGED <<ran, main, ai>> /\ 1 \in DOMAIN s
      BY <1>17, HeadTailFacts DEF GetJob, TypeOK
    <3>2. \A l \in DOMAIN Tail(s) : l + 1 \in DOMAIN s /\ s[1] < s[l + 1] /\ Tail(s)[l] = s[l + 1]
      BY <3>1, HeadTailFacts DEF InvList
    <3>3. s[1] \in 0 .. Added - 1 /\ s[1] \notin ran
      BY <3>1 DEF InvList, TypeOK, Added
    <3>4. \A v \in Execs : v # w /\ Busy(v) => curJob[v] < s[1]
      BY <3>1 DEF InvHeld
    <3>. QED
      BY SMTT(30), <3>1, <3>2, <3>3, <3>4 DEF InvHeld, TypeOK
  <2>6. InvRan'
    BY <1>17 DEF GetJob, TypeOK, InvMain, InvRan
  <2>7. InvSem'
    BY SMTT(30), <1>17, HeadTailFacts DEF GetJob, TypeOK, InvMain, InvSem, InvList
  <2>. QED  BY <2>1, <2>2, <2>3, <2>4, <2>5, <2>6, <2>7
<1>18. ASSUME NEW w \in Execs, GetNothing(w) PROVE IInv'
  BY <1>18 DEF GetNothing, TypeOK, InvMain, InvAlive, InvList, InvHeld, InvRan,
     InvSem
<1>19. ASSUME NEW w \in Execs, Run(w) PROVE IInv'
  <2>1. TypeOK'
    <3>1. curJob[w] \in Segs
      BY <1>19 DEF Run, TypeOK, InvMain, InvHeld
    <3>. QED
      BY <1>19, <3>1 DEF Run, TypeOK
  <2>2. InvMain'
    BY <1>19 DEF Run, TypeOK, InvMain
  <2>3. InvAlive'
    BY <1>19 DEF Run, TypeOK, InvMain, InvAlive
  <2>4. InvList'
    BY <1>19 DEF Run, TypeOK, InvMain, InvList, InvHeld
  <2>5. InvHeld'
    BY <1>19 DEF Run, TypeOK, InvMain, InvHeld
  <2>6. InvRan'
    BY <1>19 DEF Run, TypeOK, InvMain, InvRan, InvHeld
  <2>7. InvSem'
    BY <1>19 DEF Run, TypeOK, InvMain, InvSem
  <2>. QED  BY <2>1, <2>2, <2>3, <2>4, <2>5, <2>6, <2>7
<1>20. ASSUME NEW w \in Execs, SemPop(w) PROVE IInv'
  <2>1. TypeOK'
    BY SMTT(30), <1>20 DEF SemPop, TypeOK, InvMain, InvHeld
  <2>2. InvMain'
    BY <1>20 DEF SemPop, TypeOK, InvMain
  <2>3. InvAlive'
    BY <1>20 DEF SemPop, TypeOK, InvMain, InvAlive
  <2>4. InvList'
    BY <1>20 DEF SemPop, TypeOK, InvMain, InvList
  <2>5. InvHeld'
    BY <1>20 DEF SemPop, TypeOK, InvMain, InvHeld
  <2>6. InvRan'
    BY <1>20 DEF SemPop, TypeOK, InvMain, InvRan
  <2>7. InvSem'
    BY <1>20 DEF SemPop, TypeOK, InvMain, InvSem, InvHeld
  <2>. QED  BY <2>1, <2>2, <2>3, <2>4, <2>5, <2>6, <2>7
<1>21. CASE UNCHANGED vars
  BY <1>21 DEF vars, TypeOK, InvMain, InvAlive, InvList, InvHeld, InvRan,
     InvSem
<1>. QED
  BY <1>1, <1>2, <1>3, <1>4, <1>5, <1>6, <1>7, <1>8, <1>9, <1>10, <1>11, <1>12,
     <1>13, <1>14, <1>15, <1>16, <1>17, <1>18, <1>19, <1>20, <1>21 DEF Next, Main,
     Exec, Terminated

-----------------------------------------------------------------------------
(* The properties of the runs that follow from it.                         *)

\* In every reachable state the variables have their types, whatever the
\* number of threads and of segments.
THEOREM TypeCorrect == Spec => []TypeOK
<1>. QED  BY InitIInv, NextIInv, PTL DEF Spec, IInv

\* IInv holds in every reachable state.
LEMMA Invariance == Spec => []IInv
BY InitIInv, NextIInv, PTL DEF Spec

\* No thread of the pool ever touches a job that fetch_nzb_file has deleted,
\* neither through the queue nor in run() or when it posts the job's semaphore:
\* a job that is listed or held is one that main has created and not waited for.
THEOREM NoUseAfterFreeHolds == Spec => []NoUseAfterFree
<1>1. ASSUME IInv PROVE NoUseAfterFree
  <2>. USE <1>1, NSegAssumption DEF IInv
  <2>1. ASSUME NEW w \in Execs, Busy(w) PROVE curJob[w] \in alive
    <3>1. main # "end"
      BY <2>1 DEF InvMain, Busy
    <3>2. curJob[w] \in Segs /\ curJob[w] < Created /\ ~Waited(curJob[w])
      BY <2>1 DEF TypeOK, InvMain, InvHeld, InvSem, Segs, NoJob, Added, Created
    <3>. QED  BY <3>1, <3>2 DEF InvAlive, TypeOK, Segs, Created, Waited
  <2>2. ASSUME main # "end", NEW k \in DOMAIN list_jobs PROVE list_jobs[k] \in alive
    <3>1. list_jobs[k] \in Segs
      BY <2>2 DEF TypeOK
    <3>2. list_jobs[k] < Created /\ ~Waited(list_jobs[k])
      BY <2>2, <3>1 DEF InvList, InvSem, Added, Created, TypeOK, Segs
    <3>. QED  BY <2>2, <3>1, <3>2, SMTT(30) DEF InvAlive, TypeOK, Segs, Created, Waited
  <2>. QED  BY <2>1, <2>2 DEF NoUseAfterFree
<1>. QED  BY <1>1, Invariance, PTL

\* A segment whose wait() has returned has run, and no thread still writes its
\* job_info.
THEOREM ResultsReadyHolds == Spec => []ResultsReady
<1>1. IInv => ResultsReady
  BY DEF IInv, InvSem, ResultsReady, Waited
<1>. QED  BY <1>1, Invariance, PTL

\* No thread starts the run() of a job that another one has run.
THEOREM RunOnceHolds == Spec => RunOnce
<1>1. IInv /\ [Next]_vars => [\A w \in Execs : Run(w) => curJob[w] \notin ran]_vars
  BY DEF IInv, InvHeld, Run, ExecGoes, Busy
<1>. QED  BY <1>1, Invariance, PTL DEF Spec, RunOnce

-----------------------------------------------------------------------------
(* Counting the wake-ups.                                                  *)

\* A set of threads grows and shrinks by one.
LEMMA CountThreads ==
    ASSUME NEW S \in SUBSET Execs, NEW w \in Execs
    PROVE  /\ Cardinality(S) \in 0 .. NExec
           /\ w \notin S => Cardinality(S \cup {w}) = Cardinality(S) + 1
           /\ w \in S => Cardinality(S \ {w}) = Cardinality(S) - 1
<1>1. IsFiniteSet(S) /\ Cardinality(S) <= NExec
  BY ExecsAssumption, FS_Subset DEF NExec
<1>2. Cardinality(S) \in Nat
  BY <1>1, FS_CardinalityType
<1>3. w \notin S => Cardinality(S \cup {w}) = Cardinality(S) + 1
  BY <1>1, FS_AddElement
<1>4. w \in S => Cardinality(S \ {w}) = Cardinality(S) - 1
  BY <1>1, FS_RemoveElement
<1>. QED  BY <1>1, <1>2, <1>3, <1>4, NExecNat

\* The destructor is the only place that posts without a job.
InvQuit ==
    main \notin {"signal", "join", "free", "end"} => ~tp_quit /\ qi = 0

WakeInv == InvQuit /\ NoLostWakeup /\ QuitTokensSuffice

\* The pool starts with nobody waiting and the queue free.
LEMMA InitWakeInv == Init => WakeInv
<1>. SUFFICES ASSUME Init PROVE WakeInv
  OBVIOUS
<1>1. Cardinality(InFlight) \in Nat
  <2>1. IsFiniteSet(InFlight)
    BY ExecsAssumption, FS_Subset DEF InFlight
  <2>. QED  BY <2>1, FS_CardinalityType
<1>2. Len(list_jobs) = 0 /\ list_sem = 1 /\ main = "new" /\ ~tp_quit /\ qi = 0
  BY DEF Init
<1>. QED
  BY <1>1, <1>2 DEF WakeInv, InvQuit, NoLostWakeup, QuitTokensSuffice

\* A step of main leaves the threads where they are, so it is enough to compare
\* the queue's length and the semaphore.
LEMMA MainWakeInv == IInv /\ WakeInv /\ Main => WakeInv'
<1>. SUFFICES ASSUME IInv, WakeInv, Main PROVE WakeInv'
  OBVIOUS
<1>. USE DEF IInv, WakeInv, MainGoes, poolVars, jobVars, mainVars
<1>. DEFINE F == Cardinality(InFlight)
            T == Cardinality(Waiting)
<1>1. /\ InFlight \in SUBSET Execs /\ Waiting \in SUBSET Execs
      /\ F \in 0 .. NExec /\ T \in 0 .. NExec /\ NExec \in Nat
  BY CountThreads, ExecsAssumption, NExecNat DEF InFlight, Waiting
<1>2. UNCHANGED <<InFlight, Waiting>>
  BY DEF Main, NewJob, NewThrows, AllAdded, AddPush, AddPost, WaitPush, WaitPop,
     DeleteJob, AllWaited, SetQuit, PostQuit, AllPosted, Join, FreeJobs,
     InFlight, Waiting
<1>3. UNCHANGED <<F, T>>
  BY <1>2
<1>4. Len(list_jobs) \in Nat /\ list_sem \in Nat /\ qi \in 0 .. NExec
  BY DEF TypeOK
<1>. HIDE DEF F, T
<1>5. InvQuit'
  BY DEF Main, NewJob, NewThrows, AllAdded, AddPush, AddPost, WaitPush, WaitPop,
     DeleteJob, AllWaited, SetQuit, PostQuit, AllPosted, Join, FreeJobs, InvQuit
<1>6. NoLostWakeup'
  <2>1. CASE AddPush
    <3>1. Len(list_jobs') = Len(list_jobs) + 1
      BY <2>1, AppendFacts DEF AddPush, TypeOK, InvMain, Segs
    <3>. QED
      BY <2>1, <3>1, <1>1, <1>3, <1>4 DEF AddPush, NoLostWakeup, F
  <2>2. CASE AddPost
    BY <2>2, <1>1, <1>3, <1>4 DEF AddPost, NoLostWakeup, F
  <2>3. CASE PostQuit
    BY <2>3, <1>1, <1>3, <1>4 DEF PostQuit, NoLostWakeup, F
  <2>4. CASE ~(AddPush \/ AddPost \/ PostQuit)
    <3>1. /\ UNCHANGED <<list_jobs, list_sem>>
          /\ tp_quit => tp_quit'
          /\ main # "post" /\ main' # "post"
      BY <2>4 DEF Main, NewJob, NewThrows, AllAdded, WaitPush, WaitPop, DeleteJob,
         AllWaited, SetQuit, AllPosted, Join, FreeJobs
    <3>. QED
      BY <3>1, <1>1, <1>3, <1>4 DEF NoLostWakeup, F
  <2>. QED  BY <2>1, <2>2, <2>3, <2>4
<1>7. QuitTokensSuffice'
  <2>1. CASE SetQuit
    BY <2>1, <1>1, <1>3, <1>4 DEF SetQuit, InvQuit, QuitTokensSuffice, T
  <2>2. CASE AddPost
    BY <2>2, <1>1, <1>3, <1>4 DEF AddPost, InvQuit, QuitTokensSuffice, T
  <2>3. CASE PostQuit
    BY <2>3, <1>1, <1>3, <1>4 DEF PostQuit, QuitTokensSuffice, T
  <2>4. CASE ~(SetQuit \/ AddPost \/ PostQuit)
    <3>1. UNCHANGED <<list_sem, tp_quit, qi>>
      BY <2>4 DEF Main, NewJob, NewThrows, AllAdded, AddPush, WaitPush, WaitPop,
         DeleteJob, AllWaited, AllPosted, Join, FreeJobs
    <3>. QED
      BY <3>1, <1>1, <1>3, <1>4 DEF QuitTokensSuffice, T
  <2>. QED  BY <2>1, <2>2, <2>3, <2>4
<1>. QED  BY <1>5, <1>6, <1>7

\* A thread that takes a token is in flight until it has looked at the queue.
LEMMA ExecWakeInv ==
    ASSUME IInv, WakeInv, NEW w \in Execs, Exec(w)
    PROVE  WakeInv'
<1>. USE DEF IInv, WakeInv, ExecGoes, poolVars, jobVars, mainVars
<1>1. /\ InFlight \in SUBSET Execs /\ Waiting \in SUBSET Execs
      /\ pc \in [Execs -> ExecPC]
  BY DEF InFlight, Waiting, TypeOK
<1>2. /\ Cardinality(InFlight) \in 0 .. NExec
      /\ Cardinality(Waiting) \in 0 .. NExec /\ NExec \in Nat
  BY <1>1, CountThreads, NExecNat
<1>3. Len(list_jobs) \in Nat /\ list_sem \in Nat /\ qi \in 0 .. NExec
  BY DEF TypeOK
<1>4. InvQuit'
  BY DEF Exec, TakeToken, CheckQuit, GetJob, GetNothing, Run, SemPop, InvQuit
<1>5. CASE TakeToken(w)
  <2>1. w \notin InFlight /\ InFlight' = InFlight \cup {w}
    BY <1>5, <1>1 DEF TakeToken, InFlight
  <2>2. w \in Waiting /\ Waiting' = Waiting \ {w}
    BY <1>5, <1>1 DEF TakeToken, Waiting
  <2>3. /\ Cardinality(InFlight') = Cardinality(InFlight) + 1
        /\ Cardinality(Waiting') = Cardinality(Waiting) - 1
    BY <2>1, <2>2, <1>1, CountThreads
  <2>4. UNCHANGED <<list_jobs, tp_quit, main, qi>> /\ list_sem' = list_sem - 1
    BY <1>5 DEF TakeToken
  <2>. QED
    BY <1>2, <1>3, <1>4, <2>3, <2>4 DEF NoLostWakeup, QuitTokensSuffice
<1>6. CASE CheckQuit(w)
  <2>1. UNCHANGED <<list_jobs, list_sem, tp_quit, main, qi>>
    BY <1>6 DEF CheckQuit
  <2>2. CASE tp_quit
    <3>1. Waiting' = Waiting
      BY <1>6, <2>2, <1>1 DEF CheckQuit, Waiting
    <3>. QED
      BY <1>4, <2>1, <2>2, <3>1 DEF NoLostWakeup, QuitTokensSuffice
  <2>3. CASE ~tp_quit
    <3>1. InFlight' = InFlight
      BY <1>6, <2>3, <1>1 DEF CheckQuit, InFlight
    <3>. QED
      BY <1>4, <2>1, <2>3, <3>1 DEF NoLostWakeup, QuitTokensSuffice
  <2>. QED  BY <2>2, <2>3
<1>7. CASE GetJob(w)
  <2>1. w \in InFlight /\ InFlight' = InFlight \ {w} /\ Waiting' = Waiting
    BY <1>7, <1>1 DEF GetJob, InFlight, Waiting
  <2>2. Cardinality(InFlight') = Cardinality(InFlight) - 1
    BY <2>1, <1>1, CountThreads
  <2>3. Len(list_jobs') = Len(list_jobs) - 1
    BY <1>7 DEF GetJob, TypeOK
  <2>4. UNCHANGED <<list_sem, tp_quit, main, qi>>
    BY <1>7 DEF GetJob
  <2>. QED
    BY <1>2, <1>3, <1>4, <2>1, <2>2, <2>3, <2>4 DEF NoLostWakeup, QuitTokensSuffice
<1>8. CASE GetNothing(w)
  <2>1. Waiting' = Waiting /\ InFlight' \in SUBSET Execs
    BY <1>8, <1>1 DEF GetNothing, Waiting, InFlight
  <2>2. Cardinality(InFlight') \in 0 .. NExec
    BY <2>1, CountThreads
  <2>3. UNCHANGED <<list_jobs, list_sem, tp_quit, main, qi>> /\ Len(list_jobs) = 0
    BY <1>8 DEF GetNothing, TypeOK
  <2>. QED
    BY <1>2, <1>3, <1>4, <2>1, <2>2, <2>3 DEF NoLostWakeup, QuitTokensSuffice
<1>9. CASE Run(w) \/ SemPop(w)
  <2>1. UNCHANGED <<list_jobs, list_sem, tp_quit, main, qi, InFlight, Waiting>>
    BY <1>9, <1>1 DEF Run, SemPop, InFlight, Waiting
  <2>. QED
    BY <1>4, <2>1 DEF NoLostWakeup, QuitTokensSuffice
<1>. QED  BY <1>5, <1>6, <1>7, <1>8, <1>9 DEF Exec

\* So does WakeInv.
LEMMA WakeInvariance == Spec => [](IInv /\ WakeInv)
<1>1. IInv /\ WakeInv /\ [Next]_vars => (IInv /\ WakeInv)'
  <2>. SUFFICES ASSUME IInv, WakeInv, [Next]_vars PROVE WakeInv'
    BY NextIInv
  <2>1. CASE UNCHANGED vars
    BY <2>1 DEF vars, WakeInv, InvQuit, NoLostWakeup, QuitTokensSuffice, InFlight, Waiting
  <2>. QED
    BY <2>1, MainWakeInv, ExecWakeInv DEF Next, Terminated
<1>. QED  BY <1>1, InitIInv, InitWakeInv, PTL DEF Spec

\* A queued job always has a token in _list_sem or a thread on its way to the
\* queue: no number of threads or of jobs makes add() lose a wake-up.
THEOREM NoLostWakeupHolds == Spec => []NoLostWakeup
BY WakeInvariance, PTL DEF WakeInv

\* Once the destructor has posted, every thread that waits finds a token.
THEOREM QuitTokensSufficeHolds == Spec => []QuitTokensSuffice
BY WakeInvariance, PTL DEF WakeInv

-----------------------------------------------------------------------------
(* The steps of JobPool, implemented.                                      *)

\* What the abstract status of the jobs depends on.
LEMMA StatusUnchanged ==
    ASSUME Added' = Added,
           \A j \in Segs : /\ Listed(j)' <=> Listed(j)
                           /\ Held(j)' <=> Held(j)
                           /\ Waited(j)' <=> Waited(j),
           main' \in {"free", "end"} <=> main \in {"free", "end"}
    PROVE  UNCHANGED StatusBar
BY DEF StatusBar, Waited

\* It is a function, whatever the state: Move's EXCEPT changes one place of it.
LEMMA StatusMoves ==
    ASSUME NEW j \in Segs, NEW to,
           \A k \in Segs \ {j} : StatusBar'[k] = StatusBar[k],
           StatusBar'[j] = to
    PROVE  StatusBar' = [StatusBar EXCEPT ![j] = to]
BY ZenonT(60) DEF StatusBar

\* The pool starts as a JobPool.
LEMMA InitAbstract == Init => Abstract!Init
BY NSegAssumption DEF Init, Abstract!Init, StatusBar, Added, Segs, Abstract!Segs

\* The steps of main that JobPool does not see.
LEMMA MainStutters ==
    ASSUME IInv,
           \/ NewJob \/ NewThrows \/ AllAdded \/ AddPost \/ WaitPop \/ DeleteJob
           \/ AllWaited \/ SetQuit \/ PostQuit \/ AllPosted \/ FreeJobs
    PROVE  UNCHANGED StatusBar
<1>. USE DEF MainGoes, poolVars, jobVars, mainVars
<1>1. UNCHANGED <<list_jobs, pc, curJob>>
  BY DEF NewJob, NewThrows, AllAdded, AddPost, WaitPop, DeleteJob, AllWaited,
     SetQuit, PostQuit, AllPosted, FreeJobs
<1>2. \A j : (Listed(j)' <=> Listed(j)) /\ (Held(j)' <=> Held(j))
  BY <1>1 DEF Listed, Held, Busy
<1>3. Added' = Added
  BY NSegAssumption
  DEF NewJob, NewThrows, AllAdded, AddPost, WaitPop, DeleteJob, AllWaited,
      SetQuit, PostQuit, AllPosted, FreeJobs, Added
<1>4. \A j \in Segs : Waited(j)' <=> Waited(j)
  BY SMTT(30), NSegAssumption
  DEF NewJob, NewThrows, AllAdded, AddPost, WaitPop, DeleteJob, AllWaited,
      SetQuit, PostQuit, AllPosted, FreeJobs, Waited, IInv, TypeOK, Segs
<1>5. main' \in {"free", "end"} <=> main \in {"free", "end"}
  BY DEF NewJob, NewThrows, AllAdded, AddPost, WaitPop, DeleteJob, AllWaited,
     SetQuit, PostQuit, AllPosted, FreeJobs
<1>. QED  BY <1>2, <1>3, <1>4, <1>5, StatusUnchanged

\* Those of the threads: a token, the flag, an empty list, and run() itself.
LEMMA ExecStutters ==
    ASSUME IInv, NEW w \in Execs,
           TakeToken(w) \/ CheckQuit(w) \/ GetNothing(w) \/ Run(w)
    PROVE  UNCHANGED StatusBar
<1>. USE DEF ExecGoes, jobVars, mainVars
<1>1. UNCHANGED <<list_jobs, curJob, main, ai, wi>>
  BY DEF TakeToken, CheckQuit, GetNothing, Run
<1>2. \A v \in Execs : Busy(v)' <=> Busy(v)
  BY DEF TakeToken, CheckQuit, GetNothing, Run, Busy, IInv, TypeOK
<1>3. \A j : /\ Listed(j)' <=> Listed(j)
             /\ Held(j)' <=> Held(j)
             /\ Waited(j)' <=> Waited(j)
  BY <1>1, <1>2 DEF Listed, Held, Waited
<1>4. Added' = Added
  BY <1>1 DEF Added
<1>. QED  BY <1>1, <1>3, <1>4, StatusUnchanged

\* push_back is the Submit of the new job.
LEMMA PushSubmits ==
    ASSUME IInv, AddPush
    PROVE  Abstract!Submit(ai) /\ ai \in Segs
<1>. USE NSegAssumption DEF IInv
<1>1. /\ list_jobs \in Seq(Segs) /\ ai \in Segs /\ list_jobs' = Append(list_jobs, ai)
      /\ main = "add" /\ main' = "post" /\ UNCHANGED <<pc, curJob, ai, wi>> /\ wi = 0
  BY DEF AddPush, MainGoes, TypeOK, InvMain, Segs
<1>2. \A j : Listed(j)' <=> Listed(j) \/ j = ai
  <2>1. /\ DOMAIN list_jobs' = (DOMAIN list_jobs) \cup {Len(list_jobs) + 1}
        /\ \A k \in DOMAIN list_jobs : list_jobs'[k] = list_jobs[k]
        /\ list_jobs'[Len(list_jobs) + 1] = ai
    BY <1>1, AppendFacts
  <2>. QED  BY <2>1 DEF Listed
<1>3. \A j : /\ Held(j)' <=> Held(j)
             /\ Waited(j)' <=> Waited(j)
  BY <1>1 DEF Held, Busy, Waited
<1>4. Added = ai /\ Added' = ai + 1
  BY <1>1 DEF Added
<1>5. StatusBar[ai] = "none" /\ StatusBar'[ai] = "queued"
  BY <1>1, <1>2, <1>4 DEF StatusBar, Segs
<1>6. \A k \in Segs \ {ai} : StatusBar'[k] = StatusBar[k]
  BY <1>1, <1>2, <1>3, <1>4 DEF StatusBar, Segs, Waited
<1>7. \A k \in 0 .. ai - 1 : StatusBar[k] # "none"
  BY <1>1, <1>4 DEF StatusBar, Segs
<1>. QED
  BY <1>1, <1>5, <1>6, <1>7, StatusMoves DEF Abstract!Submit, Abstract!Move

\* The semaphore that wait() takes down is that of a job which is over.
LEMMA WaitTakes ==
    ASSUME IInv, WaitPush
    PROVE  Abstract!Take(wi) /\ wi \in Segs
<1>. USE NSegAssumption DEF IInv
<1>1. /\ wi \in Segs /\ job_sem[wi] > 0 /\ ai = NSeg
      /\ main = "wait" /\ main' = "repost" /\ UNCHANGED <<list_jobs, pc, curJob, ai, wi>>
  BY DEF WaitPush, MainGoes, poolVars, TypeOK, InvMain, Segs
<1>2. \A j : /\ Listed(j)' <=> Listed(j)
             /\ Held(j)' <=> Held(j)
  BY <1>1 DEF Listed, Held, Busy
<1>3. Added = NSeg /\ Added' = NSeg
  BY <1>1 DEF Added
<1>4. ~Listed(wi) /\ ~Held(wi)
  BY <1>1 DEF InvSem, InvList, Listed, Held
<1>5. StatusBar[wi] = "done" /\ StatusBar'[wi] = "taken"
  BY <1>1, <1>2, <1>3, <1>4 DEF StatusBar, Segs
<1>6. \A k \in Segs \ {wi} : StatusBar'[k] = StatusBar[k]
  BY <1>1, <1>2, <1>3 DEF StatusBar, Segs
<1>. QED
  BY <1>1, <1>5, <1>6, StatusMoves DEF Abstract!Take, Abstract!Move

\* ~ThreadPool has joined its threads: what is still listed is dropped.
LEMMA JoinShutsDown ==
    ASSUME IInv, Join
    PROVE  Abstract!Shutdown
<1>. USE DEF IInv
<1>1. /\ main = "join" /\ main' = "free" /\ UNCHANGED <<list_jobs, pc, curJob, ai, wi>>
      /\ \A w \in Execs : pc[w] = "exited"
  BY DEF Join, MainGoes, poolVars
<1>2. \A j : (Listed(j)' <=> Listed(j)) /\ ~Held(j) /\ ~Held(j)'
  BY <1>1 DEF Listed, Held, Busy
<1>3. Added' = Added
  BY <1>1 DEF Added
<1>4. Abstract!Running = {}
  BY <1>2 DEF Abstract!Running, Abstract!Segs, StatusBar, Segs
<1>5. StatusBar' = [j \in Segs |-> IF StatusBar[j] = "queued" THEN "dropped" ELSE StatusBar[j]]
  BY <1>1, <1>2, <1>3 DEF StatusBar
<1>. QED  BY <1>4, <1>5 DEF Abstract!Shutdown, Abstract!Segs, Segs

\* Each running job is held by a thread of its own, and never by a thread that
\* is looking for a job.
LEMMA RunningFewer ==
    ASSUME IInv, NEW w \in Execs, ~Busy(w)
    PROVE  Cardinality(Abstract!Running) < NExec
<1>. DEFINE R == Abstract!Running
            Holder(j) == CHOOSE v \in Execs : Busy(v) /\ curJob[v] = j
            f == [j \in R |-> Holder(j)]
            T == Execs \ {w}
<1>1. \A j \in R : Held(j)
  BY DEF Abstract!Running, Abstract!Segs, StatusBar, Segs
<1>2. \A j \in R : Holder(j) \in Execs /\ Busy(Holder(j)) /\ curJob[Holder(j)] = j
  BY <1>1 DEF Held
<1>. HIDE DEF Holder, R
<1>3. f \in Injection(R, T)
  <2>1. \A j \in R : Holder(j) \in T
    BY <1>2
  <2>2. \A j, k \in R : Holder(j) = Holder(k) => j = k
    BY <1>2
  <2>. QED  BY <2>1, <2>2 DEF Injection, IsInjective
<1>4. IsFiniteSet(T) /\ Cardinality(T) = NExec - 1
  BY ExecsAssumption, FS_RemoveElement DEF NExec
<1>5. IsFiniteSet(R) /\ Cardinality(R) <= Cardinality(T)
  BY <1>3, <1>4, FS_Injection
<1>6. Cardinality(R) \in Nat
  BY <1>5, FS_CardinalityType
<1>. QED  BY <1>4, <1>5, <1>6, NExecNat DEF R

\* The instance has FiniteSets' operators under names of its own.
LEMMA SameCardinality == \A S : Abstract!Cardinality(S) = Cardinality(S)
BY DEF Abstract!Cardinality, Cardinality, Abstract!IsFiniteSet, IsFiniteSet

\* get_job() starts the oldest job of the queue.
LEMMA GetJobStarts ==
    ASSUME IInv, NEW w \in Execs, GetJob(w), NEW j, j = list_jobs[1]
    PROVE  Abstract!Start(j) /\ j \in Segs
<1>. USE NSegAssumption DEF IInv
<1>. DEFINE s == list_jobs
<1>1. /\ s \in Seq(Segs) /\ s # <<>> /\ 1 \in DOMAIN s /\ j \in Segs /\ j = s[1]
      /\ list_jobs' = Tail(s) /\ curJob' = [curJob EXCEPT ![w] = j]
      /\ pc[w] = "get" /\ pc' = [pc EXCEPT ![w] = "run"]
      /\ UNCHANGED <<main, ai, wi>>
  BY HeadTailFacts DEF GetJob, ExecGoes, mainVars, TypeOK
<1>2. main \notin {"free", "end"}
  BY <1>1 DEF InvMain
<1>3. \A k \in Segs : Listed(k) <=> Listed(k)' \/ k = j
  <2>1. \A l \in DOMAIN s : l # 1 => l - 1 \in DOMAIN Tail(s) /\ Tail(s)[l - 1] = s[l]
    BY <1>1
  <2>2. \A l \in DOMAIN Tail(s) : l + 1 \in DOMAIN s /\ Tail(s)[l] = s[l + 1]
    BY <1>1, HeadTailFacts
  <2>. QED  BY ZenonT(60), <1>1, <2>1, <2>2 DEF Listed
<1>4. ~Listed(j)'
  <2>1. \A l \in DOMAIN Tail(s) : 1 < l + 1 /\ l + 1 \in DOMAIN s /\ Tail(s)[l] = s[l + 1]
    BY <1>1, HeadTailFacts
  <2>2. \A l \in DOMAIN Tail(s) : s[1] < s[l + 1]
    BY <1>1, <2>1 DEF InvList
  <2>. QED  BY <1>1, <2>1, <2>2 DEF Listed, Segs
<1>5. \A k \in Segs : Held(k)' <=> Held(k) \/ k = j
  <2>1. Busy(w)' /\ curJob'[w] = j /\ ~Busy(w)
    BY <1>1 DEF Busy, TypeOK
  <2>2. \A v \in Execs \ {w} : curJob'[v] = curJob[v] /\ (Busy(v)' <=> Busy(v))
    BY <1>1 DEF Busy, TypeOK
  <2>. QED  BY <2>1, <2>2 DEF Held
<1>6. Added' = Added /\ j < Added
  BY <1>1 DEF Added, InvList
<1>7. \A k \in 0 .. j - 1 : StatusBar[k] # "queued"
  <2>1. \A l \in DOMAIN s : j <= s[l]
    <3>1. \A l \in DOMAIN s : s[l] \in Int /\ (l = 1 \/ 1 < l) /\ j \in Int
      BY <1>1 DEF Segs
    <3>2. \A l \in DOMAIN s : 1 < l => j < s[l]
      BY <1>1 DEF InvList
    <3>. QED  BY <1>1, <3>1, <3>2
  <2>2. \A k \in 0 .. j - 1 : k \in Segs /\ k < j
    BY <1>1 DEF Segs
  <2>3. \A l \in DOMAIN s : s[l] \in Int /\ j \in Int
    BY <1>1 DEF Segs
  <2>4. \A k \in 0 .. j - 1 : ~Listed(k)
    BY <2>1, <2>2, <2>3 DEF Listed
  <2>. QED  BY <2>2, <2>4 DEF StatusBar
<1>8. StatusBar[j] = "queued" /\ StatusBar'[j] = "running"
  <2>1. Listed(j) /\ Held(j)' /\ ~(j >= Added)
    BY <1>1, <1>3, <1>5, <1>6 DEF Added, TypeOK, Segs
  <2>2. StatusBar[j] = "queued"
    BY <1>1, <1>2, <2>1 DEF StatusBar
  <2>3. StatusBar'[j] = "running"
    BY <1>1, <1>4, <1>6, <2>1 DEF StatusBar
  <2>. QED  BY <2>2, <2>3
<1>9. \A k \in Segs \ {j} : StatusBar'[k] = StatusBar[k]
  BY <1>1, <1>3, <1>5, <1>6 DEF StatusBar
<1>10. Cardinality(Abstract!Running) < NExec
  BY <1>1, RunningFewer DEF Busy
<1>. QED
  BY <1>1, <1>7, <1>8, <1>9, <1>10, StatusMoves, SameCardinality
  DEF Abstract!Start, Abstract!Move

\* The post of the job's semaphore is the Finish its owner waits for.
LEMMA SemPopFinishes ==
    ASSUME IInv, NEW w \in Execs, SemPop(w), NEW j, j = curJob[w]
    PROVE  Abstract!Finish(j) /\ j \in Segs
<1>. USE NSegAssumption DEF IInv
<1>1. /\ pc[w] = "pop" /\ j = curJob[w] /\ Busy(w) /\ pc' = [pc EXCEPT ![w] = "quit2"]
      /\ curJob' = [curJob EXCEPT ![w] = NoJob]
      /\ UNCHANGED <<list_jobs, main, ai, wi>>
  BY DEF SemPop, ExecGoes, mainVars, Busy
<1>2. j \in Segs /\ j < Added
  BY <1>1 DEF InvHeld, TypeOK, Segs, Added, NoJob
<1>3. \A k : Listed(k)' <=> Listed(k)
  BY <1>1 DEF Listed
<1>4. \A k \in Segs : Held(k)' <=> Held(k) /\ k # j
  <2>1. ~Busy(w)' /\ Busy(w)
    BY <1>1 DEF Busy, TypeOK
  <2>2. \A v \in Execs \ {w} : curJob'[v] = curJob[v] /\ (Busy(v)' <=> Busy(v))
    BY <1>1 DEF Busy, TypeOK
  <2>3. \A v \in Execs \ {w} : Busy(v) => curJob[v] # j
    BY <1>1 DEF InvHeld
  <2>. QED  BY <2>1, <2>2, <2>3 DEF Held
<1>5. Added' = Added
  BY <1>1 DEF Added
<1>6. ~Listed(j) /\ Held(j)
  BY <1>1, <1>2 DEF InvHeld, Listed, Held, Segs
<1>7. ~Waited(j)
  BY <1>1, <1>2 DEF InvSem
<1>8. StatusBar[j] = "running" /\ StatusBar'[j] = "done"
  <2>1. ~(j >= Added) /\ ~Listed(j)' /\ ~Held(j)' /\ ~Waited(j)'
    BY <1>1, <1>2, <1>3, <1>4, <1>6, <1>7 DEF Added, TypeOK, Segs, Waited
  <2>2. StatusBar[j] = "running"
    BY <1>2, <1>6, <2>1 DEF StatusBar
  <2>3. StatusBar'[j] = "done"
    BY <1>2, <1>5, <2>1 DEF StatusBar, Waited
  <2>. QED  BY <2>2, <2>3
<1>9. \A k \in Segs \ {j} : StatusBar'[k] = StatusBar[k]
  BY <1>1, <1>3, <1>4, <1>5 DEF StatusBar
<1>. QED
  BY <1>2, <1>8, <1>9, StatusMoves DEF Abstract!Finish, Abstract!Move

\* Every step is a step of JobPool or one it does not see.
LEMMA StepsAbstract ==
    IInv /\ [Next]_vars => [Abstract!Next]_StatusBar
<1>. SUFFICES ASSUME IInv, [Next]_vars PROVE [Abstract!Next]_StatusBar
  OBVIOUS
<1>. USE DEF Abstract!Segs, Segs
<1>1. CASE Main
  <2>1. CASE AddPush
    BY <2>1, PushSubmits DEF Abstract!Next
  <2>2. CASE WaitPush
    BY <2>2, WaitTakes DEF Abstract!Next
  <2>3. CASE Join
    BY <2>3, JoinShutsDown DEF Abstract!Next
  <2>. QED  BY <1>1, <2>1, <2>2, <2>3, MainStutters DEF Main
<1>2. ASSUME NEW w \in Execs, Exec(w) PROVE [Abstract!Next]_StatusBar
  <2>1. CASE GetJob(w)
    BY <2>1, GetJobStarts DEF Abstract!Next
  <2>2. CASE SemPop(w)
    BY <2>2, SemPopFinishes DEF Abstract!Next
  <2>. QED  BY <1>2, <2>1, <2>2, ExecStutters DEF Exec
<1>3. CASE UNCHANGED vars
  BY <1>3 DEF vars, StatusBar, Added, Listed, Held, Busy
<1>. QED  BY <1>1, <1>2, <1>3 DEF Next, Terminated

\* mt::ThreadPool, with its list, its semaphores and its threads, does what
\* JobPool promises at every step: jobs start in the order add() got them, at
\* most NExec run at a time, wait() returns for finished jobs only, and the
\* destructor lets the running jobs finish and drops the queued ones.
THEOREM ImplementsJobPoolSteps ==
    Spec => Abstract!Init /\ [][Abstract!Next]_StatusBar
BY InitAbstract, StepsAbstract, Invariance, PTL DEF Spec
=============================================================================
