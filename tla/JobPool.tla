------------------------------ MODULE JobPool ------------------------------
(***************************************************************************)
(* What a pool of worker threads promises its owner, with no queue, lock   *)
(* or semaphore in it: the abstract specification of mt::ThreadPool.       *)
(* A job is submitted, started and finished once; jobs start in the order  *)
(* they were submitted and at most NExec of them run at a time; the owner  *)
(* is told that a job is finished only when it is; and a pool that is shut *)
(* down lets the running jobs finish and drops the others.                 *)
(***************************************************************************)
EXTENDS Integers, FiniteSets

CONSTANTS
    NSeg,    \* the owner's jobs are 0 .. NSeg-1
    NExec    \* how many jobs can run at the same time

VARIABLE status    \* where each job is in its life

Segs == 0 .. NSeg - 1
Status == {"none", "queued", "running", "done", "taken", "dropped"}
Running == {j \in Segs : status[j] = "running"}

TypeOK == status \in [Segs -> Status]

Move(j, from, to) ==
    /\ status[j] = from
    /\ status' = [status EXCEPT ![j] = to]

-----------------------------------------------------------------------------
Init == status = [j \in Segs |-> "none"]

\* The owner hands over its jobs in order.
Submit(j) ==
    /\ \A k \in 0 .. j - 1 : status[k] # "none"
    /\ Move(j, "none", "queued")

\* Mutant: as many workers as jobs.
StartUnbounded(j) ==
    /\ \A k \in 0 .. j - 1 : status[k] # "queued"
    /\ Move(j, "queued", "running")

\* An idle worker takes the oldest job.
Start(j) ==
    /\ Cardinality(Running) < NExec
    /\ \A k \in 0 .. j - 1 : status[k] # "queued"
    /\ Move(j, "queued", "running")

Finish(j) == Move(j, "running", "done")

\* The owner's wait() for the job returns.
Take(j) == Move(j, "done", "taken")

\* The pool is destroyed: nothing runs any more, what never started never will.
Shutdown ==
    /\ Running = {}
    /\ status' = [j \in Segs |->
                    IF status[j] = "queued" THEN "dropped" ELSE status[j]]

Next ==
    \/ \E j \in Segs : Submit(j) \/ Start(j) \/ Finish(j) \/ Take(j)
    \/ Shutdown

Fairness ==
    /\ WF_status(\E j \in Segs : Start(j))
    /\ \A j \in Segs : WF_status(Finish(j))

Spec == Init /\ [][Next]_status /\ Fairness
=============================================================================
