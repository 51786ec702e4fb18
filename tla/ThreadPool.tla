---------------------------- MODULE ThreadPool -----------------------------
(***************************************************************************)
(* mt::ThreadPool and mt::ThreadPool::Job (mt.h), driven by the one client *)
(* the program has: the main thread inside fetch_nzb_file (nzb.cpp), which *)
(* creates and adds one job per segment, waits for each of them and deletes*)
(* it, and whose stack unwinding destroys the pool and then the jobs.      *)
(*                                                                         *)
(* Every semaphore operation is a step of its own.  _list_mtx protects two *)
(* critical sections: ThreadPool::add, modelled as two steps because the   *)
(* semaphore is posted inside it, and ThreadPool::get_job, one step.       *)
(***************************************************************************)
EXTENDS Integers, Sequences, FiniteSets

CONSTANTS
    Execs,   \* the pool's threads (settings::NNTP_max_conn of them)
    NSeg     \* the number of segments of the file, one job each

ASSUME ExecsAssumption == IsFiniteSet(Execs) /\ Execs # {}
ASSUME NSegAssumption == NSeg \in Nat

Segs == 0 .. NSeg - 1
NExec == Cardinality(Execs)
NoJob == -1                    \* the null Job* of job_exec

VARIABLES
    list_jobs,   \* _list_jobs, the queue of the jobs no thread has taken
    list_sem,    \* the value of _list_sem
    tp_quit,     \* _tp_quit
    pc,          \* where each thread of the pool is in job_exec
    curJob,      \* job_exec's curJob
    job_sem,     \* the value of each job's _sem
    alive,       \* the Job objects that exist
    main,        \* where the main thread is
    ai, wi, qi,  \* main's loop variables: adding, waiting, posting to quit
    ran          \* history: the jobs whose run() has returned

poolVars == <<list_jobs, list_sem, tp_quit, pc, curJob>>
jobVars == <<job_sem, alive, ran>>
mainVars == <<main, ai, wi, qi>>
vars == <<list_jobs, list_sem, tp_quit, pc, curJob, job_sem, alive, main,
          ai, wi, qi, ran>>

ExecPC == {"sem", "quit1", "get", "run", "pop", "quit2", "exited"}
MainPC == {"new", "add", "post", "wait", "repost", "delete", "quit",
           "signal", "join", "free", "end"}

TypeOK ==
    /\ list_jobs \in Seq(Segs)
    /\ list_sem \in Nat
    /\ tp_quit \in BOOLEAN
    /\ pc \in [Execs -> ExecPC]
    /\ curJob \in [Execs -> Segs \cup {NoJob}]
    /\ job_sem \in [Segs -> Nat]
    /\ alive \subseteq Segs
    /\ main \in MainPC
    /\ ai \in 0 .. NSeg /\ wi \in 0 .. NSeg /\ qi \in 0 .. NExec
    /\ ran \subseteq Segs

-----------------------------------------------------------------------------
\* A pool just constructed: mt::Semaphore starts at 1, not at 0, so the first
\* thread that waits passes with the list empty.
Init ==
    /\ list_jobs = <<>>
    /\ list_sem = 1
    /\ tp_quit = FALSE
    /\ pc = [w \in Execs |-> "sem"]
    /\ curJob = [w \in Execs |-> NoJob]
    /\ job_sem = [j \in Segs |-> 0]
    /\ alive = {}
    /\ main = "new"
    /\ ai = 0 /\ wi = 0 /\ qi = 0
    /\ ran = {}

-----------------------------------------------------------------------------
(* The main thread.                                                        *)

MainGoes(from, to) == main = from /\ main' = to

\* Mutant: the job's constructor forgets to take its semaphore down from 1.
NewJobSemUp ==
    /\ MainGoes("new", "add")
    /\ ai < NSeg
    /\ alive' = alive \cup {ai}
    /\ job_sem' = [job_sem EXCEPT ![ai] = 1]
    /\ UNCHANGED <<poolVars, ran, ai, wi, qi>>

\* Mutant: one job too many (i <= n_seg).
NewJobOneMore ==
    /\ MainGoes("new", "add")
    /\ ai <= NSeg
    /\ alive' = alive \cup {ai}
    /\ UNCHANGED <<poolVars, job_sem, ran, ai, wi, qi>>

\* new seg_job(...): the Job constructor takes its own semaphore down to 0.
NewJob ==
    /\ MainGoes("new", "add")
    /\ ai < NSeg
    /\ alive' = alive \cup {ai}
    /\ job_sem' = [job_sem EXCEPT ![ai] = 0]
    /\ UNCHANGED <<poolVars, ai, wi, qi, ran>>

\* Opening the segment's stream or an allocation throws: the unwinding starts
\* with the pool, jobs already added may still be queued or running.
NewThrows ==
    /\ MainGoes("new", "quit")
    /\ ai < NSeg
    /\ UNCHANGED <<poolVars, jobVars, ai, wi, qi>>

AllAdded ==
    /\ MainGoes("new", "wait")
    /\ ai = NSeg
    /\ UNCHANGED <<poolVars, jobVars, ai, wi, qi>>

\* add(): lock _list_mtx and push_back ...
AddPush ==
    /\ MainGoes("add", "post")
    /\ list_jobs' = Append(list_jobs, ai)
    /\ UNCHANGED <<list_sem, tp_quit, pc, curJob, jobVars, ai, wi, qi>>

\* Mutant: the semaphore is posted only when the list was empty.
AddPostWhenEmpty ==
    /\ MainGoes("post", "new")
    /\ list_sem' = IF Len(list_jobs) = 1 THEN list_sem + 1 ELSE list_sem
    /\ ai' = ai + 1
    /\ UNCHANGED <<list_jobs, tp_quit, pc, curJob, jobVars, wi, qi>>

\* ... then post _list_sem and unlock.
AddPost ==
    /\ MainGoes("post", "new")
    /\ list_sem' = list_sem + 1
    /\ ai' = ai + 1
    /\ UNCHANGED <<list_jobs, tp_quit, pc, curJob, jobVars, wi, qi>>

ListMtxFree == main # "post"

\* Mutant: trypush() instead of push(), its answer ignored.
WaitPushTry ==
    /\ MainGoes("wait", "repost")
    /\ wi < NSeg
    /\ job_sem' = [job_sem EXCEPT ![wi] = IF @ > 0 THEN @ - 1 ELSE 0]
    /\ UNCHANGED <<poolVars, alive, ran, ai, wi, qi>>

\* wait(): take the job's semaphore down ...
WaitPush ==
    /\ MainGoes("wait", "repost")
    /\ wi < NSeg
    /\ job_sem[wi] > 0
    /\ job_sem' = [job_sem EXCEPT ![wi] = @ - 1]
    /\ UNCHANGED <<poolVars, alive, ran, ai, wi, qi>>

\* ... and up again, for another wait().
WaitPop ==
    /\ MainGoes("repost", "delete")
    /\ job_sem' = [job_sem EXCEPT ![wi] = @ + 1]
    /\ UNCHANGED <<poolVars, alive, ran, ai, wi, qi>>

\* vec_job_info[i].job = SP_seg_job(0): the last reference goes, the job dies.
DeleteJob ==
    /\ MainGoes("delete", "wait")
    /\ alive' = alive \ {wi}
    /\ wi' = wi + 1
    /\ UNCHANGED <<poolVars, job_sem, ran, ai, qi>>

\* fetch_nzb_file goes on with the results, in the main thread alone, and
\* leaves by return or by an exception.
AllWaited ==
    /\ MainGoes("wait", "quit")
    /\ wi = NSeg
    /\ UNCHANGED <<poolVars, jobVars, ai, wi, qi>>

\* Mutant: the destructor posts without setting _tp_quit.
SetQuitForgotten ==
    /\ MainGoes("quit", "signal")
    /\ UNCHANGED <<poolVars, jobVars, ai, wi, qi>>

\* Mutant: one post for all the threads.
PostQuitOnce ==
    /\ main = "signal" /\ UNCHANGED main
    /\ qi < NExec
    /\ list_sem' = list_sem + 1
    /\ qi' = NExec
    /\ UNCHANGED <<list_jobs, tp_quit, pc, curJob, jobVars, ai, wi>>

\* ~ThreadPool: set the flag, post once per thread, join every thread.
SetQuit ==
    /\ MainGoes("quit", "signal")
    /\ tp_quit' = TRUE
    /\ UNCHANGED <<list_jobs, list_sem, pc, curJob, jobVars, ai, wi, qi>>

PostQuit ==
    /\ main = "signal" /\ UNCHANGED main
    /\ qi < NExec
    /\ list_sem' = list_sem + 1
    /\ qi' = qi + 1
    /\ UNCHANGED <<list_jobs, tp_quit, pc, curJob, jobVars, ai, wi>>

AllPosted ==
    /\ MainGoes("signal", "join")
    /\ qi = NExec
    /\ UNCHANGED <<poolVars, jobVars, ai, wi, qi>>

Join ==
    /\ MainGoes("join", "free")
    /\ \A w \in Execs : pc[w] = "exited"
    /\ UNCHANGED <<poolVars, jobVars, ai, wi, qi>>

\* vec_job_info is destroyed after the pool (it is declared before it), and
\* with it the jobs that main did not delete.
FreeJobs ==
    /\ MainGoes("free", "end")
    /\ alive' = {}
    /\ UNCHANGED <<poolVars, job_sem, ran, ai, wi, qi>>

Main ==
    \/ NewJob \/ NewThrows \/ AllAdded \/ AddPush \/ AddPost
    \/ WaitPush \/ WaitPop \/ DeleteJob \/ AllWaited
    \/ SetQuit \/ PostQuit \/ AllPosted \/ Join \/ FreeJobs

-----------------------------------------------------------------------------
(* The threads of the pool: ThreadPool::job_exec.                          *)

ExecGoes(w, from, to) == pc[w] = from /\ pc' = [pc EXCEPT ![w] = to]

\* p->_list_sem.push()
TakeToken(w) ==
    /\ ExecGoes(w, "sem", "quit1")
    /\ list_sem > 0
    /\ list_sem' = list_sem - 1
    /\ UNCHANGED <<list_jobs, tp_quit, curJob, jobVars, mainVars>>

\* The check of _tp_quit after the semaphore, and the one at the loop's end.
CheckQuit(w) ==
    /\ \/ tp_quit /\ (ExecGoes(w, "quit1", "exited") \/ ExecGoes(w, "quit2", "exited"))
       \/ ~tp_quit /\ (ExecGoes(w, "quit1", "get") \/ ExecGoes(w, "quit2", "sem"))
    /\ UNCHANGED <<list_jobs, list_sem, tp_quit, curJob, jobVars, mainVars>>

\* Mutant: get_job() reads front() without pop_front().
GetJobNoPop(w) ==
    /\ ExecGoes(w, "get", "run")
    /\ ListMtxFree
    /\ list_jobs # <<>>
    /\ curJob' = [curJob EXCEPT ![w] = Head(list_jobs)]
    /\ UNCHANGED <<list_jobs, list_sem, tp_quit, jobVars, mainVars>>

\* Mutant: get_job() serves the youngest job first.
GetJobLIFO(w) ==
    /\ ExecGoes(w, "get", "run")
    /\ ListMtxFree
    /\ list_jobs # <<>>
    /\ curJob' = [curJob EXCEPT ![w] = list_jobs[Len(list_jobs)]]
    /\ list_jobs' = SubSeq(list_jobs, 1, Len(list_jobs) - 1)
    /\ UNCHANGED <<list_sem, tp_quit, jobVars, mainVars>>

\* get_job() finds a job ...
GetJob(w) ==
    /\ ExecGoes(w, "get", "run")
    /\ ListMtxFree
    /\ list_jobs # <<>>
    /\ curJob' = [curJob EXCEPT ![w] = Head(list_jobs)]
    /\ list_jobs' = Tail(list_jobs)
    /\ UNCHANGED <<list_sem, tp_quit, jobVars, mainVars>>

\* ... or does not.
GetNothing(w) ==
    /\ ExecGoes(w, "get", "quit2")
    /\ ListMtxFree
    /\ list_jobs = <<>>
    /\ UNCHANGED <<list_jobs, list_sem, tp_quit, curJob, jobVars, mainVars>>

\* curJob->run(): seg_job::run writes the segment's result (is_ok, err, data).
Run(w) ==
    /\ ExecGoes(w, "run", "pop")
    /\ ran' = ran \cup {curJob[w]}
    /\ UNCHANGED <<list_jobs, list_sem, tp_quit, curJob, job_sem, alive, mainVars>>

\* curJob->_sem.pop(): from here on the job may be deleted by its owner.
SemPop(w) ==
    /\ ExecGoes(w, "pop", "quit2")
    /\ job_sem' = [job_sem EXCEPT ![curJob[w]] = @ + 1]
    /\ curJob' = [curJob EXCEPT ![w] = NoJob]
    /\ UNCHANGED <<list_jobs, list_sem, tp_quit, alive, ran, mainVars>>

Exec(w) ==
    \/ TakeToken(w) \/ CheckQuit(w) \/ GetJob(w) \/ GetNothing(w)
    \/ Run(w) \/ SemPop(w)

-----------------------------------------------------------------------------
\* The end of the function is the only place where everything may stop.
Terminated == main = "end" /\ UNCHANGED vars

Next == Main \/ (\E w \in Execs : Exec(w)) \/ Terminated

\* The operating system runs every thread that can run.
Fairness == WF_vars(Main) /\ \A w \in Execs : WF_vars(Exec(w))

Spec == Init /\ [][Next]_vars /\ Fairness

-----------------------------------------------------------------------------
Busy(w) == pc[w] \in {"run", "pop"}
Added == IF main = "post" THEN ai + 1 ELSE ai

\* A thread of the pool only touches a Job that exists, and the queue only
\* holds such jobs until the pool is gone: deleting a job right after wait()
\* and destroying the vector after the pool are both safe (mt.h, job_exec's
\* comment on objects that "could not exist anymore").
NoUseAfterFree ==
    /\ \A w \in Execs : Busy(w) => curJob[w] \in alive
    /\ main # "end" => \A k \in DOMAIN list_jobs : list_jobs[k] \in alive

\* When wait() has returned for a job its run() is over, so fetch_nzb_file
\* reads results no thread still writes (the wait loop of fetch_nzb_file).
ResultsReady ==
    \A j \in Segs :
        j < wi \/ (j = wi /\ main \in {"repost", "delete"}) =>
            /\ j \in ran
            /\ \A w \in Execs : Busy(w) => curJob[w] # j

\* No job is run twice, whichever threads race for it.
RunOnce == [][\A w \in Execs : Run(w) => curJob[w] \notin ran]_vars

InFlight == {w \in Execs : pc[w] \in {"quit1", "get"}}
Waiting == {w \in Execs : pc[w] = "sem"}

\* No wake-up is lost while the pool is open: every queued job has a token in
\* _list_sem or a thread that has taken one and will look at the list.
NoLostWakeup ==
    ~tp_quit =>
        Len(list_jobs) <= list_sem + Cardinality(InFlight)
                            + (IF main = "post" THEN 1 ELSE 0)

\* The posts of the destructor are enough for every thread that still waits,
\* whatever the jobs left in the list: join() cannot block for ever.
QuitTokensSuffice ==
    tp_quit => Cardinality(Waiting) <= list_sem + (NExec - qi)

\* fetch_nzb_file always gets past its waits and the destructor's joins.
PoolTerminates == <>(main = "end")

-----------------------------------------------------------------------------
(* The promise of JobPool, implemented.                                    *)

Listed(j) == \E k \in DOMAIN list_jobs : list_jobs[k] = j
Held(j) == \E w \in Execs : Busy(w) /\ curJob[w] = j

StatusBar ==
    [j \in Segs |->
        IF j >= Added THEN "none"
        ELSE IF Listed(j)
             THEN IF main \in {"free", "end"} THEN "dropped" ELSE "queued"
        ELSE IF Held(j) THEN "running"
        ELSE IF j < wi \/ (j = wi /\ main \in {"repost", "delete"}) THEN "taken"
        ELSE "done"]

Abstract == INSTANCE JobPool WITH status <- StatusBar

\* The thread pool keeps what JobPool promises, its fairness included.
ImplementsJobPool == Abstract!Spec
=============================================================================
