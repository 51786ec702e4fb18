---------------------------- MODULE MCThreadPool ----------------------------
(* Two threads and four segments: more jobs than threads, so that jobs     *)
(* queue, and a thread can be anywhere in job_exec while the other runs.   *)
EXTENDS ThreadPool
=============================================================================
