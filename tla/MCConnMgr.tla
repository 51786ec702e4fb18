----------------------------- MODULE MCConnMgr -----------------------------
(* Three threads and two slots: a thread can connect under the lock while  *)
(* another talks and a third waits, and the pool can be full.              *)
EXTENDS ConnMgr
=============================================================================
