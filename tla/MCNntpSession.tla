---------------------------- MODULE MCNntpSession ----------------------------
(* Three sessions on one slot: one to leave bytes behind, one to meet them, *)
(* one to be in step again; buffers that some of the answers do not fit.    *)
EXTENDS NntpSession
=============================================================================
