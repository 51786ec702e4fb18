------------------------------ MODULE ConnMgr ------------------------------
(***************************************************************************)
(* ConnMgr (connmgr.h), the pool of NNTP connections, with the use that    *)
(* fetch_nzb_segment (nzb.cpp) makes of a handle: get one, read the greet- *)
(* ing of a new connection, talk to the server, give the handle back.      *)
(* Connection (connection.cpp) closes itself when a receive or a send      *)
(* fails, and that is all the pool looks at when it reuses a slot.         *)
(*                                                                         *)
(* GetHandle, Reset and ~ConnHandle each run under _mtx.  GetHandle keeps  *)
(* it while it sleeps and connects, so a connection attempt is two steps   *)
(* with the lock held in between; the others are one step each.            *)
(***************************************************************************)
EXTENDS Integers, Sequences

CONSTANTS
    Thr,     \* the threads that fetch segments
    MaxConn, \* _n_c, the slots of the pool (settings::NNTP_max_conn)
    NoThr    \* the owner of a free mutex

NoSlot == 0

ASSUME MaxConnAssumption == MaxConn \in Nat \ {0}
ASSUME ThrAssumption == NoThr \notin Thr

VARIABLES
    vec_conn,   \* _vec_conn: the slots, each with its connection's state
    mtx,        \* the thread that holds _mtx from one step to the next
    pc,         \* where each thread is in fetch_nzb_segment
    slot,       \* the slot of the thread's handle, or of its connection attempt
    sig,        \* sig_received: INT or TERM has been caught
    dangling    \* history: the threads whose handle's object was freed

connVars == <<vec_conn, mtx, pc, slot, dangling>>
vars == <<vec_conn, mtx, pc, slot, sig, dangling>>

\* up: the socket is open.  greeted (history): the server's greeting on the
\* present connection has been read.
Slot == [up : BOOLEAN, in_use : BOOLEAN, already_used : BOOLEAN, greeted : BOOLEAN]

\* idle: not in fetch_nzb_segment; get: in GetHandle, before the lock; connect:
\* in GetHandle, holding the lock; opened: the handle is there, nothing read or
\* sent; talk: past the greeting; release: in ~ConnHandle, before the lock.
PC == {"idle", "get", "connect", "opened", "talk", "release"}

TypeOK ==
    /\ vec_conn \in Seq(Slot) /\ Len(vec_conn) <= MaxConn
    /\ mtx \in Thr \cup {NoThr}
    /\ pc \in [Thr -> PC]
    /\ slot \in [Thr -> 0 .. MaxConn]
    /\ sig \in BOOLEAN
    /\ dangling \subseteq Thr

Slots == DOMAIN vec_conn
Free(i) == ~vec_conn[i].in_use

\* Mutant: a slot whose connection is closed counts as free.
FirstFreeOrClosed(i) ==
    /\ i \in Slots /\ (Free(i) \/ ~vec_conn[i].up)
    /\ \A k \in 1 .. i - 1 : ~Free(k) /\ vec_conn[k].up

\* GetHandle takes the first slot that is not in use.
FirstFree(i) == i \in Slots /\ Free(i) /\ \A k \in 1 .. i - 1 : ~Free(k)
NoneFree == \A i \in Slots : ~Free(i)

\* The threads that own a handle.
Holders == {t \in Thr : pc[t] \in {"opened", "talk", "release"}}

-----------------------------------------------------------------------------
Init ==
    /\ vec_conn = <<>>
    /\ mtx = NoThr
    /\ pc = [t \in Thr |-> "idle"]
    /\ slot = [t \in Thr |-> NoSlot]
    /\ sig = FALSE
    /\ dangling = {}

-----------------------------------------------------------------------------
(* GetHandle.                                                              *)

Goes(t, from, to) == pc[t] = from /\ pc' = [pc EXCEPT ![t] = to]

Call(t) ==
    /\ Goes(t, "idle", "get")
    /\ UNCHANGED <<vec_conn, mtx, slot, sig, dangling>>

\* Mutant: already_used is not set.
ReuseAsNew(t) ==
    /\ Goes(t, "get", "opened")
    /\ mtx = NoThr
    /\ \E i \in Slots :
        /\ FirstFree(i) /\ vec_conn[i].up
        /\ vec_conn' = [vec_conn EXCEPT ![i].in_use = TRUE]
        /\ slot' = [slot EXCEPT ![t] = i]
    /\ UNCHANGED <<mtx, sig, dangling>>

\* The first free slot is connected: it is handed out as it is.
Reuse(t) ==
    /\ Goes(t, "get", "opened")
    /\ mtx = NoThr
    /\ \E i \in Slots :
        /\ FirstFree(i) /\ vec_conn[i].up
        /\ vec_conn' = [vec_conn EXCEPT ![i].in_use = TRUE, ![i].already_used = TRUE]
        /\ slot' = [slot EXCEPT ![t] = i]
    /\ UNCHANGED <<mtx, sig, dangling>>

\* The first free slot has lost its connection: it is marked in use, and the
\* thread sleeps and connects, all under the lock.
BeginReconnect(t) ==
    /\ Goes(t, "get", "connect")
    /\ mtx = NoThr
    /\ \E i \in Slots :
        /\ FirstFree(i) /\ ~vec_conn[i].up
        /\ vec_conn' = [vec_conn EXCEPT ![i].in_use = TRUE]
        /\ slot' = [slot EXCEPT ![t] = i]
    /\ mtx' = t
    /\ UNCHANGED <<sig, dangling>>

\* Mutant: already_used is not reset with the new connection.
ReconnectKeepsUsed(t) ==
    /\ Goes(t, "connect", "opened")
    /\ mtx = t /\ slot[t] # NoSlot
    /\ vec_conn' = [vec_conn EXCEPT ![slot[t]] =
                      [@ EXCEPT !.up = TRUE, !.already_used = TRUE, !.greeted = FALSE]]
    /\ dangling' = dangling \cup {u \in Holders : slot[u] = slot[t]}
    /\ mtx' = NoThr
    /\ UNCHANGED <<slot, sig>>

\* The new connection replaces the old one, which is freed.
ReconnectOk(t) ==
    /\ Goes(t, "connect", "opened")
    /\ mtx = t /\ slot[t] # NoSlot
    /\ vec_conn' = [vec_conn EXCEPT ![slot[t]] =
                      [up |-> TRUE, in_use |-> TRUE, already_used |-> FALSE, greeted |-> FALSE]]
    /\ dangling' = dangling \cup {u \in Holders : slot[u] = slot[t]}
    /\ mtx' = NoThr
    /\ UNCHANGED <<slot, sig>>

\* Connection's constructor throws: no handle is made and in_use stays set.
ReconnectFail(t) ==
    /\ Goes(t, "connect", "idle")
    /\ mtx = t /\ slot[t] # NoSlot
    /\ slot' = [slot EXCEPT ![t] = NoSlot]
    /\ mtx' = NoThr
    /\ UNCHANGED <<vec_conn, sig, dangling>>

\* Mutant: off by one on the pool's size.
BeginConnectOneMore(t) ==
    /\ Goes(t, "get", "connect")
    /\ mtx = NoThr
    /\ NoneFree /\ Len(vec_conn) <= MaxConn
    /\ mtx' = t
    /\ UNCHANGED <<vec_conn, slot, sig, dangling>>

\* No slot is free and there is room for one more ...
BeginConnect(t) ==
    /\ Goes(t, "get", "connect")
    /\ mtx = NoThr
    /\ NoneFree /\ Len(vec_conn) < MaxConn
    /\ mtx' = t
    /\ UNCHANGED <<vec_conn, slot, sig, dangling>>

\* ... which is pushed back once it is connected ...
ConnectOk(t) ==
    /\ Goes(t, "connect", "opened")
    /\ mtx = t /\ slot[t] = NoSlot
    /\ vec_conn' = Append(vec_conn, [up |-> TRUE, in_use |-> TRUE,
                                     already_used |-> FALSE, greeted |-> FALSE])
    /\ slot' = [slot EXCEPT ![t] = Len(vec_conn) + 1]
    /\ mtx' = NoThr
    /\ UNCHANGED <<sig, dangling>>

\* ... and is not when the constructor throws.
ConnectFail(t) ==
    /\ Goes(t, "connect", "idle")
    /\ mtx = t /\ slot[t] = NoSlot
    /\ mtx' = NoThr
    /\ UNCHANGED <<vec_conn, slot, sig, dangling>>

\* A null handle: fetch_nzb_segment throws "No connections available".
NoneLeft(t) ==
    /\ Goes(t, "get", "idle")
    /\ mtx = NoThr
    /\ NoneFree /\ Len(vec_conn) = MaxConn
    /\ UNCHANGED <<vec_conn, mtx, slot, sig, dangling>>

GetHandle(t) ==
    \/ Reuse(t) \/ BeginReconnect(t) \/ ReconnectOk(t) \/ ReconnectFail(t)
    \/ BeginConnect(t) \/ ConnectOk(t) \/ ConnectFail(t) \/ NoneLeft(t)

-----------------------------------------------------------------------------
(* The session of fetch_nzb_segment on its handle.                         *)

Mine(t) == vec_conn[slot[t]]

\* The manager's handle decides whether the session reads a greeting first.
ReadsGreeting(t) == ~Mine(t).already_used

\* fetch_cmd(*c, "", buf): fetch_term tests the signal, then receives.
Greet(t) ==
    /\ Goes(t, "opened", "talk")
    /\ ReadsGreeting(t) /\ ~sig
    /\ vec_conn' = [vec_conn EXCEPT ![slot[t]].greeted = TRUE]
    /\ UNCHANGED <<mtx, slot, sig, dangling>>

\* The handle says the connection was used before: no greeting to read.
SkipGreeting(t) ==
    /\ Goes(t, "opened", "talk")
    /\ ~ReadsGreeting(t)
    /\ UNCHANGED <<vec_conn, mtx, slot, sig, dangling>>

\* The session ends with the connection open: the article is there, or the
\* server answered with an error, or the signal was noticed before a receive.
EndSession(t) ==
    /\ \/ Goes(t, "talk", "release")
       \/ Goes(t, "opened", "release") /\ ReadsGreeting(t) /\ sig
    /\ UNCHANGED <<vec_conn, mtx, slot, sig, dangling>>

\* A receive or a send fails, or times out: the connection closes itself.  No
\* greeting is waited for once the signal is there.
Drop(t) ==
    /\ \/ Goes(t, "talk", "release")
       \/ Goes(t, "opened", "release") /\ ReadsGreeting(t) /\ ~sig
    /\ vec_conn' = [vec_conn EXCEPT ![slot[t]].up = FALSE]
    /\ UNCHANGED <<mtx, slot, sig, dangling>>

\* ~ConnHandle
Release(t) ==
    /\ Goes(t, "release", "idle")
    /\ mtx = NoThr
    /\ vec_conn' = [vec_conn EXCEPT ![slot[t]].in_use = FALSE]
    /\ slot' = [slot EXCEPT ![t] = NoSlot]
    /\ UNCHANGED <<mtx, sig, dangling>>

Session(t) == Greet(t) \/ SkipGreeting(t) \/ EndSession(t) \/ Drop(t) \/ Release(t)

-----------------------------------------------------------------------------
\* Reset() leaves everything as it is when it finds a slot in use.
ResetRefused == \E i \in Slots : vec_conn[i].in_use

\* Mutant: the pool is cleared without looking.
ResetBlindly ==
    /\ mtx = NoThr
    /\ vec_conn' = <<>>
    /\ dangling' = dangling \cup Holders
    /\ UNCHANGED <<mtx, pc, slot, sig>>

Reset ==
    /\ mtx = NoThr
    /\ ~ResetRefused
    /\ vec_conn' = <<>>
    /\ dangling' = dangling \cup Holders
    /\ UNCHANGED <<mtx, pc, slot, sig>>

\* stop_sig, the handler of INT and TERM.
Signal ==
    /\ ~sig /\ sig' = TRUE
    /\ UNCHANGED connVars

Next ==
    \/ \E t \in Thr : Call(t) \/ GetHandle(t) \/ Session(t)
    \/ Reset
    \/ Signal

Spec == Init /\ [][Next]_vars

-----------------------------------------------------------------------------
\* A handle is exclusive: no two threads talk on one connection, and the slot
\* of a handle is marked in use until ~ConnHandle runs, so that GetHandle and
\* Reset leave it alone.
Exclusive ==
    /\ \A t \in Holders : slot[t] \in Slots /\ vec_conn[slot[t]].in_use
    /\ \A t, u \in Holders : t # u => slot[t] # slot[u]

\* No handle outlives its connection: neither a reconnection nor Reset ever
\* frees what a handle refers to (its Connection and its in_use flag).
NoDangling == dangling = {}

\* A thread that sends its commands on an open connection has the greeting
\* behind it, whoever read it: the first answer it gets is to its own command.
GreetingBehind ==
    \A t \in Thr : pc[t] = "talk" /\ vec_conn[slot[t]].up /\ ~sig => Mine(t).greeted

\* A greeting is waited for once per connection: the second wait would only end
\* with the receive timeout.
GreetedOnce == [][\A t \in Thr : Greet(t) => ~Mine(t).greeted]_vars

\* What Reset's warning says of a slot it finds in use: some thread uses it.
InUseMeansHeld ==
    \A i \in Slots : vec_conn[i].in_use =>
        \E t \in Thr : slot[t] = i /\ (t \in Holders \/ pc[t] = "connect")
=============================================================================
