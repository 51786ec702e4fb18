--------------------------- MODULE ConnMgr_proofs ---------------------------
(***************************************************************************)
(* What ConnMgr keeps for every number of threads and of slots.            *)
(*                                                                         *)
(* The inductive invariant says that the lock is held exactly during a     *)
(* connection attempt, that a slot under attempt or behind a handle is in  *)
(* use and belongs to one thread, and that an open connection nobody is    *)
(* about to greet has its greeting behind it.                              *)
(***************************************************************************)
EXTENDS ConnMgr, TLAPS

\* A thread that owns its slot: by a handle, or while it reconnects it.
Owners == Holders \cup {t \in Thr : pc[t] = "connect" /\ slot[t] # NoSlot}

\* A handle in the state "opened" whose greeting the session is to read.
ToGreet(t) == pc[t] = "opened" /\ ~vec_conn[slot[t]].already_used

InvLock ==
    /\ \A t \in Thr : pc[t] = "connect" <=> mtx = t
    /\ \A t \in Thr : mtx = t /\ slot[t] = NoSlot => Len(vec_conn) < MaxConn
    /\ \A t \in Thr : pc[t] \in {"idle", "get"} => slot[t] = NoSlot

InvOwn ==
    /\ \A t \in Owners : slot[t] \in Slots /\ vec_conn[slot[t]].in_use
    /\ \A t, u \in Owners : t # u => slot[t] # slot[u]
    /\ dangling = {}

InvGreet ==
    /\ \A i \in Slots : Free(i) /\ vec_conn[i].up /\ ~sig => vec_conn[i].greeted
    /\ \A t \in Holders :
        /\ ToGreet(t) => ~vec_conn[slot[t]].greeted
        /\ ~ToGreet(t) /\ vec_conn[slot[t]].up /\ ~sig => vec_conn[slot[t]].greeted

IInv == TypeOK /\ InvLock /\ InvOwn /\ InvGreet

-----------------------------------------------------------------------------
\* Writing one slot keeps the vector's length and the other slots.
LEMMA SlotUpdate ==
    ASSUME NEW v \in Seq(Slot), NEW i \in DOMAIN v, NEW r \in Slot
    PROVE  /\ [v EXCEPT ![i] = r] \in Seq(Slot)
           /\ Len([v EXCEPT ![i] = r]) = Len(v)
OBVIOUS

\* Setting a flag of a slot leaves a slot.
LEMMA FlagUpdate ==
    ASSUME NEW r \in Slot
    PROVE  /\ [r EXCEPT !.in_use = TRUE, !.already_used = TRUE] \in Slot
           /\ [r EXCEPT !.in_use = TRUE] \in Slot
           /\ [r EXCEPT !.in_use = FALSE] \in Slot
           /\ [r EXCEPT !.up = FALSE] \in Slot
           /\ [r EXCEPT !.greeted = TRUE] \in Slot
<1>1. [r EXCEPT !.in_use = TRUE, !.already_used = TRUE] \in Slot
  BY Zenon DEF Slot
<1>2. [r EXCEPT !.in_use = TRUE] \in Slot
  BY Zenon DEF Slot
<1>3. [r EXCEPT !.in_use = FALSE] \in Slot
  BY Zenon DEF Slot
<1>4. [r EXCEPT !.up = FALSE] \in Slot
  BY Zenon DEF Slot
<1>5. [r EXCEPT !.greeted = TRUE] \in Slot
  BY Zenon DEF Slot
<1>. QED  BY <1>1, <1>2, <1>3, <1>4, <1>5

\* A new ConnMgr has no connection.
LEMMA InitIInv == Init => IInv
<1>. SUFFICES ASSUME Init PROVE IInv
  OBVIOUS
<1>1. TypeOK
  <2>1. <<>> \in Seq(Slot) /\ Len(<<>>) = 0
    OBVIOUS
  <2>2. vec_conn \in Seq(Slot) /\ Len(vec_conn) <= MaxConn
    BY <2>1, MaxConnAssumption DEF Init
  <2>3. slot \in [Thr -> 0 .. MaxConn] /\ pc \in [Thr -> PC]
    BY MaxConnAssumption DEF Init, PC, NoSlot
  <2>. QED  BY <2>2, <2>3 DEF Init, TypeOK
<1>2. InvLock /\ InvOwn /\ InvGreet
  BY ThrAssumption DEF Init, InvLock, InvOwn, InvGreet, Owners, Holders, Slots, NoSlot
<1>. QED  BY <1>1, <1>2 DEF IInv

\* One step per action of get_handle, release_handle and the sessions.
LEMMA NextIInv == IInv /\ [Next]_vars => IInv'
<1>. SUFFICES ASSUME IInv, [Next]_vars
              PROVE  IInv'
  OBVIOUS
<1>. USE MaxConnAssumption, ThrAssumption
     DEF IInv, Goes, PC, Slots, Free, Holders, Owners, NoSlot
<1>1. ASSUME NEW t \in Thr, Call(t) PROVE IInv'
  <2>1. TypeOK'
    BY <1>1 DEF Call, TypeOK, InvLock, InvOwn, Slot
  <2>2. InvLock'
    BY <1>1 DEF Call, TypeOK, InvLock
  <2>3. InvOwn'
    BY <1>1 DEF Call, TypeOK, InvLock, InvOwn, Slot
  <2>4. InvGreet'
    BY <1>1 DEF Call, TypeOK, InvLock, InvOwn, InvGreet, ToGreet, Slot
  <2>. QED  BY <2>1, <2>2, <2>3, <2>4
<1>2. ASSUME NEW t \in Thr, Reuse(t) PROVE IInv'
  <2>1. TypeOK'
    <3>1. PICK i \in Slots : /\ vec_conn' = [vec_conn EXCEPT ![i] = [@ EXCEPT !.in_use = TRUE, !.already_used = TRUE]]
                             /\ slot' = [slot EXCEPT ![t] = i]
      BY <1>2 DEF Reuse
    <3>2. [vec_conn[i] EXCEPT !.in_use = TRUE, !.already_used = TRUE] \in Slot
      <4>1. vec_conn[i] \in Slot
        BY DEF TypeOK
      <4>. QED  BY <4>1, FlagUpdate
    <3>3. vec_conn' \in Seq(Slot) /\ Len(vec_conn') = Len(vec_conn) /\ i \in 1 .. MaxConn
      BY <3>1, <3>2, SlotUpdate DEF TypeOK
    <3>. QED
      BY <1>2, <3>1, <3>3 DEF Reuse, TypeOK
  <2>2. InvLock'
    BY <1>2 DEF Reuse, FirstFree, TypeOK, InvLock
  <2>3. InvOwn'
    BY <1>2 DEF Reuse, FirstFree, TypeOK, InvLock, InvOwn, Slot
  <2>4. InvGreet'
    BY <1>2 DEF Reuse, FirstFree, TypeOK, InvLock, InvOwn, InvGreet, ToGreet, Slot
  <2>. QED  BY <2>1, <2>2, <2>3, <2>4
<1>3. ASSUME NEW t \in Thr, BeginReconnect(t) PROVE IInv'
  <2>1. TypeOK'
    <3>1. PICK i \in Slots : /\ vec_conn' = [vec_conn EXCEPT ![i] = [@ EXCEPT !.in_use = TRUE]]
                             /\ slot' = [slot EXCEPT ![t] = i]
      BY <1>3 DEF BeginReconnect
    <3>2. [vec_conn[i] EXCEPT !.in_use = TRUE] \in Slot
      <4>1. vec_conn[i] \in Slot
        BY DEF TypeOK
      <4>. QED  BY <4>1, FlagUpdate
    <3>3. vec_conn' \in Seq(Slot) /\ Len(vec_conn') = Len(vec_conn) /\ i \in 1 .. MaxConn
      BY <3>1, <3>2, SlotUpdate DEF TypeOK
    <3>. QED
      BY <1>3, <3>1, <3>3 DEF BeginReconnect, TypeOK
  <2>2. InvLock'
    BY <1>3 DEF BeginReconnect, FirstFree, TypeOK, InvLock
  <2>3. InvOwn'
    BY <1>3 DEF BeginReconnect, FirstFree, TypeOK, InvLock, InvOwn, Slot
  <2>4. InvGreet'
    BY <1>3 DEF BeginReconnect, FirstFree, TypeOK, InvLock, InvOwn, InvGreet, ToGreet, Slot
  <2>. QED  BY <2>1, <2>2, <2>3, <2>4
<1>4. ASSUME NEW t \in Thr, ReconnectOk(t) PROVE IInv'
  <2>1. TypeOK'
    BY <1>4 DEF ReconnectOk, TypeOK, InvLock, InvOwn, Slot
  <2>2. InvLock'
    BY <1>4 DEF ReconnectOk, TypeOK, InvLock
  <2>3. InvOwn'
    BY <1>4 DEF ReconnectOk, TypeOK, InvLock, InvOwn, Slot
  <2>4. InvGreet'
    BY <1>4 DEF ReconnectOk, TypeOK, InvLock, InvOwn, InvGreet, ToGreet, Slot
  <2>. QED  BY <2>1, <2>2, <2>3, <2>4
<1>5. ASSUME NEW t \in Thr, ReconnectFail(t) PROVE IInv'
  <2>1. TypeOK'
    BY <1>5 DEF ReconnectFail, TypeOK, InvLock, InvOwn, Slot
  <2>2. InvLock'
    BY <1>5 DEF ReconnectFail, TypeOK, InvLock
  <2>3. InvOwn'
    BY <1>5 DEF ReconnectFail, TypeOK, InvLock, InvOwn, Slot
  <2>4. InvGreet'
    BY <1>5 DEF ReconnectFail, TypeOK, InvLock, InvOwn, InvGreet, ToGreet, Slot
  <2>. QED  BY <2>1, <2>2, <2>3, <2>4
<1>6. ASSUME NEW t \in Thr, BeginConnect(t) PROVE IInv'
  <2>1. TypeOK'
    BY <1>6 DEF BeginConnect, NoneFree, TypeOK, InvLock, InvOwn, Slot
  <2>2. InvLock'
    BY <1>6 DEF BeginConnect, NoneFree, TypeOK, InvLock
  <2>3. InvOwn'
    BY <1>6 DEF BeginConnect, NoneFree, TypeOK, InvLock, InvOwn, Slot
  <2>4. InvGreet'
    BY <1>6 DEF BeginConnect, NoneFree, TypeOK, InvLock, InvOwn, InvGreet, ToGreet, Slot
  <2>. QED  BY <2>1, <2>2, <2>3, <2>4
<1>7. ASSUME NEW t \in Thr, ConnectOk(t) PROVE IInv'
  <2>1. TypeOK'
    BY <1>7 DEF ConnectOk, TypeOK, InvLock, InvOwn, Slot
  <2>2. InvLock'
    BY <1>7 DEF ConnectOk, TypeOK, InvLock
  <2>3. InvOwn'
    BY <1>7 DEF ConnectOk, TypeOK, InvLock, InvOwn, Slot
  <2>4. InvGreet'
    BY <1>7 DEF ConnectOk, TypeOK, InvLock, InvOwn, InvGreet, ToGreet, Slot
  <2>. QED  BY <2>1, <2>2, <2>3, <2>4
<1>8. ASSUME NEW t \in Thr, ConnectFail(t) PROVE IInv'
  <2>1. TypeOK'
    BY <1>8 DEF ConnectFail, TypeOK, InvLock, InvOwn, Slot
  <2>2. InvLock'
    BY <1>8 DEF ConnectFail, TypeOK, InvLock
  <2>3. InvOwn'
    BY <1>8 DEF ConnectFail, TypeOK, InvLock, InvOwn, Slot
  <2>4. InvGreet'
    BY <1>8 DEF ConnectFail, TypeOK, InvLock, InvOwn, InvGreet, ToGreet, Slot
  <2>. QED  BY <2>1, <2>2, <2>3, <2>4
<1>9. ASSUME NEW t \in Thr, NoneLeft(t) PROVE IInv'
  <2>1. TypeOK'
    BY <1>9 DEF NoneLeft, NoneFree, TypeOK, InvLock, InvOwn, Slot
  <2>2. InvLock'
    BY <1>9 DEF NoneLeft, NoneFree, TypeOK, InvLock
  <2>3. InvOwn'
    BY <1>9 DEF NoneLeft, NoneFree, TypeOK, InvLock, InvOwn, Slot
  <2>4. InvGreet'
    BY <1>9 DEF NoneLeft, NoneFree, TypeOK, InvLock, InvOwn, InvGreet, ToGreet, Slot
  <2>. QED  BY <2>1, <2>2, <2>3, <2>4
<1>10. ASSUME NEW t \in Thr, Greet(t) PROVE IInv'
  <2>1. TypeOK'
    <3>1. slot[t] \in Slots /\ [Mine(t) EXCEPT !.greeted = TRUE] \in Slot
      <4>1. slot[t] \in Slots /\ Mine(t) \in Slot
        BY <1>10 DEF Greet, InvOwn, TypeOK, Mine
      <4>. QED  BY <4>1, FlagUpdate
    <3>2. vec_conn' = [vec_conn EXCEPT ![slot[t]] = [Mine(t) EXCEPT !.greeted = TRUE]]
      BY <1>10 DEF Greet, Mine
    <3>3. vec_conn' \in Seq(Slot) /\ Len(vec_conn') = Len(vec_conn)
      BY <3>1, <3>2, SlotUpdate DEF TypeOK
    <3>. QED
      BY <1>10, <3>3 DEF Greet, TypeOK
  <2>2. InvLock'
    BY <1>10 DEF Greet, ReadsGreeting, Mine, TypeOK, InvLock
  <2>3. InvOwn'
    <3>1. Owners' = Owners /\ slot' = slot /\ dangling' = dangling
      BY <1>10 DEF Greet, TypeOK
    <3>2. \A i \in Slots : i \in Slots' /\ vec_conn'[i].in_use = vec_conn[i].in_use
      BY <1>10 DEF Greet, TypeOK, Slot
    <3>. QED  BY <3>1, <3>2 DEF InvOwn
  <2>4. InvGreet'
    BY <1>10 DEF Greet, ReadsGreeting, Mine, TypeOK, InvLock, InvOwn, InvGreet, ToGreet, Slot
  <2>. QED  BY <2>1, <2>2, <2>3, <2>4
<1>11. ASSUME NEW t \in Thr, SkipGreeting(t) PROVE IInv'
  <2>1. TypeOK'
    BY <1>11 DEF SkipGreeting, ReadsGreeting, Mine, TypeOK, InvLock, InvOwn, Slot
  <2>2. InvLock'
    BY <1>11 DEF SkipGreeting, ReadsGreeting, Mine, TypeOK, InvLock
  <2>3. InvOwn'
    BY <1>11 DEF SkipGreeting, ReadsGreeting, Mine, TypeOK, InvLock, InvOwn, Slot
  <2>4. InvGreet'
    BY <1>11 DEF SkipGreeting, ReadsGreeting, Mine, TypeOK, InvLock, InvOwn, InvGreet, ToGreet, Slot
  <2>. QED  BY <2>1, <2>2, <2>3, <2>4
<1>12. ASSUME NEW t \in Thr, EndSession(t) PROVE IInv'
  <2>1. TypeOK'
    BY <1>12 DEF EndSession, ReadsGreeting, Mine, TypeOK, InvLock, InvOwn, Slot
  <2>2. InvLock'
    BY <1>12 DEF EndSession, ReadsGreeting, Mine, TypeOK, InvLock
  <2>3. InvOwn'
    BY <1>12 DEF EndSession, ReadsGreeting, Mine, TypeOK, InvLock, InvOwn, Slot
  <2>4. InvGreet'
    BY <1>12 DEF EndSession, ReadsGreeting, Mine, TypeOK, InvLock, InvOwn, InvGreet, ToGreet, Slot
  <2>. QED  BY <2>1, <2>2, <2>3, <2>4
<1>13. ASSUME NEW t \in Thr, Drop(t) PROVE IInv'
  <2>1. TypeOK'
    <3>1. slot[t] \in Slots /\ [Mine(t) EXCEPT !.up = FALSE] \in Slot
      <4>1. slot[t] \in Slots /\ Mine(t) \in Slot
        BY <1>13 DEF Drop, InvOwn, TypeOK, Mine
      <4>. QED  BY <4>1, FlagUpdate
    <3>2. vec_conn' = [vec_conn EXCEPT ![slot[t]] = [Mine(t) EXCEPT !.up = FALSE]]
      BY <1>13 DEF Drop, Mine
    <3>3. vec_conn' \in Seq(Slot) /\ Len(vec_conn') = Len(vec_conn)
      BY <3>1, <3>2, SlotUpdate DEF TypeOK
    <3>. QED
      BY <1>13, <3>3 DEF Drop, TypeOK
  <2>2. InvLock'
    BY <1>13 DEF Drop, ReadsGreeting, Mine, TypeOK, InvLock
  <2>3. InvOwn'
    <3>1. Owners' = Owners /\ slot' = slot /\ dangling' = dangling
      BY <1>13 DEF Drop, TypeOK
    <3>2. \A i \in Slots : i \in Slots' /\ vec_conn'[i].in_use = vec_conn[i].in_use
      BY <1>13 DEF Drop, TypeOK, Slot
    <3>. QED  BY <3>1, <3>2 DEF InvOwn
  <2>4. InvGreet'
    BY <1>13 DEF Drop, ReadsGreeting, Mine, TypeOK, InvLock, InvOwn, InvGreet, ToGreet, Slot
  <2>. QED  BY <2>1, <2>2, <2>3, <2>4
<1>14. ASSUME NEW t \in Thr, Release(t) PROVE IInv'
  <2>1. TypeOK'
    <3>1. slot[t] \in Slots /\ [Mine(t) EXCEPT !.in_use = FALSE] \in Slot
      <4>1. slot[t] \in Slots /\ Mine(t) \in Slot
        BY <1>14 DEF Release, InvOwn, TypeOK, Mine
      <4>. QED  BY <4>1, FlagUpdate
    <3>2. vec_conn' = [vec_conn EXCEPT ![slot[t]] = [Mine(t) EXCEPT !.in_use = FALSE]]
      BY <1>14 DEF Release, Mine
    <3>3. vec_conn' \in Seq(Slot) /\ Len(vec_conn') = Len(vec_conn)
      BY <3>1, <3>2, SlotUpdate DEF TypeOK
    <3>. QED
      BY <1>14, <3>3 DEF Release, TypeOK
  <2>2. InvLock'
    BY <1>14 DEF Release, TypeOK, InvLock
  <2>3. InvOwn'
    BY <1>14 DEF Release, TypeOK, InvLock, InvOwn, Slot
  <2>4. InvGreet'
    BY <1>14 DEF Release, TypeOK, InvLock, InvOwn, InvGreet, ToGreet, Slot
  <2>. QED  BY <2>1, <2>2, <2>3, <2>4
<1>15. CASE Reset
  <2>1. Holders = {}
    BY <1>15 DEF Reset, ResetRefused, InvOwn
  <2>2. <<>> \in Seq(Slot) /\ Len(<<>>) = 0
    OBVIOUS
  <2>3. vec_conn' = <<>> /\ dangling' = dangling /\ mtx = NoThr /\ UNCHANGED <<mtx, pc, slot, sig>>
    BY <1>15, <2>1 DEF Reset
  <2>4. TypeOK'
    BY <2>2, <2>3 DEF TypeOK
  <2>5. InvLock' /\ InvOwn' /\ InvGreet'
    BY <2>1, <2>2, <2>3 DEF InvLock, InvOwn, InvGreet
  <2>. QED  BY <2>4, <2>5
<1>16. CASE Signal
  BY <1>16 DEF Signal, connVars, TypeOK, InvLock, InvOwn, InvGreet, ToGreet
<1>17. CASE UNCHANGED vars
  BY <1>17 DEF vars, TypeOK, InvLock, InvOwn, InvGreet, ToGreet
<1>. QED
  BY <1>1, <1>2, <1>3, <1>4, <1>5, <1>6, <1>7, <1>8, <1>9, <1>10, <1>11, <1>12, <1>13, <1>14, <1>15, <1>16, <1>17
     DEF Next, GetHandle, Session

\* IInv holds in every reachable state.
LEMMA Invariance == Spec => []IInv
BY InitIInv, NextIInv, PTL DEF Spec

-----------------------------------------------------------------------------
\* In every reachable state the variables have their types, and the pool has
\* at most MaxConn slots.
THEOREM TypeCorrect == Spec => []TypeOK
BY Invariance, PTL DEF IInv

\* Two threads never hold the same connection, and GetHandle and Reset see the
\* slot of every handle as in use, for any number of threads and connections.
THEOREM ExclusiveHolds == Spec => []Exclusive
<1>1. IInv => Exclusive
  BY DEF IInv, InvOwn, Owners, Exclusive
<1>. QED  BY <1>1, Invariance, PTL

\* No ConnHandle refers to a Connection or a flag that has been freed.
THEOREM NoDanglingHolds == Spec => []NoDangling
<1>1. IInv => NoDangling
  BY DEF IInv, InvOwn, NoDangling
<1>. QED  BY <1>1, Invariance, PTL

\* A session never takes the greeting for the answer to its first command.
THEOREM GreetingBehindHolds == Spec => []GreetingBehind
<1>1. IInv => GreetingBehind
  BY DEF IInv, InvGreet, ToGreet, GreetingBehind, Mine, Holders
<1>. QED  BY <1>1, Invariance, PTL

\* The greeting of a connection is not read twice.
THEOREM GreetedOnceHolds == Spec => GreetedOnce
<1>1. IInv /\ [Next]_vars => [\A t \in Thr : Greet(t) => ~Mine(t).greeted]_vars
  BY DEF IInv, InvGreet, ToGreet, Holders, Greet, Goes, ReadsGreeting, Mine
<1>. QED  BY <1>1, Invariance, PTL DEF Spec, GreetedOnce
=============================================================================
