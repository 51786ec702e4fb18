----------------------------- MODULE FetchBody -----------------------------
(***************************************************************************)
(* From the socket to the segment's stream: fetch_body and dot_unstuff     *)
(* (nzb.cpp), run by several threads on the buffers of BufPool (res_pool.h)*)
(* which are used again and again, never cleared, and swapped with each    *)
(* other while they are in use.                                            *)
(*                                                                         *)
(* A text is a sequence of characters: "n" is a CRLF, "." a dot, "x" any   *)
(* other, "2" the first line of the answer, "0" the '\0' of C's strings.   *)
(* What the session does with the rest of an answer that does not fit the  *)
(* room asked for is NntpSession's.                                        *)
(***************************************************************************)
EXTENDS Integers, Sequences, FiniteSets, SequencesExt

CONSTANTS
    Thr,       \* the threads that fetch segments
    Articles,  \* the bodies on the server: lines, each ended by "n"
    Room,      \* bufSize
    NFetch     \* how many bodies are fetched

ASSUME ThrAssumption == IsFiniteSet(Thr)
ASSUME ArticlesAssumption ==
    /\ Articles # {}
    /\ \A a \in Articles : a \in Seq({"n", ".", "x"}) /\ (a # <<>> => Last(a) = "n")
ASSUME RoomAssumption == Room \in Nat
ASSUME NFetchAssumption == NFetch \in Nat

VARIABLES
    vec_data,  \* _vec_data: the buffers of the pool
    pc,        \* where each thread is
    hndls,     \* the handles of each thread, innermost last
    art,       \* the article asked for
    net,       \* what the server has sent and the thread not received
    rb,        \* fetch_body's rb
    file,      \* what has been written to the segment's stream
    fetched    \* how many calls there have been

vars == <<vec_data, pc, hndls, art, net, rb, file, fetched>>

Char == {"n", ".", "x", "2", "0"}
Nothing == <<"0">>         \* a stream that nothing has been written to

TypeOK ==
    /\ \A i \in DOMAIN vec_data :
        vec_data[i].data \in Seq(Char) /\ vec_data[i].in_use \in BOOLEAN
    /\ pc \in [Thr -> {"idle", "recv", "unstuff", "copy", "write", "release"}]
    /\ \A t \in Thr : hndls[t] \in Seq(DOMAIN vec_data)
    /\ art \in [Thr -> Articles]
    /\ \A t \in Thr : net[t] \in Seq(Char) /\ file[t] \in Seq(Char)
    /\ rb \in [Thr -> 0 .. Room]
    /\ \A t \in Thr : pc[t] = "recv" => Len(vec_data[Last(hndls[t])].data) >= Room
    /\ fetched \in 0 .. NFetch

Init ==
    /\ vec_data = <<>>
    /\ pc = [t \in Thr |-> "idle"]
    /\ hndls = [t \in Thr |-> <<>>]
    /\ art \in { [t \in Thr |-> a] : a \in {CHOOSE a \in Articles : TRUE} }
    /\ net = [t \in Thr |-> <<>>]
    /\ rb = [t \in Thr |-> 0]
    /\ file = [t \in Thr |-> Nothing]
    /\ fetched = 0

-----------------------------------------------------------------------------
(* The server (RFC 3977, 3.1.1): a line that begins with a dot gets another*)
(* one, a line with a single dot ends the answer.                          *)

StartsLine(a, i) == i = 1 \/ a[i - 1] = "n"

Stuffed(a) ==
    LET s[i \in 0 .. Len(a)] ==
        IF i = 0 THEN <<>>
        ELSE s[i - 1] \o (IF StartsLine(a, i) /\ a[i] = "." THEN <<".", ".">> ELSE <<a[i]>>)
    IN s[Len(a)]

Answer(a) == <<"2", "n">> \o Stuffed(a) \o <<".", "n">>

-----------------------------------------------------------------------------
(* BufPool.                                                                *)

Held(v, i) == v[i].in_use

\* Mutant: only a new vector gets its size.
AdjustedOnce(d, sz) == IF d = <<>> THEN [i \in 1 .. sz |-> "0"] ELSE d

\* vec_adjust_sz: never smaller, the new places are '\0'.
Adjusted(d, sz) == IF sz > Len(d) THEN d \o [i \in 1 .. sz - Len(d) |-> "0"] ELSE d

FreeOnes == {i \in DOMAIN vec_data : ~Held(vec_data, i)}

\* Mutant: the element found is not marked.
GetUnmarked(t, sz) ==
    \/ /\ FreeOnes # {}
       /\ LET i == CHOOSE i \in FreeOnes : \A k \in FreeOnes : i <= k IN
          /\ vec_data' = [vec_data EXCEPT ![i].data = Adjusted(@, sz)]
          /\ hndls' = [hndls EXCEPT ![t] = Append(@, i)]
    \/ /\ FreeOnes = {}
       /\ vec_data' = Append(vec_data, [data |-> Adjusted(<<>>, sz), in_use |-> TRUE])
       /\ hndls' = [hndls EXCEPT ![t] = Append(@, Len(vec_data) + 1)]

\* GetHandle, the first element that is not in use or a new one, and the
\* vec_adjust_sz that follows it.
Get(t, sz) ==
    \/ /\ FreeOnes # {}
       /\ LET i == CHOOSE i \in FreeOnes : \A k \in FreeOnes : i <= k IN
          /\ vec_data' = [vec_data EXCEPT ![i] = [data |-> Adjusted(@.data, sz), in_use |-> TRUE]]
          /\ hndls' = [hndls EXCEPT ![t] = Append(@, i)]
    \/ /\ FreeOnes = {}
       /\ vec_data' = Append(vec_data, [data |-> Adjusted(<<>>, sz), in_use |-> TRUE])
       /\ hndls' = [hndls EXCEPT ![t] = Append(@, Len(vec_data) + 1)]

\* Mutant: ~handle leaves in_use as it is.
LetGoUnmarked(t) ==
    /\ hndls' = [hndls EXCEPT ![t] = Front(@)]
    /\ UNCHANGED vec_data

\* ~handle, of the innermost one.
LetGo(t) ==
    /\ vec_data' = [vec_data EXCEPT ![Last(hndls[t])].in_use = FALSE]
    /\ hndls' = [hndls EXCEPT ![t] = Front(@)]

-----------------------------------------------------------------------------
(* dot_unstuff, on a C string.                                             *)

\* Where strstr finds DOT_STUFF from p on: before the first '\0'.
Matches(v, p) ==
    {q \in p .. Len(v) - 2 :
        /\ v[q] = "n" /\ v[q + 1] = "." /\ v[q + 2] = "."
        /\ \A k \in p .. q : v[k] # "0"}

\* Mutant: the dot that is copied is not taken with the CRLF.
UnstuffedTwice(v) ==
    LET f[p \in 1 .. Len(v) + 3] ==
        IF Matches(v, p) = {} THEN SubSeq(v, p, Len(v))
        ELSE LET q == CHOOSE q \in Matches(v, p) : \A k \in Matches(v, p) : q <= k
             IN SubSeq(v, p, q) \o f[q + 3]
    IN f[1]

\* The loop: CRLF and a dot are copied, the second dot is skipped; the rest of
\* the vector follows, what is behind the '\0' included.
Unstuffed(v) ==
    LET f[p \in 1 .. Len(v) + 3] ==
        IF Matches(v, p) = {} THEN SubSeq(v, p, Len(v))
        ELSE LET q == CHOOSE q \in Matches(v, p) : \A k \in Matches(v, p) : q <= k
             IN SubSeq(v, p, q + 1) \o f[q + 3]
    IN f[1]

-----------------------------------------------------------------------------
(* fetch_body.                                                             *)

Moves(t, from, to) == pc[t] = from /\ pc' = [pc EXCEPT ![t] = to]
Buf(t) == vec_data[Last(hndls[t])].data

\* The command is sent, a buffer taken.
Begin(t) ==
    /\ Moves(t, "idle", "recv")
    /\ fetched < NFetch /\ fetched' = fetched + 1
    /\ \E a \in Articles : art' = [art EXCEPT ![t] = a] /\ net' = [net EXCEPT ![t] = Answer(a)]
    /\ rb' = [rb EXCEPT ![t] = 0]
    /\ file' = [file EXCEPT ![t] = Nothing]
    /\ Get(t, Room)

\* 480 and an auth() that succeeds: fetch_body calls itself, with its buffer
\* still held.  The server does not ask twice.
Again(t) ==
    /\ pc[t] = "recv" /\ UNCHANGED pc
    /\ rb[t] = 0 /\ Len(hndls[t]) = 1
    /\ Get(t, Room)
    /\ UNCHANGED <<art, net, rb, file, fetched>>

\* A code that is not 2xx, a receive that fails, the signal, an answer that does
\* not fit: an exception.
Throw(t) ==
    /\ Moves(t, "recv", "release")
    /\ UNCHANGED <<vec_data, hndls, art, net, rb, file, fetched>>

\* BODY_TERM is looked for at the end of what has been received.
Ends(d, r) == r >= 3 /\ SubSeq(d, r - 2, r) = <<"n", ".", "n">>

\* Mutant: the terminating '\0' is not written.
ReceiveUnterminated(t) ==
    /\ pc[t] = "recv"
    /\ rb[t] < Room - 1
    /\ \E m \in {k \in 1 .. Len(net[t]) : rb[t] + k <= Room} :
        LET r == rb[t] + m
            d == [i \in DOMAIN Buf(t) |-> IF i \in rb[t] + 1 .. r THEN net[t][i - rb[t]] ELSE Buf(t)[i]]
        IN
        /\ rb' = [rb EXCEPT ![t] = r]
        /\ net' = [net EXCEPT ![t] = SubSeq(@, m + 1, Len(@))]
        /\ vec_data' = [vec_data EXCEPT ![Last(hndls[t])].data = d]
        /\ pc' = [pc EXCEPT ![t] = IF Ends(d, r) THEN "unstuff" ELSE "recv"]
    /\ UNCHANGED <<hndls, art, file, fetched>>

\* The loop: it receives up to bufSize characters.  When the last of them ends the
\* answer, and the vector is no longer, the '\0' is written, and found, behind it.
Receive(t) ==
    /\ pc[t] = "recv"
    /\ rb[t] < Room - 1
    /\ \E m \in {k \in 1 .. Len(net[t]) : rb[t] + k <= Room} :
        LET r == rb[t] + m
            d == [i \in DOMAIN Buf(t) |-> IF i \in rb[t] + 1 .. r THEN net[t][i - rb[t]] ELSE Buf(t)[i]]
        IN
        /\ rb' = [rb EXCEPT ![t] = r]
        /\ net' = [net EXCEPT ![t] = SubSeq(@, m + 1, Len(@))]
        /\ vec_data' = [vec_data EXCEPT ![Last(hndls[t])].data =
                           IF Ends(d, r) /\ r < Len(d) THEN [d EXCEPT ![r + 1] = "0"] ELSE d]
        /\ pc' = [pc EXCEPT ![t] = IF Ends(d, r) THEN "unstuff" ELSE "recv"]
    /\ UNCHANGED <<hndls, art, file, fetched>>

\* dot_unstuff takes a second buffer ...
TakeTmp(t) ==
    /\ Moves(t, "unstuff", "copy")
    /\ Get(t, Len(Buf(t)))
    /\ UNCHANGED <<art, net, rb, file, fetched>>

\* ... fills it, and swaps the two vectors ...
CopyAndSwap(t) ==
    /\ Moves(t, "copy", "write")
    /\ LET tmp == Last(hndls[t])
           v == hndls[t][Len(hndls[t]) - 1]
           out == Unstuffed(vec_data[v].data)
       IN
       /\ vec_data' = [vec_data EXCEPT ![v].data = Append(out, "0"),
                                       ![tmp].data = vec_data[v].data]
       /\ rb' = [rb EXCEPT ![t] = @ - (Len(vec_data[v].data) - Len(out))]
    /\ UNCHANGED <<hndls, art, net, file, fetched>>

\* ... and gives it back; what is between the first line and the last dot of
\* the other is written.
Write(t) ==
    /\ Moves(t, "write", "release")
    /\ LET d == vec_data[hndls[t][Len(hndls[t]) - 1]].data
           p == CHOOSE p \in DOMAIN d : d[p] = "n" /\ \A k \in 1 .. p - 1 : d[k] # "n"
       IN file' = [file EXCEPT ![t] = SubSeq(d, p + 1, rb[t] - 2)]
    /\ LetGo(t)
    /\ UNCHANGED <<art, net, rb, fetched>>

\* The handles go with their frames, one by one.
Release(t) ==
    /\ pc[t] = "release"
    /\ LetGo(t)
    /\ pc' = [pc EXCEPT ![t] = IF Len(hndls[t]) = 1 THEN "idle" ELSE "release"]
    /\ UNCHANGED <<art, net, rb, file, fetched>>

Fetch(t) ==
    \/ Begin(t) \/ Again(t) \/ Throw(t) \/ Receive(t)
    \/ TakeTmp(t) \/ CopyAndSwap(t) \/ Write(t) \/ Release(t)

Done == fetched = NFetch /\ \A t \in Thr : pc[t] = "idle"

Next == (\E t \in Thr : Fetch(t)) \/ (Done /\ UNCHANGED vars)

Spec == Init /\ [][Next]_vars

-----------------------------------------------------------------------------
\* What reaches the stream is the article's body, to the character, however
\* the network cuts it, whatever the buffers held before and whichever thread
\* is in the pool at the same time (fetch_body, dot_unstuff and res_pool
\* together, against the dot-stuffing of RFC 3977).
WritesTheBody == \A t \in Thr : file[t] \in {Nothing, art[t]}

\* The pool holds as many buffers as can be in use at once, two for each thread
\* and one for an authentication, however many bodies are fetched and however
\* they fail; and an idle thread holds none.
NoBufferLost ==
    /\ Len(vec_data) <= 3 * Cardinality(Thr)
    /\ \A i \in DOMAIN vec_data :
        vec_data[i].in_use => \E t \in Thr : pc[t] # "idle" /\ i \in Range(hndls[t])
=============================================================================
