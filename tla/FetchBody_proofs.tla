-------------------------- MODULE FetchBody_proofs --------------------------
(***************************************************************************)
(* For every number of threads, of fetches, every article and every length *)
(* of the buffers.  First the buffers of BufPool: each one in use is held  *)
(* by one frame of one thread, so that none is lost, none is shared, and   *)
(* the pool stops growing.  Then what they contain: dot_unstuff undoes the *)
(* server's dot-stuffing, whatever is behind the answer, and BODY_TERM is  *)
(* found at the answer's end and nowhere before it; so, since no other     *)
(* thread writes to a buffer that is held, the article is what is written. *)
(***************************************************************************)
EXTENDS FetchBody, FiniteSetTheorems, SequenceTheorems, WellFoundedInduction, TLAPS

\* The vector of the pool, whatever its buffers contain.
Buffers(data) == [data : data, in_use : BOOLEAN]
IsPool(v) == v \in Seq(Buffers({v[i].data : i \in DOMAIN v}))

\* The j-th frame of thread t holds buffer i.
Holds(h, t, j, i) == j \in 1 .. Len(h[t]) /\ h[t][j] = i

TypeHeld ==
    /\ IsPool(vec_data)
    /\ pc \in [Thr -> {"idle", "recv", "unstuff", "copy", "write", "release"}]
    /\ hndls \in [Thr -> Seq(1 .. Len(vec_data))]

\* The frames that hold a buffer, from where a thread is.
Frames(p) ==
    CASE p = "idle" -> {0}
      [] p \in {"recv", "unstuff"} -> {1, 2}
      [] p \in {"copy", "write"} -> {2, 3}
      [] p = "release" -> {1, 2, 3}

InvFrames == \A t \in Thr : Len(hndls[t]) \in Frames(pc[t])

\* A buffer is marked while somebody holds it, and then only one frame does.
InvMarked ==
    \A i \in DOMAIN vec_data : vec_data[i].in_use <=> \E t \in Thr : \E j \in 1 .. 3 : Holds(hndls, t, j, i)
InvOne ==
    \A t, u \in Thr : \A j, k \in 1 .. 3 : \A i \in DOMAIN vec_data :
        Holds(hndls, t, j, i) /\ Holds(hndls, u, k, i) => t = u /\ j = k

InvSize == Len(vec_data) <= 3 * Cardinality(Thr)

IInv == TypeHeld /\ InvFrames /\ InvMarked /\ InvOne /\ InvSize

-----------------------------------------------------------------------------
\* A set of numbers that is not empty has a least one: the element that
\* GetHandle finds.
LEMMA Smallest ==
    ASSUME NEW T, T \subseteq Nat, T # {}
    PROVE  \E n \in T : \A k \in T : n <= k
<1>1. PICK n \in T : \A k \in T : ~(<<k, n>> \in OpToRel(<, Nat))
  BY NatLessThanWellFounded, WFMin
<1>2. ASSUME NEW k \in T, k < n PROVE FALSE
  BY <1>1, <1>2 DEF OpToRel
<1>. QED  BY <1>2

\* When all buffers are held, there are three for each thread at most.
LEMMA AllHeld ==
    ASSUME NEW n \in Nat, NEW h,
           \A i \in 1 .. n : \E t \in Thr : \E j \in 1 .. 3 : h[t][j] = i
    PROVE  n <= 3 * Cardinality(Thr)
<1>. DEFINE T == Thr \X (1 .. 3)
            f == [i \in 1 .. n |-> CHOOSE p \in T : h[p[1]][p[2]] = i]
<1>1. IsFiniteSet(1 .. 3) /\ Cardinality(1 .. 3) = 3
  <2>1. PICK m \in Nat : m = 3
    OBVIOUS
  <2>2. IsFiniteSet(1 .. m) /\ Cardinality(1 .. m) = m
    BY FS_Interval
  <2>. QED  BY <2>1, <2>2
<1>2. IsFiniteSet(1 .. n) /\ Cardinality(1 .. n) = n
  BY FS_Interval
<1>3. IsFiniteSet(T) /\ Cardinality(T) = Cardinality(Thr) * 3
  BY <1>1, ThrAssumption, FS_Product
<1>4. ASSUME NEW i \in 1 .. n
      PROVE  f[i] \in T /\ h[f[i][1]][f[i][2]] = i
  <2>1. PICK t \in Thr : \E j \in 1 .. 3 : h[t][j] = i
    OBVIOUS
  <2>2. PICK j \in 1 .. 3 : h[t][j] = i
    BY <2>1
  <2>3. \E p \in T : h[p[1]][p[2]] = i
    <3>1. <<t, j>> \in T /\ <<t, j>>[1] = t /\ <<t, j>>[2] = j
      OBVIOUS
    <3>. QED  BY <3>1, <2>2
  <2>. QED  BY <2>3
<1>5. f \in Injection(1 .. n, T)
  <2>1. f \in [1 .. n -> T]
    BY <1>4
  <2>2. \A i, k \in 1 .. n : f[i] = f[k] => i = k
    BY <1>4
  <2>. QED  BY <2>1, <2>2 DEF Injection, IsInjective
<1>6. Cardinality(1 .. n) <= Cardinality(T)
  BY <1>2, <1>3, <1>5, FS_Injection
<1>7. Cardinality(Thr) \in Nat
  BY ThrAssumption, FS_CardinalityType
<1>. QED  BY <1>2, <1>3, <1>6, <1>7

-----------------------------------------------------------------------------
(* The steps on the pool.                                                  *)

\* Whether a sequence is a pool does not depend on the contents.
LEMMA PoolOf ==
    ASSUME NEW D, NEW v \in Seq(Buffers(D))
    PROVE  IsPool(v)
<1>1. v \in [1 .. Len(v) -> Buffers(D)] /\ Len(v) \in Nat /\ DOMAIN v = 1 .. Len(v)
  BY LenProperties
<1>. DEFINE E == {v[i].data : i \in DOMAIN v}
<1>2. \A i \in DOMAIN v : v[i] \in Buffers(E)
  BY <1>1 DEF Buffers
<1>. HIDE DEF E
<1>3. v \in [1 .. Len(v) -> Buffers(E)]
  BY <1>1, <1>2
<1>4. v \in Seq(Buffers(E))
  BY <1>1, <1>3, SeqDef
<1>. QED  BY <1>4 DEF IsPool, E

\* GetHandle, for a frame of a thread that has one or two, or none.
LEMMA GetKeeps ==
    ASSUME TypeHeld, InvMarked, InvOne, InvSize,
           NEW t \in Thr, NEW sz, Len(hndls[t]) \in 0 .. 2, Get(t, sz)
    PROVE  /\ IsPool(vec_data') /\ hndls' \in [Thr -> Seq(1 .. Len(vec_data'))]
           /\ Len(hndls'[t]) = Len(hndls[t]) + 1 /\ \A u \in Thr \ {t} : hndls'[u] = hndls[u]
           /\ InvMarked' /\ InvOne' /\ InvSize'
<1>. USE DEF TypeHeld
<1>0. PICK D : vec_data \in Seq(Buffers(D))
  BY DEF IsPool
<1>a. DOMAIN vec_data = 1 .. Len(vec_data) /\ Len(vec_data) \in Nat
  BY <1>0
<1>1. PICK i, d : 
        /\ \/ i \in FreeOnes /\ vec_data' = [vec_data EXCEPT ![i] = [data |-> d, in_use |-> TRUE]]
           \/ FreeOnes = {} /\ i = Len(vec_data) + 1 /\ vec_data' = Append(vec_data, [data |-> d, in_use |-> TRUE])
        /\ hndls' = [hndls EXCEPT ![t] = Append(@, i)]
  <2>1. CASE FreeOnes # {}
    <3>1. FreeOnes \subseteq Nat
      BY <1>0 DEF FreeOnes
    <3>2. \E n \in FreeOnes : \A k \in FreeOnes : n <= k
      BY <2>1, <3>1, Smallest
    <3>3. PICK i \in FreeOnes : i = CHOOSE n \in FreeOnes : \A k \in FreeOnes : n <= k
      BY <3>2
    <3>. QED  BY <2>1, <3>3 DEF Get
  <2>2. CASE FreeOnes = {}
    BY <2>2 DEF Get
  <2>. QED  BY <2>1, <2>2
<1>2. /\ vec_data' \in Seq(Buffers(D \cup {d}))
      /\ i \in 1 .. Len(vec_data') /\ Len(vec_data') \in Nat /\ Len(vec_data) <= Len(vec_data')
      /\ DOMAIN vec_data' = 1 .. Len(vec_data') /\ DOMAIN vec_data' = DOMAIN vec_data \cup {i}
      /\ vec_data'[i].in_use = TRUE
      /\ \A k \in DOMAIN vec_data \ {i} : vec_data'[k] = vec_data[k]
      /\ i \in DOMAIN vec_data => ~vec_data[i].in_use
      /\ Len(vec_data') # Len(vec_data) => FreeOnes = {}
  <2>. DEFINE b == [data |-> d, in_use |-> TRUE]
              S == Buffers(D \cup {d})
  <2>1. b \in S /\ b.in_use = TRUE /\ Buffers(D) \subseteq S
    BY DEF Buffers
  <2>2. vec_data \in Seq(S)
    BY <1>0, <2>1, SeqMonotonic
  <2>. HIDE DEF b, S
  <2>3. CASE i \in FreeOnes /\ vec_data' = [vec_data EXCEPT ![i] = b]
    <3>1. i \in 1 .. Len(vec_data) /\ ~vec_data[i].in_use
      BY <1>a, <2>3 DEF FreeOnes, Held
    <3>2. /\ vec_data' \in Seq(S) /\ Len(vec_data') = Len(vec_data)
          /\ \A j \in 1 .. Len(vec_data) : vec_data'[j] = IF j = i THEN b ELSE vec_data[j]
      BY <2>1, <2>2, <2>3, <3>1, ExceptSeq
    <3>3. DOMAIN vec_data' = 1 .. Len(vec_data')
      BY <3>2
    <3>4. /\ DOMAIN vec_data' = DOMAIN vec_data \cup {i} /\ vec_data'[i].in_use = TRUE
          /\ \A k \in DOMAIN vec_data \ {i} : vec_data'[k] = vec_data[k]
      BY <1>a, <2>1, <3>1, <3>2, <3>3
    <3>. QED  BY <1>a, <3>1, <3>2, <3>3, <3>4 DEF S
  <2>4. CASE FreeOnes = {} /\ i = Len(vec_data) + 1 /\ vec_data' = Append(vec_data, b)
    <3>1. /\ vec_data' \in Seq(S) /\ Len(vec_data') = Len(vec_data) + 1
          /\ \A k \in 1 .. Len(vec_data) : vec_data'[k] = vec_data[k]
          /\ vec_data'[Len(vec_data) + 1] = b
      BY <2>1, <2>2, <2>4, AppendProperties
    <3>2. DOMAIN vec_data' = 1 .. Len(vec_data')
      BY <3>1
    <3>3. /\ DOMAIN vec_data' = DOMAIN vec_data \cup {i} /\ vec_data'[i].in_use = TRUE
          /\ \A k \in DOMAIN vec_data \ {i} : vec_data'[k] = vec_data[k]
      BY <1>a, <2>1, <2>4, <3>1, <3>2
    <3>. QED  BY <1>a, <2>4, <3>1, <3>2, <3>3 DEF S
  <2>. QED  BY <1>1, <2>3, <2>4 DEF b
<1>3. IsPool(vec_data')
  BY <1>2, PoolOf
<1>4. hndls' \in [Thr -> Seq(1 .. Len(vec_data'))]
  <2>1. 1 .. Len(vec_data) \subseteq 1 .. Len(vec_data')
    BY <1>a, <1>2
  <2>2. \A u \in Thr : hndls[u] \in Seq(1 .. Len(vec_data'))
    BY <2>1, SeqMonotonic
  <2>3. Append(hndls[t], i) \in Seq(1 .. Len(vec_data'))
    BY <1>2, <2>2
  <2>. QED  BY <1>1, <2>2, <2>3
<1>5. /\ Len(hndls'[t]) = Len(hndls[t]) + 1 /\ hndls'[t][Len(hndls[t]) + 1] = i
      /\ \A k \in 1 .. Len(hndls[t]) : hndls'[t][k] = hndls[t][k]
      /\ \A u \in Thr \ {t} : hndls'[u] = hndls[u]
  BY <1>1
<1>6. \A u \in Thr : \A j \in 1 .. 3 : \A k \in DOMAIN vec_data' :
        Holds(hndls', u, j, k) <=> Holds(hndls, u, j, k) \/ (u = t /\ j = Len(hndls[t]) + 1 /\ k = i)
  <2>1. PICK m \in 0 .. 2 : m = Len(hndls[t])
    OBVIOUS
  <2>2. ASSUME NEW j \in 1 .. 3, NEW k \in DOMAIN vec_data'
        PROVE  Holds(hndls', t, j, k) <=> Holds(hndls, t, j, k) \/ (j = m + 1 /\ k = i)
    BY <1>5, <2>1 DEF Holds
  <2>3. ASSUME NEW u \in Thr, u # t, NEW j \in 1 .. 3, NEW k \in DOMAIN vec_data'
        PROVE  Holds(hndls', u, j, k) <=> Holds(hndls, u, j, k)
    BY <1>5, <2>3 DEF Holds
  <2>. QED  BY <2>1, <2>2, <2>3
<1>7. \A u \in Thr : \A j \in 1 .. 3 : ~Holds(hndls, u, j, i)
  <2>1. ASSUME NEW u \in Thr, NEW j \in 1 .. 3, Holds(hndls, u, j, i)
        PROVE  FALSE
    <3>1. i \in DOMAIN vec_data
      BY <1>a, <2>1 DEF Holds
    <3>. QED  BY <1>2, <2>1, <3>1 DEF InvMarked
  <2>. QED  BY <2>1
<1>8. InvMarked'
  <2>1. \A k \in DOMAIN vec_data' : vec_data'[k].in_use <=> k = i \/ (k \in DOMAIN vec_data /\ vec_data[k].in_use)
    BY <1>2
  <2>2. \A u \in Thr : \A j \in 1 .. 3 : \A k \in DOMAIN vec_data' : Holds(hndls, u, j, k) => k \in DOMAIN vec_data
    BY <1>a DEF Holds
  <2>3. Len(hndls[t]) + 1 \in 1 .. 3
    <3>1. \A m \in 0 .. 2 : m + 1 \in 1 .. 3
      OBVIOUS
    <3>. QED  BY <3>1
  <2>. QED  BY <1>6, <2>1, <2>2, <2>3 DEF InvMarked
<1>9. InvOne'
  <2>1. SUFFICES ASSUME NEW u \in Thr, NEW w \in Thr, NEW j \in 1 .. 3, NEW k \in 1 .. 3,
                        NEW m \in DOMAIN vec_data', Holds(hndls', u, j, m), Holds(hndls', w, k, m)
                 PROVE  u = w /\ j = k
    BY DEF InvOne
  <2>2. CASE m = i
    BY <1>6, <1>7, <2>1, <2>2
  <2>3. CASE m # i
    <3>1. Holds(hndls, u, j, m) /\ Holds(hndls, w, k, m) /\ m \in DOMAIN vec_data
      BY <1>2, <1>6, <2>1, <2>3
    <3>. QED  BY <3>1 DEF InvOne
  <2>. QED  BY <2>2, <2>3
<1>10. InvSize'
  <2>1. CASE Len(vec_data') = Len(vec_data)
    BY <2>1 DEF InvSize
  <2>2. CASE Len(vec_data') # Len(vec_data)
    <3>1. FreeOnes = {}
      BY <1>a, <1>1, <2>2 DEF FreeOnes
    <3>2. \A k \in 1 .. Len(vec_data') : vec_data'[k].in_use
      BY <1>a, <1>2, <3>1 DEF FreeOnes, Held, IsPool
    <3>3. \A k \in DOMAIN vec_data' : \E u \in Thr : \E j \in 1 .. 3 : Holds(hndls', u, j, k)
      BY <1>2, <1>8, <3>2 DEF InvMarked
    <3>4. \A k \in 1 .. Len(vec_data') : \E u \in Thr : \E j \in 1 .. 3 : hndls'[u][j] = k
      BY <1>2, <3>3 DEF Holds
    <3>5. Len(vec_data') <= 3 * Cardinality(Thr)
      <4>1. PICK n \in Nat : n = Len(vec_data')
        BY <1>2
      <4>2. \A k \in 1 .. n : \E u \in Thr : \E j \in 1 .. 3 : hndls'[u][j] = k
        BY <3>4, <4>1
      <4>3. n <= 3 * Cardinality(Thr)
        BY <4>2, AllHeld
      <4>. QED  BY <4>1, <4>3
    <3>. QED  BY <3>5 DEF InvSize
  <2>. QED  BY <2>1, <2>2
<1>. QED  BY <1>2, <1>3, <1>4, <1>5, <1>8, <1>9, <1>10

\* All of a sequence but its last element, and that one.
LEMMA FrontIs ==
    ASSUME NEW S, NEW s \in Seq(S), Len(s) \in Nat \ {0}
    PROVE  /\ Front(s) \in Seq(S) /\ Len(Front(s)) = Len(s) - 1
           /\ \A j \in 1 .. Len(s) - 1 : Front(s)[j] = s[j]
           /\ Last(s) = s[Len(s)] /\ Last(s) \in S
<1>1. PICK n \in 0 .. Len(s) : n = Len(s) - 1
  <2>1. Len(s) - 1 \in 0 .. Len(s)
    OBVIOUS
  <2>. QED  BY <2>1
<1>2. \A j \in 1 .. n : s[j] \in S
  BY <1>1, ElementOfSeq
<1>3. /\ SubSeq(s, 1, n) \in Seq(S) /\ Len(SubSeq(s, 1, n)) = n
      /\ \A j \in 1 .. n : SubSeq(s, 1, n)[j] = s[j]
  BY <1>1, <1>2, SubSeqProperties
<1>. QED  BY <1>1, <1>3 DEF Front, Last

\* ~handle: the buffer has no other holder, and is free again.
LEMMA LetGoKeeps ==
    ASSUME TypeHeld, InvMarked, InvOne, InvSize, NEW t \in Thr, Len(hndls[t]) \in 1 .. 3, LetGo(t)
    PROVE  /\ IsPool(vec_data') /\ hndls' \in [Thr -> Seq(1 .. Len(vec_data'))]
           /\ Len(hndls'[t]) = Len(hndls[t]) - 1 /\ \A u \in Thr \ {t} : hndls'[u] = hndls[u]
           /\ InvMarked' /\ InvOne' /\ InvSize'
<1>. USE DEF TypeHeld
<1>1. PICK D : vec_data \in Seq(Buffers(D))
  BY DEF IsPool
<1>2. DOMAIN vec_data = 1 .. Len(vec_data) /\ Len(vec_data) \in Nat
  BY <1>1
<1>3. PICK n \in 1 .. 3 : n = Len(hndls[t])
  OBVIOUS
<1>h. hndls[t] \in Seq(1 .. Len(vec_data)) /\ Len(hndls[t]) \in Nat \ {0}
  BY <1>3
<1>4. PICK i \in DOMAIN vec_data : i = Last(hndls[t]) /\ i = hndls[t][n]
  <2>1. Last(hndls[t]) = hndls[t][n] /\ Last(hndls[t]) \in 1 .. Len(vec_data)
    BY <1>3, <1>h, FrontIs
  <2>. QED  BY <1>2, <2>1
<1>5. /\ vec_data' \in Seq(Buffers(D)) /\ Len(vec_data') = Len(vec_data)
      /\ vec_data'[i].in_use = FALSE
      /\ \A k \in DOMAIN vec_data \ {i} : vec_data'[k] = vec_data[k]
  <2>1. PICK b : b = [vec_data[i] EXCEPT !.in_use = FALSE]
    OBVIOUS
  <2>2. vec_data[i] \in Buffers(D)
    BY <1>1, <1>2, ElementOfSeq
  <2>3. b \in Buffers(D) /\ b.in_use = FALSE
    BY <2>1, <2>2 DEF Buffers
  <2>4. vec_data' = [vec_data EXCEPT ![i] = b]
    BY <1>4, <2>1 DEF LetGo
  <2>. QED  BY <1>1, <1>2, <2>3, <2>4, ExceptSeq
<1>6. IsPool(vec_data') /\ DOMAIN vec_data' = DOMAIN vec_data
  BY <1>2, <1>5, PoolOf
<1>7. /\ Front(hndls[t]) \in Seq(1 .. Len(vec_data)) /\ Len(Front(hndls[t])) = n - 1
      /\ \A j \in 1 .. n - 1 : Front(hndls[t])[j] = hndls[t][j]
  BY <1>3, <1>h, FrontIs
<1>8. /\ hndls' \in [Thr -> Seq(1 .. Len(vec_data'))]
      /\ hndls'[t] = Front(hndls[t]) /\ \A u \in Thr \ {t} : hndls'[u] = hndls[u]
  BY <1>5, <1>7 DEF LetGo
<1>9. \A u \in Thr : \A j \in 1 .. 3 : \A k \in DOMAIN vec_data :
        Holds(hndls', u, j, k) <=> Holds(hndls, u, j, k) /\ ~(u = t /\ j = n)
  <2>1. \A j \in 1 .. 3 : \A k \in DOMAIN vec_data :
          Holds(hndls', t, j, k) <=> Holds(hndls, t, j, k) /\ j # n
    <3>1. Len(hndls'[t]) = n - 1 /\ Len(hndls[t]) = n /\ \A j \in 1 .. n - 1 : hndls'[t][j] = hndls[t][j]
      BY <1>3, <1>7, <1>8
    <3>2. \A j \in 1 .. 3 : j \in 1 .. n - 1 <=> j \in 1 .. n /\ j # n
      OBVIOUS
    <3>. QED  BY <3>1, <3>2 DEF Holds
  <2>2. \A u \in Thr \ {t} : \A j \in 1 .. 3 : \A k \in DOMAIN vec_data :
          Holds(hndls', u, j, k) <=> Holds(hndls, u, j, k)
    BY <1>8 DEF Holds
  <2>. QED  BY <2>1, <2>2
<1>10. Holds(hndls, t, n, i)
  BY <1>3, <1>4 DEF Holds
<1>11. \A u \in Thr : \A j \in 1 .. 3 : Holds(hndls, u, j, i) => u = t /\ j = n
  BY <1>10 DEF InvOne
<1>12. InvMarked'
  <2>1. SUFFICES ASSUME NEW k \in DOMAIN vec_data
                 PROVE  vec_data'[k].in_use <=> \E u \in Thr : \E j \in 1 .. 3 : Holds(hndls', u, j, k)
    BY <1>6 DEF InvMarked
  <2>2. CASE k = i
    BY <1>5, <1>9, <1>11, <2>2
  <2>3. CASE k # i
    <3>1. ~Holds(hndls, t, n, k)
      BY <1>4, <2>3 DEF Holds
    <3>2. \A u \in Thr : \A j \in 1 .. 3 : Holds(hndls', u, j, k) <=> Holds(hndls, u, j, k)
      BY <1>9, <3>1
    <3>. QED  BY <1>5, <2>3, <3>2 DEF InvMarked
  <2>. QED  BY <2>2, <2>3
<1>13. InvOne'
  BY <1>6, <1>9 DEF InvOne
<1>14. InvSize'
  BY <1>5 DEF InvSize
<1>. QED  BY <1>3, <1>6, <1>7, <1>8, <1>12, <1>13, <1>14

\* What is written to the buffers does not matter.
LEMMA WriteKeeps ==
    ASSUME TypeHeld, InvMarked, InvOne, InvSize, NEW E, vec_data' \in Seq(Buffers(E)),
           Len(vec_data') = Len(vec_data), UNCHANGED hndls,
           \A i \in DOMAIN vec_data : vec_data'[i].in_use = vec_data[i].in_use
    PROVE  /\ IsPool(vec_data') /\ hndls' \in [Thr -> Seq(1 .. Len(vec_data'))]
           /\ InvMarked' /\ InvOne' /\ InvSize'
<1>1. DOMAIN vec_data' = DOMAIN vec_data
  BY DEF TypeHeld, IsPool
<1>2. InvMarked' /\ InvOne'
  BY <1>1 DEF InvMarked, InvOne
<1>. QED  BY <1>2, PoolOf DEF TypeHeld, InvSize

\* One buffer gets other data.
LEMMA WritesOne ==
    ASSUME NEW D, NEW v \in Seq(Buffers(D)), NEW i \in DOMAIN v, NEW d, NEW w, w = [v EXCEPT ![i].data = d]
    PROVE  /\ w \in Seq(Buffers(D \cup {d})) /\ Len(w) = Len(v)
           /\ \A k \in DOMAIN v : w[k].in_use = v[k].in_use
<1>1. DOMAIN v = 1 .. Len(v)
  OBVIOUS
<1>2. v \in Seq(Buffers(D \cup {d})) /\ \A k \in DOMAIN v : v[k] \in Buffers(D \cup {d})
  <2>1. Buffers(D) \subseteq Buffers(D \cup {d})
    BY DEF Buffers
  <2>. QED  BY <1>1, <2>1, SeqMonotonic, ElementOfSeq
<1>3. PICK b : b = [v[i] EXCEPT !.data = d]
  OBVIOUS
<1>4. b \in Buffers(D \cup {d}) /\ b.in_use = v[i].in_use
  BY <1>2, <1>3 DEF Buffers
<1>5. w = [v EXCEPT ![i] = b]
  BY <1>3
<1>6. /\ [v EXCEPT ![i] = b] \in Seq(Buffers(D \cup {d}))
      /\ Len([v EXCEPT ![i] = b]) = Len(v)
      /\ \A k \in 1 .. Len(v) : [v EXCEPT ![i] = b][k] = IF k = i THEN b ELSE v[k]
  BY <1>1, <1>2, <1>4, ExceptSeq
<1>. QED  BY <1>1, <1>4, <1>5, <1>6

-----------------------------------------------------------------------------
\* The pool starts empty and nobody holds a buffer.
LEMMA InitIInv == Init => IInv
<1>. SUFFICES ASSUME Init PROVE IInv
  OBVIOUS
<1>1. vec_data = <<>> /\ <<>> \in Seq(Buffers({})) /\ Len(<<>>) = 0 /\ DOMAIN <<>> = {}
  BY EmptySeq DEF Init
<1>2. Cardinality(Thr) \in Nat
  BY ThrAssumption, FS_CardinalityType
<1>3. TypeHeld
  <2>1. hndls \in [Thr -> Seq(1 .. Len(vec_data))]
    BY <1>1, EmptySeq DEF Init
  <2>. QED  BY <1>1, <2>1, PoolOf DEF Init, TypeHeld
<1>4. InvFrames
  BY <1>1 DEF Init, InvFrames, Frames
<1>. QED  BY <1>1, <1>2, <1>3, <1>4 DEF IInv, InvMarked, InvOne, InvSize

\* A step of one thread.
LEMMA FetchKeeps ==
    ASSUME IInv, NEW t \in Thr, Fetch(t)
    PROVE  IInv'
<1>. DEFINE n == Len(hndls[t])
<1>0. /\ TypeHeld /\ InvFrames /\ InvMarked /\ InvOne /\ InvSize
      /\ n \in Frames(pc[t]) /\ hndls[t] \in Seq(1 .. Len(vec_data))
  BY DEF IInv, InvFrames, TypeHeld
<1>. SUFFICES /\ IsPool(vec_data') /\ hndls' \in [Thr -> Seq(1 .. Len(vec_data'))]
              /\ InvMarked' /\ InvOne' /\ InvSize'
              /\ \E p \in {"idle", "recv", "unstuff", "copy", "write", "release"} :
                    pc' = [pc EXCEPT ![t] = p] /\ Len(hndls'[t]) \in Frames(p)
              /\ \A u \in Thr \ {t} : hndls'[u] = hndls[u]
  BY <1>0 DEF IInv, TypeHeld, InvFrames
<1>1. CASE Begin(t)
  <2>1. n \in 0 .. 2 /\ n = 0 /\ Get(t, Room) /\ pc' = [pc EXCEPT ![t] = "recv"]
    BY <1>0, <1>1 DEF Begin, Moves, Frames
  <2>2. 0 + 1 \in Frames("recv")
    BY DEF Frames
  <2>. QED  BY <1>0, <2>1, <2>2, GetKeeps
<1>2. CASE Again(t)
  <2>1. n \in 0 .. 2 /\ n = 1 /\ Get(t, Room) /\ pc' = [pc EXCEPT ![t] = "recv"]
    BY <1>0, <1>2 DEF Again, TypeHeld
  <2>2. 1 + 1 \in Frames("recv")
    BY DEF Frames
  <2>. QED  BY <1>0, <2>1, <2>2, GetKeeps
<1>3. CASE Throw(t)
  <2>1. n \in Frames("release") /\ pc' = [pc EXCEPT ![t] = "release"] /\ UNCHANGED <<vec_data, hndls>>
    BY <1>0, <1>3 DEF Throw, Moves, Frames
  <2>2. InvMarked' /\ InvOne' /\ InvSize'
    BY <1>0, <2>1 DEF InvMarked, InvOne, InvSize
  <2>. QED  BY <1>0, <2>1, <2>2 DEF TypeHeld
<1>4. CASE Receive(t)
  <2>1. n \in {1, 2} /\ UNCHANGED hndls /\ pc[t] = "recv"
    BY <1>0, <1>4 DEF Receive, Frames
  <2>2. PICK i \in DOMAIN vec_data : i = Last(hndls[t])
    <3>1. DOMAIN vec_data = 1 .. Len(vec_data) /\ n \in Nat \ {0}
      <4>1. DOMAIN vec_data = 1 .. Len(vec_data)
        BY <1>0 DEF TypeHeld, IsPool
      <4>2. \A m \in {1, 2} : m \in Nat \ {0}
        OBVIOUS
      <4>. QED  BY <2>1, <4>1, <4>2
    <3>. QED  BY <1>0, <3>1, FrontIs
  <2>3. PICK d : vec_data' = [vec_data EXCEPT ![i].data = d]
    BY <1>4, <2>2 DEF Receive
  <2>4. PICK p \in {"recv", "unstuff"} : pc' = [pc EXCEPT ![t] = p]
    BY <1>4 DEF Receive
  <2>5. PICK D : vec_data \in Seq(Buffers(D))
    BY <1>0 DEF TypeHeld, IsPool
  <2>6. /\ vec_data' \in Seq(Buffers(D \cup {d})) /\ Len(vec_data') = Len(vec_data)
        /\ \A k \in DOMAIN vec_data : vec_data'[k].in_use = vec_data[k].in_use
    <3>1. vec_data' \in Seq(Buffers(D \cup {d}))
      BY <2>3, <2>5, WritesOne
    <3>2. Len(vec_data') = Len(vec_data)
      BY <2>3, <2>5, WritesOne
    <3>3. \A j \in DOMAIN vec_data : vec_data'[j].in_use = vec_data[j].in_use
      BY <2>3, <2>5, WritesOne
    <3>. QED  BY <3>1, <3>2, <3>3
  <2>7. Len(hndls'[t]) \in Frames(p)
    BY <2>1, <2>4 DEF Frames
  <2>. QED  BY <1>0, <2>1, <2>4, <2>6, <2>7, WriteKeeps
<1>5. CASE TakeTmp(t)
  <2>1. n \in {1, 2} /\ pc' = [pc EXCEPT ![t] = "copy"] /\ Get(t, Len(Buf(t)))
    BY <1>0, <1>5 DEF TakeTmp, Moves, Frames
  <2>2. n \in 0 .. 2 /\ n + 1 \in {2, 3} /\ Frames("copy") = {2, 3}
    <3>1. \A m \in {1, 2} : m \in 0 .. 2 /\ m + 1 \in {2, 3}
      OBVIOUS
    <3>. QED  BY <2>1, <3>1 DEF Frames
  <2>. QED  BY <1>0, <2>1, <2>2, GetKeeps
<1>6. CASE CopyAndSwap(t)
  <2>1. n \in {2, 3} /\ UNCHANGED hndls /\ pc' = [pc EXCEPT ![t] = "write"] /\ n \in Frames("write")
    BY <1>0, <1>6 DEF CopyAndSwap, Moves, Frames
  <2>2. DOMAIN vec_data = 1 .. Len(vec_data)
    BY <1>0 DEF TypeHeld, IsPool
  <2>3. PICK i \in DOMAIN vec_data, k \in DOMAIN vec_data : i = hndls[t][n - 1] /\ k = Last(hndls[t])
    <3>1. n - 1 \in 1 .. n /\ n \in Nat \ {0}
      <4>1. \A m \in {2, 3} : m - 1 \in 1 .. m /\ m \in Nat \ {0}
        OBVIOUS
      <4>. QED  BY <2>1, <4>1
    <3>. QED  BY <1>0, <2>2, <3>1, FrontIs, ElementOfSeq
  <2>4. PICK d, e : vec_data' = [vec_data EXCEPT ![i].data = d, ![k].data = e]
    BY <1>6, <2>3 DEF CopyAndSwap
  <2>5. PICK D : vec_data \in Seq(Buffers(D))
    BY <1>0 DEF TypeHeld, IsPool
  <2>6. PICK v : v = [vec_data EXCEPT ![i].data = d]
    OBVIOUS
  <2>7. vec_data' = [v EXCEPT ![k].data = e]
    BY <2>4, <2>6
  <2>8. /\ v \in Seq(Buffers(D \cup {d})) /\ Len(v) = Len(vec_data)
        /\ \A j \in DOMAIN vec_data : v[j].in_use = vec_data[j].in_use
    <3>1. v \in Seq(Buffers(D \cup {d}))
      BY <2>5, <2>6, WritesOne
    <3>2. Len(v) = Len(vec_data)
      BY <2>5, <2>6, WritesOne
    <3>3. \A j \in DOMAIN vec_data : v[j].in_use = vec_data[j].in_use
      BY <2>5, <2>6, WritesOne
    <3>. QED  BY <3>1, <3>2, <3>3
  <2>9. DOMAIN v = DOMAIN vec_data
    BY <2>2, <2>8
  <2>10. /\ vec_data' \in Seq(Buffers((D \cup {d}) \cup {e})) /\ Len(vec_data') = Len(v)
         /\ \A j \in DOMAIN v : vec_data'[j].in_use = v[j].in_use
    <3>1. vec_data' \in Seq(Buffers((D \cup {d}) \cup {e}))
      BY <2>7, <2>8, <2>9, WritesOne
    <3>2. Len(vec_data') = Len(v)
      BY <2>7, <2>8, <2>9, WritesOne
    <3>3. \A j \in DOMAIN v : vec_data'[j].in_use = v[j].in_use
      BY <2>7, <2>8, <2>9, WritesOne
    <3>. QED  BY <3>1, <3>2, <3>3
  <2>. QED  BY <1>0, <2>1, <2>8, <2>9, <2>10, WriteKeeps
<1>7. CASE Write(t)
  <2>1. pc[t] = "write" /\ pc' = [pc EXCEPT ![t] = "release"] /\ LetGo(t)
    BY <1>7 DEF Write, Moves
  <2>2. n \in 1 .. 3 /\ n - 1 \in Frames("release")
    BY <1>0, <2>1 DEF Frames
  <2>. QED  BY <1>0, <2>1, <2>2, LetGoKeeps
<1>8. CASE Release(t)
  <2>1. n \in 1 .. 3 /\ LetGo(t)
    BY <1>0, <1>8 DEF Release, Frames
  <2>2. PICK p \in {"idle", "release"} : pc' = [pc EXCEPT ![t] = p] /\ (p = "idle" <=> n = 1)
    BY <1>8 DEF Release
  <2>3. n - 1 \in Frames(p)
    <3>1. \A m \in 1 .. 3 : IF m = 1 THEN m - 1 = 0 ELSE m - 1 \in {1, 2, 3}
      OBVIOUS
    <3>. QED  BY <2>1, <2>2, <3>1 DEF Frames
  <2>. QED  BY <1>0, <2>1, <2>2, <2>3, LetGoKeeps
<1>. QED  BY <1>1, <1>2, <1>3, <1>4, <1>5, <1>6, <1>7, <1>8 DEF Fetch

\* One step per action of a fetching thread.
LEMMA NextIInv == IInv /\ [Next]_vars => IInv'
<1>. SUFFICES ASSUME IInv, [Next]_vars PROVE IInv'
  OBVIOUS
<1>1. CASE UNCHANGED vars
  BY <1>1 DEF vars, IInv, TypeHeld, InvFrames, InvMarked, InvOne, InvSize
<1>2. CASE \E t \in Thr : Fetch(t)
  BY <1>2, FetchKeeps
<1>. QED  BY <1>1, <1>2 DEF Next

\* IInv holds in every reachable state.
LEMMA Invariance == Spec => []IInv
BY InitIInv, NextIInv, PTL DEF Spec

\* However many bodies are fetched, authenticated or given up, BufPool has at
\* most three buffers for each thread, and a buffer that is marked is held by
\* a thread that fetches (res_pool.h: GetHandle and ~handle).
THEOREM NoBufferLostHolds == Spec => []NoBufferLost
<1>1. IInv => NoBufferLost
  <2>. SUFFICES ASSUME IInv PROVE NoBufferLost
    OBVIOUS
  <2>1. Len(vec_data) <= 3 * Cardinality(Thr)
    BY DEF IInv, InvSize
  <2>2. ASSUME NEW i \in DOMAIN vec_data, vec_data[i].in_use
        PROVE  \E t \in Thr : pc[t] # "idle" /\ i \in Range(hndls[t])
    <3>1. PICK t \in Thr : \E j \in 1 .. 3 : Holds(hndls, t, j, i)
      BY <2>2 DEF IInv, InvMarked
    <3>2. PICK j \in 1 .. 3 : Holds(hndls, t, j, i)
      BY <3>1
    <3>3. j \in DOMAIN hndls[t] /\ hndls[t][j] = i
      BY <3>2 DEF Holds, IInv, TypeHeld
    <3>4. Len(hndls[t]) # 0
      BY <3>2 DEF Holds
    <3>5. pc[t] # "idle"
      BY <3>4 DEF IInv, InvFrames, Frames
    <3>. QED  BY <3>3, <3>5 DEF Range
  <2>. QED  BY <2>1, <2>2 DEF NoBufferLost
<1>. QED  BY <1>1, Invariance, PTL

\* No two frames, of one thread or of two, ever write to the same buffer, the
\* one that dot_unstuff swaps with its own included.
OneHolder ==
    \A t, u \in Thr : \A j \in DOMAIN hndls[t], k \in DOMAIN hndls[u] :
        hndls[t][j] = hndls[u][k] => t = u /\ j = k
\* Two frames of fetch_body never share a buffer of the pool (res_pool::get_res).
THEOREM OneHolderHolds == Spec => []OneHolder
<1>1. IInv => OneHolder
  <2>. SUFFICES ASSUME IInv, NEW t \in Thr, NEW u \in Thr, NEW j \in DOMAIN hndls[t],
                       NEW k \in DOMAIN hndls[u], hndls[t][j] = hndls[u][k]
                PROVE  t = u /\ j = k
    BY DEF OneHolder
  <2>1. /\ hndls[t] \in Seq(1 .. Len(vec_data)) /\ hndls[u] \in Seq(1 .. Len(vec_data))
        /\ DOMAIN vec_data = 1 .. Len(vec_data)
    BY DEF IInv, TypeHeld, IsPool
  <2>2. Len(hndls[t]) \in 0 .. 3 /\ Len(hndls[u]) \in 0 .. 3
    BY DEF IInv, InvFrames, Frames, TypeHeld
  <2>3. hndls[t][j] \in DOMAIN vec_data /\ j \in 1 .. Len(hndls[t]) /\ k \in 1 .. Len(hndls[u])
    BY <2>1
  <2>4. j \in 1 .. 3 /\ k \in 1 .. 3
    BY <2>2, <2>3
  <2>. QED  BY <2>3, <2>4 DEF IInv, InvOne, Holds
<1>. QED  BY <1>1, Invariance, PTL

-----------------------------------------------------------------------------
(* Induction, and sequences that are defined by recursion.                 *)

\* Induction up to a bound, for a set of numbers.
LEMMA Upwards ==
    ASSUME NEW n \in Nat, NEW S, 0 \in S, \A k \in 0 .. n - 1 : k \in S => k + 1 \in S
    PROVE  \A k \in 0 .. n : k \in S
<1>. DEFINE T == {k \in 0 .. n : k \notin S}
<1>1. SUFFICES ASSUME T # {} PROVE FALSE
  OBVIOUS
<1>2. PICK m \in T : \A k \in T : m <= k
  <2>1. T \subseteq Nat
    OBVIOUS
  <2>. HIDE DEF T
  <2>. QED  BY <1>1, <2>1, Smallest
<1>3. m - 1 \in 0 .. n - 1 /\ m - 1 \notin T
  BY <1>2
<1>. QED  BY <1>2, <1>3

\* Induction down from a bound, on all the larger numbers.
LEMMA Downwards ==
    ASSUME NEW n \in Nat, NEW S,
           \A k \in 0 .. n : (\A j \in k + 1 .. n : j \in S) => k \in S
    PROVE  \A k \in 0 .. n : k \in S
<1>. DEFINE T == {k \in 0 .. n : n - k \notin S}
<1>1. SUFFICES ASSUME T # {} PROVE FALSE
  <2>1. ASSUME NEW k \in 0 .. n, k \notin S PROVE n - k \in T
    BY <2>1
  <2>. QED  BY <2>1
<1>2. PICK m \in T : \A k \in T : m <= k
  <2>1. T \subseteq Nat
    OBVIOUS
  <2>. HIDE DEF T
  <2>. QED  BY <1>1, <2>1, Smallest
<1>3. ASSUME NEW j \in n - m + 1 .. n PROVE j \in S
  <2>1. n - j \in 0 .. n /\ n - j < m
    BY <1>2
  <2>2. n - j \notin T
    BY <1>2, <2>1
  <2>. QED  BY <2>1, <2>2
<1>. QED  BY <1>2, <1>3

\* What a sequence put together piece by piece is after k pieces.
Pieces(c, k, s) == s[0] = <<>> /\ \A i \in 1 .. k : s[i] = s[i - 1] \o c[i]

\* Such a sequence exists.
LEMMA PiecesExist ==
    ASSUME NEW n \in Nat, NEW L, NEW c \in [1 .. n -> Seq(L)]
    PROVE  \E s \in [0 .. n -> Seq(L)] : Pieces(c, n, s)
<1>. DEFINE S == {k \in 0 .. n : \E s \in [0 .. k -> Seq(L)] : Pieces(c, k, s)}
<1>1. 0 \in S
  <2>1. PICK s : s = [i \in 0 .. 0 |-> <<>>]
    OBVIOUS
  <2>2. s \in [0 .. 0 -> Seq(L)] /\ s[0] = <<>>
    BY <2>1, EmptySeq
  <2>3. Pieces(c, 0, s)
    BY <2>2 DEF Pieces
  <2>. QED  BY <2>2, <2>3
<1>2. ASSUME NEW k \in 0 .. n - 1, k \in S PROVE k + 1 \in S
  <2>1. PICK s \in [0 .. k -> Seq(L)] : Pieces(c, k, s)
    BY <1>2
  <2>2. PICK e \in Seq(L) : e = s[k] \o c[k + 1]
    BY ConcatProperties
  <2>3. PICK t : t = [i \in 0 .. k + 1 |-> IF i = k + 1 THEN e ELSE s[i]]
    OBVIOUS
  <2>4. t \in [0 .. k + 1 -> Seq(L)]
    BY <2>3
  <2>5. t[k + 1] = e /\ \A i \in 0 .. k : t[i] = s[i]
    BY <2>3
  <2>6. k \in 0 .. k /\ k + 1 \in 1 .. k + 1 /\ (k + 1) - 1 = k
    OBVIOUS
  <2>7. t[k + 1] = t[k] \o c[k + 1]
    BY <2>2, <2>5, <2>6
  <2>8. ASSUME NEW i \in 1 .. k PROVE t[i] = t[i - 1] \o c[i]
    <3>1. i - 1 \in 0 .. k /\ i \in 0 .. k
      OBVIOUS
    <3>2. t[i] = s[i] /\ t[i - 1] = s[i - 1]
      BY <2>5, <3>1
    <3>. QED  BY <2>1, <3>2 DEF Pieces
  <2>9. \A i \in 1 .. k + 1 : i \in 1 .. k \/ (i = k + 1 /\ i - 1 = k)
    OBVIOUS
  <2>10. \A i \in 1 .. k + 1 : t[i] = t[i - 1] \o c[i]
    BY <2>7, <2>8, <2>9, Zenon
  <2>11. t[0] = <<>>
    BY <2>1, <2>5, SMTT(30) DEF Pieces
  <2>12. Pieces(c, k + 1, t)
    BY <2>10, <2>11 DEF Pieces
  <2>. QED  BY <2>4, <2>12
<1>. HIDE DEF S
<1>3. n \in S
  <2>1. \A k \in 0 .. n : k \in S
    BY <1>1, <1>2, Upwards
  <2>. QED  BY <2>1
<1>. QED  BY <1>3 DEF S

\* What is put together from each place after k on: the piece there and what the
\* later place that it points to gives.
Jumps(c, h, k, n, f) == \A p \in k + 1 .. n : f[p] = IF h[p] = 0 THEN c[p] ELSE c[p] \o f[h[p]]

\* Such sequences exist for every place.
LEMMA JumpsExist ==
    ASSUME NEW n \in Nat, NEW L, NEW c \in [1 .. n -> Seq(L)], NEW h \in [1 .. n -> 0 .. n],
           \A p \in 1 .. n : h[p] = 0 \/ h[p] > p
    PROVE  \E f \in [1 .. n -> Seq(L)] : Jumps(c, h, 0, n, f)
<1>. DEFINE S == {k \in 0 .. n : \E f \in [k + 1 .. n -> Seq(L)] : Jumps(c, h, k, n, f)}
<1>1. ASSUME NEW k \in 0 .. n, \A j \in k + 1 .. n : j \in S PROVE k \in S
  <2>1. CASE k = n
    <3>1. PICK f : f = [p \in n + 1 .. n |-> <<>>]
      OBVIOUS
    <3>2. f \in [k + 1 .. n -> Seq(L)]
      BY <2>1, <3>1
    <3>3. Jumps(c, h, k, n, f)
      BY <2>1 DEF Jumps
    <3>. QED  BY <3>2, <3>3
  <2>2. CASE k < n
    <3>1. PICK q \in 1 .. n : q = k + 1
      BY <2>2
    <3>2. q \in S
      <4>1. q \in k + 1 .. n
        BY <3>1
      <4>. HIDE DEF S
      <4>. QED  BY <1>1, <4>1
    <3>3. PICK f \in [q + 1 .. n -> Seq(L)] : Jumps(c, h, q, n, f)
      BY <3>2
    <3>4. PICK e \in Seq(L) : e = IF h[q] = 0 THEN c[q] ELSE c[q] \o f[h[q]]
      <4>1. CASE h[q] = 0
        BY <4>1
      <4>2. CASE h[q] # 0
        <5>1. h[q] \in q + 1 .. n
          BY <4>2
        <5>2. f[h[q]] \in Seq(L)
          BY <5>1
        <5>. QED  BY <4>2, <5>2, ConcatProperties
      <4>. QED  BY <4>1, <4>2
    <3>5. PICK g : g = [p \in q .. n |-> IF p = q THEN e ELSE f[p]]
      OBVIOUS
    <3>6. g \in [k + 1 .. n -> Seq(L)]
      BY <3>1, <3>5
    <3>7. g[q] = e /\ \A p \in q + 1 .. n : g[p] = f[p]
      BY <3>5
    <3>8. ASSUME NEW p \in k + 1 .. n
          PROVE  g[p] = IF h[p] = 0 THEN c[p] ELSE c[p] \o g[h[p]]
      <4>1. p \in 1 .. n /\ (h[p] # 0 => h[p] \in q + 1 .. n) /\ (p = q \/ p \in q + 1 .. n)
        BY <3>1
      <4>2. CASE p = q
        BY <3>4, <3>7, <4>1, <4>2
      <4>3. CASE p \in q + 1 .. n
        BY <3>3, <3>7, <4>1, <4>3 DEF Jumps
      <4>. QED  BY <4>1, <4>2, <4>3
    <3>9. Jumps(c, h, k, n, g)
      BY <3>8 DEF Jumps
    <3>. QED  BY <3>6, <3>9
  <2>. QED  BY <2>1, <2>2
<1>. HIDE DEF S
<1>2. 0 \in S
  <2>1. \A k \in 0 .. n : k \in S
    BY <1>1, Downwards
  <2>. QED  BY <2>1
<1>. QED  BY <1>2 DEF S

-----------------------------------------------------------------------------
(* Dot-stuffing.                                                           *)

Text == Seq({"n", ".", "x"})
IsStuffed(a, i) == StartsLine(a, i) /\ a[i] = "."
Piece(a) == [i \in 1 .. Len(a) |-> IF IsStuffed(a, i) THEN <<".", ".">> ELSE <<a[i]>>]

\* The defining equation of Stuffed.
LEMMA StuffedDef ==
    ASSUME NEW a \in Text
    PROVE  \E s \in [0 .. Len(a) -> Text] : Pieces(Piece(a), Len(a), s) /\ Stuffed(a) = s[Len(a)]
<1>1. PICK s : s = CHOOSE z : z = [i \in 0 .. Len(a) |->
        IF i = 0 THEN <<>>
        ELSE z[i - 1] \o (IF StartsLine(a, i) /\ a[i] = "." THEN <<".", ".">> ELSE <<a[i]>>)]
  OBVIOUS
<1>2. Len(a) \in Nat /\ \A i \in 1 .. Len(a) : a[i] \in {"n", ".", "x"}
  BY ElementOfSeq DEF Text
<1>3. Piece(a) \in [1 .. Len(a) -> Text]
  <2>1. ASSUME NEW i \in 1 .. Len(a)
        PROVE  (IF IsStuffed(a, i) THEN <<".", ".">> ELSE <<a[i]>>) \in Text
    <3>1. <<".", ".">> \in Text
      BY DEF Text
    <3>2. <<a[i]>> \in Text
      BY <1>2 DEF Text
    <3>. QED  BY <3>1, <3>2
  <2>. QED  BY <2>1 DEF Piece
<1>4. \E z \in [0 .. Len(a) -> Text] : Pieces(Piece(a), Len(a), z)
  BY <1>2, <1>3, PiecesExist DEF Text
<1>5. ASSUME NEW z \in [0 .. Len(a) -> Text], Pieces(Piece(a), Len(a), z)
      PROVE  z = [i \in 0 .. Len(a) |->
                IF i = 0 THEN <<>>
                ELSE z[i - 1] \o (IF StartsLine(a, i) /\ a[i] = "." THEN <<".", ".">> ELSE <<a[i]>>)]
  <2>1. ASSUME NEW i \in 0 .. Len(a)
        PROVE  z[i] = IF i = 0 THEN <<>>
                      ELSE z[i - 1] \o (IF StartsLine(a, i) /\ a[i] = "." THEN <<".", ".">> ELSE <<a[i]>>)
    <3>1. CASE i = 0
      BY <1>5, <3>1 DEF Pieces
    <3>2. CASE i # 0
      <4>1. i \in 1 .. Len(a)
        BY <1>2, <3>2
      <4>2. z[i] = z[i - 1] \o Piece(a)[i]
        BY <1>5, <4>1 DEF Pieces
      <4>3. Piece(a)[i] = IF StartsLine(a, i) /\ a[i] = "." THEN <<".", ".">> ELSE <<a[i]>>
        BY <4>1 DEF Piece, IsStuffed
      <4>. QED  BY <3>2, <4>2, <4>3
    <3>. QED  BY <3>1, <3>2
  <2>. QED  BY <1>5, <2>1, Zenon
<1>6. s = [i \in 0 .. Len(a) |->
        IF i = 0 THEN <<>>
        ELSE s[i - 1] \o (IF StartsLine(a, i) /\ a[i] = "." THEN <<".", ".">> ELSE <<a[i]>>)]
  BY <1>1, <1>4, <1>5, Zenon
<1>7. ASSUME NEW i \in 1 .. Len(a)
      PROVE  s[i] = s[i - 1] \o Piece(a)[i]
  <2>1. i \in 0 .. Len(a) /\ i # 0
    BY <1>2
  <2>2. s[i] = s[i - 1] \o (IF StartsLine(a, i) /\ a[i] = "." THEN <<".", ".">> ELSE <<a[i]>>)
    BY <1>6, <2>1, Zenon
  <2>. QED  BY <2>2, Zenon DEF Piece, IsStuffed
<1>8. Stuffed(a) = s[Len(a)]
  BY <1>1, Zenon DEF Stuffed
<1>9. s[0] = <<>> /\ DOMAIN s = 0 .. Len(a)
  <2>1. 0 \in 0 .. Len(a)
    BY <1>2
  <2>. QED  BY <1>6, <2>1, Zenon
<1>10. \A i \in 0 .. Len(a) : s[i] \in Text
  <2>. DEFINE S == {i \in 0 .. Len(a) : s[i] \in Text}
  <2>1. 0 \in S
    BY <1>2, <1>9, EmptySeq DEF Text
  <2>2. ASSUME NEW i \in 0 .. Len(a) - 1, i \in S PROVE i + 1 \in S
    <3>1. i + 1 \in 1 .. Len(a) /\ (i + 1) - 1 = i /\ i + 1 \in 0 .. Len(a)
      BY <1>2
    <3>2. s[i + 1] = s[i] \o Piece(a)[i + 1]
      BY <1>7, <3>1
    <3>3. s[i] \in Text /\ Piece(a)[i + 1] \in Text
      BY <1>3, <2>2, <3>1
    <3>. QED  BY <3>1, <3>2, <3>3, ConcatProperties, ZenonT(60) DEF Text
  <2>. HIDE DEF S
  <2>3. \A i \in 0 .. Len(a) : i \in S
    BY <1>2, <2>1, <2>2, Upwards
  <2>. QED  BY <2>3 DEF S
<1>11. s \in [0 .. Len(a) -> Text]
  BY <1>6, <1>10
<1>. QED  BY <1>7, <1>8, <1>9, <1>11 DEF Pieces

\* Where the characters of an article are when it is stuffed: m says how long
\* what has been sent for the first i of them is.
Places(a, m) ==
    /\ m \in [0 .. Len(a) -> Nat] /\ m[0] = 0
    /\ \A i \in 1 .. Len(a) : m[i] = m[i - 1] + (IF IsStuffed(a, i) THEN 2 ELSE 1)

\* Each character is at its place, a dot before it where it is stuffed, and there
\* is nothing else.
LEMMA StuffedIs ==
    ASSUME NEW a \in Text
    PROVE  /\ Stuffed(a) \in Text
           /\ \E m : /\ Places(a, m) /\ Len(Stuffed(a)) = m[Len(a)]
                     /\ \A i \in 1 .. Len(a) :
                          /\ m[i] \in 1 .. Len(Stuffed(a)) /\ Stuffed(a)[m[i]] = a[i]
                          /\ IsStuffed(a, i) => m[i] - 1 \in 1 .. Len(Stuffed(a)) /\ Stuffed(a)[m[i] - 1] = "."
<1>1. PICK s \in [0 .. Len(a) -> Text] : Pieces(Piece(a), Len(a), s) /\ Stuffed(a) = s[Len(a)]
  BY StuffedDef
<1>2. PICK n \in Nat : n = Len(a)
  BY DEF Text
<1>3. PICK m : m = [i \in 0 .. n |-> Len(s[i])]
  OBVIOUS
<1>4. \A i \in 0 .. n : s[i] \in Text /\ m[i] = Len(s[i]) /\ m[i] \in Nat
  BY <1>1, <1>2, <1>3, LenProperties DEF Text
<1>. DEFINE P(k) == \A i \in 1 .. k :
                       /\ m[i] \in 1 .. m[k] /\ s[k][m[i]] = a[i]
                       /\ IsStuffed(a, i) => m[i] - 1 \in 1 .. m[k] /\ s[k][m[i] - 1] = "."
            S == {k \in 0 .. n : P(k)}
<1>5. ASSUME NEW k \in 0 .. n - 1
      PROVE  /\ m[k + 1] = m[k] + (IF IsStuffed(a, k + 1) THEN 2 ELSE 1)
             /\ \A p \in 1 .. m[k] : s[k + 1][p] = s[k][p]
             /\ s[k + 1][m[k + 1]] = a[k + 1]
             /\ IsStuffed(a, k + 1) => m[k + 1] - 1 \in 1 .. m[k + 1] /\ s[k + 1][m[k + 1] - 1] = "."
  <2>1. PICK i \in 1 .. n : i = k + 1 /\ i - 1 = k /\ k \in 0 .. n /\ i \in 0 .. n
    BY <1>2
  <2>2. PICK u : u = Piece(a)[i]
    OBVIOUS
  <2>3. s[i] = s[k] \o u
    BY <1>1, <1>2, <2>1, <2>2 DEF Pieces
  <2>4. s[k] \in Text /\ m[k] = Len(s[k]) /\ m[i] = Len(s[i]) /\ m[k] \in Nat /\ m[i] \in Nat
    BY <1>4, <2>1
  <2>5. a[i] \in {"n", ".", "x"}
    BY <1>2, ElementOfSeq DEF Text
  <2>6. CASE IsStuffed(a, i)
    <3>1. u = <<".", ".">> /\ u \in Text /\ Len(u) = 2 /\ u[1] = "." /\ u[2] = "." /\ a[i] = "."
      <4>1. a[i] = "." /\ IsStuffed(a, i)
        BY <2>6 DEF IsStuffed
      <4>2. u = <<".", ".">>
        BY <1>2, <2>2, <4>1 DEF Piece
      <4>. QED  BY <4>1, <4>2 DEF Text
    <3>2. /\ m[i] = m[k] + 2 /\ \A p \in 1 .. m[k] : s[i][p] = s[k][p]
          /\ s[i][m[k] + 1] = "." /\ s[i][m[k] + 2] = "."
      BY <2>3, <2>4, <3>1, ConcatProperties DEF Text
    <3>3. m[i] - 1 = m[k] + 1 /\ m[i] - 1 \in 1 .. m[i]
      BY <2>4, <3>2
    <3>. QED  BY <2>1, <2>6, <3>1, <3>2, <3>3
  <2>7. CASE ~IsStuffed(a, i)
    <3>1. u = <<a[i]>> /\ u \in Text /\ Len(u) = 1 /\ u[1] = a[i]
      BY <1>2, <2>2, <2>5, <2>7 DEF Piece, Text
    <3>2. /\ m[i] = m[k] + 1 /\ \A p \in 1 .. m[k] : s[i][p] = s[k][p]
          /\ s[i][m[k] + 1] = a[i]
      BY <2>3, <2>4, <3>1, ConcatProperties DEF Text
    <3>. QED  BY <2>1, <2>7, <3>1, <3>2
  <2>. QED  BY <2>6, <2>7
<1>6. 0 \in S
  BY <1>2
<1>7. ASSUME NEW k \in 0 .. n - 1, k \in S PROVE k + 1 \in S
  <2>0. k \in 0 .. n /\ k + 1 \in 0 .. n /\ m[k] \in Nat /\ m[k + 1] \in Nat
    BY <1>2, <1>4
  <2>1. m[k] <= m[k + 1] /\ m[k + 1] \in 1 .. m[k + 1]
    BY <1>5, <2>0, SMTT(30)
  <2>2. ASSUME NEW i \in 1 .. k
        PROVE  /\ m[i] \in 1 .. m[k + 1] /\ s[k + 1][m[i]] = a[i]
               /\ IsStuffed(a, i) => m[i] - 1 \in 1 .. m[k + 1] /\ s[k + 1][m[i] - 1] = "."
    <3>1. /\ m[i] \in 1 .. m[k] /\ s[k][m[i]] = a[i]
          /\ IsStuffed(a, i) => m[i] - 1 \in 1 .. m[k] /\ s[k][m[i] - 1] = "."
      BY <1>7
    <3>2. 1 .. m[k] \subseteq 1 .. m[k + 1]
      BY <2>0, <2>1
    <3>. QED  BY <1>5, <3>1, <3>2
  <2>3. \A i \in 1 .. k + 1 : i \in 1 .. k \/ i = k + 1
    OBVIOUS
  <2>4. P(k + 1)
    BY <1>5, <2>1, <2>2, <2>3
  <2>. QED  BY <2>0, <2>4
<1>8. n \in S
  <2>. HIDE DEF S
  <2>1. \A k \in 0 .. n : k \in S
    BY <1>6, <1>7, Upwards
  <2>. QED  BY <2>1
<1>9. m[0] = 0
  BY <1>1, <1>4, EmptySeq DEF Pieces
<1>10. \A i \in 1 .. n : m[i] = m[i - 1] + (IF IsStuffed(a, i) THEN 2 ELSE 1)
  <2>1. ASSUME NEW i \in 1 .. n PROVE m[i] = m[i - 1] + (IF IsStuffed(a, i) THEN 2 ELSE 1)
    <3>1. i - 1 \in 0 .. n - 1 /\ (i - 1) + 1 = i
      OBVIOUS
    <3>2. PICK k \in 0 .. n - 1 : k = i - 1 /\ k + 1 = i
      BY <3>1
    <3>. QED  BY <1>5, <3>2
  <2>. QED  BY <2>1
<1>11. m \in [0 .. n -> Nat]
  BY <1>3, <1>4
<1>12. Places(a, m)
  BY <1>2, <1>9, <1>10, <1>11 DEF Places
<1>13. n \in 0 .. n /\ Stuffed(a) = s[n] /\ Len(Stuffed(a)) = m[n]
  BY <1>1, <1>2, <1>4
<1>14. P(n)
  BY <1>8
<1>. QED  BY <1>2, <1>4, <1>12, <1>13, <1>14

-----------------------------------------------------------------------------
(* dot_unstuff.                                                            *)

\* The function that Unstuffed is defined by: what the rest of a string gives.
First(v, p) == CHOOSE q \in Matches(v, p) : \A k \in Matches(v, p) : q <= k
IsUnstuffing(v, f) ==
    /\ f \in [1 .. Len(v) + 3 -> Seq(Char)]
    /\ \A p \in 1 .. Len(v) + 3 :
         f[p] = IF Matches(v, p) = {} THEN SubSeq(v, p, Len(v))
                ELSE SubSeq(v, p, First(v, p) + 1) \o f[First(v, p) + 3]

\* strstr finds the first match, when there is one.
LEMMA FirstIs ==
    ASSUME NEW v \in Seq(Char), NEW p \in 1 .. Len(v) + 3, Matches(v, p) # {}
    PROVE  First(v, p) \in Matches(v, p) /\ \A k \in Matches(v, p) : First(v, p) <= k
<1>1. Matches(v, p) \subseteq Nat
  BY DEF Matches
<1>2. \E q \in Matches(v, p) : \A k \in Matches(v, p) : q <= k
  BY <1>1, Smallest
<1>. QED  BY <1>2 DEF First

\* A match is in the string, with its two dots.
LEMMA MatchesIn ==
    ASSUME NEW v \in Seq(Char), NEW p \in 1 .. Len(v) + 3, NEW q \in Matches(v, p)
    PROVE  /\ q \in p .. Len(v) /\ q + 1 \in p .. Len(v) /\ q + 2 \in p .. Len(v) /\ q + 3 \in p + 1 .. Len(v) + 3
           /\ v[q] = "n" /\ v[q + 1] = "." /\ v[q + 2] = "."
           /\ \A k \in p .. q : v[k] # "0"
<1>1. Len(v) \in Nat
  OBVIOUS
<1>. QED  BY <1>1 DEF Matches

\* Part of a string is a string.
LEMMA PartIs ==
    ASSUME NEW v \in Seq(Char), NEW p \in 1 .. Len(v) + 3, NEW q \in 0 .. Len(v)
    PROVE  SubSeq(v, p, q) \in Seq(Char)
<1>1. \A i \in p .. q : v[i] \in Char
  <2>1. ASSUME NEW i \in p .. q PROVE v[i] \in Char
    <3>1. i \in 1 .. Len(v)
      OBVIOUS
    <3>. QED  BY <3>1, ElementOfSeq
  <2>. QED  BY <2>1
<1>. QED  BY <1>1, SubSeqProperties

\* The defining equation of Unstuffed.
LEMMA UnstuffedDef ==
    ASSUME NEW v \in Seq(Char)
    PROVE  \E f : IsUnstuffing(v, f) /\ Unstuffed(v) = f[1]
<1>1. PICK n \in Nat : n = Len(v)
  OBVIOUS
<1>2. PICK m \in Nat : m = n + 3
  OBVIOUS
<1>. DEFINE c == [p \in 1 .. m |-> IF Matches(v, p) = {} THEN SubSeq(v, p, n) ELSE SubSeq(v, p, First(v, p) + 1)]
            h == [p \in 1 .. m |-> IF Matches(v, p) = {} THEN 0 ELSE First(v, p) + 3]
<1>3. ASSUME NEW p \in 1 .. m
      PROVE  c[p] \in Seq(Char) /\ h[p] \in 0 .. m /\ (h[p] = 0 \/ h[p] > p)
             /\ (Matches(v, p) = {} <=> h[p] = 0)
  <2>1. CASE Matches(v, p) = {}
    BY <1>1, <1>2, <2>1, PartIs
  <2>2. CASE Matches(v, p) # {}
    <3>1. First(v, p) \in Matches(v, p)
      BY <1>1, <1>2, <2>2, FirstIs
    <3>2. First(v, p) + 1 \in 0 .. n /\ First(v, p) + 3 \in p + 1 .. m
      BY <1>1, <1>2, <3>1, MatchesIn
    <3>3. SubSeq(v, p, First(v, p) + 1) \in Seq(Char)
      BY <1>1, <1>2, <3>2, PartIs
    <3>. QED  BY <2>2, <3>2, <3>3
  <2>. QED  BY <2>1, <2>2
<1>4. c \in [1 .. m -> Seq(Char)] /\ h \in [1 .. m -> 0 .. m]
  <2>1. c = [p \in 1 .. m |-> c[p]] /\ h = [p \in 1 .. m |-> h[p]]
    OBVIOUS
  <2>. HIDE DEF c, h
  <2>. QED  BY <1>3, <2>1
<1>5. \E g \in [1 .. m -> Seq(Char)] : Jumps(c, h, 0, m, g)
  <2>. HIDE DEF c, h
  <2>. QED  BY <1>3, <1>4, JumpsExist
<1>6. PICK g \in [1 .. m -> Seq(Char)] : \A p \in 1 .. m : g[p] = IF h[p] = 0 THEN c[p] ELSE c[p] \o g[h[p]]
  <2>. HIDE DEF c, h
  <2>1. 0 + 1 = 1
    OBVIOUS
  <2>. QED  BY <1>5, <2>1 DEF Jumps
<1>7. PICK f : f = CHOOSE z : z = [p \in 1 .. Len(v) + 3 |->
        IF Matches(v, p) = {} THEN SubSeq(v, p, Len(v))
        ELSE SubSeq(v, p, First(v, p) + 1) \o z[First(v, p) + 3]]
  OBVIOUS
<1>8. Unstuffed(v) = f[1]
  BY <1>7, Zenon DEF Unstuffed, First
<1>9. \A p \in 1 .. m : g[p] = IF Matches(v, p) = {} THEN SubSeq(v, p, n)
                               ELSE SubSeq(v, p, First(v, p) + 1) \o g[First(v, p) + 3]
  <2>1. ASSUME NEW p \in 1 .. m
        PROVE  g[p] = IF Matches(v, p) = {} THEN SubSeq(v, p, n)
                               ELSE SubSeq(v, p, First(v, p) + 1) \o g[First(v, p) + 3]
    <3>1. /\ c[p] = IF Matches(v, p) = {} THEN SubSeq(v, p, n) ELSE SubSeq(v, p, First(v, p) + 1)
          /\ h[p] = IF Matches(v, p) = {} THEN 0 ELSE First(v, p) + 3
          /\ Matches(v, p) = {} <=> h[p] = 0
      BY <1>3
    <3>2. g[p] = IF h[p] = 0 THEN c[p] ELSE c[p] \o g[h[p]]
      BY <1>6
    <3>. HIDE DEF c, h
    <3>. QED  BY <3>1, <3>2, Zenon
  <2>. QED  BY <2>1
<1>10. g = [p \in 1 .. Len(v) + 3 |->
        IF Matches(v, p) = {} THEN SubSeq(v, p, Len(v))
        ELSE SubSeq(v, p, First(v, p) + 1) \o g[First(v, p) + 3]]
  BY <1>1, <1>2, <1>9, Zenon
<1>11. f = [p \in 1 .. Len(v) + 3 |->
        IF Matches(v, p) = {} THEN SubSeq(v, p, Len(v))
        ELSE SubSeq(v, p, First(v, p) + 1) \o f[First(v, p) + 3]]
  BY <1>7, <1>10, Zenon
<1>12. \A p \in 1 .. m : f[p] = IF Matches(v, p) = {} THEN SubSeq(v, p, n)
                                ELSE SubSeq(v, p, First(v, p) + 1) \o f[First(v, p) + 3]
  BY <1>1, <1>2, <1>11, Zenon
<1>13. DOMAIN f = 1 .. m /\ f = [p \in 1 .. m |-> f[p]]
  BY <1>1, <1>2, <1>11
<1>. DEFINE S == {k \in 0 .. m : k = 0 \/ f[k] \in Seq(Char)}
<1>14. ASSUME NEW k \in 0 .. m, \A j \in k + 1 .. m : j \in S PROVE k \in S
  <2>1. CASE k = 0
    BY <2>1
  <2>2. CASE k # 0
    <3>1. k \in 1 .. m
      BY <2>2
    <3>2. CASE Matches(v, k) = {}
      <4>1. f[k] = SubSeq(v, k, n)
        BY <1>12, <3>1, <3>2
      <4>2. SubSeq(v, k, n) \in Seq(Char)
        BY <1>1, <1>2, <3>1, PartIs
      <4>. QED  BY <4>1, <4>2
    <3>3. CASE Matches(v, k) # {}
      <4>1. PICK q : q = First(v, k)
        OBVIOUS
      <4>2. q \in Matches(v, k)
        BY <1>1, <1>2, <3>1, <3>3, <4>1, FirstIs
      <4>3. q + 1 \in 0 .. n /\ q + 3 \in k + 1 .. m
        BY <1>1, <1>2, <3>1, <4>2, MatchesIn
      <4>4. SubSeq(v, k, q + 1) \in Seq(Char)
        BY <1>1, <1>2, <3>1, <4>3, PartIs
      <4>5. f[q + 3] \in Seq(Char)
        BY <1>14, <4>3
      <4>6. f[k] = SubSeq(v, k, q + 1) \o f[q + 3]
        BY <1>12, <3>1, <3>3, <4>1
      <4>7. f[k] \in Seq(Char)
        BY <4>4, <4>5, <4>6, ConcatProperties
      <4>. QED  BY <4>7
    <3>. QED  BY <3>2, <3>3
  <2>. QED  BY <2>1, <2>2
<1>15. \A k \in 1 .. m : f[k] \in Seq(Char)
  <2>. HIDE DEF S
  <2>1. \A k \in 0 .. m : k \in S
    BY <1>14, Downwards
  <2>. QED  BY <2>1 DEF S
<1>16. f \in [1 .. m -> Seq(Char)]
  BY <1>13, <1>15
<1>. QED  BY <1>1, <1>2, <1>8, <1>12, <1>16 DEF IsUnstuffing

\* Two sequences one after the other.
LEMMA JoinedIs ==
    ASSUME NEW S, NEW x \in Seq(S), NEW y \in Seq(S), NEW z, z = x \o y
    PROVE  /\ z \in Seq(S) /\ Len(z) = Len(x) + Len(y)
           /\ \A j \in 1 .. Len(x) : z[j] = x[j]
           /\ \A j \in 1 .. Len(y) : z[j + Len(x)] = y[j]
<1>1. PICK k \in Nat, l \in Nat : k = Len(x) /\ l = Len(y)
  OBVIOUS
<1>2. z \in Seq(S) /\ Len(z) = k + l /\ \A j \in 1 .. k + l : z[j] = IF j <= k THEN x[j] ELSE y[j - k]
  BY <1>1, ConcatProperties
<1>3. \A j \in 1 .. l : (j + k) - k = j /\ j + k \in 1 .. k + l /\ ~(j + k <= k)
  OBVIOUS
<1>4. \A j \in 1 .. k : j \in 1 .. k + l /\ j <= k
  OBVIOUS
<1>. QED  BY <1>1, <1>2, <1>3, <1>4

\* Behind the buffer there is nothing.
LEMMA UnstuffEnd ==
    ASSUME NEW v \in Seq(Char), NEW f, IsUnstuffing(v, f), NEW p \in Nat, p = Len(v) + 1
    PROVE  f[p] = SubSeq(v, p, Len(v))
<1>1. Len(v) \in Nat
  OBVIOUS
<1>2. p \in 1 .. Len(v) + 3 /\ p .. Len(v) - 2 = {}
  BY <1>1
<1>3. Matches(v, p) = {}
  BY <1>2 DEF Matches
<1>. QED  BY <1>2, <1>3 DEF IsUnstuffing

\* A name for the provers not to look behind.
Cat(x, y) == x \o y

\* Concatenation is associative.
LEMMA Associates ==
    ASSUME NEW x \in Seq(Char), NEW y \in Seq(Char), NEW z \in Seq(Char)
    PROVE  Cat(Cat(x, y), z) = Cat(x, Cat(y, z))
BY ConcatAssociative DEF Cat

\* One element is a sequence.
LEMMA Single == ASSUME NEW S, NEW e \in S PROVE <<e>> \in Seq(S)
OBVIOUS

MatchAt(v, p) == p + 2 <= Len(v) /\ v[p] = "n" /\ v[p + 1] = "." /\ v[p + 2] = "."

\* dot_unstuff seen one character at a time: behind the '\0' nothing changes, a
\* CRLF and two dots lose one of them, anything else is copied.
LEMMA UnstuffStep ==
    ASSUME NEW v \in Seq(Char), NEW f, IsUnstuffing(v, f), NEW p \in 1 .. Len(v)
    PROVE  /\ v[p] = "0" => f[p] = SubSeq(v, p, Len(v))
           /\ MatchAt(v, p) => f[p] = <<"n">> \o (<<".">> \o f[p + 3])
           /\ ~MatchAt(v, p) /\ v[p] # "0" => f[p] = <<v[p]>> \o f[p + 1]
<1>1. PICK n \in Nat : n = Len(v)
  OBVIOUS
<1>2. p \in 1 .. n + 3 /\ p + 1 \in 1 .. n + 3 /\ p \in p .. p /\ n \in 0 .. n
  BY <1>1
<1>3. \A k \in 1 .. n + 3 : f[k] \in Seq(Char)
  BY <1>1 DEF IsUnstuffing
<1>4. \A k \in 1 .. n + 3 : f[k] = IF Matches(v, k) = {} THEN SubSeq(v, k, n)
                                ELSE SubSeq(v, k, First(v, k) + 1) \o f[First(v, k) + 3]
  BY <1>1 DEF IsUnstuffing
<1>5. ASSUME v[p] = "0" PROVE f[p] = SubSeq(v, p, Len(v))
  <2>1. Matches(v, p) = {}
    <3>1. ASSUME NEW q \in Matches(v, p) PROVE FALSE
      <4>1. q \in p .. n /\ \A k \in p .. q : v[k] # "0"
        BY <1>1, <1>2, MatchesIn
      <4>. QED  BY <1>1, <1>5, <4>1
    <3>. QED  BY <3>1
  <2>. QED  BY <1>1, <1>2, <1>4, <2>1
<1>6. ASSUME MatchAt(v, p) PROVE f[p] = <<"n">> \o (<<".">> \o f[p + 3])
  <2>1. p \in Matches(v, p)
    <3>1. p \in p .. Len(v) - 2 /\ \A k \in p .. p : v[k] # "0"
      BY <1>1, <1>6 DEF MatchAt
    <3>. QED  BY <1>6, <3>1 DEF Matches, MatchAt
  <2>2. First(v, p) = p
    <3>1. First(v, p) \in Matches(v, p) /\ First(v, p) <= p
      BY <1>1, <1>2, <2>1, FirstIs
    <3>2. First(v, p) \in p .. n
      BY <1>1, <1>2, <3>1, MatchesIn
    <3>. QED  BY <3>1, <3>2
  <2>3. f[p] = SubSeq(v, p, p + 1) \o f[p + 3]
    BY <1>2, <1>4, <2>1, <2>2
  <2>4. v[p] = "n" /\ v[p + 1] = "." /\ p + 1 \in p .. Len(v) /\ p + 3 \in 1 .. n + 3
    BY <1>1, <1>6 DEF MatchAt
  <2>5. SubSeq(v, p, p + 1) = <<v[p]>> \o SubSeq(v, p + 1, p + 1)
    BY <2>4, SubSeqRecursiveFirst
  <2>6. SubSeq(v, p + 1, p + 1) = <<v[p + 1]>>
    <3>1. p + 1 \in 1 .. Len(v) /\ p + 1 \in p + 1 .. Len(v) /\ p + 1 < (p + 1) + 1 /\ (p + 1) + 1 \in Int
      BY <1>1, <2>4
    <3>2. SubSeq(v, p + 1, p + 1) = <<v[p + 1]>> \o SubSeq(v, (p + 1) + 1, p + 1)
      BY <3>1, SubSeqRecursiveFirst
    <3>3. SubSeq(v, (p + 1) + 1, p + 1) = <<>>
      BY <3>1, SubSeqEmpty
    <3>4. <<v[p + 1]>> \o <<>> = <<v[p + 1]>>
      BY <3>1, ConcatEmptySeq
    <3>. QED  BY <3>2, <3>3, <3>4
  <2>7. PICK A \in Seq(Char), B \in Seq(Char), F \in Seq(Char) : A = <<"n">> /\ B = <<".">> /\ F = f[p + 3]
    <3>1. <<"n">> \in Seq(Char) /\ <<".">> \in Seq(Char)
      BY DEF Char
    <3>. QED  BY <1>3, <2>4, <3>1
  <2>8. f[p] = (A \o B) \o F
    BY <2>3, <2>4, <2>5, <2>6, <2>7
  <2>. QED  BY <2>7, <2>8, ConcatAssociative
<1>7. ASSUME ~MatchAt(v, p), v[p] # "0" PROVE f[p] = <<v[p]>> \o f[p + 1]
  <2>1. ASSUME NEW q
        PROVE  q \in Matches(v, p) <=> q \in Matches(v, p + 1)
    <3>1. ASSUME q \in Matches(v, p) PROVE q \in Matches(v, p + 1)
      <4>1. /\ q \in p .. n - 2 /\ v[q] = "n" /\ v[q + 1] = "." /\ v[q + 2] = "."
            /\ \A k \in p .. q : v[k] # "0"
        BY <1>1, <3>1 DEF Matches
      <4>2. q # p
        BY <1>1, <1>7, <4>1 DEF MatchAt
      <4>3. q \in p + 1 .. n - 2 /\ \A k \in p + 1 .. q : v[k] # "0"
        BY <4>1, <4>2
      <4>. QED  BY <1>1, <4>1, <4>3 DEF Matches
    <3>2. ASSUME q \in Matches(v, p + 1) PROVE q \in Matches(v, p)
      <4>1. /\ q \in p + 1 .. n - 2 /\ v[q] = "n" /\ v[q + 1] = "." /\ v[q + 2] = "."
            /\ \A k \in p + 1 .. q : v[k] # "0"
        BY <1>1, <3>2 DEF Matches
      <4>2. q \in p .. n - 2 /\ \A k \in p .. q : v[k] # "0"
        BY <1>7, <4>1
      <4>. QED  BY <1>1, <4>1, <4>2 DEF Matches
    <3>. QED  BY <3>1, <3>2
  <2>2. Matches(v, p) = Matches(v, p + 1)
    BY <2>1
  <2>3. CASE Matches(v, p) = {}
    <3>1. f[p] = SubSeq(v, p, n) /\ f[p + 1] = SubSeq(v, p + 1, n)
      BY <1>2, <1>4, <2>2, <2>3
    <3>2. n \in p .. Len(v)
      BY <1>1
    <3>3. SubSeq(v, p, n) = <<v[p]>> \o SubSeq(v, p + 1, n)
      BY <3>2, SubSeqRecursiveFirst
    <3>. QED  BY <3>1, <3>3
  <2>4. CASE Matches(v, p) # {}
    <3>1. PICK q : q = First(v, p) /\ q = First(v, p + 1)
      BY <2>2 DEF First
    <3>2. q \in Matches(v, p)
      BY <1>1, <1>2, <2>4, <3>1, FirstIs
    <3>3. q + 1 \in p .. Len(v) /\ q + 1 \in 0 .. Len(v) /\ q + 3 \in 1 .. n + 3
      BY <1>1, <1>2, <3>2, MatchesIn
    <3>4. f[p] = SubSeq(v, p, q + 1) \o f[q + 3] /\ f[p + 1] = SubSeq(v, p + 1, q + 1) \o f[q + 3]
      BY <1>2, <1>4, <2>2, <2>4, <3>1
    <3>5. SubSeq(v, p, q + 1) = <<v[p]>> \o SubSeq(v, p + 1, q + 1)
      BY <3>3, SubSeqRecursiveFirst
    <3>6. <<v[p]>> \in Seq(Char) /\ SubSeq(v, p + 1, q + 1) \in Seq(Char) /\ f[q + 3] \in Seq(Char)
      <4>1. v[p] \in Char
        BY ElementOfSeq
      <4>. QED  BY <1>1, <1>2, <1>3, <3>3, <4>1, PartIs
    <3>7. PICK A, B, F, u, w :
            A \in Seq(Char) /\ B \in Seq(Char) /\ F \in Seq(Char) /\ A = <<v[p]>> /\ B = SubSeq(v, p + 1, q + 1) /\ F = f[q + 3] /\ u = A \o B /\ w = B \o F
      BY <3>6
    <3>8. u = A \o B /\ w = B \o F
      BY <3>7
    <3>a. A \in Seq(Char) /\ B \in Seq(Char) /\ F \in Seq(Char)
      BY <3>7
    <3>9. u \o F = A \o w
      <4>1. u = Cat(A, B) /\ w = Cat(B, F)
        BY <3>8 DEF Cat
      <4>2. Cat(u, F) = Cat(A, w)
        BY <3>a, <4>1, Associates
      <4>. QED  BY <4>2 DEF Cat
    <3>. QED  BY <3>4, <3>5, <3>7, <3>9
  <2>. QED  BY <2>3, <2>4
<1>. QED  BY <1>5, <1>6, <1>7

\* An answer, place by place: the first line, the stuffed text, the last line.
AnswerPlaces(a, m, w) ==
    /\ Places(a, m)
    /\ Len(w) = m[Len(a)] + 4
    /\ w[1] = "2" /\ w[2] = "n" /\ w[m[Len(a)] + 3] = "." /\ w[m[Len(a)] + 4] = "n"
    /\ \A i \in 1 .. Len(a) :
         /\ m[i] + 2 \in 1 .. Len(w) /\ w[m[i] + 2] = a[i]
         /\ IsStuffed(a, i) => m[i] + 1 \in 1 .. Len(w) /\ w[m[i] + 1] = "."

\* Stuffing makes a text longer, or leaves it as it is.
LEMMA PlacesGrow ==
    ASSUME NEW a, Len(a) \in Nat, NEW m, Places(a, m)
    PROVE  \A i \in 0 .. Len(a) : m[i] \in Nat /\ m[i] >= i
<1>1. PICK n \in Nat : n = Len(a)
  OBVIOUS
<1>2. \A i \in 0 .. n : m[i] \in Nat
  BY <1>1 DEF Places
<1>. DEFINE S == {k \in 0 .. n : m[k] >= k}
<1>3. 0 \in S
  BY <1>1 DEF Places
<1>4. ASSUME NEW k \in 0 .. n - 1, k \in S PROVE k + 1 \in S
  <2>1. k + 1 \in 1 .. n /\ (k + 1) - 1 = k /\ k + 1 \in 0 .. n /\ k \in 0 .. n
    OBVIOUS
  <2>2. m[k + 1] = m[k] + (IF IsStuffed(a, k + 1) THEN 2 ELSE 1)
    BY <1>1, <2>1 DEF Places
  <2>3. m[k + 1] >= m[k] + 1
    BY <1>2, <2>1, <2>2
  <2>. QED  BY <1>2, <1>4, <2>1, <2>3
<1>. HIDE DEF S
<1>5. \A k \in 0 .. n : k \in S
  BY <1>3, <1>4, Upwards
<1>. QED  BY <1>1, <1>2, <1>5 DEF S

\* Every place of the stuffed text is that of a character or of the dot before it.
LEMMA PlacesCover ==
    ASSUME NEW a, Len(a) \in Nat, NEW m, Places(a, m), NEW q \in 1 .. m[Len(a)]
    PROVE  \E i \in 1 .. Len(a) : q = m[i] \/ (IsStuffed(a, i) /\ q = m[i] - 1)
<1>1. PICK n \in Nat : n = Len(a)
  OBVIOUS
<1>2. \A i \in 0 .. n : m[i] \in Nat
  BY <1>1 DEF Places
<1>. DEFINE S == {k \in 0 .. n : q \in 1 .. m[k] =>
                     \E i \in 1 .. n : q = m[i] \/ (IsStuffed(a, i) /\ q = m[i] - 1)}
<1>3. 0 \in S
  <2>1. m[0] = 0
    BY DEF Places
  <2>. QED  BY <2>1
<1>4. ASSUME NEW k \in 0 .. n - 1, k \in S PROVE k + 1 \in S
  <2>1. PICK c \in 1 .. n : c = k + 1 /\ c - 1 = k /\ c \in 0 .. n /\ k \in 0 .. n
    OBVIOUS
  <2>2. m[c] = m[k] + (IF IsStuffed(a, c) THEN 2 ELSE 1) /\ m[c] \in Nat /\ m[k] \in Nat
    BY <1>1, <1>2, <2>1 DEF Places
  <2>3. ASSUME q \in 1 .. m[c]
        PROVE  \E i \in 1 .. n : q = m[i] \/ (IsStuffed(a, i) /\ q = m[i] - 1)
    <3>1. q \in 1 .. m[k] \/ q = m[c] \/ (IsStuffed(a, c) /\ q = m[c] - 1)
      BY <2>2, <2>3
    <3>2. CASE q \in 1 .. m[k]
      BY <1>4, <3>2
    <3>3. CASE q = m[c] \/ (IsStuffed(a, c) /\ q = m[c] - 1)
      BY <3>3
    <3>. QED  BY <3>1, <3>2, <3>3
  <2>. QED  BY <2>1, <2>3
<1>5. n \in S
  <2>. HIDE DEF S
  <2>1. \A k \in 0 .. n : k \in S
    BY <1>3, <1>4, Upwards
  <2>. QED  BY <2>1
<1>. QED  BY <1>1, <1>5

\* What the server sends.
LEMMA AnswerIs ==
    ASSUME NEW a \in Text
    PROVE  Answer(a) \in Seq(Char) /\ Answer(a) \in Seq(Char \ {"0"}) /\ \E m : AnswerPlaces(a, m, Answer(a))
<1>1. PICK m : /\ Places(a, m) /\ Len(Stuffed(a)) = m[Len(a)]
               /\ \A i \in 1 .. Len(a) :
                    /\ m[i] \in 1 .. Len(Stuffed(a)) /\ Stuffed(a)[m[i]] = a[i]
                    /\ IsStuffed(a, i) => m[i] - 1 \in 1 .. Len(Stuffed(a)) /\ Stuffed(a)[m[i] - 1] = "."
  BY StuffedIs
<1>2. PICK s, x, y, C : /\ s = Stuffed(a) /\ x = <<"2", "n">> /\ y = <<".", "n">> /\ C = Char \ {"0"}
  OBVIOUS
<1>a. /\ s \in Seq(C) /\ x \in Seq(C) /\ y \in Seq(C)
      /\ Len(x) = 2 /\ x[1] = "2" /\ x[2] = "n" /\ Len(y) = 2 /\ y[1] = "." /\ y[2] = "n"
  <2>1. {"n", ".", "x"} \subseteq C
    BY <1>2 DEF Char
  <2>2. s \in Seq(C)
    BY <1>2, <2>1, StuffedIs, SeqMonotonic DEF Text
  <2>3. x \in Seq(C) /\ Len(x) = 2 /\ x[1] = "2" /\ x[2] = "n"
    BY <1>2 DEF Char
  <2>4. y \in Seq(C) /\ Len(y) = 2 /\ y[1] = "." /\ y[2] = "n"
    BY <1>2 DEF Char
  <2>. QED  BY <2>2, <2>3, <2>4
<1>3. s \in Seq(C) /\ x \in Seq(C) /\ y \in Seq(C)
  BY <1>a
<1>b. Len(x) = 2 /\ Len(y) = 2
  BY <1>a
<1>4. PICK k \in Nat : k = Len(s)
  BY <1>3
<1>e. k = m[Len(a)]
  BY <1>1, <1>2, <1>4
<1>5. PICK h : h = x \o s
  OBVIOUS
<1>6. /\ h \in Seq(C) /\ Len(h) = k + 2 /\ h[1] = "2" /\ h[2] = "n"
      /\ \A j \in 1 .. k : h[j + 2] = s[j]
  <2>1. h \in Seq(C)
    BY <1>3, <1>5, JoinedIs
  <2>2. Len(h) = Len(x) + Len(s)
    BY <1>3, <1>5, JoinedIs
  <2>3. \A j \in 1 .. Len(x) : h[j] = x[j]
    BY <1>3, <1>5, JoinedIs
  <2>4. \A j \in 1 .. Len(s) : h[j + Len(x)] = s[j]
    BY <1>3, <1>5, JoinedIs
  <2>5. Len(h) = k + 2 /\ \A j \in 1 .. k : h[j + 2] = s[j]
    BY <1>b, <1>4, <2>2, <2>4
  <2>6. h[1] = x[1] /\ h[2] = x[2]
    BY <1>b, <2>3
  <2>. QED  BY <1>a, <2>1, <2>5, <2>6
<1>7. PICK w : w = h \o y
  OBVIOUS
<1>c. Len(h) = k + 2
  BY <1>6
<1>d. h \in Seq(C)
  BY <1>6
<1>8. /\ w \in Seq(C) /\ Len(w) = k + 4 /\ \A j \in 1 .. k + 2 : w[j] = h[j]
      /\ w[k + 3] = "." /\ w[k + 4] = "n"
  <2>1. w \in Seq(C)
    BY <1>3, <1>d, <1>7, JoinedIs
  <2>2. Len(w) = Len(h) + Len(y)
    BY <1>3, <1>d, <1>7, JoinedIs
  <2>3. \A j \in 1 .. Len(h) : w[j] = h[j]
    BY <1>3, <1>d, <1>7, JoinedIs
  <2>4. \A j \in 1 .. Len(y) : w[j + Len(h)] = y[j]
    BY <1>3, <1>d, <1>7, JoinedIs
  <2>5. 1 + (k + 2) = k + 3 /\ 2 + (k + 2) = k + 4
    OBVIOUS
  <2>6. w[1 + (k + 2)] = y[1] /\ w[2 + (k + 2)] = y[2]
    BY <1>b, <1>c, <2>4
  <2>7. Len(w) = k + 4 /\ \A j \in 1 .. k + 2 : w[j] = h[j]
    BY <1>b, <1>c, <2>2, <2>3
  <2>. QED  BY <1>a, <2>1, <2>5, <2>6, <2>7
<1>9. w = Answer(a)
  BY <1>2, <1>5, <1>7 DEF Answer
<1>10. w[1] = "2" /\ w[2] = "n" /\ \A j \in 1 .. k : w[j + 2] = s[j] /\ j + 2 \in 1 .. Len(w)
  <2>1. 1 \in 1 .. k + 2 /\ 2 \in 1 .. k + 2 /\ \A j \in 1 .. k : j + 2 \in 1 .. k + 2 /\ j + 2 \in 1 .. k + 4
    OBVIOUS
  <2>. QED  BY <1>6, <1>8, <2>1
<1>11. \A i \in 1 .. Len(a) :
         /\ m[i] + 2 \in 1 .. Len(w) /\ w[m[i] + 2] = a[i]
         /\ IsStuffed(a, i) => m[i] + 1 \in 1 .. Len(w) /\ w[m[i] + 1] = "."
  <2>1. ASSUME NEW i \in 1 .. Len(a)
        PROVE  /\ m[i] + 2 \in 1 .. Len(w) /\ w[m[i] + 2] = a[i]
               /\ IsStuffed(a, i) => m[i] + 1 \in 1 .. Len(w) /\ w[m[i] + 1] = "."
    <3>1. m[i] \in 1 .. k /\ s[m[i]] = a[i]
      BY <1>1, <1>2, <1>4
    <3>2. ASSUME IsStuffed(a, i)
          PROVE  m[i] + 1 \in 1 .. Len(w) /\ w[m[i] + 1] = "."
      <4>1. PICK j \in 1 .. k : j = m[i] - 1 /\ s[j] = "."
        BY <1>1, <1>2, <1>4, <3>2
      <4>2. j + 2 = m[i] + 1
        BY <3>1, <4>1
      <4>. QED  BY <1>10, <4>1, <4>2
    <3>. QED  BY <1>10, <3>1, <3>2
  <2>. QED  BY <2>1
<1>12. AnswerPlaces(a, m, w)
  BY <1>1, <1>e, <1>8, <1>10, <1>11 DEF AnswerPlaces
<1>13. C \subseteq Char
  BY <1>2
<1>14. w \in Seq(Char)
  BY <1>8, <1>13, SeqMonotonic
<1>. QED  BY <1>2, <1>8, <1>9, <1>12, <1>14

\* What the buffer holds when an answer is there: it and, if there is more, a '\0'
\* and whatever was there.
Received(v, w) ==
    /\ Len(v) >= Len(w) /\ \A j \in 1 .. Len(w) : v[j] = w[j]
    /\ Len(v) > Len(w) => v[Len(w) + 1] = "0"

\* From the place behind a character, what dot_unstuff gives is the rest of the
\* article and then the rest of the buffer, its last line first; between the two
\* dots of a stuffed character it stops nowhere.
LEMMA UnstuffedRest ==
    ASSUME NEW a \in Text, NEW m, NEW w, AnswerPlaces(a, m, w), NEW v \in Seq(Char), Received(v, w),
           NEW f, IsUnstuffing(v, f), Len(w) \in Nat,
           NEW i \in 0 .. Len(a), i = Len(a) \/ ~IsStuffed(a, i + 1)
    PROVE  f[m[i] + 3] = SubSeq(a, i + 1, Len(a)) \o SubSeq(v, m[Len(a)] + 3, Len(v))
<1>1. PICK n \in Nat, z \in Nat : n = Len(a) /\ z = Len(v)
  BY DEF Text
<1>2. /\ \A j \in 0 .. n : m[j] \in Nat
      /\ \A j \in 0 .. n - 1 : m[j + 1] = m[j] + (IF IsStuffed(a, j + 1) THEN 2 ELSE 1)
  <2>1. ASSUME NEW j \in 0 .. n - 1
        PROVE  m[j + 1] = m[j] + (IF IsStuffed(a, j + 1) THEN 2 ELSE 1)
    <3>1. j + 1 \in 1 .. n /\ (j + 1) - 1 = j
      OBVIOUS
    <3>. QED  BY <1>1, <3>1 DEF AnswerPlaces, Places
  <2>2. \A j \in 0 .. n : m[j] \in Nat
    BY <1>1 DEF AnswerPlaces, Places
  <2>. QED  BY <2>1, <2>2
<1>3. PICK l \in Nat : l = m[n]
  BY <1>2
<1>4. z >= l + 4 /\ v[l + 3] = "." /\ v[l + 4] = "n" /\ (z > l + 4 => v[l + 5] = "0")
  <2>1. Len(w) = l + 4 /\ w[l + 3] = "." /\ w[l + 4] = "n"
    BY <1>1, <1>3 DEF AnswerPlaces
  <2>2. l + 3 \in 1 .. l + 4 /\ l + 4 \in 1 .. l + 4 /\ (l + 4) + 1 = l + 5
    OBVIOUS
  <2>. QED  BY <1>1, <2>1, <2>2 DEF Received
<1>5. \A j \in 1 .. n :
        /\ m[j] + 2 \in 1 .. l + 4 /\ v[m[j] + 2] = a[j]
        /\ IsStuffed(a, j) => v[m[j] + 1] = "."
  <2>1. Len(w) = l + 4
    BY <1>1, <1>3 DEF AnswerPlaces
  <2>2. \A j \in 1 .. n :
        /\ m[j] + 2 \in 1 .. Len(w) /\ w[m[j] + 2] = a[j]
        /\ IsStuffed(a, j) => m[j] + 1 \in 1 .. Len(w) /\ w[m[j] + 1] = "."
    BY <1>1 DEF AnswerPlaces
  <2>. QED  BY <2>1, <2>2 DEF Received
<1>6. \A j \in 1 .. n : a[j] \in {"n", ".", "x"}
  BY <1>1, ElementOfSeq DEF Text
<1>7. PICK T : T = SubSeq(v, l + 3, z)
  OBVIOUS
<1>8. T \in Seq(Char)
  BY <1>1, <1>4, <1>7, PartIs
<1>9. \A j \in 0 .. n : SubSeq(a, j + 1, n) \in Seq(Char)
  <2>1. a \in Seq(Char)
    <3>1. {"n", ".", "x"} \subseteq Char
      BY DEF Char
    <3>. QED  BY <3>1, SeqMonotonic DEF Text
  <2>. QED  BY <1>1, <2>1, PartIs
<1>. DEFINE S == {j \in 0 .. n : (j = n \/ ~IsStuffed(a, j + 1)) => f[m[j] + 3] = SubSeq(a, j + 1, n) \o T}
<1>10. n \in S
  <2>1. /\ l + 3 \in 1 .. Len(v) /\ l + 4 \in 1 .. Len(v) /\ (z > l + 4 => l + 5 \in 1 .. Len(v))
        /\ (z > l + 4 \/ l + 5 = Len(v) + 1) /\ (l + 3) + 1 = l + 4 /\ (l + 4) + 1 = l + 5
        /\ z \in l + 3 .. Len(v) /\ z \in l + 4 .. Len(v)
    BY <1>1, <1>4
  <2>2. ~MatchAt(v, l + 3) /\ ~MatchAt(v, l + 4)
    <3>1. ~MatchAt(v, l + 3)
      BY <1>4, <2>1 DEF MatchAt
    <3>2. ~MatchAt(v, l + 4)
      <4>1. CASE z > l + 4
        BY <1>4, <2>1, <4>1 DEF MatchAt
      <4>2. CASE ~(z > l + 4)
        <5>1. ~((l + 4) + 2 <= Len(v))
          BY <1>1, <4>2
        <5>. QED  BY <5>1 DEF MatchAt
      <4>. QED  BY <4>1, <4>2
    <3>. QED  BY <3>1, <3>2
  <2>3. f[l + 5] = SubSeq(v, l + 5, z)
    <3>1. CASE z > l + 4
      BY <1>1, <1>4, <2>1, <3>1, UnstuffStep
    <3>2. CASE ~(z > l + 4)
      BY <1>1, <2>1, <3>2, UnstuffEnd
    <3>. QED  BY <3>1, <3>2
  <2>a. \A p \in 1 .. Len(v) : ~MatchAt(v, p) /\ v[p] # "0" => f[p] = <<v[p]>> \o f[p + 1]
    BY UnstuffStep
  <2>b. v[l + 3] # "0" /\ v[l + 4] # "0"
    BY <1>4
  <2>4. f[l + 4] = <<v[l + 4]>> \o f[l + 5]
    BY <2>1, <2>2, <2>a, <2>b
  <2>5. f[l + 3] = <<v[l + 3]>> \o f[l + 4]
    BY <2>1, <2>2, <2>a, <2>b
  <2>6. SubSeq(v, l + 4, z) = <<v[l + 4]>> \o SubSeq(v, l + 5, z)
    BY <2>1, SubSeqRecursiveFirst
  <2>7. SubSeq(v, l + 3, z) = <<v[l + 3]>> \o SubSeq(v, l + 4, z)
    BY <2>1, SubSeqRecursiveFirst
  <2>8. f[l + 3] = T
    BY <1>7, <2>3, <2>4, <2>5, <2>6, <2>7
  <2>9. SubSeq(a, n + 1, n) = <<>>
    BY SubSeqEmpty
  <2>10. <<>> \o T = T
    BY <1>8, ConcatEmptySeq
  <2>11. f[l + 3] = SubSeq(a, n + 1, n) \o T
    BY <2>8, <2>9, <2>10
  <2>. QED  BY <1>3, <2>11
<1>11. ASSUME NEW k \in 0 .. n, \A j \in k + 1 .. n : j \in S PROVE k \in S
  <2>1. SUFFICES ASSUME k # n, ~IsStuffed(a, k + 1)
                 PROVE  f[m[k] + 3] = SubSeq(a, k + 1, n) \o T
    BY <1>10
  <2>2. PICK c \in 1 .. n : c = k + 1 /\ c - 1 = k /\ k \in 0 .. n - 1 /\ c \in k + 1 .. n /\ c \in 0 .. n
    BY <2>1
  <2>3. PICK p \in Nat : p = m[k] + 3
    BY <1>2
  <2>a. m[c] = m[k] + 1
    BY <1>2, <2>1, <2>2
  <2>b. m[c] + 2 = p /\ m[c] + 3 = p + 1 /\ m[k] \in Nat /\ m[c] \in Nat
    BY <1>2, <2>2, <2>3, <2>a, SMTT(30)
  <2>c. m[c] + 2 \in 1 .. l + 4 /\ v[m[c] + 2] = a[c]
    BY <1>5, <2>2
  <2>d. p \in 1 .. l + 4 /\ z >= l + 4
    BY <1>4, <2>b, <2>c
  <2>e. p \in 1 .. Len(v)
    BY <1>1, <2>d
  <2>4. m[c] + 2 = p /\ m[c] + 3 = p + 1 /\ v[p] = a[c] /\ p \in 1 .. Len(v)
    BY <2>b, <2>c, <2>e
  <2>5. SubSeq(a, c, n) = <<a[c]>> \o SubSeq(a, c + 1, n)
    BY <1>1, <2>2, SubSeqRecursiveFirst DEF Text
  <2>6. CASE a[c] = "n" /\ c < n /\ a[c + 1] = "."
    <3>1. PICK d \in 1 .. n : d = c + 1 /\ d - 1 = c /\ c \in 0 .. n - 1 /\ d \in k + 1 .. n /\ d \in 0 .. n /\ d # 1
      BY <2>2, <2>6
    <3>2. IsStuffed(a, d)
      BY <2>6, <3>1 DEF IsStuffed, StartsLine
    <3>3. m[d] = m[c] + 2
      BY <1>2, <3>1, <3>2
    <3>4. m[d] + 1 = p + 1 /\ m[d] + 2 = p + 2 /\ m[d] + 3 = p + 3
      <4>1. m[c] \in Nat
        BY <1>2, <2>2
      <4>. QED  BY <2>b, <3>3, <4>1
    <3>5. v[p + 1] = "." /\ v[p + 2] = "." /\ p + 2 <= Len(v)
      <4>1. m[d] + 2 \in 1 .. l + 4 /\ v[m[d] + 2] = a[d] /\ v[m[d] + 1] = "."
        BY <1>5, <3>1, <3>2
      <4>2. p + 2 \in 1 .. l + 4
        BY <3>4, <4>1
      <4>3. p + 2 <= Len(v)
        BY <1>1, <2>d, <4>2
      <4>4. a[d] = "."
        BY <2>6, <3>1
      <4>. QED  BY <3>4, <4>1, <4>3, <4>4
    <3>6. MatchAt(v, p)
      BY <2>4, <2>6, <3>5 DEF MatchAt
    <3>7. f[p] = <<"n">> \o (<<".">> \o f[p + 3])
      BY <2>4, <3>6, UnstuffStep
    <3>8. d = n \/ ~IsStuffed(a, d + 1)
      <4>1. d # n => d + 1 # 1 /\ (d + 1) - 1 = d
        BY <3>1
      <4>2. a[d] # "n"
        BY <2>6, <3>1
      <4>. QED  BY <4>1, <4>2 DEF IsStuffed, StartsLine
    <3>9. f[p + 3] = SubSeq(a, d + 1, n) \o T
      BY <1>11, <3>1, <3>4, <3>8
    <3>10. SubSeq(a, d, n) = <<a[d]>> \o SubSeq(a, d + 1, n)
      BY <1>1, <3>1, SubSeqRecursiveFirst DEF Text
    <3>11. PICK A, B, R, r2, r1, r0, u1, u0 :
             /\ A = <<a[c]>> /\ B = <<a[d]>> /\ R = SubSeq(a, d + 1, n)
             /\ r2 = f[p + 3] /\ r1 = B \o r2 /\ r0 = A \o r1
             /\ u1 = SubSeq(a, d, n) /\ u0 = SubSeq(a, c, n)
      OBVIOUS
    <3>12. A \in Seq(Char) /\ B \in Seq(Char) /\ R \in Seq(Char) /\ u1 \in Seq(Char)
      <4>1. a[c] \in Char /\ a[d] \in Char
        BY <1>6, <2>2, <3>1 DEF Char
      <4>2. <<a[c]>> \in Seq(Char) /\ <<a[d]>> \in Seq(Char)
        BY <4>1, Single
      <4>3. SubSeq(a, d + 1, n) \in Seq(Char)
        BY <1>9, <3>1
      <4>4. SubSeq(a, c + 1, n) \in Seq(Char)
        BY <1>9, <2>2
      <4>. QED  BY <3>1, <3>11, <4>2, <4>3, <4>4
    <3>13. u1 = B \o R /\ u0 = A \o u1 /\ r2 = R \o T
      BY <2>5, <3>1, <3>9, <3>10, <3>11
    <3>14. r1 = u1 \o T
      <4>1. u1 \o T = B \o r2
        <5>1. u1 = Cat(B, R) /\ r2 = Cat(R, T)
          BY <3>13 DEF Cat
        <5>2. B \in Seq(Char) /\ R \in Seq(Char)
          BY <3>12
        <5>3. Cat(u1, T) = Cat(B, r2)
          BY <1>8, <5>1, <5>2, Associates
        <5>. QED  BY <5>3 DEF Cat
      <4>. QED  BY <3>11, <4>1
    <3>15. r0 = u0 \o T
      <4>1. u0 \o T = A \o r1
        <5>1. u0 = Cat(A, u1) /\ r1 = Cat(u1, T)
          BY <3>13, <3>14 DEF Cat
        <5>2. A \in Seq(Char) /\ u1 \in Seq(Char)
          BY <3>12
        <5>3. Cat(u0, T) = Cat(A, r1)
          BY <1>8, <5>1, <5>2, Associates
        <5>. QED  BY <5>3 DEF Cat
      <4>. QED  BY <3>11, <4>1
    <3>16. f[p] = r0
      BY <2>6, <3>1, <3>7, <3>11
    <3>. QED  BY <2>2, <2>3, <3>11, <3>15, <3>16
  <2>7. CASE ~(a[c] = "n" /\ c < n /\ a[c + 1] = ".")
    <3>1. c = n \/ ~IsStuffed(a, c + 1)
      <4>1. c # n => c + 1 # 1 /\ (c + 1) - 1 = c /\ c < n
        BY <2>2
      <4>. QED  BY <2>7, <4>1 DEF IsStuffed, StartsLine
    <3>2. ~MatchAt(v, p)
      <4>1. CASE a[c] # "n"
        BY <2>4, <4>1 DEF MatchAt
      <4>2. CASE a[c] = "n" /\ c = n
        <5>1. m[c] = l
          BY <1>3, <4>2
        <5>2. p + 2 = l + 4
          BY <2>b, <5>1
        <5>3. v[l + 4] = "n"
          BY <1>4
        <5>. QED  BY <5>2, <5>3 DEF MatchAt
      <4>3. CASE a[c] = "n" /\ c # n
        <5>1. PICK d \in 1 .. n : d = c + 1 /\ d - 1 = c /\ c \in 0 .. n - 1
          BY <2>2, <4>3
        <5>2. m[d] = m[c] + 1 /\ m[c] \in Nat
          BY <1>2, <3>1, <4>3, <5>1
        <5>3. m[d] + 2 = p + 1
          BY <2>4, <5>2, SMTT(30)
        <5>4. v[p + 1] = a[d]
          BY <1>5, <5>3
        <5>. QED  BY <2>7, <4>3, <5>1, <5>4 DEF MatchAt
      <4>. QED  BY <4>1, <4>2, <4>3
    <3>3. v[p] # "0"
      BY <1>6, <2>2, <2>4
    <3>4. f[p] = <<a[c]>> \o f[p + 1]
      BY <2>4, <3>2, <3>3, UnstuffStep
    <3>5. f[p + 1] = SubSeq(a, c + 1, n) \o T
      BY <1>11, <2>2, <2>4, <3>1
    <3>6. PICK A, R, r1, u0 : A = <<a[c]>> /\ R = SubSeq(a, c + 1, n) /\ r1 = f[p + 1] /\ u0 = SubSeq(a, c, n)
      OBVIOUS
    <3>7. A \in Seq(Char) /\ R \in Seq(Char)
      <4>1. a[c] \in Char
        BY <1>6, <2>2 DEF Char
      <4>2. <<a[c]>> \in Seq(Char)
        BY <4>1, Single
      <4>3. SubSeq(a, c + 1, n) \in Seq(Char)
        BY <1>9, <2>2
      <4>. QED  BY <3>6, <4>2, <4>3
    <3>8. u0 = A \o R /\ r1 = R \o T /\ f[p] = A \o r1
      BY <2>5, <3>4, <3>5, <3>6
    <3>9. u0 \o T = A \o r1
      <4>1. u0 = Cat(A, R) /\ r1 = Cat(R, T)
        BY <3>8 DEF Cat
      <4>2. Cat(u0, T) = Cat(A, r1)
        BY <1>8, <3>7, <4>1, Associates
      <4>. QED  BY <4>2 DEF Cat
    <3>. QED  BY <2>2, <2>3, <3>6, <3>8, <3>9
  <2>. QED  BY <2>6, <2>7
<1>12. i \in S
  <2>1. i \in 0 .. n
    BY <1>1
  <2>. HIDE DEF S
  <2>2. \A k \in 0 .. n : k \in S
    BY <1>11, Downwards
  <2>. QED  BY <2>1, <2>2
<1>. QED  BY <1>1, <1>3, <1>7, <1>12

\* dot_unstuff undoes the stuffing: the first line, the article and what follows
\* its stuffed form in the buffer.
THEOREM UnstuffedIs ==
    ASSUME NEW a \in Text, NEW v \in Seq(Char), Received(v, Answer(a))
    PROVE  /\ Unstuffed(v) \in Seq(Char)
           /\ Len(Unstuffed(v)) = Len(a) + 4 + (Len(v) - Len(Answer(a)))
           /\ Unstuffed(v)[1] = "2" /\ Unstuffed(v)[2] = "n"
           /\ \A i \in 1 .. Len(a) : Unstuffed(v)[i + 2] = a[i]
<1>1. PICK w, m : w = Answer(a) /\ AnswerPlaces(a, m, w) /\ w \in Seq(Char) /\ Received(v, w)
  BY AnswerIs
<1>2. PICK f : IsUnstuffing(v, f) /\ Unstuffed(v) = f[1]
  BY UnstuffedDef
<1>3. PICK n \in Nat, z \in Nat, l \in Nat : n = Len(a) /\ z = Len(v) /\ l = m[n] /\ Len(w) = l + 4
  <2>1. Len(a) \in Nat /\ Len(v) \in Nat
    BY DEF Text
  <2>2. Len(a) \in 0 .. Len(a)
    BY <2>1
  <2>. QED  BY <1>1, <2>1, <2>2 DEF AnswerPlaces, Places
<1>4. z >= l + 4 /\ \A j \in 1 .. l + 4 : v[j] = w[j]
  BY <1>1, <1>3 DEF Received
<1>a. z >= l + 4
  BY <1>4
<1>5. v[1] = "2" /\ v[2] = "n" /\ v[l + 3] = "." /\ v[l + 4] = "n"
  <2>1. w[1] = "2" /\ w[2] = "n" /\ w[l + 3] = "." /\ w[l + 4] = "n"
    BY <1>1, <1>3 DEF AnswerPlaces
  <2>2. 1 \in 1 .. l + 4 /\ 2 \in 1 .. l + 4 /\ l + 3 \in 1 .. l + 4 /\ l + 4 \in 1 .. l + 4
    OBVIOUS
  <2>. QED  BY <1>4, <2>1, <2>2
<1>6. PICK T : T = SubSeq(v, l + 3, z)
  OBVIOUS
<1>7. T \in Seq(Char) /\ Len(T) = z - l - 2
  <2>1. l + 3 \in 1 .. z + 3 /\ z \in 0 .. z /\ l + 3 <= z /\ l + 3 \in Int /\ z \in Int
    BY <1>a
  <2>2. T \in Seq(Char)
    BY <1>3, <1>6, <2>1, PartIs
  <2>3. \A i \in l + 3 .. z : v[i] \in Char
    <3>1. \A i \in l + 3 .. z : i \in 1 .. Len(v)
      BY <1>3
    <3>. QED  BY <3>1, ElementOfSeq
  <2>4. Len(SubSeq(v, l + 3, z)) = IF l + 3 <= z THEN z - (l + 3) + 1 ELSE 0
    BY <2>1, <2>3, SubSeqProperties
  <2>. QED  BY <1>6, <2>1, <2>2, <2>4
<1>8. a \in Seq(Char)
  <2>1. {"n", ".", "x"} \subseteq Char
    BY DEF Char
  <2>. QED  BY <2>1, SeqMonotonic DEF Text
<1>9. \A i \in 0 .. n : i = n \/ ~IsStuffed(a, i + 1) => f[m[i] + 3] = SubSeq(a, i + 1, n) \o T
  <2>1. ASSUME NEW i \in 0 .. n, i = n \/ ~IsStuffed(a, i + 1)
        PROVE  f[m[i] + 3] = SubSeq(a, i + 1, n) \o T
    <3>1. Len(w) \in Nat /\ i \in 0 .. Len(a) /\ (i = Len(a) \/ ~IsStuffed(a, i + 1))
      BY <1>3, <2>1
    <3>a. AnswerPlaces(a, m, w) /\ Received(v, w) /\ IsUnstuffing(v, f)
      BY <1>1, <1>2
    <3>2. f[m[i] + 3] = SubSeq(a, i + 1, Len(a)) \o SubSeq(v, m[Len(a)] + 3, Len(v))
      BY <3>1, <3>a, UnstuffedRest, ZenonT(60)
    <3>. QED  BY <1>3, <1>6, <3>2
  <2>. QED  BY <2>1
<1>10. m[0] = 0 /\ (n # 0 => m[1] = IF IsStuffed(a, 1) THEN 2 ELSE 1)
  <2>1. n # 0 => 1 \in 1 .. n
    OBVIOUS
  <2>2. 1 - 1 = 0 /\ 0 + 2 = 2 /\ 0 + 1 = 1
    OBVIOUS
  <2>. QED  BY <1>1, <1>3, <2>1, <2>2 DEF AnswerPlaces, Places
<1>11. SubSeq(a, 1, n) = a
  BY <1>3, <1>8, SubSeqFull
<1>12. 1 \in 1 .. Len(v) /\ 2 \in 1 .. Len(v) /\ 1 + 1 = 2 /\ 1 + 2 = 3 /\ 2 + 1 = 3 /\ 2 + 2 = 4 /\ 2 + 3 = 5 /\ 0 + 3 = 3
  BY <1>3, <1>a
<1>13. f[2] = <<"n">> \o (a \o T)
  <2>1. CASE n # 0 /\ a[1] = "."
    <3>1. IsStuffed(a, 1) /\ m[1] = 2
      BY <1>10, <2>1 DEF IsStuffed, StartsLine
    <3>2. v[3] = "." /\ v[4] = "."
      <4>1. 1 \in 1 .. n
        BY <2>1
      <4>2. m[1] + 2 \in 1 .. l + 4 /\ w[m[1] + 2] = a[1] /\ m[1] + 1 \in 1 .. l + 4 /\ w[m[1] + 1] = "."
        BY <1>1, <1>3, <3>1, <4>1 DEF AnswerPlaces
      <4>3. 4 \in 1 .. l + 4 /\ w[4] = a[1] /\ 3 \in 1 .. l + 4 /\ w[3] = "."
        BY <1>12, <3>1, <4>2
      <4>. QED  BY <1>4, <2>1, <4>3
    <3>3. MatchAt(v, 2)
      BY <1>3, <1>a, <1>5, <1>12, <3>2 DEF MatchAt
    <3>4. f[2] = <<"n">> \o (<<".">> \o f[5])
      <4>1. \A p \in 1 .. Len(v) : MatchAt(v, p) => f[p] = <<"n">> \o (<<".">> \o f[p + 3])
        BY <1>2, UnstuffStep
      <4>2. 2 \in 1 .. Len(v) /\ 2 + 3 = 5
        BY <1>12
      <4>. QED  BY <3>3, <4>1, <4>2
    <3>5. f[5] = SubSeq(a, 2, n) \o T
      <4>1. 1 \in 0 .. n
        BY <2>1
      <4>2. ~IsStuffed(a, 2)
        BY <1>12, <2>1 DEF IsStuffed, StartsLine
      <4>3. f[m[1] + 3] = SubSeq(a, 1 + 1, n) \o T
        BY <1>9, <1>12, <4>1, <4>2
      <4>. QED  BY <1>12, <3>1, <4>3
    <3>6. a = <<a[1]>> \o SubSeq(a, 2, n)
      <4>1. 1 \in 1 .. Len(a) /\ n \in 1 .. Len(a)
        BY <1>3, <2>1
      <4>2. SubSeq(a, 1, n) = <<a[1]>> \o SubSeq(a, 1 + 1, n)
        BY <1>8, <4>1, SubSeqRecursiveFirst
      <4>. QED  BY <1>11, <1>12, <4>2
    <3>7. PICK A, R, r : A = <<a[1]>> /\ R = SubSeq(a, 2, n) /\ r = R \o T
      OBVIOUS
    <3>8. A \in Seq(Char) /\ R \in Seq(Char)
      <4>1. a[1] \in Char
        BY <2>1 DEF Char
      <4>2. A \in Seq(Char)
        BY <3>7, <4>1, Single
      <4>3. 2 \in 1 .. Len(a) + 3 /\ n \in 0 .. Len(a)
        BY <1>3
      <4>. QED  BY <1>8, <3>7, <4>2, <4>3, PartIs
    <3>9. a = A \o R /\ r = R \o T
      BY <3>6, <3>7
    <3>10. a \o T = A \o r
      <4>1. T \in Seq(Char)
        BY <1>7
      <4>2. a = Cat(A, R) /\ r = Cat(R, T)
        BY <3>9 DEF Cat
      <4>3. Cat(a, T) = Cat(A, r)
        BY <3>8, <4>1, <4>2, Associates
      <4>. QED  BY <4>3 DEF Cat
    <3>. QED  BY <2>1, <3>4, <3>5, <3>7, <3>10
  <2>2. CASE ~(n # 0 /\ a[1] = ".")
    <3>1. n = 0 \/ ~IsStuffed(a, 1)
      BY <2>2 DEF IsStuffed
    <3>2. ~MatchAt(v, 2)
      <4>1. CASE n = 0
        <5>1. l = 0
          BY <1>3, <1>10, <4>1
        <5>. QED  BY <1>5, <1>12, <5>1 DEF MatchAt
      <4>2. CASE n # 0
        <5>1. 1 \in 1 .. n /\ m[1] = 1
          BY <1>10, <3>1, <4>2
        <5>2. m[1] + 2 \in 1 .. l + 4 /\ w[m[1] + 2] = a[1]
          BY <1>1, <1>3, <5>1 DEF AnswerPlaces
        <5>3. v[3] = a[1]
          BY <1>4, <1>12, <5>1, <5>2
        <5>. QED  BY <1>12, <2>2, <4>2, <5>3 DEF MatchAt
      <4>. QED  BY <4>1, <4>2
    <3>3. f[2] = <<"n">> \o f[3]
      <4>1. v[2] # "0"
        BY <1>5
      <4>2. f[2] = <<v[2]>> \o f[2 + 1]
        BY <1>2, <1>12, <3>2, <4>1, UnstuffStep
      <4>. QED  BY <1>5, <1>12, <4>2
    <3>4. f[3] = a \o T
      <4>1. 0 \in 0 .. n /\ 0 + 1 = 1
        OBVIOUS
      <4>2. f[m[0] + 3] = SubSeq(a, 0 + 1, n) \o T
        BY <1>9, <3>1, <4>1
      <4>. QED  BY <1>10, <1>11, <1>12, <4>1, <4>2
    <3>. QED  BY <3>3, <3>4
  <2>. QED  BY <2>1, <2>2
<1>14. f[1] = <<"2">> \o f[2]
  <2>1. ~MatchAt(v, 1) /\ v[1] # "0"
    BY <1>5 DEF MatchAt
  <2>2. f[1] = <<v[1]>> \o f[1 + 1]
    BY <1>2, <1>12, <2>1, UnstuffStep
  <2>. QED  BY <1>5, <1>12, <2>2
<1>15. PICK A, B, r2, r1, r0 : A = <<"2">> /\ B = <<"n">> /\ r2 = a \o T /\ r1 = B \o r2 /\ r0 = A \o r1
  OBVIOUS
<1>16. A \in Seq(Char) /\ B \in Seq(Char)
  <2>1. "2" \in Char /\ "n" \in Char
    BY DEF Char
  <2>. QED  BY <1>15, <2>1, Single
<1>17. Len(A) = 1 /\ Len(B) = 1 /\ A[1] = "2" /\ B[1] = "n"
  BY <1>15
<1>18. /\ r2 \in Seq(Char) /\ Len(r2) = Len(a) + Len(T) /\ \A j \in 1 .. Len(a) : r2[j] = a[j]
  <2>1. T \in Seq(Char) /\ r2 = a \o T
    BY <1>7, <1>15
  <2>. QED  BY <1>8, <2>1, JoinedIs
<1>19. /\ r1 \in Seq(Char) /\ Len(r1) = Len(B) + Len(r2) /\ \A j \in 1 .. Len(B) : r1[j] = B[j]
       /\ \A j \in 1 .. Len(r2) : r1[j + Len(B)] = r2[j]
  <2>1. r2 \in Seq(Char) /\ r1 = B \o r2 /\ B \in Seq(Char)
    BY <1>15, <1>16, <1>18
  <2>. QED  BY <2>1, JoinedIs
<1>20. /\ r0 \in Seq(Char) /\ Len(r0) = Len(A) + Len(r1) /\ \A j \in 1 .. Len(A) : r0[j] = A[j]
       /\ \A j \in 1 .. Len(r1) : r0[j + Len(A)] = r1[j]
  <2>1. r1 \in Seq(Char) /\ r0 = A \o r1 /\ A \in Seq(Char)
    BY <1>15, <1>16, <1>19
  <2>. QED  BY <2>1, JoinedIs
<1>21. r0 = Unstuffed(v)
  BY <1>2, <1>13, <1>14, <1>15
<1>22. Len(r2) = n + (z - l - 2) /\ Len(r1) = 1 + Len(r2) /\ Len(r0) = 1 + Len(r1)
  BY <1>3, <1>7, <1>17, <1>18, <1>19, <1>20
<1>23. Len(r0) = n + 4 + (z - (l + 4)) /\ Len(r2) \in Nat /\ Len(r1) = Len(r2) + 1 /\ n <= Len(r2)
  BY <1>a, <1>22
<1>24. r0[1] = "2" /\ r0[2] = "n"
  <2>1. r0[1] = A[1]
    BY <1>17, <1>20
  <2>2. 1 \in 1 .. Len(r1) /\ r0[1 + 1] = r1[1] /\ r1[1] = B[1]
    BY <1>17, <1>19, <1>20, <1>23
  <2>. QED  BY <1>12, <1>17, <2>1, <2>2
<1>25. \A i \in 1 .. n : r0[i + 2] = a[i]
  <2>1. ASSUME NEW i \in 1 .. n PROVE r0[i + 2] = a[i]
    <3>1. i \in 1 .. Len(a) /\ i \in 1 .. Len(r2) /\ i + 1 \in 1 .. Len(r1) /\ (i + 1) + 1 = i + 2
      BY <1>3, <1>23
    <3>2. r2[i] = a[i]
      BY <1>18, <3>1
    <3>3. r1[i + 1] = r2[i]
      BY <1>17, <1>19, <3>1
    <3>4. r0[(i + 1) + 1] = r1[i + 1]
      BY <1>17, <1>20, <3>1
    <3>. QED  BY <3>1, <3>2, <3>3, <3>4
  <2>. QED  BY <2>1
<1>26. Len(Unstuffed(v)) = Len(a) + 4 + (Len(v) - Len(Answer(a)))
  BY <1>1, <1>3, <1>21, <1>23
<1>. QED  BY <1>3, <1>20, <1>21, <1>24, <1>25, <1>26

\* The terminator is nowhere but at the end of an answer: a line that begins with a
\* dot begins with two.
THEOREM EndsOnce ==
    ASSUME NEW a \in Text, NEW r \in 1 .. Len(Answer(a)), NEW d,
           \A j \in 1 .. r : d[j] = Answer(a)[j], Ends(d, r)
    PROVE  r = Len(Answer(a))
<1>1. PICK w, m : w = Answer(a) /\ AnswerPlaces(a, m, w)
  BY AnswerIs
<1>2. PICK n \in Nat, l \in Nat : n = Len(a) /\ l = m[n] /\ Len(w) = l + 4
  <2>1. Len(a) \in Nat
    BY DEF Text
  <2>2. Len(a) \in 0 .. Len(a)
    BY <2>1
  <2>. QED  BY <1>1, <2>1, <2>2 DEF AnswerPlaces, Places
<1>3. r \in 1 .. l + 4 /\ r >= 3
  BY <1>1, <1>2 DEF Ends
<1>4. PICK q \in 2 .. l + 3 : q = r - 1 /\ q - 1 = r - 2 /\ q + 1 = r
  BY <1>3
<1>5. w[q - 1] = "n" /\ w[q] = "." /\ w[q + 1] = "n"
  <2>1. PICK u : u = SubSeq(d, r - 2, r)
    OBVIOUS
  <2>2. u[1] = "n" /\ u[2] = "." /\ u[3] = "n"
    <3>1. u = <<"n", ".", "n">>
      BY <2>1 DEF Ends
    <3>. QED  BY <3>1
  <2>3. r - 2 \in Int /\ r \in Int /\ 1 \in 1 .. r - (r - 2) + 1 /\ 2 \in 1 .. r - (r - 2) + 1 /\ 3 \in 1 .. r - (r - 2) + 1
        /\ (r - 2) + 1 - 1 = q - 1 /\ (r - 2) + 2 - 1 = q /\ (r - 2) + 3 - 1 = q + 1
    BY <1>3, <1>4
  <2>4. \A i \in r - 2 .. r : d[i] \in {d[j] : j \in r - 2 .. r}
    OBVIOUS
  <2>5. \A i \in 1 .. r - (r - 2) + 1 : u[i] = d[(r - 2) + i - 1]
    BY <2>1, <2>3, <2>4, SubSeqProperties
  <2>6. u[1] = d[q - 1] /\ u[2] = d[q] /\ u[3] = d[q + 1]
    BY <2>3, <2>5
  <2>7. q - 1 \in 1 .. r /\ q \in 1 .. r /\ q + 1 \in 1 .. r
    BY <1>3, <1>4
  <2>. QED  BY <1>1, <2>2, <2>6, <2>7
<1>6. SUFFICES ASSUME r # l + 4 PROVE FALSE
  BY <1>1, <1>2
<1>7. q \in 3 .. l + 2
  <2>1. w[2] = "n"
    BY <1>1 DEF AnswerPlaces
  <2>2. q # 2
    BY <1>5, <2>1
  <2>. QED  BY <1>3, <1>4, <1>6, <2>2
<1>8. PICK i \in 1 .. n : q - 2 = m[i] \/ (IsStuffed(a, i) /\ q - 2 = m[i] - 1)
  <2>1. q - 2 \in 1 .. l
    BY <1>7
  <2>2. q - 2 \in 1 .. m[Len(a)] /\ Len(a) \in Nat
    BY <1>2, <2>1
  <2>3. Places(a, m)
    BY <1>1 DEF AnswerPlaces
  <2>4. \E i \in 1 .. Len(a) : q - 2 = m[i] \/ (IsStuffed(a, i) /\ q - 2 = m[i] - 1)
    BY <2>2, <2>3, PlacesCover
  <2>. QED  BY <1>2, <2>4
<1>9. /\ m[i] \in Nat /\ w[m[i] + 2] = a[i]
      /\ IsStuffed(a, i) => w[m[i] + 1] = "."
      /\ m[i - 1] \in Nat /\ m[i] = m[i - 1] + (IF IsStuffed(a, i) THEN 2 ELSE 1)
      /\ i # 1 => w[m[i - 1] + 2] = a[i - 1]
  <2>1. i \in 0 .. n /\ i - 1 \in 0 .. n /\ (i # 1 => i - 1 \in 1 .. n)
    OBVIOUS
  <2>2. m[i] \in Nat /\ m[i - 1] \in Nat /\ m[i] = m[i - 1] + (IF IsStuffed(a, i) THEN 2 ELSE 1)
    BY <1>1, <1>2, <2>1 DEF AnswerPlaces, Places
  <2>3. /\ w[m[i] + 2] = a[i]
        /\ IsStuffed(a, i) => w[m[i] + 1] = "."
        /\ i # 1 => w[m[i - 1] + 2] = a[i - 1]
    BY <1>1, <1>2, <2>1 DEF AnswerPlaces
  <2>. QED  BY <2>2, <2>3
<1>10. CASE IsStuffed(a, i)
  <2>1. a[i] = "." /\ w[m[i] + 1] = "."
    BY <1>9, <1>10 DEF IsStuffed
  <2>2. CASE q - 2 = m[i]
    <3>1. q - 1 = m[i] + 1
      BY <1>9, <2>2
    <3>. QED  BY <1>5, <2>1, <3>1
  <2>3. CASE q - 2 = m[i] - 1
    <3>1. q + 1 = m[i] + 2
      BY <1>9, <2>3
    <3>. QED  BY <1>5, <1>9, <2>1, <3>1
  <2>. QED  BY <1>8, <2>2, <2>3
<1>11. CASE ~IsStuffed(a, i)
  <2>1. q = m[i] + 2 /\ q - 1 = m[i - 1] + 2
    <3>1. q - 2 = m[i] /\ m[i] = m[i - 1] + 1 /\ m[i] \in Nat /\ m[i - 1] \in Nat
      BY <1>8, <1>9, <1>11
    <3>. QED  BY <3>1
  <2>2. a[i] = "."
    BY <1>5, <1>9, <2>1
  <2>3. i # 1 /\ a[i - 1] # "n"
    BY <1>11, <2>2 DEF IsStuffed, StartsLine
  <2>4. w[q - 1] = a[i - 1]
    BY <1>9, <2>1, <2>3
  <2>. QED  BY <1>5, <2>3, <2>4
<1>. QED  BY <1>10, <1>11

\* An answer is longer than its article by four at least.
LEMMA AnswerLonger ==
    ASSUME NEW a \in Text
    PROVE  Len(a) \in Nat /\ Len(Answer(a)) \in Nat /\ Len(a) + 4 <= Len(Answer(a))
<1>1. PICK m : AnswerPlaces(a, m, Answer(a))
  BY AnswerIs
<1>2. Len(a) \in Nat /\ Len(a) \in 0 .. Len(a)
  BY DEF Text
<1>3. Places(a, m) /\ Len(Answer(a)) = m[Len(a)] + 4
  BY <1>1 DEF AnswerPlaces
<1>4. m[Len(a)] \in Nat /\ m[Len(a)] >= Len(a)
  BY <1>2, <1>3, PlacesGrow
<1>. QED  BY <1>2, <1>3, <1>4

\* vec_adjust_sz gives the room asked for.
LEMMA AdjustedIs ==
    ASSUME NEW d \in Seq(Char), NEW sz \in Nat
    PROVE  Adjusted(d, sz) \in Seq(Char) /\ Len(Adjusted(d, sz)) >= sz
<1>1. CASE sz > Len(d)
  <2>1. PICK k \in Nat : k = sz - Len(d)
    BY <1>1
  <2>2. PICK e : e = [i \in 1 .. k |-> "0"]
    OBVIOUS
  <2>3. e \in [1 .. k -> Char]
    BY <2>2 DEF Char
  <2>4. e \in Seq(Char) /\ Len(e) = k
    BY <2>3, SeqDef
  <2>5. Adjusted(d, sz) = d \o e
    BY <1>1, <2>1, <2>2 DEF Adjusted
  <2>6. d \o e \in Seq(Char) /\ Len(d \o e) = Len(d) + Len(e)
    BY <2>4, ConcatProperties
  <2>. QED  BY <2>1, <2>4, <2>5, <2>6
<1>2. CASE ~(sz > Len(d))
  BY <1>2 DEF Adjusted
<1>. QED  BY <1>1, <1>2

-----------------------------------------------------------------------------
(* What the buffers contain.                                               *)

DataOK == \A i \in DOMAIN vec_data : vec_data[i].data \in Seq(Char)

\* The rest of the types.
TypeText ==
    /\ art \in [Thr -> Articles]
    /\ net \in [Thr -> Seq(Char)]
    /\ rb \in [Thr -> 0 .. Room]
    /\ file \in [Thr -> Seq(Char)]
    /\ fetched \in 0 .. NFetch

\* What has been received is at the start of the buffer, the rest on its way.
Receiving(v, w, r, rest) ==
    /\ Len(v) >= Room /\ r + Len(rest) = Len(w)
    /\ \A j \in 1 .. r : v[j] = w[j]
    /\ \A j \in 1 .. Len(rest) : rest[j] = w[r + j]

\* After dot_unstuff, the article is between the first line and the last.
Unframed(v, a, r) ==
    /\ r = Len(a) + 4 /\ Len(v) >= r /\ v[1] = "2" /\ v[2] = "n"
    /\ \A j \in 1 .. Len(a) : v[j + 2] = a[j]

\* fetch_body's own buffer: dot_unstuff's is taken after it.
Own(h, p) == h[IF p \in {"copy", "write"} THEN Len(h) - 1 ELSE Len(h)]

\* What a thread's buffer and stream contain, from where the thread is.
ThreadText(p, v, a, r, rest, out) ==
    /\ p = "recv" => Receiving(v, Answer(a), r, rest)
    /\ p \in {"unstuff", "copy"} => Received(v, Answer(a)) /\ r = Len(Answer(a))
    /\ p = "write" => Unframed(v, a, r)
    /\ out \in {Nothing, a}

InvText ==
    \A t \in Thr :
        ThreadText(pc[t], vec_data[Own(hndls[t], pc[t])].data, art[t], rb[t], net[t], file[t])

TInv == IInv /\ DataOK /\ TypeText /\ InvText

\* GetHandle and vec_adjust_sz: the buffer taken has the room asked for, and those
\* that are in use are left alone.
LEMMA GetData ==
    ASSUME IInv, DataOK, NEW t \in Thr, NEW sz \in Nat, Get(t, sz)
    PROVE  \E i : /\ hndls' = [hndls EXCEPT ![t] = Append(@, i)]
                  /\ i \in DOMAIN vec_data' /\ Len(vec_data'[i].data) >= sz
                  /\ DataOK'
                  /\ \A k \in DOMAIN vec_data : vec_data[k].in_use => vec_data'[k].data = vec_data[k].data
<1>0. PICK D : vec_data \in Seq(Buffers(D))
  BY DEF IInv, TypeHeld, IsPool
<1>1. DOMAIN vec_data = 1 .. Len(vec_data) /\ Len(vec_data) \in Nat
  BY <1>0
<1>2. CASE FreeOnes # {}
  <2>1. FreeOnes \subseteq Nat
    BY <1>0 DEF FreeOnes
  <2>2. \E n \in FreeOnes : \A k \in FreeOnes : n <= k
    BY <1>2, <2>1, Smallest
  <2>3. PICK i \in FreeOnes : i = CHOOSE n \in FreeOnes : \A k \in FreeOnes : n <= k
    BY <2>2
  <2>4. PICK d : d = Adjusted(vec_data[i].data, sz)
    OBVIOUS
  <2>5. i \in DOMAIN vec_data /\ ~vec_data[i].in_use
    BY <2>3 DEF FreeOnes, Held
  <2>6. d \in Seq(Char) /\ Len(d) >= sz
    BY <2>4, <2>5, AdjustedIs DEF DataOK
  <2>7. /\ vec_data' = [vec_data EXCEPT ![i] = [data |-> d, in_use |-> TRUE]]
        /\ hndls' = [hndls EXCEPT ![t] = Append(@, i)]
    BY <1>2, <2>3, <2>4 DEF Get
  <2>8. /\ DOMAIN vec_data' = DOMAIN vec_data /\ vec_data'[i].data = d
        /\ \A k \in DOMAIN vec_data \ {i} : vec_data'[k].data = vec_data[k].data
    BY <2>5, <2>7
  <2>9. DataOK'
    BY <2>6, <2>8 DEF DataOK
  <2>. QED  BY <2>5, <2>6, <2>7, <2>8, <2>9
<1>3. CASE FreeOnes = {}
  <2>1. PICK i \in Nat : i = Len(vec_data) + 1
    BY <1>1
  <2>2. PICK d : d = Adjusted(<<>>, sz)
    OBVIOUS
  <2>3. d \in Seq(Char) /\ Len(d) >= sz
    BY <2>2, EmptySeq, AdjustedIs
  <2>4. PICK b : b = [data |-> d, in_use |-> TRUE]
    OBVIOUS
  <2>5. vec_data' = Append(vec_data, b) /\ hndls' = [hndls EXCEPT ![t] = Append(@, i)]
    BY <1>3, <2>1, <2>2, <2>4 DEF Get
  <2>6. vec_data \in Seq(Buffers(D \cup {d})) /\ b \in Buffers(D \cup {d})
    <3>1. Buffers(D) \subseteq Buffers(D \cup {d})
      BY DEF Buffers
    <3>2. b \in Buffers(D \cup {d})
      BY <2>4 DEF Buffers
    <3>. QED  BY <1>0, <3>1, <3>2, SeqMonotonic
  <2>7. /\ Len(vec_data') = i /\ vec_data'[i] = b /\ DOMAIN vec_data' = 1 .. i
        /\ \A k \in 1 .. Len(vec_data) : vec_data'[k] = vec_data[k]
    BY <2>1, <2>5, <2>6, AppendProperties
  <2>8. i \in DOMAIN vec_data' /\ vec_data'[i].data = d /\ \A k \in DOMAIN vec_data : vec_data'[k] = vec_data[k]
    BY <1>1, <2>1, <2>4, <2>7
  <2>9. \A k \in DOMAIN vec_data' : k = i \/ k \in DOMAIN vec_data
    BY <1>1, <2>1, <2>7
  <2>10. DataOK'
    BY <2>3, <2>8, <2>9 DEF DataOK
  <2>. QED  BY <2>3, <2>5, <2>8, <2>10
<1>. QED  BY <1>2, <1>3

\* What the other threads have and hold is as it was.
Others(t) ==
    /\ \A u \in Thr \ {t} :
         /\ pc'[u] = pc[u] /\ hndls'[u] = hndls[u] /\ art'[u] = art[u]
         /\ net'[u] = net[u] /\ rb'[u] = rb[u] /\ file'[u] = file[u]
    /\ \A i \in DOMAIN vec_data :
         vec_data[i].in_use /\ (\A j \in 1 .. 3 : ~Holds(hndls, t, j, i)) => vec_data'[i].data = vec_data[i].data

\* fetch_body's own buffer is one that it holds.
LEMMA OwnHeld ==
    ASSUME IInv, NEW t \in Thr, pc[t] \in {"recv", "unstuff", "copy", "write"}
    PROVE  /\ Own(hndls[t], pc[t]) \in DOMAIN vec_data /\ vec_data[Own(hndls[t], pc[t])].in_use
           /\ \E j \in 1 .. 3 : Holds(hndls, t, j, Own(hndls[t], pc[t]))
<1>1. Len(hndls[t]) \in Frames(pc[t]) /\ hndls[t] \in Seq(1 .. Len(vec_data)) /\ DOMAIN vec_data = 1 .. Len(vec_data)
  BY DEF IInv, InvFrames, TypeHeld, IsPool
<1>2. PICK n \in 1 .. 3 : n = Len(hndls[t])
  <2>1. Len(hndls[t]) \in {1, 2} \/ Len(hndls[t]) \in {2, 3}
    BY <1>1 DEF Frames
  <2>2. \A k \in {1, 2} : k \in 1 .. 3
    OBVIOUS
  <2>3. \A k \in {2, 3} : k \in 1 .. 3
    OBVIOUS
  <2>. QED  BY <2>1, <2>2, <2>3
<1>3. PICK j \in 1 .. 3 : j \in 1 .. n /\ j = IF pc[t] \in {"copy", "write"} THEN n - 1 ELSE n
  <2>1. CASE pc[t] \in {"copy", "write"}
    <3>1. n \in {2, 3}
      BY <1>1, <1>2, <2>1 DEF Frames
    <3>2. n - 1 \in 1 .. 3 /\ n - 1 \in 1 .. n
      BY <3>1
    <3>. QED  BY <2>1, <3>2
  <2>2. CASE pc[t] \notin {"copy", "write"}
    BY <2>2
  <2>. QED  BY <2>1, <2>2
<1>4. Own(hndls[t], pc[t]) = hndls[t][j] /\ hndls[t][j] \in 1 .. Len(vec_data)
  BY <1>1, <1>2, <1>3, ElementOfSeq DEF Own
<1>5. Holds(hndls, t, j, Own(hndls[t], pc[t]))
  BY <1>2, <1>3, <1>4 DEF Holds
<1>. QED  BY <1>1, <1>4, <1>5 DEF IInv, InvMarked

\* So a step of one thread does not touch the text of the others.
LEMMA OthersKeep ==
    ASSUME IInv, InvText, NEW t \in Thr, Others(t), NEW u \in Thr \ {t}
    PROVE  ThreadText(pc'[u], vec_data'[Own(hndls'[u], pc'[u])].data, art'[u], rb'[u], net'[u], file'[u])
<1>1. /\ pc'[u] = pc[u] /\ hndls'[u] = hndls[u] /\ art'[u] = art[u]
      /\ net'[u] = net[u] /\ rb'[u] = rb[u] /\ file'[u] = file[u]
  BY DEF Others
<1>2. ThreadText(pc[u], vec_data[Own(hndls[u], pc[u])].data, art[u], rb[u], net[u], file[u])
  BY DEF InvText
<1>3. CASE pc[u] \in {"recv", "unstuff", "copy", "write"}
  <2>1. PICK i \in DOMAIN vec_data : i = Own(hndls[u], pc[u]) /\ vec_data[i].in_use /\ \E j \in 1 .. 3 : Holds(hndls, u, j, i)
    BY <1>3, OwnHeld
  <2>2. PICK j \in 1 .. 3 : Holds(hndls, u, j, i)
    BY <2>1
  <2>3. \A k \in 1 .. 3 : ~Holds(hndls, t, k, i)
    BY <2>2 DEF IInv, InvOne
  <2>4. vec_data'[i].data = vec_data[i].data
    BY <2>1, <2>3 DEF Others
  <2>. QED  BY <1>1, <1>2, <2>1, <2>4
<1>4. CASE pc[u] \notin {"recv", "unstuff", "copy", "write"}
  BY <1>1, <1>2, <1>4 DEF ThreadText
<1>. QED  BY <1>3, <1>4

WithData(v, i, e) == [v EXCEPT ![i].data = e]

\* One buffer gets other data, the others keep theirs.
LEMMA DataOfOne ==
    ASSUME NEW D, NEW v \in Seq(Buffers(D)), NEW i \in DOMAIN v, NEW e
    PROVE  /\ DOMAIN WithData(v, i, e) = DOMAIN v /\ WithData(v, i, e)[i].data = e
           /\ \A k \in DOMAIN v : k # i => WithData(v, i, e)[k].data = v[k].data
<1>1. v[i] \in Buffers(D)
  <2>1. DOMAIN v = 1 .. Len(v)
    OBVIOUS
  <2>. QED  BY <2>1, ElementOfSeq
<1>2. PICK b : b = [v[i] EXCEPT !.data = e]
  OBVIOUS
<1>3. b.data = e
  BY <1>1, <1>2 DEF Buffers
<1>4. WithData(v, i, e) = [v EXCEPT ![i] = b]
  BY <1>2 DEF WithData
<1>. QED  BY <1>3, <1>4

\* ~handle leaves the data where it is.
LEMMA LetGoData ==
    ASSUME IInv, DataOK, NEW t \in Thr, Len(hndls[t]) \in Nat \ {0}, LetGo(t)
    PROVE  DataOK' /\ \A k \in DOMAIN vec_data : vec_data'[k].data = vec_data[k].data
<1>1. PICK D : vec_data \in Seq(Buffers(D))
  BY DEF IInv, TypeHeld, IsPool
<1>2. PICK i \in DOMAIN vec_data : i = Last(hndls[t])
  <2>1. hndls[t] \in Seq(1 .. Len(vec_data)) /\ DOMAIN vec_data = 1 .. Len(vec_data)
    BY <1>1 DEF IInv, TypeHeld
  <2>. QED  BY <2>1, FrontIs
<1>3. vec_data[i] \in Buffers(D)
  <2>1. DOMAIN vec_data = 1 .. Len(vec_data)
    BY <1>1
  <2>. QED  BY <1>1, <2>1, ElementOfSeq
<1>4. PICK b : b = [vec_data[i] EXCEPT !.in_use = FALSE]
  OBVIOUS
<1>5. b.data = vec_data[i].data
  BY <1>3, <1>4 DEF Buffers
<1>6. vec_data' = [vec_data EXCEPT ![i] = b]
  BY <1>2, <1>4 DEF LetGo
<1>7. DOMAIN vec_data' = DOMAIN vec_data /\ \A k \in DOMAIN vec_data : vec_data'[k].data = vec_data[k].data
  BY <1>5, <1>6
<1>. QED  BY <1>7 DEF DataOK

-----------------------------------------------------------------------------
(* One lemma for each action.                                              *)

TextStep(t) ==
    /\ DataOK' /\ TypeText' /\ Others(t)
    /\ ThreadText(pc'[t], vec_data'[Own(hndls'[t], pc'[t])].data, art'[t], rb'[t], net'[t], file'[t])

\* The last handle is the one just taken, the others stay.
LEMMA Appended ==
    ASSUME NEW h, NEW S, h \in Seq(S), NEW i
    PROVE  /\ Len(Append(h, i)) = Len(h) + 1 /\ Append(h, i)[Len(h) + 1] = i
           /\ \A j \in 1 .. Len(h) : Append(h, i)[j] = h[j]
<1>1. h \in Seq(S \cup {i}) /\ i \in S \cup {i}
  BY SeqMonotonic
<1>. QED  BY <1>1, AppendProperties

\* The articles are texts, and so are the answers.
LEMMA ArticleIs ==
    ASSUME NEW a \in Articles
    PROVE  a \in Text /\ a \in Seq(Char) /\ Answer(a) \in Seq(Char)
<1>1. a \in Text
  BY ArticlesAssumption DEF Text
<1>2. {"n", ".", "x"} \subseteq Char
  BY DEF Char
<1>. QED  BY <1>1, <1>2, AnswerIs, SeqMonotonic DEF Text

\* The call begins: all is on its way.
LEMMA BeginText ==
    ASSUME TInv, NEW t \in Thr, Begin(t)
    PROVE  TextStep(t)
<1>1. IInv /\ DataOK /\ TypeText /\ InvText /\ Len(hndls[t]) = 0 /\ hndls[t] \in Seq(1 .. Len(vec_data))
  <2>1. pc[t] = "idle"
    BY DEF Begin, Moves
  <2>. QED  BY <2>1 DEF TInv, IInv, InvFrames, Frames, TypeHeld
<1>2. PICK a \in Articles : art' = [art EXCEPT ![t] = a] /\ net' = [net EXCEPT ![t] = Answer(a)]
  BY DEF Begin
<1>3. a \in Seq(Char) /\ Answer(a) \in Seq(Char)
  BY ArticleIs
<1>4. PICK i : /\ hndls' = [hndls EXCEPT ![t] = Append(@, i)]
               /\ i \in DOMAIN vec_data' /\ Len(vec_data'[i].data) >= Room
               /\ DataOK'
               /\ \A k \in DOMAIN vec_data : vec_data[k].in_use => vec_data'[k].data = vec_data[k].data
  BY <1>1, RoomAssumption, GetData DEF Begin
<1>5. pc' = [pc EXCEPT ![t] = "recv"] /\ rb' = [rb EXCEPT ![t] = 0] /\ file' = [file EXCEPT ![t] = Nothing]
      /\ fetched' = fetched + 1 /\ fetched < NFetch
  BY DEF Begin, Moves
<1>6. TypeText'
  <2>1. Nothing \in Seq(Char)
    <3>1. "0" \in Char
      BY DEF Char
    <3>. QED  BY <3>1, Single DEF Nothing
  <2>2. art' \in [Thr -> Articles]
    BY <1>1, <1>2 DEF TypeText
  <2>3. net' \in [Thr -> Seq(Char)]
    BY <1>1, <1>2, <1>3 DEF TypeText
  <2>4. rb' \in [Thr -> 0 .. Room]
    BY <1>1, <1>5, RoomAssumption DEF TypeText
  <2>5. file' \in [Thr -> Seq(Char)]
    BY <1>1, <1>5, <2>1 DEF TypeText
  <2>6. fetched' \in 0 .. NFetch
    BY <1>1, <1>5, NFetchAssumption DEF TypeText
  <2>. QED  BY <2>2, <2>3, <2>4, <2>5, <2>6 DEF TypeText
<1>7. Others(t)
  BY <1>2, <1>4, <1>5 DEF Others
<1>8. pc'[t] = "recv" /\ art'[t] = a /\ net'[t] = Answer(a) /\ rb'[t] = 0 /\ file'[t] = Nothing
      /\ hndls'[t] = Append(hndls[t], i)
  BY <1>1, <1>2, <1>4, <1>5 DEF TInv, IInv, TypeHeld, TypeText
<1>9. Own(hndls'[t], "recv") = i
  <2>1. Len(hndls'[t]) = 0 + 1 /\ hndls'[t][0 + 1] = i
    BY <1>1, <1>8, Appended
  <2>. QED  BY <2>1 DEF Own
<1>10. Receiving(vec_data'[i].data, Answer(a), 0, Answer(a))
  <2>1. Len(Answer(a)) \in Nat
    BY <1>3
  <2>. QED  BY <1>4, <2>1 DEF Receiving
<1>11. ThreadText("recv", vec_data'[i].data, a, 0, Answer(a), Nothing)
  BY <1>10 DEF ThreadText
<1>. QED  BY <1>4, <1>6, <1>7, <1>8, <1>9, <1>11 DEF TextStep

\* The call inside the call: another buffer, nothing received yet.
LEMMA AgainText ==
    ASSUME TInv, NEW t \in Thr, Again(t)
    PROVE  TextStep(t)
<1>1. /\ IInv /\ DataOK /\ TypeText /\ InvText /\ Len(hndls[t]) = 1 /\ hndls[t] \in Seq(1 .. Len(vec_data))
      /\ pc[t] = "recv" /\ rb[t] = 0 /\ hndls \in [Thr -> Seq(1 .. Len(vec_data))]
  BY DEF TInv, IInv, TypeHeld, Again
<1>2. UNCHANGED <<pc, art, net, rb, file, fetched>>
  BY DEF Again
<1>3. PICK i : /\ hndls' = [hndls EXCEPT ![t] = Append(@, i)]
               /\ i \in DOMAIN vec_data' /\ Len(vec_data'[i].data) >= Room
               /\ DataOK'
               /\ \A k \in DOMAIN vec_data : vec_data[k].in_use => vec_data'[k].data = vec_data[k].data
  BY <1>1, RoomAssumption, GetData DEF Again
<1>4. TypeText'
  BY <1>1, <1>2 DEF TypeText
<1>5. Others(t)
  BY <1>2, <1>3 DEF Others
<1>6. Own(hndls'[t], "recv") = i
  <2>1. hndls'[t] = Append(hndls[t], i)
    BY <1>1, <1>3
  <2>2. PICK h : h = hndls[t]
    OBVIOUS
  <2>3. h \in Seq(1 .. Len(vec_data)) /\ Len(h) = 1
    BY <1>1, <2>2
  <2>4. Len(Append(h, i)) = Len(h) + 1 /\ Append(h, i)[Len(h) + 1] = i
    BY <2>3, Appended
  <2>5. Len(hndls'[t]) = 2 /\ hndls'[t][2] = i
    BY <2>1, <2>2, <2>3, <2>4
  <2>. QED  BY <2>5 DEF Own
<1>7. ThreadText("recv", vec_data[Own(hndls[t], "recv")].data, art[t], 0, net[t], file[t])
  BY <1>1 DEF InvText
<1>8. ThreadText("recv", vec_data'[i].data, art[t], 0, net[t], file[t])
  <2>1. Receiving(vec_data[Own(hndls[t], "recv")].data, Answer(art[t]), 0, net[t])
    BY <1>7 DEF ThreadText
  <2>2. Receiving(vec_data'[i].data, Answer(art[t]), 0, net[t])
    BY <1>3, <2>1 DEF Receiving
  <2>. QED  BY <1>7, <2>2 DEF ThreadText
<1>. QED  BY <1>1, <1>2, <1>3, <1>4, <1>5, <1>6, <1>8 DEF TextStep

\* An exception: what has been received is left where it is.
LEMMA ThrowText ==
    ASSUME TInv, NEW t \in Thr, Throw(t)
    PROVE  TextStep(t)
<1>1. IInv /\ DataOK /\ TypeText /\ InvText /\ pc \in [Thr -> {"idle", "recv", "unstuff", "copy", "write", "release"}]
  BY DEF TInv, IInv, TypeHeld
<1>2. UNCHANGED <<vec_data, hndls, art, net, rb, file, fetched>> /\ pc' = [pc EXCEPT ![t] = "release"]
  BY DEF Throw, Moves
<1>3. DataOK' /\ TypeText' /\ Others(t)
  BY <1>1, <1>2 DEF DataOK, TypeText, Others
<1>4. file[t] \in {Nothing, art[t]}
  BY <1>1 DEF InvText, ThreadText
<1>. QED  BY <1>1, <1>2, <1>3, <1>4 DEF TextStep, ThreadText

Overlay(v, rest, r, m) == [i \in DOMAIN v |-> IF i \in r + 1 .. r + m THEN rest[i - r] ELSE v[i]]

\* What is received goes behind what was there.
LEMMA OverlayIs ==
    ASSUME NEW v \in Seq(Char), NEW rest \in Seq(Char), NEW r \in Nat, NEW m \in 1 .. Len(rest)
    PROVE  /\ Overlay(v, rest, r, m) \in Seq(Char) /\ Len(Overlay(v, rest, r, m)) = Len(v)
           /\ \A i \in 1 .. Len(v) : i \in 1 .. r => Overlay(v, rest, r, m)[i] = v[i]
           /\ \A i \in 1 .. Len(v) : i \in r + 1 .. r + m => Overlay(v, rest, r, m)[i] = rest[i - r]
<1>0. PICK d : d = Overlay(v, rest, r, m)
  OBVIOUS
<1>1. DOMAIN v = 1 .. Len(v) /\ Len(v) \in Nat /\ Len(rest) \in Nat
  OBVIOUS
<1>2. \A i \in 1 .. Len(v) : v[i] \in Char
  BY ElementOfSeq
<1>3. \A i \in r + 1 .. r + m : i - r \in 1 .. Len(rest)
  BY <1>1
<1>4. \A i \in r + 1 .. r + m : rest[i - r] \in Char
  BY <1>3, ElementOfSeq
<1>5. d \in [1 .. Len(v) -> Char]
  BY <1>0, <1>1, <1>2, <1>4 DEF Overlay
<1>6. d \in Seq(Char) /\ Len(d) = Len(v)
  BY <1>1, <1>5
<1>7. \A i \in 1 .. Len(v) : i \in 1 .. r => i \notin r + 1 .. r + m
  BY <1>1
<1>8. \A i \in 1 .. Len(v) : i \in 1 .. r => d[i] = v[i]
  BY <1>0, <1>1, <1>7 DEF Overlay
<1>9. \A i \in 1 .. Len(v) : i \in r + 1 .. r + m => d[i] = rest[i - r]
  BY <1>0, <1>1 DEF Overlay
<1>. QED  BY <1>0, <1>6, <1>8, <1>9

\* So, where a part of the answer was, there is a longer one.
LEMMA Fills ==
    ASSUME NEW v \in Seq(Char), NEW w \in Seq(Char), NEW rest \in Seq(Char), NEW r \in Nat, Receiving(v, w, r, rest),
           NEW m \in 1 .. Len(rest), r + m <= Room, NEW d \in Seq(Char), Len(d) = Len(v),
           \A i \in 1 .. Len(v) : i \in 1 .. r => d[i] = v[i],
           \A i \in 1 .. Len(v) : i \in r + 1 .. r + m => d[i] = rest[i - r]
    PROVE  /\ SubSeq(rest, m + 1, Len(rest)) \in Seq(Char)
           /\ r + m \in 1 .. Len(w) /\ r + m <= Len(d)
           /\ Receiving(d, w, r + m, SubSeq(rest, m + 1, Len(rest)))
<1>1. Len(v) \in Nat /\ Len(rest) \in Nat /\ Len(w) \in Nat /\ m \in Nat
  OBVIOUS
<1>2. Len(v) >= Room /\ r + Len(rest) = Len(w) /\ r + m <= Len(v)
  BY <1>1, RoomAssumption DEF Receiving
<1>3. \A j \in 1 .. r : d[j] = w[j]
  <2>1. \A j \in 1 .. r : j \in 1 .. Len(v) /\ v[j] = w[j]
    BY <1>1, <1>2 DEF Receiving
  <2>. QED  BY <2>1
<1>4. ASSUME NEW j \in r + 1 .. r + m PROVE d[j] = w[j]
  <2>1. PICK k : k = j - r
    OBVIOUS
  <2>2. k \in 1 .. Len(rest) /\ j \in 1 .. Len(v) /\ r + k = j
    BY <1>1, <1>2, <2>1
  <2>3. rest[k] = w[r + k]
    BY <2>2 DEF Receiving
  <2>4. d[j] = rest[k]
    BY <2>1, <2>2
  <2>. QED  BY <2>2, <2>3, <2>4
<1>5. \A j \in 1 .. r + m : d[j] = w[j]
  <2>1. \A j \in 1 .. r + m : j \in 1 .. r \/ j \in r + 1 .. r + m
    BY <1>1
  <2>. QED  BY <1>3, <1>4, <2>1
<1>6. PICK z : z = SubSeq(rest, m + 1, Len(rest))
  OBVIOUS
<1>7. /\ z \in Seq(Char) /\ Len(z) = Len(rest) - m
      /\ \A j \in 1 .. Len(rest) - m : z[j] = rest[m + j]
  <2>1. m + 1 \in 1 .. Len(rest) + 1
    BY <1>1
  <2>2. \A j \in m + 1 .. Len(rest) : rest[j] \in Char
    BY <1>1, ElementOfSeq
  <2>. QED  BY <1>1, <1>6, <2>1, <2>2, SubSeqProperties
<1>8. ASSUME NEW j \in 1 .. Len(z) PROVE z[j] = w[(r + m) + j]
  <2>1. PICK k : k = m + j
    OBVIOUS
  <2>2. j \in 1 .. Len(rest) - m /\ k \in 1 .. Len(rest) /\ r + k = (r + m) + j
    BY <1>1, <1>7, <2>1
  <2>3. rest[k] = w[r + k]
    BY <2>2 DEF Receiving
  <2>4. z[j] = rest[k]
    BY <1>7, <2>1, <2>2
  <2>. QED  BY <2>2, <2>3, <2>4
<1>9. (r + m) + Len(z) = Len(w)
  BY <1>1, <1>2, <1>7
<1>10. Receiving(d, w, r + m, z)
  <2>1. Len(d) >= Room
    BY <1>2
  <2>. QED  BY <2>1, <1>5, <1>8, <1>9 DEF Receiving
<1>11. r + m \in 1 .. Len(w)
  BY <1>1, <1>2
<1>. QED  BY <1>2, <1>6, <1>7, <1>10, <1>11

\* The '\0' behind the answer, where there is room for it.
LEMMA Terminated ==
    ASSUME NEW d \in Seq(Char), NEW w, NEW r \in Nat, r = Len(w), r <= Len(d), \A j \in 1 .. r : d[j] = w[j],
           NEW e, e = IF r < Len(d) THEN [d EXCEPT ![r + 1] = "0"] ELSE d
    PROVE  e \in Seq(Char) /\ Received(e, w)
<1>1. CASE r < Len(d)
  <2>1. r + 1 \in 1 .. Len(d) /\ DOMAIN d = 1 .. Len(d) /\ Len(d) \in Nat
    BY <1>1
  <2>2. e = [d EXCEPT ![r + 1] = "0"] /\ "0" \in Char
    BY <1>1 DEF Char
  <2>3. e \in Seq(Char) /\ Len(e) = Len(d)
    BY <2>1, <2>2
  <2>4. e[r + 1] = "0"
    BY <2>1, <2>2
  <2>5. \A j \in 1 .. r : e[j] = d[j]
    BY <2>1, <2>2
  <2>6. \A j \in 1 .. Len(w) : e[j] = w[j]
    BY <2>5
  <2>. QED  BY <1>1, <2>3, <2>4, <2>6 DEF Received
<1>2. CASE ~(r < Len(d))
  <2>1. e = d /\ Len(d) = Len(w)
    BY <1>2
  <2>. QED  BY <2>1 DEF Received
<1>. QED  BY <1>1, <1>2

\* The loop: more of the answer is there, or all of it.
LEMMA ReceiveText ==
    ASSUME TInv, NEW t \in Thr, Receive(t)
    PROVE  TextStep(t)
<1>1. /\ IInv /\ DataOK /\ TypeText /\ InvText /\ pc[t] = "recv"
      /\ hndls[t] \in Seq(1 .. Len(vec_data)) /\ Len(hndls[t]) \in {1, 2}
  BY DEF TInv, IInv, TypeHeld, InvFrames, Frames, Receive
<1>2. PICK D : vec_data \in Seq(Buffers(D))
  BY <1>1 DEF IInv, TypeHeld, IsPool
<1>3. PICK b \in DOMAIN vec_data :
        /\ b = Own(hndls[t], "recv") /\ b = Own(hndls[t], "unstuff") /\ b = Last(hndls[t])
        /\ \E j \in 1 .. 3 : Holds(hndls, t, j, b)
  <2>1. Own(hndls[t], "recv") \in DOMAIN vec_data /\ \E j \in 1 .. 3 : Holds(hndls, t, j, Own(hndls[t], "recv"))
    BY <1>1, OwnHeld
  <2>2. Own(hndls[t], "recv") = Last(hndls[t]) /\ Own(hndls[t], "recv") = Own(hndls[t], "unstuff")
    BY DEF Own, Last
  <2>. QED  BY <2>1, <2>2
<1>4. PICK v : v = vec_data[b].data
  OBVIOUS
<1>5. v = Buf(t) /\ v \in Seq(Char)
  BY <1>1, <1>3, <1>4 DEF Buf, DataOK
<1>6. PICK m \in {k \in 1 .. Len(net[t]) : rb[t] + k <= Room} :
        /\ rb' = [rb EXCEPT ![t] = rb[t] + m]
        /\ net' = [net EXCEPT ![t] = SubSeq(@, m + 1, Len(@))]
        /\ vec_data' = [vec_data EXCEPT ![Last(hndls[t])].data =
                           IF Ends(Overlay(Buf(t), net[t], rb[t], m), rb[t] + m) /\ rb[t] + m < Len(Overlay(Buf(t), net[t], rb[t], m))
                           THEN [Overlay(Buf(t), net[t], rb[t], m) EXCEPT ![rb[t] + m + 1] = "0"]
                           ELSE Overlay(Buf(t), net[t], rb[t], m)]
        /\ pc' = [pc EXCEPT ![t] = IF Ends(Overlay(Buf(t), net[t], rb[t], m), rb[t] + m) THEN "unstuff" ELSE "recv"]
  BY DEF Receive, Overlay
<1>7. PICK r, d : r = rb[t] + m /\ d = Overlay(v, net[t], rb[t], m)
  OBVIOUS
<1>8. UNCHANGED <<hndls, art, file, fetched>>
  BY DEF Receive
<1>9. PICK a \in Articles : a = art[t]
  BY <1>1 DEF TypeText
<1>10. a \in Text /\ Answer(a) \in Seq(Char)
  BY ArticleIs
<1>11. net[t] \in Seq(Char) /\ rb[t] \in Nat /\ rb[t] \in 0 .. Room
  BY <1>1, RoomAssumption DEF TypeText
<1>12. Receiving(v, Answer(a), rb[t], net[t]) /\ file[t] \in {Nothing, a}
  BY <1>1, <1>3, <1>4, <1>9 DEF InvText, ThreadText
<1>13. PICK z : z = SubSeq(net[t], m + 1, Len(net[t]))
  OBVIOUS
<1>14. /\ d \in Seq(Char) /\ Len(d) = Len(v) /\ z \in Seq(Char)
       /\ r \in 1 .. Len(Answer(a)) /\ r <= Len(d) /\ Receiving(d, Answer(a), r, z)
  <2>1. PICK w, rest, r0 : w = Answer(a) /\ rest = net[t] /\ r0 = rb[t]
    OBVIOUS
  <2>2. w \in Seq(Char) /\ rest \in Seq(Char) /\ r0 \in Nat /\ m \in 1 .. Len(rest) /\ r0 + m <= Room
    BY <1>6, <1>10, <1>11, <2>1
  <2>3. Receiving(v, w, r0, rest)
    BY <1>12, <2>1
  <2>4. d = Overlay(v, rest, r0, m)
    BY <1>7, <2>1
  <2>5. /\ d \in Seq(Char) /\ Len(d) = Len(v)
        /\ \A i \in 1 .. Len(v) : i \in 1 .. r0 => d[i] = v[i]
        /\ \A i \in 1 .. Len(v) : i \in r0 + 1 .. r0 + m => d[i] = rest[i - r0]
    BY <1>5, <2>2, <2>4, OverlayIs
  <2>7. /\ SubSeq(rest, m + 1, Len(rest)) \in Seq(Char)
        /\ r0 + m \in 1 .. Len(w) /\ r0 + m <= Len(d)
        /\ Receiving(d, w, r0 + m, SubSeq(rest, m + 1, Len(rest)))
    BY <1>5, <2>2, <2>3, <2>5, Fills
  <2>. QED  BY <1>7, <1>13, <2>1, <2>5, <2>7
<1>15. PICK e : e = IF Ends(d, r) /\ r < Len(d) THEN [d EXCEPT ![r + 1] = "0"] ELSE d
  OBVIOUS
<1>16. PICK q : q = IF Ends(d, r) THEN "unstuff" ELSE "recv"
  OBVIOUS
<1>17. /\ vec_data' = [vec_data EXCEPT ![b].data = e] /\ pc' = [pc EXCEPT ![t] = q]
       /\ rb' = [rb EXCEPT ![t] = r] /\ net' = [net EXCEPT ![t] = z]
  BY <1>3, <1>5, <1>6, <1>7, <1>13, <1>15, <1>16
<1>18. e \in Seq(Char) /\ ThreadText(q, e, a, r, z, file[t])
  <2>1. CASE Ends(d, r)
    <3>1. \A j \in 1 .. r : d[j] = Answer(a)[j]
      BY <1>14 DEF Receiving
    <3>2. r = Len(Answer(a))
      BY <1>10, <1>14, <2>1, <3>1, EndsOnce
    <3>3. r \in Nat
      BY <1>10, <3>2
    <3>4. e = IF r < Len(d) THEN [d EXCEPT ![r + 1] = "0"] ELSE d
      BY <1>15, <2>1
    <3>5. e \in Seq(Char) /\ Received(e, Answer(a))
      BY <1>14, <3>1, <3>2, <3>3, <3>4, Terminated
    <3>6. q = "unstuff"
      BY <1>16, <2>1
    <3>. QED  BY <1>12, <3>2, <3>5, <3>6 DEF ThreadText
  <2>2. CASE ~Ends(d, r)
    <3>1. e = d /\ q = "recv"
      BY <1>15, <1>16, <2>2
    <3>. QED  BY <1>12, <1>14, <3>1 DEF ThreadText
  <2>. QED  BY <2>1, <2>2
<1>19. DOMAIN vec_data' = DOMAIN vec_data /\ vec_data'[b].data = e
       /\ \A k \in DOMAIN vec_data : k # b => vec_data'[k].data = vec_data[k].data
  <2>1. vec_data' = WithData(vec_data, b, e)
    BY <1>17 DEF WithData
  <2>2. b \in DOMAIN vec_data
    BY <1>3
  <2>. QED  BY <1>2, <2>1, <2>2, DataOfOne
<1>20. DataOK'
  BY <1>1, <1>18, <1>19 DEF DataOK
<1>21. TypeText'
  <2>1. rb' \in [Thr -> 0 .. Room]
    <3>1. r \in 0 .. Room
      BY <1>6, <1>7, <1>11, RoomAssumption
    <3>. QED  BY <1>1, <1>17, <3>1 DEF TypeText
  <2>2. net' \in [Thr -> Seq(Char)]
    BY <1>1, <1>14, <1>17 DEF TypeText
  <2>. QED  BY <1>1, <1>8, <2>1, <2>2 DEF TypeText
<1>22. Others(t)
  <2>1. \A i \in DOMAIN vec_data : (\A j \in 1 .. 3 : ~Holds(hndls, t, j, i)) => i # b
    BY <1>3
  <2>. QED  BY <1>8, <1>17, <1>19, <2>1 DEF Others
<1>23. /\ pc'[t] = q /\ rb'[t] = r /\ net'[t] = z /\ art'[t] = a /\ file'[t] = file[t] /\ hndls'[t] = hndls[t]
  BY <1>1, <1>8, <1>9, <1>17 DEF TypeText, IInv, TypeHeld
<1>24. Own(hndls'[t], q) = b
  BY <1>3, <1>16, <1>23
<1>. QED  BY <1>18, <1>19, <1>20, <1>21, <1>22, <1>23, <1>24 DEF TextStep

\* dot_unstuff takes a second buffer: fetch_body's own stays as it is.
LEMMA TakeTmpText ==
    ASSUME TInv, NEW t \in Thr, TakeTmp(t)
    PROVE  TextStep(t)
<1>1. /\ IInv /\ DataOK /\ TypeText /\ InvText /\ pc[t] = "unstuff"
      /\ hndls[t] \in Seq(1 .. Len(vec_data)) /\ Len(hndls[t]) \in {1, 2}
  BY DEF TInv, IInv, TypeHeld, InvFrames, Frames, TakeTmp, Moves
<1>2. PICK b \in DOMAIN vec_data : b = Own(hndls[t], "unstuff") /\ vec_data[b].in_use /\ b = Last(hndls[t])
  <2>1. Own(hndls[t], "unstuff") \in DOMAIN vec_data /\ vec_data[Own(hndls[t], "unstuff")].in_use
    BY <1>1, OwnHeld
  <2>2. Own(hndls[t], "unstuff") = Last(hndls[t])
    BY DEF Own, Last
  <2>. QED  BY <2>1, <2>2
<1>3. Len(Buf(t)) \in Nat
  <2>1. Buf(t) \in Seq(Char)
    BY <1>1, <1>2 DEF Buf, DataOK
  <2>. QED  BY <2>1
<1>4. Get(t, Len(Buf(t)))
  BY DEF TakeTmp
<1>5. PICK i : /\ hndls' = [hndls EXCEPT ![t] = Append(@, i)]
               /\ DataOK'
               /\ \A k \in DOMAIN vec_data : vec_data[k].in_use => vec_data'[k].data = vec_data[k].data
  BY <1>1, <1>3, <1>4, GetData
<1>6. UNCHANGED <<art, net, rb, file, fetched>> /\ pc' = [pc EXCEPT ![t] = "copy"]
  BY DEF TakeTmp, Moves
<1>7. TypeText'
  BY <1>1, <1>6 DEF TypeText
<1>8. Others(t)
  BY <1>5, <1>6 DEF Others
<1>9. pc'[t] = "copy" /\ hndls'[t] = Append(hndls[t], i)
  BY <1>1, <1>5, <1>6 DEF IInv, TypeHeld
<1>10. Own(hndls'[t], "copy") = b
  <2>1. PICK h, n : h = hndls[t] /\ n = Len(h)
    OBVIOUS
  <2>2. h \in Seq(1 .. Len(vec_data)) /\ n \in 1 .. n /\ n \in Nat
    <3>1. \A k \in {1, 2} : k \in 1 .. k /\ k \in Nat
      OBVIOUS
    <3>. QED  BY <1>1, <2>1, <3>1
  <2>3. Len(Append(h, i)) = n + 1 /\ Append(h, i)[n] = h[n]
    BY <2>1, <2>2, Appended
  <2>4. Own(Append(h, i), "copy") = h[n]
    BY <2>2, <2>3 DEF Own
  <2>5. b = h[n]
    BY <1>2, <2>1 DEF Last
  <2>. QED  BY <1>9, <2>1, <2>4, <2>5
<1>11. ThreadText("unstuff", vec_data[b].data, art[t], rb[t], net[t], file[t])
  BY <1>1, <1>2 DEF InvText
<1>12. ThreadText("copy", vec_data'[b].data, art[t], rb[t], net[t], file[t])
  <2>1. vec_data'[b].data = vec_data[b].data
    BY <1>2, <1>5
  <2>. QED  BY <1>11, <2>1 DEF ThreadText
<1>. QED  BY <1>5, <1>6, <1>7, <1>8, <1>9, <1>10, <1>12 DEF TextStep

\* What dot_unstuff leaves in fetch_body's buffer, and the length it gives back.
LEMMA Unframes ==
    ASSUME NEW a \in Text, NEW v \in Seq(Char), Received(v, Answer(a))
    PROVE  /\ Append(Unstuffed(v), "0") \in Seq(Char)
           /\ Len(Answer(a)) - (Len(v) - Len(Unstuffed(v))) = Len(a) + 4
           /\ Unframed(Append(Unstuffed(v), "0"), a, Len(a) + 4)
<1>1. PICK out : out = Unstuffed(v)
  OBVIOUS
<1>2. out \in Seq(Char)
  BY <1>1, UnstuffedIs
<1>3. Len(out) = Len(a) + 4 + (Len(v) - Len(Answer(a)))
  BY <1>1, UnstuffedIs
<1>4. out[1] = "2" /\ out[2] = "n" /\ \A i \in 1 .. Len(a) : out[i + 2] = a[i]
  BY <1>1, UnstuffedIs
<1>5. Len(a) \in Nat /\ Len(Answer(a)) \in Nat /\ Len(v) \in Nat /\ Len(v) >= Len(Answer(a))
  BY AnswerLonger DEF Received
<1>6. Len(Answer(a)) - (Len(v) - Len(out)) = Len(a) + 4 /\ Len(out) \in Nat /\ Len(a) + 4 <= Len(out)
  BY <1>3, <1>5
<1>7. PICK e : e = Append(out, "0")
  OBVIOUS
<1>8. e \in Seq(Char) /\ Len(e) = Len(out) + 1 /\ \A i \in 1 .. Len(out) : e[i] = out[i]
  <2>1. "0" \in Char
    BY DEF Char
  <2>. QED  BY <1>2, <1>7, <2>1, AppendProperties
<1>9. e[1] = "2" /\ e[2] = "n"
  <2>1. 1 \in 1 .. Len(out) /\ 2 \in 1 .. Len(out)
    BY <1>5, <1>6
  <2>. QED  BY <1>4, <1>8, <2>1
<1>10. ASSUME NEW i \in 1 .. Len(a) PROVE e[i + 2] = a[i]
  <2>1. i + 2 \in 1 .. Len(out)
    BY <1>5, <1>6
  <2>. QED  BY <1>4, <1>8, <2>1
<1>11. Len(e) >= Len(a) + 4
  BY <1>5, <1>6, <1>8
<1>12. Unframed(e, a, Len(a) + 4)
  BY <1>9, <1>10, <1>11 DEF Unframed
<1>. QED  BY <1>1, <1>6, <1>7, <1>8, <1>12

\* dot_unstuff takes a dot from each line that begins with two, and swaps.
LEMMA CopyAndSwapText ==
    ASSUME TInv, NEW t \in Thr, CopyAndSwap(t)
    PROVE  TextStep(t)
<1>1. /\ IInv /\ DataOK /\ TypeText /\ InvText /\ pc[t] = "copy"
      /\ hndls[t] \in Seq(1 .. Len(vec_data)) /\ Len(hndls[t]) \in {2, 3}
      /\ DOMAIN vec_data = 1 .. Len(vec_data)
  BY DEF TInv, IInv, TypeHeld, IsPool, InvFrames, Frames, CopyAndSwap, Moves
<1>2. PICK D : vec_data \in Seq(Buffers(D))
  BY <1>1 DEF IInv, TypeHeld, IsPool
<1>3. PICK i \in DOMAIN vec_data, k \in DOMAIN vec_data :
        /\ i = hndls[t][Len(hndls[t]) - 1] /\ k = Last(hndls[t]) /\ i # k
        /\ \E j \in 1 .. 3 : Holds(hndls, t, j, i)
        /\ \E j \in 1 .. 3 : Holds(hndls, t, j, k)
  <2>1. PICK h, n : h = hndls[t] /\ n = Len(h)
    OBVIOUS
  <2>2. /\ h \in Seq(1 .. Len(vec_data)) /\ n \in 1 .. n /\ n - 1 \in 1 .. n
        /\ n \in 1 .. 3 /\ n - 1 \in 1 .. 3 /\ n # n - 1
    <3>1. \A m \in {2, 3} : m \in 1 .. m /\ m - 1 \in 1 .. m /\ m \in 1 .. 3 /\ m - 1 \in 1 .. 3 /\ m # m - 1
      OBVIOUS
    <3>. QED  BY <1>1, <2>1, <3>1
  <2>3. h[n] \in 1 .. Len(vec_data) /\ h[n - 1] \in 1 .. Len(vec_data)
    BY <2>1, <2>2, ElementOfSeq
  <2>4. Holds(hndls, t, n, h[n]) /\ Holds(hndls, t, n - 1, h[n - 1])
    BY <2>1, <2>2 DEF Holds
  <2>5. h[n] # h[n - 1]
    BY <1>1, <2>2, <2>3, <2>4 DEF IInv, InvOne
  <2>. QED  BY <1>1, <2>1, <2>2, <2>3, <2>4, <2>5 DEF Last
<1>4. PICK v, out, e : v = vec_data[i].data /\ out = Unstuffed(v) /\ e = Append(out, "0")
  OBVIOUS
<1>5. /\ vec_data' = [vec_data EXCEPT ![i].data = e, ![k].data = v]
      /\ rb' = [rb EXCEPT ![t] = @ - (Len(v) - Len(out))]
      /\ UNCHANGED <<hndls, art, net, file, fetched>> /\ pc' = [pc EXCEPT ![t] = "write"]
  BY <1>3, <1>4 DEF CopyAndSwap, Moves
<1>6. PICK a \in Articles : a = art[t]
  BY <1>1 DEF TypeText
<1>7. a \in Text
  BY ArticleIs
<1>8. v \in Seq(Char)
  BY <1>1, <1>3, <1>4 DEF DataOK
<1>9. Own(hndls[t], "copy") = i /\ Own(hndls[t], "write") = i
  BY <1>3 DEF Own
<1>10. Received(v, Answer(a)) /\ rb[t] = Len(Answer(a)) /\ file[t] \in {Nothing, a}
  BY <1>1, <1>4, <1>6, <1>9 DEF InvText, ThreadText
<1>11. PICK r : r = Len(a) + 4
  OBVIOUS
<1>12. e \in Seq(Char) /\ Len(Answer(a)) - (Len(v) - Len(out)) = r /\ Unframed(e, a, r)
  BY <1>4, <1>7, <1>8, <1>10, <1>11, Unframes
<1>13. rb' = [rb EXCEPT ![t] = r]
  BY <1>5, <1>10, <1>12
<1>14. r \in 0 .. Room
  <2>1. Len(a) \in Nat /\ Len(Answer(a)) \in Nat /\ Len(a) + 4 <= Len(Answer(a))
    BY <1>7, AnswerLonger
  <2>2. Len(Answer(a)) \in 0 .. Room
    BY <1>1, <1>10 DEF TypeText
  <2>. QED  BY <1>11, <2>1, <2>2, RoomAssumption
<1>15. /\ DOMAIN vec_data' = DOMAIN vec_data /\ vec_data'[i].data = e /\ vec_data'[k].data = v
       /\ \A j \in DOMAIN vec_data : j # i /\ j # k => vec_data'[j].data = vec_data[j].data
  <2>1. PICK x : x = WithData(vec_data, i, e)
    OBVIOUS
  <2>2. x \in Seq(Buffers(D \cup {e})) /\ Len(x) = Len(vec_data)
    <3>1. x = [vec_data EXCEPT ![i].data = e]
      BY <2>1 DEF WithData
    <3>2. x \in Seq(Buffers(D \cup {e}))
      BY <1>2, <1>3, <3>1, WritesOne
    <3>3. Len(x) = Len(vec_data)
      BY <1>2, <1>3, <3>1, WritesOne
    <3>. QED  BY <3>2, <3>3
  <2>3. DOMAIN x = DOMAIN vec_data /\ x[i].data = e /\ \A j \in DOMAIN vec_data : j # i => x[j].data = vec_data[j].data
    BY <1>2, <1>3, <2>1, DataOfOne
  <2>4. vec_data' = WithData(x, k, v)
    BY <1>5, <2>1 DEF WithData
  <2>5. /\ DOMAIN vec_data' = DOMAIN x /\ vec_data'[k].data = v
        /\ \A j \in DOMAIN x : j # k => vec_data'[j].data = x[j].data
    <3>1. k \in DOMAIN x /\ x \in Seq(Buffers(D \cup {e}))
      BY <1>3, <2>2, <2>3
    <3>. QED  BY <2>4, <3>1, DataOfOne
  <2>. QED  BY <1>3, <2>3, <2>5
<1>16. DataOK'
  BY <1>1, <1>8, <1>12, <1>15 DEF DataOK
<1>17. TypeText'
  <2>1. rb' \in [Thr -> 0 .. Room]
    BY <1>1, <1>13, <1>14 DEF TypeText
  <2>. QED  BY <1>1, <1>5, <2>1 DEF TypeText
<1>18. Others(t)
  <2>1. \A b \in DOMAIN vec_data : (\A j \in 1 .. 3 : ~Holds(hndls, t, j, b)) => b # i /\ b # k
    BY <1>3
  <2>. QED  BY <1>5, <1>13, <1>15, <2>1 DEF Others
<1>19. ThreadText("write", e, a, r, net[t], file[t])
  BY <1>10, <1>12 DEF ThreadText
<1>20. pc'[t] = "write" /\ rb'[t] = r /\ net'[t] = net[t] /\ art'[t] = a /\ file'[t] = file[t] /\ hndls'[t] = hndls[t]
  BY <1>1, <1>5, <1>6, <1>13 DEF TypeText, IInv, TypeHeld
<1>. QED  BY <1>9, <1>15, <1>16, <1>17, <1>18, <1>19, <1>20 DEF TextStep

\* What is between the first line and the last is the article.
LEMMA Written ==
    ASSUME NEW a \in Text, NEW d \in Seq(Char), Unframed(d, a, Len(a) + 4)
    PROVE  /\ (CHOOSE p \in DOMAIN d : d[p] = "n" /\ \A k \in 1 .. p - 1 : d[k] # "n") = 2
           /\ SubSeq(d, 2 + 1, Len(a) + 4 - 2) = a
<1>1. Len(a) \in Nat /\ Len(d) \in Nat /\ DOMAIN d = 1 .. Len(d) /\ Len(d) >= Len(a) + 4 /\ a \in Seq(Char)
  <2>1. {"n", ".", "x"} \subseteq Char
    BY DEF Char
  <2>2. a \in Seq(Char)
    BY <2>1, SeqMonotonic DEF Text
  <2>. QED  BY <2>2 DEF Unframed
<1>2. (CHOOSE p \in DOMAIN d : d[p] = "n" /\ \A k \in 1 .. p - 1 : d[k] # "n") = 2
  <2>1. 2 \in DOMAIN d /\ d[2] = "n" /\ \A k \in 1 .. 2 - 1 : d[k] # "n"
    BY <1>1 DEF Unframed
  <2>2. ASSUME NEW q \in DOMAIN d, d[q] = "n" /\ \A k \in 1 .. q - 1 : d[k] # "n"
        PROVE  q = 2
    <3>1. d[1] # "n" /\ q \in Nat /\ q >= 1
      BY <1>1 DEF Unframed
    <3>2. q # 1
      BY <2>2, <3>1
    <3>3. ~(2 \in 1 .. q - 1)
      BY <2>1, <2>2
    <3>. QED  BY <3>1, <3>2, <3>3
  <2>. QED  BY <2>1, <2>2
<1>3. PICK s : s = SubSeq(d, 3, Len(a) + 2)
  OBVIOUS
<1>4. s \in Seq(Char) /\ Len(s) = Len(a) /\ \A j \in 1 .. Len(a) : s[j] = d[2 + j]
  <2>1. \A j \in 3 .. Len(a) + 2 : d[j] \in Char
    <3>1. \A j \in 3 .. Len(a) + 2 : j \in 1 .. Len(d)
      BY <1>1
    <3>. QED  BY <3>1, ElementOfSeq
  <2>2. s \in Seq(Char)
    BY <1>1, <1>3, <2>1, SubSeqProperties
  <2>3. Len(s) = Len(a)
    BY <1>1, <1>3, <2>1, SubSeqProperties
  <2>4. \A j \in 1 .. Len(a) : s[j] = d[3 + j - 1]
    BY <1>1, <1>3, <2>1, SubSeqProperties
  <2>5. \A j \in 1 .. Len(a) : 3 + j - 1 = 2 + j
    BY <1>1
  <2>. QED  BY <2>2, <2>3, <2>4, <2>5
<1>5. \A j \in 1 .. Len(s) : s[j] = a[j]
  <2>1. \A j \in 1 .. Len(a) : d[j + 2] = a[j] /\ 2 + j = j + 2
    BY <1>1 DEF Unframed
  <2>. QED  BY <1>4, <2>1
<1>6. s = a
  BY <1>1, <1>4, <1>5, SeqEqual
<1>7. 2 + 1 = 3 /\ Len(a) + 4 - 2 = Len(a) + 2
  BY <1>1
<1>. QED  BY <1>2, <1>3, <1>6, <1>7

\* The article goes to the stream.
LEMMA WriteText ==
    ASSUME TInv, NEW t \in Thr, Write(t)
    PROVE  TextStep(t)
<1>1. /\ IInv /\ DataOK /\ TypeText /\ InvText /\ pc[t] = "write"
      /\ hndls[t] \in Seq(1 .. Len(vec_data)) /\ Len(hndls[t]) \in Nat \ {0}
  <2>1. pc[t] = "write" /\ Len(hndls[t]) \in {2, 3}
    BY DEF TInv, IInv, InvFrames, Frames, Write, Moves
  <2>2. \A k \in {2, 3} : k \in Nat \ {0}
    OBVIOUS
  <2>. QED  BY <2>1, <2>2 DEF TInv, IInv, TypeHeld
<1>2. PICK b \in DOMAIN vec_data : b = Own(hndls[t], "write")
  BY <1>1, OwnHeld
<1>3. PICK d : d = vec_data[b].data
  OBVIOUS
<1>4. PICK a \in Articles : a = art[t]
  BY <1>1 DEF TypeText
<1>5. a \in Text /\ d \in Seq(Char) /\ a \in Seq(Char)
  BY <1>1, <1>2, <1>3, ArticleIs DEF DataOK
<1>6. Unframed(d, a, rb[t]) /\ rb[t] = Len(a) + 4
  BY <1>1, <1>2, <1>3, <1>4, SMTT(30) DEF InvText, ThreadText, Unframed
<1>8. d = vec_data[hndls[t][Len(hndls[t]) - 1]].data
  BY <1>2, <1>3 DEF Own
<1>9. file' = [file EXCEPT ![t] = SubSeq(d, 2 + 1, rb[t] - 2)]
  <2>1. (CHOOSE p \in DOMAIN d : d[p] = "n" /\ \A k \in 1 .. p - 1 : d[k] # "n") = 2
    BY <1>5, <1>6, Written
  <2>. QED  BY <1>8, <2>1 DEF Write
<1>10. SubSeq(d, 2 + 1, rb[t] - 2) = a
  <2>1. SubSeq(d, 2 + 1, Len(a) + 4 - 2) = a
    BY <1>5, <1>6, Written
  <2>. QED  BY <1>6, <2>1
<1>11. file' = [file EXCEPT ![t] = a] /\ pc' = [pc EXCEPT ![t] = "release"] /\ LetGo(t) /\ UNCHANGED <<art, net, rb, fetched>>
  BY <1>9, <1>10 DEF Write, Moves
<1>12. DataOK' /\ \A k \in DOMAIN vec_data : vec_data'[k].data = vec_data[k].data
  BY <1>1, <1>11, LetGoData
<1>13. TypeText'
  <2>1. file' \in [Thr -> Seq(Char)]
    BY <1>1, <1>5, <1>11 DEF TypeText
  <2>. QED  BY <1>1, <1>11, <2>1 DEF TypeText
<1>14. Others(t)
  <2>1. \A u \in Thr \ {t} : hndls'[u] = hndls[u]
    BY <1>11 DEF LetGo
  <2>. QED  BY <1>11, <1>12, <2>1 DEF Others
<1>15. pc'[t] = "release" /\ file'[t] = a /\ art'[t] = a
  BY <1>1, <1>4, <1>11 DEF TypeText, IInv, TypeHeld
<1>. QED  BY <1>12, <1>13, <1>14, <1>15 DEF TextStep, ThreadText

\* A handle goes: the buffer is another's, its text nobody's.
LEMMA ReleaseText ==
    ASSUME TInv, NEW t \in Thr, Release(t)
    PROVE  TextStep(t)
<1>1. /\ IInv /\ DataOK /\ TypeText /\ InvText /\ pc[t] = "release" /\ Len(hndls[t]) \in Nat \ {0}
  <2>1. pc[t] = "release" /\ Len(hndls[t]) \in {1, 2, 3}
    BY DEF TInv, IInv, InvFrames, Frames, Release
  <2>2. \A k \in {1, 2, 3} : k \in Nat \ {0}
    OBVIOUS
  <2>. QED  BY <2>1, <2>2 DEF TInv
<1>2. PICK p \in {"idle", "release"} : pc' = [pc EXCEPT ![t] = p]
  BY DEF Release
<1>3. LetGo(t) /\ UNCHANGED <<art, net, rb, file, fetched>>
  BY DEF Release
<1>4. DataOK' /\ \A k \in DOMAIN vec_data : vec_data'[k].data = vec_data[k].data
  BY <1>1, <1>3, LetGoData
<1>5. TypeText'
  BY <1>1, <1>3 DEF TypeText
<1>6. Others(t)
  <2>1. \A u \in Thr \ {t} : hndls'[u] = hndls[u]
    BY <1>3 DEF LetGo
  <2>. QED  BY <1>2, <1>3, <1>4, <2>1 DEF Others
<1>7. pc'[t] = p /\ file[t] \in {Nothing, art[t]}
  BY <1>1, <1>2 DEF IInv, TypeHeld, InvText, ThreadText
<1>. QED  BY <1>2, <1>3, <1>4, <1>5, <1>6, <1>7 DEF TextStep, ThreadText

\* A step of one thread keeps its text and leaves the others' alone.
LEMMA NextTInv == TInv /\ [Next]_vars => TInv'
<1>. SUFFICES ASSUME TInv, [Next]_vars PROVE TInv'
  OBVIOUS
<1>1. IInv'
  BY NextIInv DEF TInv
<1>2. ASSUME NEW t \in Thr, Fetch(t)
      PROVE  TInv'
  <2>1. TextStep(t)
    BY <1>2, BeginText, AgainText, ThrowText, ReceiveText, TakeTmpText, CopyAndSwapText, WriteText, ReleaseText DEF Fetch
  <2>2. ASSUME NEW u \in Thr
        PROVE  ThreadText(pc'[u], vec_data'[Own(hndls'[u], pc'[u])].data, art'[u], rb'[u], net'[u], file'[u])
    <3>1. CASE u = t
      BY <2>1, <3>1 DEF TextStep
    <3>2. CASE u # t
      <4>1. u \in Thr \ {t} /\ Others(t) /\ IInv /\ InvText
        BY <2>1, <3>2 DEF TextStep, TInv
      <4>. QED  BY <4>1, OthersKeep
    <3>. QED  BY <3>1, <3>2
  <2>3. InvText'
    BY <2>2 DEF InvText
  <2>. QED  BY <1>1, <2>1, <2>3 DEF TextStep, TInv
<1>3. CASE UNCHANGED vars
  BY <1>1, <1>3 DEF TInv, DataOK, TypeText, InvText, vars
<1>. QED  BY <1>2, <1>3 DEF Next

\* No thread has begun, nothing is in a buffer.
LEMMA InitTInv == Init => TInv
<1>. SUFFICES ASSUME Init PROVE TInv
  OBVIOUS
<1>1. IInv
  BY InitIInv
<1>2. DataOK
  BY DEF Init, DataOK
<1>3. PICK a \in Articles : art = [t \in Thr |-> a]
  BY ArticlesAssumption DEF Init
<1>4. Nothing \in Seq(Char) /\ <<>> \in Seq(Char)
  <2>1. "0" \in Char
    BY DEF Char
  <2>. QED  BY <2>1, Single, EmptySeq DEF Nothing
<1>5. TypeText
  BY <1>3, <1>4, RoomAssumption, NFetchAssumption DEF Init, TypeText
<1>6. InvText
  BY DEF Init, InvText, ThreadText
<1>. QED  BY <1>1, <1>2, <1>5, <1>6 DEF TInv

\* Two steps of induction.
LEMMA TextInvariance == Spec => []TInv
BY InitTInv, NextTInv, PTL DEF Spec

\* Every handle is of a buffer of the pool, and while a thread receives the buffer
\* it receives into has the room that was asked for, whatever it was used for
\* before (res_pool.h's GetHandle, vec_adjust_sz and fetch_body's bufSize).
THEOREM TypeOKHolds == Spec => []TypeOK
<1>1. TInv => TypeOK
  <2>. SUFFICES ASSUME TInv PROVE TypeOK
    OBVIOUS
  <2>0. IInv /\ DataOK /\ TypeText /\ InvText /\ TypeHeld /\ DOMAIN vec_data = 1 .. Len(vec_data)
    BY DEF TInv, IInv, TypeHeld, IsPool
  <2>1. ASSUME NEW i \in DOMAIN vec_data PROVE vec_data[i].data \in Seq(Char) /\ vec_data[i].in_use \in BOOLEAN
    <3>1. PICK D : vec_data \in Seq(Buffers(D))
      BY <2>0 DEF TypeHeld, IsPool
    <3>2. vec_data[i] \in Buffers(D)
      BY <2>0, <3>1, ElementOfSeq
    <3>3. vec_data[i].in_use \in BOOLEAN
      BY <3>2 DEF Buffers
    <3>. QED  BY <2>0, <3>3 DEF DataOK
  <2>2. \A t \in Thr : hndls[t] \in Seq(DOMAIN vec_data)
    BY <2>0 DEF TypeHeld
  <2>3. ASSUME NEW t \in Thr, pc[t] = "recv" PROVE Len(vec_data[Last(hndls[t])].data) >= Room
    <3>1. Own(hndls[t], "recv") = Last(hndls[t])
      BY DEF Own, Last
    <3>2. Receiving(vec_data[Own(hndls[t], "recv")].data, Answer(art[t]), rb[t], net[t])
      BY <2>0, <2>3 DEF InvText, ThreadText
    <3>. QED  BY <3>1, <3>2 DEF Receiving
  <2>4. pc \in [Thr -> {"idle", "recv", "unstuff", "copy", "write", "release"}]
    BY <2>0 DEF TypeHeld
  <2>5. /\ art \in [Thr -> Articles] /\ rb \in [Thr -> 0 .. Room] /\ fetched \in 0 .. NFetch
        /\ \A t \in Thr : net[t] \in Seq(Char) /\ file[t] \in Seq(Char)
    BY <2>0 DEF TypeText
  <2>. QED  BY <2>1, <2>2, <2>3, <2>4, <2>5 DEF TypeOK
<1>. QED  BY <1>1, TextInvariance, PTL

\* Whatever the article, however the network cuts the answer, whatever the buffers
\* held before and whichever threads use the pool at the same time, what reaches
\* the segment's stream is the article's body, to the character (fetch_body,
\* dot_unstuff and res_pool together).
THEOREM WritesTheBodyHolds == Spec => []WritesTheBody
<1>1. TInv => WritesTheBody
  BY DEF TInv, InvText, ThreadText, WritesTheBody
<1>. QED  BY <1>1, TextInvariance, PTL
=============================================================================
