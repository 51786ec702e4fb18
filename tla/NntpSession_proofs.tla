------------------------ MODULE NntpSession_proofs ------------------------
(***************************************************************************)
(* What holds of NntpSession for any number of sessions, groups and pieces *)
(* and any size of the buffers: the client and the server are in step as   *)
(* long as no session has given up in the middle of an answer, and then    *)
(* what is written is the BODY of the segment's own article.               *)
(*                                                                         *)
(* The heart of it is InvTurn: what has been received and what is still to *)
(* come are together one answer to the last command.  Its consequence at   *)
(* each end of the receiving loops is that nothing is still to come        *)
(* (OneLine, LastOfAll).                                                   *)
(***************************************************************************)
EXTENDS NntpSession, SequenceTheorems, TLAPS

\* What the session has asked last: auth()'s command inside its own.
AskedLast == IF au = "no" THEN cmd ELSE au

\* A session that waits has a number, one that does not has nothing in its
\* buffer; only an open connection has filled it.
InvFrame ==
    /\ cmd # "idle" => n # 0
    /\ cmd = "idle" => acc = <<>> /\ au = "no"
    /\ acc # <<>> => up
    /\ seen = "first" => acc # <<>>

\* Received and to come are one answer to the last command, of this session.
\* After a signal that is so only of an answer already begun: the session will
\* not receive another.
InvTurn ==
    up /\ ~lost /\ (sig => acc # <<>>) =>
        IF cmd = "idle" THEN pipe = <<>>
        ELSE \E code \in Codes : acc \o pipe \in Answers(AskedLast, n, code)

\* A body is kept from the end of its session to the start of the next.
InvBody ==
    /\ body # <<>> => cmd = "idle"
    /\ OwnBody

IInv == TypeOK /\ InvFrame /\ InvTurn /\ InvBody

-----------------------------------------------------------------------------
(* What an answer is made of.                                              *)

\* A piece of a first line.
Head1(k, c, s, code) == [k |-> k, code |-> code, cmd |-> c, sess |-> s, i |-> 0]

\* The pieces FirstLine makes a line of.
LEMMA FirstLineIs ==
    ASSUME NEW c, NEW s, NEW code, NEW f \in FirstLine(c, s, code)
    PROVE  \/ f = <<Head1("line", c, s, code)>>
           \/ f = <<Head1("stub", c, s, code), Head1("rest", c, s, code)>>
           \/ f = <<Head1("part", c, s, code), Head1("rest", c, s, code)>>
  BY DEF FirstLine, Head1

\* A first line is whole, or in two parts.
LEMMA FirstLineFacts ==
    ASSUME NEW c \in Asked, NEW s \in 1 .. NSess, NEW code \in Codes,
           NEW f \in FirstLine(c, s, code)
    PROVE  /\ f \in Seq(Piece)
           /\ Len(f) = IF f[1].k = "line" THEN 1 ELSE 2
           /\ f[1].k \in {"line", "stub", "part"}
           /\ f[1].k # "line" => f[2].k = "rest"
           /\ \A j \in 1 .. Len(f) :
                f[j].code = code /\ f[j].cmd = c /\ f[j].sess = s
  <1>1. \A k \in Kinds : Head1(k, c, s, code) \in Piece
    BY SizesAssumption DEF Head1, Piece
  <1>2. \A k \in Kinds : /\ Head1(k, c, s, code).k = k
                         /\ Head1(k, c, s, code).code = code
                         /\ Head1(k, c, s, code).cmd = c
                         /\ Head1(k, c, s, code).sess = s
    BY DEF Head1
  <1> HIDE DEF Head1
  <1>3. CASE f = <<Head1("line", c, s, code)>>
    BY <1>1, <1>2, <1>3 DEF Kinds
  <1>4. ASSUME NEW k \in {"stub", "part"},
               f = <<Head1(k, c, s, code), Head1("rest", c, s, code)>>
        PROVE  /\ f \in Seq(Piece)
               /\ Len(f) = IF f[1].k = "line" THEN 1 ELSE 2
               /\ f[1].k \in {"line", "stub", "part"}
               /\ f[1].k # "line" => f[2].k = "rest"
               /\ \A j \in 1 .. Len(f) :
                    f[j].code = code /\ f[j].cmd = c /\ f[j].sess = s
    BY <1>1, <1>2, <1>4 DEF Kinds
  <1> QED
    BY <1>3, <1>4, FirstLineIs

\* The lines that follow: d of data and the terminator.
LEMMA LinesFacts ==
    ASSUME NEW c \in Asked, NEW s \in 1 .. NSess, NEW d \in 1 .. MaxData
    PROVE  /\ Lines(c, s, d) \in Seq(Piece)
           /\ Len(Lines(c, s, d)) = d + 1
           /\ \A j \in 1 .. d + 1 :
                /\ Lines(c, s, d)[j].k = IF j <= d THEN "data" ELSE "end"
                /\ Lines(c, s, d)[j].cmd = c /\ Lines(c, s, d)[j].sess = s
  <1> DEFINE L == [j \in 1 .. d + 1 |-> [k |-> IF j <= d THEN "data" ELSE "end",
                                         code |-> "4", cmd |-> c, sess |-> s, i |-> j]]
  <1>1. \A j \in 1 .. d + 1 : L[j] \in Piece
    BY SizesAssumption DEF Piece, Kinds, Codes
  <1>2. L \in [1 .. d + 1 -> Piece]
    BY <1>1
  <1>3. d + 1 \in Nat
    BY SizesAssumption
  <1>4. L \in Seq(Piece)
    BY <1>2, <1>3, SeqDef
  <1>5. Len(L) = d + 1
    BY <1>2, <1>3, <1>4, LenProperties
  <1> QED
    BY <1>4, <1>5 DEF Lines

\* An answer is of its command and session, begins with its code, and is at its
\* end at the terminator; if it has no more than a first line, it is at its end
\* with that line's CRLF.
LEMMA AnswerFacts ==
    ASSUME NEW c \in Asked, NEW s \in 1 .. NSess, NEW code \in Codes,
           NEW a \in Answers(c, s, code)
    PROVE  /\ a \in Seq(Piece) /\ Len(a) >= 1
           /\ a[1].code = code /\ a[1].k \in {"line", "stub", "part"}
           /\ \A j \in 1 .. Len(a) : a[j].cmd = c /\ a[j].sess = s
           /\ \A j \in 1 .. Len(a) : a[j].k = "end" =>
                j = Len(a) /\ c \in {"head", "body"} /\ code = "2"
           /\ (c \notin {"head", "body"} \/ code # "2") =>
                /\ a[1].k # "line" => Len(a) = 2
                /\ \A j \in 1 .. Len(a) :
                     a[j].k \in {"line", "rest", "data", "end"} => j = Len(a)
  <1>1. CASE ~(c \in {"head", "body"} /\ code = "2")
    <2>1. a \in FirstLine(c, s, code)
      BY <1>1 DEF Answers
    <2>2. \A j \in 1 .. Len(a) : j = 1 \/ j = 2
      BY <2>1, FirstLineFacts
    <2> QED
      BY <2>1, <2>2, FirstLineFacts
  <1>2. CASE c \in {"head", "body"} /\ code = "2"
    <2>1. PICK f \in FirstLine(c, s, code), d \in 1 .. MaxData : a = f \o Lines(c, s, d)
      BY <1>2 DEF Answers
    <2>2. f \in Seq(Piece) /\ Len(f) \in {1, 2}
      BY FirstLineFacts
    <2>3. Lines(c, s, d) \in Seq(Piece) /\ Len(Lines(c, s, d)) = d + 1
      BY LinesFacts
    <2>4. /\ a \in Seq(Piece) /\ Len(a) = Len(f) + d + 1
          /\ \A j \in 1 .. Len(a) :
               a[j] = IF j <= Len(f) THEN f[j] ELSE Lines(c, s, d)[j - Len(f)]
      <3>1. d \in Nat
        BY SizesAssumption
      <3>2. a \in Seq(Piece)
        BY <2>1, <2>2, <2>3, ConcatProperties
      <3>3. Len(a) = Len(f) + Len(Lines(c, s, d))
        BY <2>1, <2>2, <2>3, ConcatProperties
      <3>4. \A j \in 1 .. Len(f) + Len(Lines(c, s, d)) :
               a[j] = IF j <= Len(f) THEN f[j] ELSE Lines(c, s, d)[j - Len(f)]
        BY <2>1, <2>2, <2>3, ConcatProperties
      <3>5. Len(f) + Len(Lines(c, s, d)) = Len(f) + d + 1
        BY <2>2, <2>3, <3>1
      <3> QED
        BY <3>2, <3>3, <3>4, <3>5
    <2>5. \A j \in 1 .. Len(f) : f[j].k # "end" /\ f[j].cmd = c /\ f[j].sess = s
      BY FirstLineFacts
    <2>6. \A j \in 1 .. d + 1 :
            /\ Lines(c, s, d)[j].k = "end" => j = d + 1
            /\ Lines(c, s, d)[j].cmd = c /\ Lines(c, s, d)[j].sess = s
      BY LinesFacts
    <2>7. \A j \in 1 .. Len(a) : \/ j \in 1 .. Len(f)
                                 \/ ~(j <= Len(f)) /\ j - Len(f) \in 1 .. d + 1
      BY <2>2, <2>4, SizesAssumption
    <2>8. \A j \in 1 .. Len(a) : a[j].cmd = c /\ a[j].sess = s
      BY <2>4, <2>5, <2>6, <2>7
    <2>9. ASSUME NEW j \in 1 .. Len(a), a[j].k = "end"
          PROVE  j = Len(a)
      <3>1. ~(j <= Len(f)) /\ j - Len(f) \in 1 .. d + 1
        BY <2>4, <2>5, <2>7, <2>9
      <3>2. j - Len(f) = d + 1
        BY <2>4, <2>6, <2>9, <3>1
      <3> QED
        BY <2>2, <2>4, <3>2
    <2>10. a[1] = f[1] /\ Len(a) >= 1
      BY <2>2, <2>4, SizesAssumption
    <2> QED
      BY <1>2, <2>4, <2>8, <2>9, <2>10, <2>2, FirstLineFacts
  <1> QED
    BY <1>1, <1>2

-----------------------------------------------------------------------------
(* What has been received of an answer.                                    *)

\* A waiting session has asked something, and has a number.
LEMMA Waiting ==
    ASSUME TypeOK, InvFrame, cmd # "idle"
    PROVE  AskedLast \in Asked /\ n \in 1 .. NSess
  BY SizesAssumption DEF TypeOK, InvFrame, AskedLast, Asked, Cmds

\* The beginning of a sequence has its pieces, and is all of it when it is as
\* long.
LEMMA Beginning ==
    ASSUME NEW p \in Seq(Piece), NEW q \in Seq(Piece)
    PROVE  /\ Len(p) <= Len(p \o q)
           /\ \A j \in 1 .. Len(p) : (p \o q)[j] = p[j]
           /\ Len(p) = Len(p \o q) => q = <<>> /\ p \o q = p
  <1>1. Len(p) \in Nat /\ Len(q) \in Nat
    BY LenProperties
  <1>2. Len(p \o q) = Len(p) + Len(q)
    BY ConcatProperties
  <1>3. \A j \in 1 .. Len(p) + Len(q) :
            (p \o q)[j] = IF j <= Len(p) THEN p[j] ELSE q[j - Len(p)]
    BY ConcatProperties
  <1>4. \A j \in 1 .. Len(p) : (p \o q)[j] = p[j]
    BY <1>1, <1>3
  <1>5. ASSUME Len(p) = Len(p \o q)
        PROVE  q = <<>> /\ p \o q = p
    <2>1. Len(q) = 0
      BY <1>1, <1>2, <1>5
    <2>2. q = <<>>
      BY <2>1, EmptySeq
    <2> QED
      BY <2>2, ConcatEmptySeq
  <1> QED
    BY <1>1, <1>2, <1>4, <1>5

\* Where a sequence of pieces is cut does not count.
LEMMA Reassociate ==
    ASSUME NEW p \in Seq(Piece), NEW q \in Seq(Piece), NEW r \in Seq(Piece)
    PROVE  (p \o q) \o r = p \o (q \o r)
  BY ConcatAssociative, SMTT(30)

\* What has been received and what is to come.
Whole == acc \o pipe

\* What is in the buffer is a prefix of what is on its way.
LEMMA WholeFacts ==
    ASSUME TypeOK, acc # <<>>
    PROVE  /\ Len(acc) \in Nat /\ Len(Whole) \in Nat
           /\ 1 <= Len(acc) /\ Len(acc) <= Len(Whole)
           /\ DOMAIN acc = 1 .. Len(acc)
           /\ \A j \in 1 .. Len(acc) : j \in 1 .. Len(Whole) /\ Whole[j] = acc[j]
           /\ Len(acc) = Len(Whole) => pipe = <<>> /\ Whole = acc
  <1>1. acc \in Seq(Piece) /\ pipe \in Seq(Piece)
    BY DEF TypeOK
  <1>2. Len(acc) \in Nat \ {0} /\ DOMAIN acc = 1 .. Len(acc)
    BY <1>1, EmptySeq, LenProperties
  <1>3. Whole \in Seq(Piece)
    BY <1>1, ConcatProperties DEF Whole
  <1>4. Len(Whole) \in Nat
    BY <1>3, LenProperties
  <1>5. Len(acc) <= Len(Whole)
    BY <1>1, Beginning DEF Whole
  <1>6. \A j \in 1 .. Len(acc) : Whole[j] = acc[j]
    BY <1>1, Beginning DEF Whole
  <1>7. Len(acc) = Len(Whole) => pipe = <<>> /\ Whole = acc
    BY <1>1, Beginning DEF Whole
  <1>8. \A j \in 1 .. Len(acc) : j \in 1 .. Len(Whole)
    BY <1>2, <1>4, <1>5
  <1> QED
    BY <1>2, <1>4, <1>5, <1>6, <1>7, <1>8

\* What a session in step has received begins an answer to its last command.
LEMMA Begun ==
    ASSUME TypeOK, InvFrame, InvTurn, cmd # "idle", acc # <<>>, ~lost
    PROVE  /\ AskedLast \in Asked /\ n \in 1 .. NSess
           /\ \E code \in Codes : Whole \in Answers(AskedLast, n, code)
  BY Waiting DEF InvFrame, InvTurn, Whole

\* The loops of fetch_term and fetch_body end where the answer does: nothing is
\* left to come, and a body is a BODY.
LEMMA Ended ==
    ASSUME TypeOK, InvFrame, InvTurn, Complete, ~lost
    PROVE  /\ pipe = <<>>
           /\ Until = "body" => acc \in Answers("body", n, "2")
  <1>1. cmd # "idle" /\ acc # <<>>
    BY DEF Complete
  <1>2. AskedLast \in Asked /\ n \in 1 .. NSess
    BY <1>1, Begun
  <1>3. PICK code \in Codes : Whole \in Answers(AskedLast, n, code)
    BY <1>1, Begun
  <1>4. ASSUME NEW j \in 1 .. Len(acc), j = Len(Whole)
        PROVE  pipe = <<>> /\ Whole = acc
    <2>1. Len(acc) \in Nat /\ Len(acc) <= Len(Whole)
      BY <1>1, WholeFacts
    <2>2. Len(acc) = Len(Whole)
      BY <1>4, <2>1
    <2> QED
      BY <1>1, <2>2, WholeFacts
  <1>5. CASE Until = "line"
    <2>1. AskedLast \notin {"head", "body"}
      BY <1>5 DEF Until, AskedLast, TypeOK
    <2>2. PICK j \in 1 .. Len(acc) : acc[j].k \in {"line", "rest", "data", "end"}
      BY <1>1, <1>5, WholeFacts DEF Complete, Has
    <2>3. j \in 1 .. Len(Whole) /\ Whole[j].k \in {"line", "rest", "data", "end"}
      BY <1>1, <2>2, WholeFacts
    <2>4. j = Len(Whole)
      BY <1>2, <1>3, <2>1, <2>3, AnswerFacts
    <2> QED
      BY <1>4, <1>5, <2>4
  <1>6. CASE Until = "head"
    <2>1. PICK j \in 1 .. Len(acc) : acc[j].k = "end"
      BY <1>1, <1>6, WholeFacts DEF Complete, Has
    <2>2. j \in 1 .. Len(Whole) /\ Whole[j].k = "end"
      BY <1>1, <2>1, WholeFacts
    <2>3. j = Len(Whole)
      BY <1>2, <1>3, <2>2, AnswerFacts
    <2> QED
      BY <1>4, <1>6, <2>3
  <1>7. CASE Until = "body"
    <2>1. acc[Len(acc)].k = "end"
      BY <1>7 DEF Complete
    <2>2. Len(acc) \in 1 .. Len(acc)
      BY <1>1, WholeFacts
    <2>3. Len(acc) \in 1 .. Len(Whole) /\ Whole[Len(acc)].k = "end"
      BY <1>1, <2>1, <2>2, WholeFacts
    <2>4. Len(acc) = Len(Whole) /\ code = "2"
      BY <1>2, <1>3, <2>3, AnswerFacts
    <2>5. AskedLast = "body"
      BY <1>7 DEF Until, AskedLast
    <2> QED
      BY <1>3, <1>4, <2>2, <2>4, <2>5
  <1> QED
    BY <1>5, <1>6, <1>7 DEF Complete, Until, TypeOK, Cmds

\* fetch_body may give up at the first look: a refusal is one line, and all of
\* it has come unless the network has cut it.
LEMMA Refused ==
    ASSUME TypeOK, InvFrame, InvTurn, Looks, ~TooShort, ~CutOff, ~lost,
           Apparent \cap {"4", "381", "480"} # {}
    PROVE  pipe = <<>>
  <1>1. cmd # "idle" /\ acc # <<>> /\ Until = "body"
    BY DEF Looks, InvFrame
  <1>2. AskedLast \in Asked /\ n \in 1 .. NSess
    BY <1>1, Begun
  <1>3. PICK code \in Codes : Whole \in Answers(AskedLast, n, code)
    BY <1>1, Begun
  <1>4. 1 \in 1 .. Len(acc) /\ 1 \in 1 .. Len(Whole) /\ Whole[1] = acc[1]
    BY <1>1, WholeFacts
  <1>5. acc[1].k \in {"line", "stub", "part"} /\ acc[1].code = code
    BY <1>2, <1>3, <1>4, AnswerFacts
  <1>6. code # "2"
    BY <1>5 DEF Apparent
  <1>7. acc[1].k # "line" => Len(Whole) = 2
    BY <1>2, <1>3, <1>4, <1>6, AnswerFacts
  <1>8. ASSUME acc[1].k = "line"
        PROVE  Len(Whole) = 1
    <2>1. Whole[1].k \in {"line", "rest", "data", "end"}
      BY <1>4, <1>8
    <2>2. \A j \in 1 .. Len(Whole) :
            Whole[j].k \in {"line", "rest", "data", "end"} => j = Len(Whole)
      BY <1>2, <1>3, <1>6, AnswerFacts
    <2> QED
      BY <1>4, <2>1, <2>2
  <1>9. acc[1].k # "line" => Len(acc) # 1
    BY <1>1, <1>5 DEF TooShort, CutOff
  <1>10. Len(acc) = Len(Whole)
    BY <1>1, <1>7, <1>8, <1>9, WholeFacts
  <1> QED
    BY <1>1, <1>10, WholeFacts

-----------------------------------------------------------------------------
(* Asking.                                                                 *)

\* The server answers what it is asked with one answer.
LEMMA AskFacts ==
    ASSUME TypeOK, NEW c \in Asked, NEW s \in 1 .. NSess, NEW u \in BOOLEAN,
           NEW p \in Seq(Piece), Ask(c, s, u, p)
    PROVE  /\ pipe' \in Seq(Piece) /\ known' \in BOOLEAN
           /\ u /\ p = <<>> => \E code \in Codes : pipe' \in Answers(c, s, code)
  <1>1. CASE u /\ \E code \in Replies(c) :
                    /\ \E a \in Answers(c, s, code) : pipe' = p \o a
                    /\ known' = (known \/ (c = "pass" /\ code = "2"))
    <2>1. PICK code \in Replies(c) :
            /\ \E a \in Answers(c, s, code) : pipe' = p \o a
            /\ known' = (known \/ (c = "pass" /\ code = "2"))
      BY <1>1
    <2>2. code \in Codes
      BY DEF Replies, Codes
    <2>3. PICK a \in Answers(c, s, code) : pipe' = p \o a
      BY <2>1
    <2>4. a \in Seq(Piece)
      BY <2>2, AnswerFacts
    <2>5. pipe' \in Seq(Piece)
      BY <2>3, <2>4, ConcatProperties
    <2>6. p = <<>> => pipe' = a
      BY <2>3, <2>4, ConcatEmptySeq
    <2>7. known' \in BOOLEAN
      BY <2>1 DEF TypeOK
    <2> QED
      BY <2>2, <2>5, <2>6, <2>7
  <1>2. CASE ~u /\ pipe' = p /\ UNCHANGED known
    BY <1>2 DEF TypeOK
  <1> QED
    BY <1>1, <1>2 DEF Ask

\* An empty buffer and one answer to come: the client's turn to receive.
LEMMA TurnOfPipe ==
    ASSUME acc' = <<>>, pipe' \in Seq(Piece),
           up' /\ ~lost' /\ ~sig' =>
             IF cmd' = "idle" THEN pipe' = <<>>
             ELSE \E code \in Codes : pipe' \in Answers(AskedLast', n', code)
    PROVE  InvTurn'
  <1>1. acc' \o pipe' = pipe'
    BY ConcatEmptySeq
  <1> QED
    BY <1>1 DEF InvTurn

\* The rooms of the buffers are numbers.
LEMMA RoomFacts ==
    ASSUME NEW b \in BodyBufs \cup {LineBuf}
    PROVE  b \in Nat /\ Len(<<>>) <= b /\ <<>> \in Seq(Piece)
  <1>1. b \in Nat
    BY SizesAssumption
  <1>2. <<>> \in Seq(Piece) /\ Len(<<>>) = 0
    BY EmptySeq
  <1> QED
    BY <1>1, <1>2

\* The session goes on with the next command when nothing is left to come.
LEMMA GoesKeeps ==
    ASSUME IInv, cmd # "idle",
           NEW c \in Cmds, NEW b \in BodyBufs \cup {LineBuf}, Goes(c, b),
           grp' \in 0 .. NGroups, UNCHANGED <<body, lost>>,
           up /\ ~lost => pipe = <<>>
    PROVE  IInv'
  <1>1. n \in 1 .. NSess /\ c \in Asked
    BY Waiting DEF IInv, Asked
  <1>2. Ask(c, n, up, pipe) /\ up \in BOOLEAN /\ pipe \in Seq(Piece)
    BY DEF Goes, IInv, TypeOK
  <1>3. pipe' \in Seq(Piece)
    BY <1>1, <1>2, AskFacts DEF IInv
  <1>4. known' \in BOOLEAN
    BY <1>1, <1>2, AskFacts DEF IInv
  <1>5. up /\ ~lost => \E code \in Codes : pipe' \in Answers(c, n, code)
    BY <1>1, <1>2, AskFacts DEF IInv
  <1>6. c # "idle"
    BY DEF Cmds
  <1>7. InvTurn'
    BY <1>3, <1>5, <1>6, TurnOfPipe DEF Goes, NewBuf, AskedLast
  <1>8. TypeOK'
    BY <1>3, <1>4, RoomFacts DEF Goes, NewBuf, IInv, TypeOK
  <1>9. InvFrame'
    BY <1>1, <1>6, SizesAssumption DEF Goes, NewBuf, InvFrame
  <1>10. InvBody'
    BY DEF IInv, InvBody, OwnBody
  <1> QED
    BY <1>7, <1>8, <1>9, <1>10 DEF IInv

\* So does auth().
LEMMA AuthsKeeps ==
    ASSUME IInv, cmd # "idle", NEW c \in {"user", "pass"}, Auths(c),
           lost' \in BOOLEAN, up /\ ~lost' => pipe = <<>>
    PROVE  IInv'
  <1>1. n \in 1 .. NSess /\ c \in Asked
    BY Waiting DEF IInv, Asked
  <1>2. Ask(c, n, up, pipe) /\ up \in BOOLEAN /\ pipe \in Seq(Piece)
    BY DEF Auths, IInv, TypeOK
  <1>3. pipe' \in Seq(Piece)
    BY <1>1, <1>2, AskFacts DEF IInv
  <1>4. known' \in BOOLEAN
    BY <1>1, <1>2, AskFacts DEF IInv
  <1>5. up /\ ~lost' => \E code \in Codes : pipe' \in Answers(c, n, code)
    BY <1>1, <1>2, AskFacts DEF IInv
  <1>6. InvTurn'
    BY <1>3, <1>5, TurnOfPipe DEF Auths, AskedLast
  <1>7. TypeOK'
    BY <1>3, <1>4, RoomFacts DEF Auths, IInv, TypeOK
  <1>8. InvFrame'
    BY DEF Auths, IInv, InvFrame
  <1>9. InvBody'
    BY DEF Auths, IInv, InvBody, OwnBody
  <1> QED
    BY <1>6, <1>7, <1>8, <1>9 DEF IInv

\* And an exception, which goes on with the next group or ends the session.
LEMMA ThrowsKeeps ==
    ASSUME IInv, cmd # "idle", NEW u \in BOOLEAN, NEW p \in Seq(Piece),
           Throws(u, p), lost' \in BOOLEAN,
           u /\ ~lost' /\ ~sig => p = <<>>
    PROVE  IInv'
  <1>1. InvBody'
    BY DEF Throws, IInv, InvBody, OwnBody
  <1>2. acc' = <<>> /\ cap' = LineBuf /\ seen' = "none" /\ au' = "no" /\ up' = u
    BY DEF Throws, NewBuf
  <1>3. n' = n /\ sig' = sig /\ body' = body
    BY DEF Throws
  <1>4. CASE /\ cmd = "group" /\ grp < NGroups
             /\ grp' = grp + 1 /\ UNCHANGED cmd
             /\ Ask("group", n, u, p)
    <2>1. n \in 1 .. NSess /\ "group" \in Asked
      BY Waiting DEF IInv, Asked, Cmds
    <2>2. pipe' \in Seq(Piece)
      BY <1>4, <2>1, AskFacts DEF IInv
    <2>3. known' \in BOOLEAN
      BY <1>4, <2>1, AskFacts DEF IInv
    <2>4. u /\ p = <<>> => \E code \in Codes : pipe' \in Answers("group", n, code)
      BY <1>4, <2>1, AskFacts DEF IInv
    <2>5. InvTurn'
      BY <1>2, <1>3, <1>4, <2>2, <2>4, TurnOfPipe DEF AskedLast
    <2>6. grp' \in 0 .. NGroups
      BY <1>4, SizesAssumption DEF IInv, TypeOK
    <2>7. TypeOK'
      BY <1>2, <1>3, <1>4, <2>2, <2>3, <2>6, RoomFacts DEF IInv, TypeOK
    <2>8. InvFrame'
      BY <1>2, <1>3, <1>4 DEF IInv, InvFrame
    <2> QED
      BY <1>1, <2>5, <2>7, <2>8 DEF IInv
  <1>5. CASE /\ ~(cmd = "group" /\ grp < NGroups)
             /\ cmd' = "idle" /\ grp' = 0
             /\ pipe' = p /\ UNCHANGED known
    <2>1. InvTurn'
      BY <1>2, <1>3, <1>5, TurnOfPipe
    <2>2. TypeOK'
      BY <1>2, <1>3, <1>5, RoomFacts, SizesAssumption DEF IInv, TypeOK
    <2>3. InvFrame'
      BY <1>2, <1>3, <1>5 DEF IInv, InvFrame
    <2> QED
      BY <1>1, <2>1, <2>2, <2>3 DEF IInv
  <1> QED
    BY <1>4, <1>5 DEF Throws

-----------------------------------------------------------------------------
(* The initial state and every step.                                       *)

\* Nothing has been asked of a connection that is not there.
LEMMA InitIInv == Init => IInv
  <1> SUFFICES ASSUME Init PROVE IInv
    OBVIOUS
  <1>1. Len(<<>>) <= LineBuf /\ <<>> \in Seq(Piece)
    BY RoomFacts
  <1>2. /\ acc \in Seq(Piece) /\ pipe \in Seq(Piece) /\ body \in Seq(Piece)
        /\ Len(acc) <= cap
    BY <1>1 DEF Init
  <1>3. n \in 0 .. NSess /\ grp \in 0 .. NGroups
    BY SizesAssumption DEF Init
  <1>4. TypeOK
    BY <1>2, <1>3 DEF Init, TypeOK
  <1> QED
    BY <1>4 DEF Init, IInv, InvFrame, InvTurn, InvBody, OwnBody

\* A session starts on the connection its slot has: in step, it has nothing
\* unread.
LEMMA StartUsedKeeps ==
    ASSUME IInv, StartUsed
    PROVE  IInv'
  <1>1. n + 1 \in 1 .. NSess /\ n + 1 # 0 /\ "mode" \in Asked
    BY SizesAssumption DEF IInv, TypeOK, StartUsed, Asked, Cmds
  <1>2. Ask("mode", n + 1, up, pipe) /\ up \in BOOLEAN /\ pipe \in Seq(Piece)
    BY DEF StartUsed, IInv, TypeOK
  <1>3. pipe' \in Seq(Piece)
    BY <1>1, <1>2, AskFacts DEF IInv
  <1>4. known' \in BOOLEAN
    BY <1>1, <1>2, AskFacts DEF IInv
  <1>5. up /\ pipe = <<>> => \E code \in Codes : pipe' \in Answers("mode", n + 1, code)
    BY <1>1, <1>2, AskFacts DEF IInv
  <1>6. up /\ ~lost /\ ~sig => pipe = <<>>
    BY DEF StartUsed, IInv, InvTurn
  <1>7. /\ acc' = <<>> /\ seen' = "none" /\ cap' = LineBuf /\ body' = <<>>
        /\ cmd' = "mode" /\ n' = n + 1 /\ au' = "no"
        /\ up' = up /\ sig' = sig /\ lost' = lost /\ grp' = grp
    BY DEF StartUsed, NewBuf, IInv, InvFrame
  <1>8. InvTurn'
    BY <1>3, <1>5, <1>6, <1>7, TurnOfPipe DEF AskedLast
  <1>9. TypeOK'
    BY <1>1, <1>3, <1>4, <1>7, RoomFacts, SizesAssumption DEF IInv, TypeOK, Cmds
  <1>10. InvFrame' /\ InvBody'
    BY <1>1, <1>7 DEF InvFrame, InvBody, OwnBody
  <1> QED
    BY <1>8, <1>9, <1>10 DEF IInv

\* Or on a new one, whose greeting is all there is to come.
LEMMA StartNewKeeps ==
    ASSUME IInv, StartNew
    PROVE  IInv'
  <1>1. n + 1 \in 1 .. NSess /\ n + 1 # 0 /\ "greet" \in Asked
    BY SizesAssumption DEF IInv, TypeOK, StartNew, Asked, Cmds
  <1>2. /\ acc' = <<>> /\ acc = <<>> /\ seen' = seen /\ cap' = cap /\ body' = <<>>
        /\ n' = n + 1 /\ au' = "no" /\ sig' = sig /\ lost' = FALSE
        /\ known' = FALSE /\ grp' = grp /\ <<>> \in Seq(Piece)
    BY EmptySeq DEF StartNew, bufVars, IInv, InvFrame
  <1>3. CASE /\ up' = TRUE /\ cmd' = "greet"
             /\ \E code \in Replies("greet") : pipe' \in Answers("greet", n + 1, code)
    <2>1. PICK code \in Codes : pipe' \in Answers("greet", n + 1, code)
      BY <1>3 DEF Replies, Codes
    <2>2. pipe' \in Seq(Piece)
      BY <1>1, <2>1, AnswerFacts
    <2>3. InvTurn'
      BY <1>2, <1>3, <2>1, <2>2, TurnOfPipe DEF AskedLast
    <2>4. TypeOK'
      <3>1. n' \in 0 .. NSess /\ Len(acc') <= cap'
        BY <1>1, <1>2 DEF IInv, TypeOK
      <3> QED
        BY <1>2, <1>3, <2>2, <3>1 DEF IInv, TypeOK, Cmds
    <2>5. InvFrame' /\ InvBody'
      BY <1>1, <1>2, <1>3 DEF IInv, InvFrame, InvBody, OwnBody
    <2> QED
      BY <2>3, <2>4, <2>5 DEF IInv
  <1>4. CASE UNCHANGED <<up, cmd>> /\ pipe' = <<>>
    <2>1. InvTurn'
      BY <1>2, <1>4, TurnOfPipe, EmptySeq DEF StartNew
    <2>2. TypeOK'
      <3>1. n' \in 0 .. NSess /\ Len(acc') <= cap'
        BY <1>1, <1>2 DEF IInv, TypeOK
      <3> QED
        BY <1>2, <1>4, <3>1 DEF IInv, TypeOK
    <2>3. InvFrame' /\ InvBody'
      BY <1>1, <1>2, <1>4 DEF StartNew, IInv, InvFrame, InvBody, OwnBody
    <2> QED
      BY <2>1, <2>2, <2>3 DEF IInv
  <1> QED
    BY <1>3, <1>4 DEF StartNew

\* A receive moves the next pieces into the buffer: what has come and what is
\* to come are the same together.
LEMMA ReceiveKeeps ==
    ASSUME IInv, Receive
    PROVE  IInv'
  <1>1. acc \in Seq(Piece) /\ pipe \in Seq(Piece) /\ cap \in Nat
    BY SizesAssumption DEF IInv, TypeOK
  <1>2. Len(acc) \in Nat /\ Len(pipe) \in Nat
    BY <1>1, LenProperties
  <1>3. PICK m \in 1 .. Len(pipe) :
            /\ m <= cap - Len(acc)
            /\ acc' = acc \o SubSeq(pipe, 1, m)
            /\ pipe' = SubSeq(pipe, m + 1, Len(pipe))
    BY DEF Receive
  <1> DEFINE head == SubSeq(pipe, 1, m)  rest == SubSeq(pipe, m + 1, Len(pipe))
  <1>4. m \in Nat /\ 1 <= m
    BY <1>2, <1>3
  <1>5. \A i \in 1 .. Len(pipe) : pipe[i] \in Piece
    BY <1>1, ElementOfSeq
  <1>6. (\A i \in 1 .. m : pipe[i] \in Piece) /\ (\A i \in m + 1 .. Len(pipe) : pipe[i] \in Piece)
    BY <1>2, <1>4, <1>5
  <1>7. head \in Seq(Piece) /\ Len(head) = m
    BY <1>4, <1>6, SubSeqProperties
  <1>8. rest \in Seq(Piece)
    BY <1>2, <1>4, <1>6, SubSeqProperties
  <1>9. head \o rest = pipe
    <2>1. head \o rest = SubSeq(pipe, 1, Len(pipe))
      BY <1>1, <1>2, <1>4, ConcatAdjacentSubSeq
    <2> QED
      BY <1>1, <2>1, SubSeqFull
  <1> HIDE DEF head, rest
  <1>10. acc' = acc \o head /\ pipe' = rest
    BY <1>3 DEF head, rest
  <1>11. acc' \o pipe' = acc \o pipe
    <2>1. (acc \o head) \o rest = acc \o (head \o rest)
      <3>1. acc \in Seq(Piece) /\ head \in Seq(Piece) /\ rest \in Seq(Piece)
        BY <1>1, <1>7, <1>8
      <3> QED
        BY <3>1, Reassociate
    <2> QED
      BY <1>9, <1>10, <2>1
  <1>12. acc' \in Seq(Piece) /\ Len(acc') = Len(acc) + m
    BY <1>1, <1>7, <1>10, ConcatProperties
  <1>13. Len(acc') <= cap /\ acc' # <<>>
    <2>1. Len(acc') <= cap /\ Len(acc') # 0
      BY <1>1, <1>2, <1>3, <1>4, <1>12
    <2> QED
      BY <2>1, EmptySeq
  <1>14. /\ cmd # "idle" /\ up /\ ~sig /\ seen' \in {"none", "first", "checked"}
         /\ UNCHANGED <<n, grp, cmd, au, cap, up, known, sig, body, lost>>
    BY DEF Receive, Waits, sessVars, IInv, TypeOK
  <1>15. TypeOK'
    BY <1>8, <1>10, <1>12, <1>13, <1>14 DEF IInv, TypeOK
  <1>16. InvFrame' /\ InvBody'
    BY <1>13, <1>14 DEF IInv, InvFrame, InvBody, OwnBody
  <1>17. InvTurn'
    BY <1>11, <1>14 DEF IInv, InvTurn, AskedLast
  <1> QED
    BY <1>15, <1>16, <1>17 DEF IInv

\* The other steps end a command, or only look.
LEMMA NextIInv ==
    ASSUME IInv, Next
    PROVE  IInv'
  <1>1. pipe \in Seq(Piece) /\ up \in BOOLEAN /\ lost \in BOOLEAN /\ <<>> \in Seq(Piece)
    BY EmptySeq DEF IInv, TypeOK
  <1>2. Complete => cmd # "idle"
    BY DEF Complete
  <1>3. Complete /\ ~lost => pipe = <<>>
    BY Ended DEF IInv
  <1>4. Looks => cmd # "idle"
    BY DEF Looks
  <1>5. Looks /\ ~TooShort /\ ~CutOff /\ ~lost /\ Apparent \cap {"4", "381", "480"} # {}
          => pipe = <<>>
    BY Refused DEF IInv
  <1>6. LineBuf \in BodyBufs \cup {LineBuf} /\ cap \in BodyBufs \cup {LineBuf}
    BY DEF IInv, TypeOK
  <1>7. CASE Drop
    BY <1>1, <1>7, ThrowsKeeps DEF Drop, Waits
  <1>8. CASE Interrupted
    BY <1>1, <1>8, ThrowsKeeps DEF Interrupted, Waits
  <1>9. CASE Overrun
    BY <1>1, <1>9, ThrowsKeeps DEF Overrun, Full
  <1>10. CASE LineOk
    <2>1. cmd # "idle" /\ UNCHANGED <<body, lost>> /\ (~lost => pipe = <<>>)
      BY <1>2, <1>3, <1>10 DEF LineOk, AnswerIn
    <2>2. "mode" \in Cmds /\ "group" \in Cmds /\ "head" \in Cmds
      BY DEF Cmds
    <2>3. CASE Goes("mode", LineBuf) /\ UNCHANGED grp
      BY <1>6, <2>1, <2>2, <2>3, GoesKeeps DEF IInv, TypeOK
    <2>4. CASE Goes("group", LineBuf) /\ grp' = 1
      BY <1>6, <2>1, <2>2, <2>4, GoesKeeps, SizesAssumption
    <2>5. CASE grp < NGroups /\ Goes("group", LineBuf) /\ grp' = grp + 1
      <3>1. grp' \in 0 .. NGroups
        BY <2>5, SizesAssumption DEF IInv, TypeOK
      <3> QED
        BY <1>6, <2>1, <2>2, <2>5, <3>1, GoesKeeps
    <2>6. CASE Goes("head", LineBuf) /\ grp' = 0
      BY <1>6, <2>1, <2>2, <2>6, GoesKeeps, SizesAssumption
    <2> QED
      BY <1>10, <2>3, <2>4, <2>5, <2>6 DEF LineOk
  <1>11. CASE AuthUser
    <2>1. cmd # "idle" /\ Auths("user") /\ lost' = (lost \/ CutOff)
      BY <1>2, <1>4, <1>11 DEF AuthUser, AnswerIn
    <2>2. ~lost /\ ~CutOff => pipe = <<>>
      BY <1>3, <1>5, <1>11 DEF AuthUser, AnswerIn
    <2>3. lost' \in BOOLEAN
      BY <1>1, <2>1
    <2> QED
      BY <2>1, <2>2, <2>3, AuthsKeeps
  <1>12. CASE AuthPass
    BY <1>1, <1>2, <1>3, <1>12, AuthsKeeps DEF AuthPass, AnswerIn
  <1>13. CASE AuthDone
    <2>1. /\ cmd \in Cmds /\ cmd # "idle" /\ Goes(cmd, cap)
          /\ UNCHANGED <<grp, body, lost>> /\ (~lost => pipe = <<>>)
      BY <1>2, <1>3, <1>13 DEF AuthDone, AnswerIn, IInv, TypeOK
    <2>2. grp' \in 0 .. NGroups
      BY <2>1 DEF IInv, TypeOK
    <2> QED
      BY <1>6, <2>1, <2>2, GoesKeeps
  <1>14. CASE LineBad
    BY <1>1, <1>2, <1>3, <1>14, ThrowsKeeps DEF LineBad, AnswerIn
  <1>15. CASE HeadOk
    <2>1. /\ cmd # "idle" /\ UNCHANGED <<grp, body, lost>> /\ (~lost => pipe = <<>>)
          /\ \E b \in BodyBufs : Goes("body", b)
      BY <1>2, <1>3, <1>15 DEF HeadOk, AnswerIn
    <2>2. "body" \in Cmds /\ grp' \in 0 .. NGroups
      BY <2>1 DEF Cmds, IInv, TypeOK
    <2> QED
      BY <2>1, <2>2, GoesKeeps
  <1>16. CASE HeadBad
    BY <1>1, <1>2, <1>3, <1>16, ThrowsKeeps DEF HeadBad, AnswerIn
  <1>17. CASE LookOk
    <2>1. UNCHANGED <<n, grp, cmd, au, acc, cap, up, pipe, known, sig, body, lost>>
          /\ seen' = "checked"
      BY <1>17 DEF LookOk, sessVars, connVars
    <2> QED
      BY <2>1 DEF IInv, TypeOK, InvFrame, InvTurn, AskedLast, InvBody, OwnBody
  <1>18. CASE LookBad
    <2>1. cmd # "idle" /\ Throws(up, pipe) /\ lost' = (lost \/ CutOff)
      BY <1>4, <1>18 DEF LookBad
    <2>2. ~lost /\ ~CutOff => pipe = <<>>
      BY <1>5, <1>18 DEF LookBad
    <2>3. lost' \in BOOLEAN
      BY <1>1, <2>1
    <2> QED
      BY <1>1, <2>1, <2>2, <2>3, ThrowsKeeps
  <1>19. CASE BodyOk
    <2>1. Complete /\ Until = "body" /\ au = "no"
      BY <1>19 DEF BodyOk, AnswerIn, Until
    <2>2. ~lost => pipe = <<>> /\ acc \in Answers("body", n, "2")
      BY <2>1, Ended DEF IInv
    <2>3. /\ body' = acc /\ cmd' = "idle"
          /\ acc' = <<>> /\ seen' = "none" /\ cap' = LineBuf
          /\ UNCHANGED <<n, grp, au, up, pipe, known, sig, lost>>
      BY <1>19 DEF BodyOk, NewBuf, sessVars, connVars
    <2>4. TypeOK'
      BY <2>3, RoomFacts DEF IInv, TypeOK
    <2>5. InvTurn'
      BY <1>1, <2>2, <2>3, TurnOfPipe
    <2>6. InvFrame' /\ InvBody'
      BY <2>1, <2>2, <2>3 DEF InvFrame, InvBody, OwnBody
    <2> QED
      BY <2>4, <2>5, <2>6 DEF IInv
  <1>20. CASE Signal
    <2>1. /\ UNCHANGED <<n, grp, cmd, au, acc, seen, cap, up, pipe, known, body, lost>>
          /\ ~sig /\ sig' = TRUE
      BY <1>20 DEF Signal, sessVars, bufVars, connVars
    <2> QED
      BY <2>1 DEF IInv, TypeOK, InvFrame, InvTurn, AskedLast, InvBody, OwnBody
  <1>21. CASE UNCHANGED vars
    BY <1>21 DEF vars, IInv, TypeOK, InvFrame, InvTurn, AskedLast, InvBody, OwnBody
  <1> QED
    BY <1>7, <1>8, <1>9, <1>10, <1>11, <1>12, <1>13, <1>14, <1>15, <1>16, <1>17,
       <1>18, <1>19, <1>20, <1>21, StartUsedKeeps, StartNewKeeps, ReceiveKeeps
    DEF Next, Client

\* The three facts of the inductive invariant together.
LEMMA Invariance == Spec => []IInv
  <1>1. IInv /\ UNCHANGED vars => IInv'
    BY DEF vars, IInv, TypeOK, InvFrame, InvTurn, AskedLast, InvBody, OwnBody
  <1> QED
    BY InitIInv, NextIInv, <1>1, PTL DEF Spec
-----------------------------------------------------------------------------
(* The theorems.                                                           *)

\* Every variable keeps its type: the buffer is never given more than it has
\* room for (the sizes fetch_term and fetch_body give to Recv).
THEOREM TypeCorrect == Spec => []TypeOK
  BY Invariance, PTL DEF IInv

\* As long as no session has given up in the middle of an answer, everything a
\* session has received or will receive answers what it has just sent, and it
\* leaves nothing behind (fetch_cmd, fetch_head, fetch_body and auth).
THEOREM InSyncHolds == Spec => []InSync
  <1>1. IInv => InSync
    <2> SUFFICES ASSUME IInv, up, ~lost, ~sig
                 PROVE  /\ cmd = "idle" => pipe = <<>>
                        /\ \A j \in DOMAIN Whole :
                             Whole[j].sess = n /\ Whole[j].cmd = AskedLast
      BY DEF InSync, AskedLast, Whole
    <2>1. CASE cmd = "idle"
      <3>1. acc = <<>> /\ pipe = <<>>
        BY <2>1 DEF IInv, InvFrame, InvTurn
      <3>2. Whole = <<>> /\ DOMAIN <<>> = {}
        BY <3>1, ConcatEmptySeq DEF Whole
      <3> QED
        BY <3>1, <3>2
    <2>2. CASE cmd # "idle"
      <3>1. AskedLast \in Asked /\ n \in 1 .. NSess
        BY <2>2, Waiting DEF IInv
      <3>2. PICK code \in Codes : Whole \in Answers(AskedLast, n, code)
        BY <2>2 DEF IInv, InvTurn, Whole
      <3>3. Whole \in Seq(Piece)
        BY <3>1, <3>2, AnswerFacts
      <3>4. DOMAIN Whole = 1 .. Len(Whole)
        BY <3>3, LenProperties
      <3> QED
        BY <2>2, <3>1, <3>2, <3>4, AnswerFacts
    <2> QED
      BY <2>1, <2>2
  <1> QED
    BY Invariance, <1>1, PTL

\* Under the same condition, what is written to a segment's stream is the whole
\* BODY of the segment's own article (fetch_body's write).
THEOREM OwnBodyHolds == Spec => []OwnBody
  BY Invariance, PTL DEF IInv, InvBody
=============================================================================
