---------------------------- MODULE NntpSession ----------------------------
(***************************************************************************)
(* What fetch_nzb_segment (nzb.cpp) says to the news server, on one slot   *)
(* of the pool of connections: the sessions that use the slot follow each  *)
(* other, each for a segment of its own, and the next one finds the        *)
(* connection as the last one left it, unread bytes included.              *)
(*                                                                         *)
(* The stream of bytes from the server is a sequence of pieces, at the     *)
(* grain the client's parser can tell apart: a whole first line (CRLF      *)
(* included), its two parts when the network cuts it, a stretch of the     *)
(* lines that follow, the terminator.  A receive returns any number of     *)
(* pieces for which there is room.  The server is one that answers every   *)
(* command in order, asks for authentication with 480 and, once it has     *)
(* accepted a password, does not ask again.                                *)
(***************************************************************************)
EXTENDS Integers, Sequences

CONSTANTS
    NSess,     \* the sessions on the slot
    NGroups,   \* the newsgroups of the file
    MaxData,   \* the pieces of data in a HEAD or a BODY
    Cuts,      \* the commands whose answers the network may cut in their line
    LineBuf,   \* the room of fetch_nzb_segment's buffer (R_BUF_SIZE)
    BodyBufs   \* the rooms of fetch_body's buffer, which "bytes:" decides

ASSUME SizesAssumption ==
    /\ NSess \in Nat \ {0} /\ NGroups \in Nat \ {0} /\ MaxData \in Nat \ {0}
    /\ LineBuf \in Nat \ {0, 1, 2} /\ BodyBufs \subseteq Nat \ {0, 1, 2} /\ BodyBufs # {}
    /\ Cuts \subseteq {"greet", "mode", "group", "head", "body", "user", "pass"}

VARIABLES
    n,        \* the number of the session
    cmd,      \* the command whose answer the session waits for
    grp,      \* it_grp, the group tried
    au,       \* where auth() is
    acc,      \* the buffer: the pieces received since the last command
    seen,     \* fetch_body's first chunk: not there, to be looked at, looked at
    cap,      \* the room of the buffer in use
    up,       \* Connection::IsConnected
    pipe,     \* what the server sent and the client has not received
    known,    \* the server has accepted a password on this connection
    sig,      \* sig_received
    body,     \* the answer the last successful session took for its BODY
    lost      \* history: a session has given up in the middle of an answer

sessVars == <<n, grp>>
connVars == <<up, pipe, known>>
bufVars == <<acc, seen, cap>>
vars == <<n, cmd, grp, au, acc, seen, cap, up, pipe, known, sig, body, lost>>

Codes == {"2", "381", "480", "4"}        \* 4: anything else
Cmds == {"greet", "mode", "group", "head", "body"}
Asked == Cmds \cup {"user", "pass"}
Kinds == {"line", "stub", "part", "rest", "data", "end"}

Piece == [k : Kinds, code : Codes, cmd : Asked, sess : 1 .. NSess, i : 0 .. MaxData + 1]

TypeOK ==
    /\ n \in 0 .. NSess
    /\ cmd \in Cmds \cup {"idle"}
    /\ grp \in 0 .. NGroups
    /\ au \in {"no", "user", "pass"}
    /\ acc \in Seq(Piece) /\ pipe \in Seq(Piece) /\ body \in Seq(Piece)
    /\ seen \in {"none", "first", "checked"}
    /\ cap \in BodyBufs \cup {LineBuf} /\ Len(acc) <= cap
    /\ up \in BOOLEAN /\ known \in BOOLEAN /\ sig \in BOOLEAN
    /\ lost \in BOOLEAN

Init ==
    /\ n = 0 /\ cmd = "idle" /\ grp = 0 /\ au = "no"
    /\ acc = <<>> /\ seen = "none" /\ cap = LineBuf
    /\ up = FALSE /\ pipe = <<>> /\ known = FALSE
    /\ sig = FALSE
    /\ body = <<>>
    /\ lost = FALSE

-----------------------------------------------------------------------------
(* The server.                                                             *)

\* The first line of an answer arrives whole, or is cut after less than four
\* bytes, or later.
FirstLine(c, s, code) ==
    LET p(k) == [k |-> k, code |-> code, cmd |-> c, sess |-> s, i |-> 0] IN
    { <<p("line")>> } \cup
    (IF c \in Cuts THEN { <<p("stub"), p("rest")>>, <<p("part"), p("rest")>> } ELSE {})

Lines(c, s, d) ==
    [j \in 1 .. d + 1 |-> [k |-> IF j <= d THEN "data" ELSE "end",
                           code |-> "4", cmd |-> c, sess |-> s, i |-> j]]

Replies(c) ==
    CASE c = "greet" -> {"2", "4"}
      [] c = "user"  -> {"381", "4"}
      [] c = "pass"  -> {"2", "4"}
      [] OTHER       -> IF known THEN {"2", "4"} ELSE {"2", "4", "480"}

\* An answer of several lines comes with HEAD and BODY when they are granted.
Answers(c, s, code) ==
    IF c \in {"head", "body"} /\ code = "2"
    THEN { l \o Lines(c, s, d) : l \in FirstLine(c, s, code), d \in 1 .. MaxData }
    ELSE FirstLine(c, s, code)

-----------------------------------------------------------------------------
(* SendAll and the start of a new buffer.                                  *)

\* Command c of session s is sent on a connection that is open or not (u), p
\* being what is unread: SendAll's failure goes unnoticed.
Ask(c, s, u, p) ==
    \/ /\ u
       /\ \E code \in Replies(c) :
            /\ \E a \in Answers(c, s, code) : pipe' = p \o a
            /\ known' = (known \/ (c = "pass" /\ code = "2"))
    \/ ~u /\ pipe' = p /\ UNCHANGED known

NewBuf(b) == acc' = <<>> /\ seen' = "none" /\ cap' = b

\* The session goes on with command c, on its connection as it is.
Goes(c, b) ==
    /\ cmd' = c /\ au' = "no"
    /\ NewBuf(b)
    /\ Ask(c, n, up, pipe)
    /\ UNCHANGED <<n, up, sig>>

\* auth() sends what it has to.
Auths(c) ==
    /\ au' = c
    /\ acc' = <<>> /\ seen' = "none"
    /\ Ask(c, n, up, pipe)
    /\ UNCHANGED <<n, cmd, grp, cap, up, sig, body>>

\* An exception: the loop over the groups swallows it and tries the next one,
\* except for the last; any other ends the session.  u and p are the
\* connection and its unread bytes after it.
Throws(u, p) ==
    /\ up' = u
    /\ au' = "no"
    /\ NewBuf(LineBuf)
    /\ \/ /\ cmd = "group" /\ grp < NGroups
          /\ grp' = grp + 1 /\ UNCHANGED cmd
          /\ Ask("group", n, u, p)
       \/ /\ ~(cmd = "group" /\ grp < NGroups)
          /\ cmd' = "idle" /\ grp' = 0
          /\ pipe' = p /\ UNCHANGED known
    /\ UNCHANGED <<n, sig, body>>

-----------------------------------------------------------------------------
(* Sessions.                                                               *)

\* The slot's connection is open: it was used before, no greeting is read.
StartUsed ==
    /\ cmd = "idle" /\ n < NSess /\ up
    /\ n' = n + 1 /\ cmd' = "mode" /\ body' = <<>>
    /\ NewBuf(LineBuf)
    /\ Ask("mode", n + 1, up, pipe)
    /\ UNCHANGED <<grp, au, up, sig, lost>>

\* The slot has no connection: a new one, or a failure.
StartNew ==
    /\ cmd = "idle" /\ n < NSess /\ ~up
    /\ n' = n + 1 /\ body' = <<>>
    /\ \/ /\ up' = TRUE /\ cmd' = "greet"
          /\ \E code \in Replies("greet") : pipe' \in Answers("greet", n + 1, code)
       \/ UNCHANGED <<up, cmd>> /\ pipe' = <<>>
    /\ known' = FALSE /\ lost' = FALSE
    /\ UNCHANGED <<grp, au, bufVars, sig>>

-----------------------------------------------------------------------------
(* Receiving: the loops of fetch_term and of fetch_body.                   *)

\* What the session needs: a CRLF, HEAD_TERM, or BODY_TERM at the very end.
Until ==
    IF au # "no" \/ cmd \in {"greet", "mode", "group"} THEN "line" ELSE cmd

Has(kinds) == \E j \in DOMAIN acc : acc[j].k \in kinds

\* fetch_body looks at the code once, in its first chunk.
Looks == cmd # "idle" /\ Until = "body" /\ seen = "first"

\* The code the buffer begins with: bytes that begin no answer may begin with
\* the digit 2, which is all that most tests look at.
Apparent ==
    CASE acc[1].k \in {"line", "stub", "part"} -> {acc[1].code}
      [] acc[1].k = "end" -> {"4"}
      [] OTHER -> {"2", "4"}

TooShort == Len(acc) = 1 /\ acc[1].k = "stub"
CutOff == Until = "body" /\ Len(acc) = 1 /\ acc[1].k = "part"

\* Mutant: fetch_term is content with its first receive.
CompleteAtOnce ==
    /\ cmd # "idle" /\ acc # <<>>
    /\ CASE Until = "line" -> TRUE
         [] Until = "head" -> Has({"end"})
         [] Until = "body" -> seen = "checked" /\ acc[Len(acc)].k = "end"

\* Mutant: fetch_head looks for CRLF instead of HEAD_TERM.
CompleteHeadLine ==
    /\ cmd # "idle" /\ acc # <<>>
    /\ CASE Until \in {"line", "head"} -> Has({"line", "rest", "data", "end"})
         [] Until = "body" -> seen = "checked" /\ acc[Len(acc)].k = "end"

Complete ==
    /\ cmd # "idle" /\ acc # <<>>
    /\ CASE Until = "line" -> Has({"line", "rest", "data", "end"})
         [] Until = "head" -> Has({"end"})
         [] Until = "body" -> seen = "checked" /\ acc[Len(acc)].k = "end"

Full == cmd # "idle" /\ Len(acc) = cap

\* The loop goes on with another receive.
Waits == cmd # "idle" /\ ~Looks /\ ~Complete /\ ~Full

\* Mutant: the receive is given the buffer's size, not what is left of it.
ReceiveWholeBuffer ==
    /\ Waits /\ ~sig /\ up
    /\ \E m \in 1 .. Len(pipe) :
        /\ m <= cap
        /\ acc' = acc \o SubSeq(pipe, 1, m)
        /\ pipe' = SubSeq(pipe, m + 1, Len(pipe))
    /\ seen' = IF Until = "body" /\ seen = "none" THEN "first" ELSE seen
    /\ UNCHANGED <<sessVars, cmd, au, cap, up, known, sig, body, lost>>

Receive ==
    /\ Waits /\ ~sig /\ up
    /\ \E m \in 1 .. Len(pipe) :
        /\ m <= cap - Len(acc)
        /\ acc' = acc \o SubSeq(pipe, 1, m)
        /\ pipe' = SubSeq(pipe, m + 1, Len(pipe))
    /\ seen' = IF Until = "body" /\ seen = "none" THEN "first" ELSE seen
    /\ UNCHANGED <<sessVars, cmd, au, cap, up, known, sig, body, lost>>

\* The server closes or says nothing until the time-out, or the connection was
\* closed before: Recv closes it.
Drop ==
    /\ Waits /\ ~sig
    /\ Throws(FALSE, <<>>)
    /\ UNCHANGED lost

\* test_raised(), before every receive.
Interrupted ==
    /\ Waits /\ sig
    /\ Throws(up, pipe)
    /\ UNCHANGED lost

\* "Buffer too small to fetch terminator", "News article is too big": the rest
\* of the answer stays in the connection.
Overrun ==
    /\ Full /\ ~Looks /\ ~Complete
    /\ Throws(up, pipe)
    /\ lost' = TRUE

-----------------------------------------------------------------------------
(* The answers.                                                            *)

AnswerIn(until) == Complete /\ Until = until

\* fetch_cmd's 2xx: the command after this one.  All the groups are tried.
LineOk ==
    /\ AnswerIn("line") /\ au = "no" /\ "2" \in Apparent
    /\ \/ cmd = "greet" /\ Goes("mode", LineBuf) /\ UNCHANGED grp
       \/ cmd = "mode" /\ Goes("group", LineBuf) /\ grp' = 1
       \/ cmd = "group" /\ grp < NGroups /\ Goes("group", LineBuf) /\ grp' = grp + 1
       \/ cmd = "group" /\ grp = NGroups /\ Goes("head", LineBuf) /\ grp' = 0
    /\ UNCHANGED <<body, lost>>

\* 480 to a command, to HEAD once HEAD_TERM is there, or to BODY at once:
\* AUTHINFO USER.
AuthUser ==
    /\ au = "no"
    /\ AnswerIn("line") \/ AnswerIn("head") \/ (Looks /\ ~TooShort)
    /\ "480" \in Apparent
    /\ Auths("user")
    /\ lost' = (lost \/ CutOff)

\* 381: AUTHINFO PASS.
AuthPass ==
    /\ AnswerIn("line") /\ au = "user" /\ "381" \in Apparent
    /\ Auths("pass")
    /\ UNCHANGED lost

\* 2xx to the password: the command again.
AuthDone ==
    /\ AnswerIn("line") /\ au = "pass" /\ "2" \in Apparent
    /\ Goes(cmd, cap)
    /\ UNCHANGED <<grp, body, lost>>

\* Mutant: any answer to the password will do.
LineBadUnlessAuth ==
    /\ AnswerIn("line")
    /\ Apparent \cap (IF au = "user" THEN Codes \ {"381"} ELSE {"4", "381"}) # {}
    /\ IF au = "pass" THEN Goes(cmd, cap) /\ UNCHANGED <<grp, body>> ELSE Throws(up, pipe)
    /\ UNCHANGED lost

\* Any other code is an exception; the whole line has been read.
LineBad ==
    /\ AnswerIn("line")
    /\ Apparent \cap (CASE au = "no" -> {"4", "381"}
                        [] au = "user" -> Codes \ {"381"}
                        [] au = "pass" -> Codes \ {"2"}) # {}
    /\ Throws(up, pipe)
    /\ UNCHANGED lost

\* The headers, which may be refused (no yEnc); "bytes:", if it is there, gives
\* the room for the body.
HeadOk ==
    /\ AnswerIn("head") /\ "2" \in Apparent
    /\ \E b \in BodyBufs : Goes("body", b)
    /\ UNCHANGED <<grp, body, lost>>

HeadBad ==
    /\ AnswerIn("head")
    /\ Apparent \cap {"2", "4", "381"} # {}
    /\ Throws(up, pipe)
    /\ UNCHANGED lost

\* The first chunk of fetch_body is too short for a code, or the code is good.
LookOk ==
    /\ Looks
    /\ TooShort \/ "2" \in Apparent
    /\ seen' = "checked"
    /\ UNCHANGED <<sessVars, cmd, au, acc, cap, connVars, sig, body, lost>>

\* A refusal of BODY is an exception as soon as its code is there: what the
\* network has cut off stays in the connection.
LookBad ==
    /\ Looks /\ ~TooShort
    /\ Apparent \cap {"4", "381"} # {}
    /\ Throws(up, pipe)
    /\ lost' = (lost \/ CutOff)

\* The article is written to the segment's stream, and the session is over.
BodyOk ==
    /\ AnswerIn("body")
    /\ body' = acc
    /\ cmd' = "idle" /\ NewBuf(LineBuf)
    /\ UNCHANGED <<sessVars, au, connVars, sig, lost>>

Client ==
    \/ StartUsed \/ StartNew
    \/ Receive \/ Drop \/ Interrupted \/ Overrun
    \/ LineOk \/ AuthUser \/ AuthPass \/ AuthDone \/ LineBad
    \/ HeadOk \/ HeadBad \/ LookOk \/ LookBad \/ BodyOk

Signal ==
    /\ ~sig /\ sig' = TRUE
    /\ UNCHANGED <<sessVars, cmd, au, bufVars, connVars, body, lost>>

Done == n = NSess /\ cmd = "idle"

Next == Client \/ Signal \/ (Done /\ UNCHANGED vars)

\* The thread runs, and a receive that gets nothing ends with its time-out.
Fairness == WF_vars(Client)

Spec == Init /\ [][Next]_vars /\ Fairness
-----------------------------------------------------------------------------
\* The client and the server agree on whose turn it is: as long as no session
\* has given up in the middle of an answer, everything a session receives or
\* will receive is the answer to what it has just sent, and it leaves nothing
\* behind, whatever was refused, dropped or authenticated on the way
\* (fetch_cmd, fetch_head, fetch_body and auth together).
InSync ==
    up /\ ~lost /\ ~sig =>
        /\ cmd = "idle" => pipe = <<>>
        /\ LET s == acc \o pipe IN
           \A j \in DOMAIN s :
               s[j].sess = n /\ s[j].cmd = IF au = "no" THEN cmd ELSE au

\* What is written to the segment's stream is the whole BODY of the segment's
\* own article, unless a session on this connection has given up in the middle
\* of an answer (fetch_body's write).  Each session after that one takes what
\* was left for the answer to its first command and adds an answer of its own:
\* in the end a BODY may be given an older one's.
OwnBody == body # <<>> /\ ~lost => body \in Answers("body", n, "2")

\* Every session ends, authentication and its retries included.
SessionsEnd == <>Done

\* fetch_head's comment, "if code is 480 you have to authenticate": a session
\* that has received the line does not wait for more.
HeadAuthenticates ==
    ~(Waits /\ Until = "head" /\ acc # <<>> /\ acc[1].k = "line" /\ acc[1].code = "480")
=============================================================================
