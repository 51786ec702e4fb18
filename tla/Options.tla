------------------------------ MODULE Options ------------------------------
(***************************************************************************)
(* The settings (settings.cpp), what each option of the command line does  *)
(* to them (parse_options in main.cpp), and the permission macros of       *)
(* check_basic.                                                            *)
(*                                                                         *)
(* An option is a record: c, its letter; n, what atoi or atof (-x, in      *)
(* percent) makes of its argument, and for -l a number out of range when   *)
(* that has no digit in front; text, the argument where the text counts:   *)
(* "" or something else; colon, whether it has a colon (-s, -W), what is   *)
(* left of it then being text in -s, right of it in -W.                    *)
(***************************************************************************)
EXTENDS Integers

CONSTANTS
    Text,     \* the strings that options give, other than "" and "./"
    Alnum     \* those of them in which isalnum holds for every character

ASSUME TextAssumption == Alnum \subseteq Text

UShort == 65536                \* the values of an unsigned short
UShortMax == 65535             \* std::numeric_limits<unsigned short>::max()

Option == [c : {"s", "u", "p", "c", "t", "o", "x", "y", "l", "z", "C", "T", "S", "W",
                "d", "e", "F", "h", "r", "n", "v", "Y", "P", "?", "!"},
           n : Int, text : Text \cup {""}, colon : BOOLEAN]

Settings == [
    NNTP_server : Text \cup {""},     NNTP_port : 0 .. UShortMax,
    NNTP_user : Text \cup {""},       NNTP_pass : Text \cup {""},
    NNTP_strict_yenc : BOOLEAN,       NNTP_skip_par : BOOLEAN,
    LOG : 0 .. 15,                    NNTP_max_conn : Nat \ {0},
    NNTP_wait_segment : Int,          NNTP_recv_tmout : Nat,
    NNTP_wait_conn : Nat,             YYDECODE_PATH : Text \cup {""},
    OUT_DIR : Text \cup {"./"},       TMP_DIR : Text \cup {"./"},
    OUT_DIR_NAME : BOOLEAN,           USE_CONN_POOL : BOOLEAN,
    TEMPORARY_FILES : BOOLEAN,        MAX_PERC_REPAIR : 0 .. 100,
    MAX_SEG_RETRY : Nat,              USE_LIB_NOTIFY : BOOLEAN,
    WWW_PORT : 0 .. UShortMax,        WWW_PASS : Text \cup {""},
    USE_SSL : BOOLEAN]

\* settings.cpp; YYDECODE_PATH stands at its default, a string nobody gives.
Default == [
    NNTP_server |-> "",               NNTP_port |-> 0,
    NNTP_user |-> "",                 NNTP_pass |-> "",
    NNTP_strict_yenc |-> FALSE,       NNTP_skip_par |-> FALSE,
    LOG |-> 7,                        NNTP_max_conn |-> 2,
    NNTP_wait_segment |-> 0,          NNTP_recv_tmout |-> 2000,
    NNTP_wait_conn |-> 0,             YYDECODE_PATH |-> "",
    OUT_DIR |-> "./",                 TMP_DIR |-> "./",
    OUT_DIR_NAME |-> FALSE,           USE_CONN_POOL |-> TRUE,
    TEMPORARY_FILES |-> FALSE,        MAX_PERC_REPAIR |-> 20,
    MAX_SEG_RETRY |-> 3,              USE_LIB_NOTIFY |-> TRUE,
    WWW_PORT |-> 0,                   WWW_PASS |-> "",
    USE_SSL |-> FALSE]

-----------------------------------------------------------------------------
AtLeast(low, n, otherwise) == IF n < low THEN otherwise ELSE n
Within(low, high, n) == IF n < low THEN low ELSE IF n > high THEN high ELSE n

\* Mutant: the int is looked at, and kept, as it is.
PortWide(n) == AtLeast(1, n, 119)

\* -s host:port.  The int goes into an unsigned short before it is looked at,
\* so that what counts as no port is a multiple of 65536.
Port(n) == AtLeast(1, n % UShort, 119)

\* A directory is "./" when it is empty (and ends in a slash in any case).
Dir(text) == IF text = "" THEN "./" ELSE text

\* -l takes 0 to 4 and leaves LOG alone otherwise.
Levels == <<0, 1, 3, 7, 15>>

\* Mutant: the default port is chosen here, before -e may come.
SetServerDefault(s, o) ==
    [s EXCEPT !.NNTP_server = o.text,
              !.NNTP_port = IF o.colon THEN Port(o.n) ELSE IF s.USE_SSL THEN 564 ELSE 119]

SetServer(s, o) ==
    [s EXCEPT !.NNTP_server = o.text, !.NNTP_port = IF o.colon THEN Port(o.n) ELSE @]

SetWww(s, o) ==
    [s EXCEPT !.WWW_PORT = Within(0, UShortMax, o.n), !.WWW_PASS = IF o.colon THEN o.text ELSE @]

\* A negative -t sets the number of connections, not the time.
SetWaitSegment(s, n) ==
    [s EXCEPT !.NNTP_wait_segment = n, !.NNTP_max_conn = IF n < 0 THEN 1000 ELSE @]

\* The switch of parse_options.  "!" is an option that getopt does not know, or
\* that lacks its argument: the program tells so and exits.  "?" is such an
\* option whose letter isprint does not take: nothing happens.
Apply(s, o) ==
    CASE o.c = "s" -> SetServer(s, o)
      [] o.c = "u" -> [s EXCEPT !.NNTP_user = o.text]
      [] o.c = "p" -> [s EXCEPT !.NNTP_pass = o.text]
      [] o.c = "c" -> [s EXCEPT !.NNTP_max_conn = AtLeast(1, o.n, 1)]
      [] o.c = "t" -> SetWaitSegment(s, o.n)
      [] o.c = "o" -> [s EXCEPT !.OUT_DIR = Dir(o.text)]
      [] o.c = "T" -> [s EXCEPT !.TMP_DIR = Dir(o.text)]
      [] o.c = "y" -> [s EXCEPT !.YYDECODE_PATH = o.text]
      [] o.c = "x" -> [s EXCEPT !.MAX_PERC_REPAIR = Within(0, 100, o.n)]
      [] o.c = "l" -> [s EXCEPT !.LOG = IF o.n \in 0 .. 4 THEN Levels[o.n + 1] ELSE @]
      [] o.c = "z" -> [s EXCEPT !.MAX_SEG_RETRY = AtLeast(0, o.n, 3)]
      [] o.c = "C" -> [s EXCEPT !.NNTP_wait_conn = AtLeast(0, o.n, 0)]
      [] o.c = "S" -> [s EXCEPT !.NNTP_recv_tmout = AtLeast(0, o.n, 0)]
      [] o.c = "W" -> SetWww(s, o)
      [] o.c = "d" -> [s EXCEPT !.OUT_DIR_NAME = TRUE]
      [] o.c = "e" -> [s EXCEPT !.USE_SSL = TRUE]
      [] o.c = "F" -> [s EXCEPT !.TEMPORARY_FILES = TRUE]
      [] o.c = "P" -> [s EXCEPT !.NNTP_skip_par = TRUE]
      [] o.c = "r" -> [s EXCEPT !.USE_CONN_POOL = FALSE]
      [] o.c = "n" -> [s EXCEPT !.USE_LIB_NOTIFY = FALSE]
      [] o.c = "Y" -> [s EXCEPT !.NNTP_strict_yenc = TRUE]
      [] OTHER -> s

\* The end of parse_options.
DefaultPort(s) ==
    [s EXCEPT !.NNTP_port = IF @ # 0 THEN @ ELSE IF s.USE_SSL THEN 564 ELSE 119]

-----------------------------------------------------------------------------
(* What stat64 says of a path: its type, its owner and group, and the      *)
(* permissions of the owner, of the group and of the others; and the user  *)
(* and the group of the process.                                           *)

\* IS_F_RWX and IS_F_RX, with what they ask for.
IS_U(st, uid, want) == st.uid = uid /\ want \subseteq st.u
IS_G(st, gid, want) == st.gid = gid /\ want \subseteq st.g
IS_O(st, want) == want \subseteq st.o
IS_F(st, uid, gid, want) ==
    \/ IS_U(st, uid, want)
    \/ /\ st.uid # uid
       /\ IS_G(st, gid, want) \/ (st.gid # gid /\ IS_O(st, want))

\* The kernel's rule for a user who is not root and has no other group: the
\* first class the user is in decides.
Grants(st, uid, gid, want) ==
    want \subseteq (IF st.uid = uid THEN st.u ELSE IF st.gid = gid THEN st.g ELSE st.o)
=============================================================================
