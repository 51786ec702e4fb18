--------------------------- MODULE Process_proofs ---------------------------
(***************************************************************************)
(* What Process keeps for every set of command lines, of Connections and   *)
(* of descriptors; and first, what holds of Options for every option and   *)
(* every file: each option leaves settings in their ranges, and the        *)
(* permission macros say what the kernel will grant.                       *)
(*                                                                         *)
(* A descriptor has one owner because an object asks for one only when it  *)
(* has none, and forgets its number only after it has given it back; the   *)
(* inductive invariant says where in its life each object has a number and *)
(* an SSL handle, and what main has made and undone meanwhile.             *)
(***************************************************************************)
EXTENDS Process, WellFoundedInduction, TLAPS

\* IS_F_RWX and IS_F_RX (main.cpp:55, 63), as their comments spell them out,
\* agree with the kernel on every file and every user but root.
THEOREM PermissionsRight ==
    ASSUME NEW f, NEW uid, NEW gid, NEW want
    PROVE  IS_F(f, uid, gid, want) <=> Grants(f, uid, gid, want)
BY DEF IS_F, IS_U, IS_G, IS_O, Grants

-----------------------------------------------------------------------------
(* The helpers of Apply stay in range.                                     *)

\* The default port fits an unsigned short.
LEMMA UShortMaxFits == UShortMax \in Nat /\ UShortMax >= 564
BY DEF UShortMax

\* A port that is not 0, or the default where it is.
LEMMA NotZero ==
    ASSUME NEW max \in Nat, max >= 564, NEW k \in 0 .. max
    PROVE  /\ k # 0 => k \in 1 .. max
           /\ 119 \in 1 .. max /\ 564 \in 1 .. max
           /\ AtLeast(1, k, 119) \in 1 .. max
BY DEF AtLeast

\* A port that is not 0 is a port.
LEMMA FromZero == ASSUME NEW max \in Nat, NEW k \in 1 .. max PROVE k \in 0 .. max
OBVIOUS

\* A port of -s is never 0 and fits an unsigned short (main.cpp:116-117).
LEMMA PortInRange ==
    ASSUME NEW n \in Int
    PROVE  Port(n) \in 1 .. UShortMax /\ Port(n) \in 0 .. UShortMax
<1>1. n % UShort \in 0 .. UShortMax
  <2>1. \A m \in Nat \ {0} : n % m \in 0 .. m - 1
    OBVIOUS
  <2>2. UShort \in Nat \ {0} /\ UShort - 1 = UShortMax
    BY DEF UShort, UShortMax
  <2>. QED  BY Zenon, <2>1, <2>2
<1>2. Port(n) \in 1 .. UShortMax
  BY ZenonT(60), <1>1, UShortMaxFits, NotZero DEF Port
<1> QED BY Zenon, <1>2, UShortMaxFits, FromZero

\* The options that have a least value keep to it.
LEMMA AtLeastInRange ==
    \A n \in Int :
        /\ AtLeast(1, n, 1) \in Nat \ {0}
        /\ AtLeast(0, n, 3) \in Nat
        /\ AtLeast(0, n, 0) \in Nat
BY DEF AtLeast

\* A number that is clamped on both sides keeps to the range.
LEMMA WithinInRange ==
    ASSUME NEW n \in Int, NEW high \in Nat
    PROVE  Within(0, high, n) \in 0 .. high
BY DEF Within

\* A level of -l is a set of four bits.
LEMMA LevelsInRange == ASSUME NEW l \in 0 .. 4 PROVE Levels[l + 1] \in 0 .. 15
<1>1. l = 0 \/ l = 1 \/ l = 2 \/ l = 3 \/ l = 4
  OBVIOUS
<1> QED BY <1>1 DEF Levels

-----------------------------------------------------------------------------
\* The settings the program starts with (settings.cpp).
LEMMA DefaultTyped == Default \in Settings /\ Default.USE_SSL = FALSE
<1>1. /\ 0 \in 0 .. UShortMax /\ 7 \in 0 .. 15 /\ 2 \in Nat \ {0} /\ 0 \in Int
      /\ 2000 \in Nat /\ 20 \in 0 .. 100 /\ 3 \in Nat /\ 0 \in Nat
  BY DEF UShortMax
<1>2. Default \in Settings
  BY SMTT(30), <1>1 DEF Settings, Default
<1>3. Default.USE_SSL = FALSE
  BY Zenon DEF Default
<1>. QED  BY <1>2, <1>3

-----------------------------------------------------------------------------
\* No option moves a setting out of its range, whatever atoi makes of its
\* argument: the clamps of main.cpp:116-253 are enough.
THEOREM ApplyTyped ==
    ASSUME NEW s \in Settings, NEW o \in Option
    PROVE  Apply(s, o) \in Settings
<1>1. o.n \in Int /\ o.text \in Text \cup {""} /\ o.colon \in BOOLEAN
  BY DEF Option
<1>2. ASSUME NEW text \in Text \cup {""}
      PROVE  [s EXCEPT !.NNTP_user = text] \in Settings
  BY ZenonT(60), <1>2 DEF Settings
<1>3. ASSUME NEW text \in Text \cup {""}
      PROVE  [s EXCEPT !.NNTP_pass = text] \in Settings
  BY ZenonT(60), <1>3 DEF Settings
<1>4. ASSUME NEW text \in Text \cup {""}
      PROVE  [s EXCEPT !.YYDECODE_PATH = text] \in Settings
  BY ZenonT(60), <1>4 DEF Settings
<1>5. ASSUME NEW dir \in Text \cup {"./"}
      PROVE  [s EXCEPT !.OUT_DIR = dir] \in Settings
  BY ZenonT(60), <1>5 DEF Settings
<1>6. ASSUME NEW dir \in Text \cup {"./"}
      PROVE  [s EXCEPT !.TMP_DIR = dir] \in Settings
  BY ZenonT(60), <1>6 DEF Settings
<1>7. ASSUME NEW k \in Nat
      PROVE  [s EXCEPT !.MAX_SEG_RETRY = k] \in Settings
  BY ZenonT(60), <1>7 DEF Settings
<1>8. ASSUME NEW k \in Nat
      PROVE  [s EXCEPT !.NNTP_wait_conn = k] \in Settings
  BY ZenonT(60), <1>8 DEF Settings
<1>9. ASSUME NEW k \in Nat
      PROVE  [s EXCEPT !.NNTP_recv_tmout = k] \in Settings
  BY ZenonT(60), <1>9 DEF Settings
<1>10. ASSUME NEW k \in Nat \ {0}
      PROVE  [s EXCEPT !.NNTP_max_conn = k] \in Settings
  BY ZenonT(60), <1>10 DEF Settings
<1>11. ASSUME NEW k \in 0 .. 15
      PROVE  [s EXCEPT !.LOG = k] \in Settings
  BY ZenonT(60), <1>11 DEF Settings
<1>12. ASSUME NEW k \in 0 .. 100
      PROVE  [s EXCEPT !.MAX_PERC_REPAIR = k] \in Settings
  BY ZenonT(60), <1>12 DEF Settings
<1>13. [s EXCEPT !.OUT_DIR_NAME = TRUE] \in Settings
  BY ZenonT(60) DEF Settings
<1>14. [s EXCEPT !.USE_SSL = TRUE] \in Settings
  BY ZenonT(60) DEF Settings
<1>15. [s EXCEPT !.TEMPORARY_FILES = TRUE] \in Settings
  BY ZenonT(60) DEF Settings
<1>16. [s EXCEPT !.NNTP_skip_par = TRUE] \in Settings
  BY ZenonT(60) DEF Settings
<1>17. [s EXCEPT !.USE_CONN_POOL = FALSE] \in Settings
  BY ZenonT(60) DEF Settings
<1>18. [s EXCEPT !.USE_LIB_NOTIFY = FALSE] \in Settings
  BY ZenonT(60) DEF Settings
<1>19. [s EXCEPT !.NNTP_strict_yenc = TRUE] \in Settings
  BY ZenonT(60) DEF Settings
<1>20. ASSUME NEW host \in Text \cup {""}, NEW port \in 0 .. UShortMax
      PROVE  [s EXCEPT !.NNTP_server = host, !.NNTP_port = port] \in Settings
  BY ZenonT(60), <1>20 DEF Settings
<1>21. ASSUME NEW port \in 0 .. UShortMax, NEW pass \in Text \cup {""}
      PROVE  [s EXCEPT !.WWW_PORT = port, !.WWW_PASS = pass] \in Settings
  BY ZenonT(60), <1>21 DEF Settings
<1>22. ASSUME NEW t \in Int, NEW k \in Nat \ {0}
      PROVE  [s EXCEPT !.NNTP_wait_segment = t, !.NNTP_max_conn = k] \in Settings
  BY ZenonT(60), <1>22 DEF Settings
<1>23. CASE o.c = "u"
  <2>1. Apply(s, o) = [s EXCEPT !.NNTP_user = o.text]
    BY <1>23 DEF Apply
  <2> QED BY Zenon, <2>1, <1>1, <1>2
<1>24. CASE o.c = "p"
  <2>1. Apply(s, o) = [s EXCEPT !.NNTP_pass = o.text]
    BY <1>24 DEF Apply
  <2> QED BY Zenon, <2>1, <1>1, <1>3
<1>25. CASE o.c = "y"
  <2>1. Apply(s, o) = [s EXCEPT !.YYDECODE_PATH = o.text]
    BY <1>25 DEF Apply
  <2> QED BY Zenon, <2>1, <1>1, <1>4
<1>26. CASE o.c = "o"
  <2>1. Apply(s, o) = [s EXCEPT !.OUT_DIR = Dir(o.text)]
    BY <1>26 DEF Apply
  <2>2. Dir(o.text) \in Text \cup {"./"}
    BY <1>1 DEF Dir
  <2> QED BY Zenon, <2>1, <2>2, <1>5
<1>27. CASE o.c = "T"
  <2>1. Apply(s, o) = [s EXCEPT !.TMP_DIR = Dir(o.text)]
    BY <1>27 DEF Apply
  <2>2. Dir(o.text) \in Text \cup {"./"}
    BY <1>1 DEF Dir
  <2> QED BY Zenon, <2>1, <2>2, <1>6
<1>28. CASE o.c = "c"
  <2>1. Apply(s, o) = [s EXCEPT !.NNTP_max_conn = AtLeast(1, o.n, 1)]
    BY <1>28 DEF Apply
  <2>2. AtLeast(1, o.n, 1) \in Nat \ {0}
    BY Zenon, <1>1, AtLeastInRange
  <2> QED BY Zenon, <2>1, <2>2, <1>10
<1>29. CASE o.c = "z"
  <2>1. Apply(s, o) = [s EXCEPT !.MAX_SEG_RETRY = AtLeast(0, o.n, 3)]
    BY <1>29 DEF Apply
  <2>2. AtLeast(0, o.n, 3) \in Nat
    BY Zenon, <1>1, AtLeastInRange
  <2> QED BY Zenon, <2>1, <2>2, <1>7
<1>30. CASE o.c = "C"
  <2>1. Apply(s, o) = [s EXCEPT !.NNTP_wait_conn = AtLeast(0, o.n, 0)]
    BY <1>30 DEF Apply
  <2>2. AtLeast(0, o.n, 0) \in Nat
    BY Zenon, <1>1, AtLeastInRange
  <2> QED BY Zenon, <2>1, <2>2, <1>8
<1>31. CASE o.c = "S"
  <2>1. Apply(s, o) = [s EXCEPT !.NNTP_recv_tmout = AtLeast(0, o.n, 0)]
    BY <1>31 DEF Apply
  <2>2. AtLeast(0, o.n, 0) \in Nat
    BY Zenon, <1>1, AtLeastInRange
  <2> QED BY Zenon, <2>1, <2>2, <1>9
<1>32. CASE o.c = "x"
  <2>1. Apply(s, o) = [s EXCEPT !.MAX_PERC_REPAIR = Within(0, 100, o.n)]
    BY <1>32 DEF Apply
  <2>2. Within(0, 100, o.n) \in 0 .. 100
    BY <1>1, WithinInRange
  <2> QED BY Zenon, <2>1, <2>2, <1>12
<1>33. CASE o.c = "l"
  <2>1. Apply(s, o) = [s EXCEPT !.LOG = IF o.n \in 0 .. 4 THEN Levels[o.n + 1] ELSE s.LOG]
    BY <1>33 DEF Apply
  <2>2. s.LOG \in 0 .. 15
    BY DEF Settings
  <2>3. (IF o.n \in 0 .. 4 THEN Levels[o.n + 1] ELSE s.LOG) \in 0 .. 15
    BY Zenon, <2>2, LevelsInRange
  <2> QED BY Zenon, <2>1, <2>3, <1>11
<1>34. CASE o.c = "d"
  <2>1. Apply(s, o) = [s EXCEPT !.OUT_DIR_NAME = TRUE]
    BY <1>34 DEF Apply
  <2> QED BY Zenon, <2>1, <1>13
<1>35. CASE o.c = "e"
  <2>1. Apply(s, o) = [s EXCEPT !.USE_SSL = TRUE]
    BY <1>35 DEF Apply
  <2> QED BY Zenon, <2>1, <1>14
<1>36. CASE o.c = "F"
  <2>1. Apply(s, o) = [s EXCEPT !.TEMPORARY_FILES = TRUE]
    BY <1>36 DEF Apply
  <2> QED BY Zenon, <2>1, <1>15
<1>37. CASE o.c = "P"
  <2>1. Apply(s, o) = [s EXCEPT !.NNTP_skip_par = TRUE]
    BY <1>37 DEF Apply
  <2> QED BY Zenon, <2>1, <1>16
<1>38. CASE o.c = "r"
  <2>1. Apply(s, o) = [s EXCEPT !.USE_CONN_POOL = FALSE]
    BY <1>38 DEF Apply
  <2> QED BY Zenon, <2>1, <1>17
<1>39. CASE o.c = "n"
  <2>1. Apply(s, o) = [s EXCEPT !.USE_LIB_NOTIFY = FALSE]
    BY <1>39 DEF Apply
  <2> QED BY Zenon, <2>1, <1>18
<1>40. CASE o.c = "Y"
  <2>1. Apply(s, o) = [s EXCEPT !.NNTP_strict_yenc = TRUE]
    BY <1>40 DEF Apply
  <2> QED BY Zenon, <2>1, <1>19
<1>41. CASE o.c = "s"
  <2>1. Apply(s, o) = [s EXCEPT !.NNTP_server = o.text,
                            !.NNTP_port = IF o.colon THEN Port(o.n) ELSE s.NNTP_port]
    BY <1>41 DEF Apply, SetServer
  <2>2. s.NNTP_port \in 0 .. UShortMax
    BY DEF Settings
  <2>3. Port(o.n) \in 0 .. UShortMax
    BY Zenon, <1>1, PortInRange
  <2>4. (IF o.colon THEN Port(o.n) ELSE s.NNTP_port) \in 0 .. UShortMax
    BY Zenon, <2>2, <2>3
  <2> QED BY ZenonT(60), <2>1, <2>4, <1>1, <1>20
<1>42. CASE o.c = "W"
  <2>1. Apply(s, o) = [s EXCEPT !.WWW_PORT = Within(0, UShortMax, o.n),
                            !.WWW_PASS = IF o.colon THEN o.text ELSE s.WWW_PASS]
    BY <1>42 DEF Apply, SetWww
  <2>2. s.WWW_PASS \in Text \cup {""}
    BY DEF Settings
  <2>3. Within(0, UShortMax, o.n) \in 0 .. UShortMax
    BY Zenon, <1>1, UShortMaxFits, WithinInRange
  <2>4. (IF o.colon THEN o.text ELSE s.WWW_PASS) \in Text \cup {""}
    BY Zenon, <2>2, <1>1
  <2> QED BY ZenonT(60), <2>1, <2>3, <2>4, <1>21
<1>43. CASE o.c = "t"
  <2>1. Apply(s, o) = [s EXCEPT !.NNTP_wait_segment = o.n,
                            !.NNTP_max_conn = IF o.n < 0 THEN 1000 ELSE s.NNTP_max_conn]
    BY <1>43 DEF Apply, SetWaitSegment
  <2>2. s.NNTP_max_conn \in Nat \ {0}
    BY DEF Settings
  <2>3. PICK k \in Nat \ {0} : k = IF o.n < 0 THEN 1000 ELSE s.NNTP_max_conn
    BY <2>2
  <2>4. Apply(s, o) = [s EXCEPT !.NNTP_wait_segment = o.n, !.NNTP_max_conn = k]
    BY <2>1, <2>3
  <2>5. [s EXCEPT !.NNTP_wait_segment = o.n, !.NNTP_max_conn = k] \in Settings
    <3>1. o.n \in Int
      BY <1>1
    <3> QED BY Zenon, <3>1, <1>22
  <2> QED BY Zenon, <2>4, <2>5
<1>44. CASE o.c \in {"h", "v", "?", "!"}
  <2>1. Apply(s, o) = s
    BY <1>44 DEF Apply
  <2> QED BY Zenon, <2>1
<1> QED
  BY <1>23, <1>24, <1>25, <1>26, <1>27, <1>28, <1>29, <1>30, <1>31, <1>32, <1>33, <1>34,
     <1>35, <1>36, <1>37, <1>38, <1>39, <1>40, <1>41, <1>42, <1>43, <1>44 DEF Option

\* Once the options are read there is a port to connect to, and a right one
\* (main.cpp:255-258).
THEOREM PortSet ==
    ASSUME NEW s \in Settings
    PROVE  DefaultPort(s).NNTP_port \in 1 .. UShortMax
<1>1. s.NNTP_port \in 0 .. UShortMax
  BY DEF Settings
<1>2. DefaultPort(s).NNTP_port =
        IF s.NNTP_port # 0 THEN s.NNTP_port ELSE IF s.USE_SSL THEN 564 ELSE 119
  BY ZenonT(60) DEF DefaultPort, Settings
<1>3. \A k \in 0 .. UShortMax : /\ k # 0 => k \in 1 .. UShortMax
                                /\ 119 \in 1 .. UShortMax /\ 564 \in 1 .. UShortMax
  BY ZenonT(60), UShortMaxFits, NotZero
<1>4. CASE s.NNTP_port # 0
  <2>1. DefaultPort(s).NNTP_port = s.NNTP_port
    BY <1>2, <1>4
  <2> QED BY ZenonT(60), <1>1, <1>3, <1>4, <2>1
<1>5. CASE s.NNTP_port = 0
  <2>1. DefaultPort(s).NNTP_port = 564 \/ DefaultPort(s).NNTP_port = 119
    BY ZenonT(60), <1>2, <1>5
  <2> QED BY ZenonT(60), <1>1, <1>3, <2>1
<1> QED BY Zenon, <1>4, <1>5

\* ... and no other setting has changed by then.
LEMMA DefaultPortTyped ==
    ASSUME NEW s \in Settings
    PROVE  DefaultPort(s) \in Settings /\ DefaultPort(s).USE_SSL = s.USE_SSL
<1>1. PICK k \in 1 .. UShortMax :
        k = IF s.NNTP_port # 0 THEN s.NNTP_port ELSE IF s.USE_SSL THEN 564 ELSE 119
  <2>1. s.NNTP_port \in 0 .. UShortMax
    BY DEF Settings
  <2>. QED  BY <2>1, UShortMaxFits
<1>2. DefaultPort(s) = [s EXCEPT !.NNTP_port = k]
  BY ZenonT(60), <1>1 DEF DefaultPort
<1>3. k \in 0 .. UShortMax
  BY ZenonT(60), <1>1, UShortMaxFits, FromZero
<1>4. [s EXCEPT !.NNTP_port = k] \in Settings
  BY ZenonT(60), <1>3 DEF Settings
<1>5. [s EXCEPT !.NNTP_port = k].USE_SSL = s.USE_SSL
  BY DEF Settings
<1>. QED  BY <1>2, <1>4, <1>5

\* Only -e asks for SSL.
LEMMA ApplySsl ==
    ASSUME NEW s \in Settings, NEW o \in Option, o.c # "e"
    PROVE  Apply(s, o).USE_SSL = s.USE_SSL
BY DEF Apply, SetServer, SetWww, SetWaitSegment, Settings

-----------------------------------------------------------------------------
(* The process.                                                            *)

\* The types: main's, the descriptors', the Connections' and the server's.
TypeMain ==
    /\ main \in {"parse", "connections", "www", "notify", "sig", "nzb", "check", "files",
                 "pool", "reset", "retry", "exit", "conn", "close", "join",
                 "unset", "ended", "killed"}
    /\ argv \in ArgVs /\ opt \in 1 .. Len(argv) + 1 /\ settings \in Settings
TypeSock ==
    /\ table \in [Fds -> Objs \cup {Free}]
    /\ sd \in [Objs -> Fds \cup {INVALID_SOCKET}] /\ bound \in [Objs -> Fds \cup {INVALID_SOCKET}]
    /\ cl \in [Objs -> {"no", "ssl", "sd", "forget"}]
TypeConns == st \in [Conns -> St] /\ held \subseteq Conns
TypeThr ==
    /\ thr \in {"off", "socket", "bind", "shut", "assign", "test", "accept", "got",
                "request", "answer", "drop", "end"}
    /\ run \in BOOLEAN /\ srv \in BOOLEAN /\ num \in Fds \cup {INVALID_SOCKET}

\* What has been made is the first k of these, after OpenSSL's clean-up or not.
Objects == <<"www", "notify", "conn">>
Stack(m, k) ==
    /\ m \in Seq({"openssl", "www", "notify", "conn"})
    /\ Len(m) \in k .. k + 1
    /\ Len(m) = k + 1 => m[1] = "openssl"
    /\ \A j \in 1 .. k : m[Len(m) - k + j] = Objects[j]

InvMade ==
    /\ \E k \in 0 .. 3 : Stack(made, k)
    /\ main \in {"parse", "connections", "www"} => Stack(made, 0) /\ thr = "off"
    /\ main \in {"notify", "close", "join", "unset"} => Stack(made, 1)
    /\ main \in {"sig", "nzb"} => Stack(made, 2)
    /\ main \in {"check", "files", "pool", "reset", "retry", "conn"} => Stack(made, 3)
    /\ main \notin {"exit", "conn", "close", "join", "unset", "ended", "killed"} /\ settings.USE_SSL =>
        "openssl" \in ToSet(made)
    /\ main \notin {"parse", "exit", "ended"} \/ ~Stack(made, 0) => settings.NNTP_port # 0
    /\ main = "ended" => made = <<>>
    /\ Stack(made, 0) \/ main = "unset" => thr \in {"off", "end"}

\* When there are Connections, sessions and SSL handles.
InvConns ==
    /\ ~Stack(made, 3) => \A c \in Conns : st[c] = "none"
    /\ \A c \in Conns : InSession(c) => main \in {"pool", "retry", "killed"}
    /\ main = "conn" => \A c \in Conns : st[c] \notin {"idle", "lost"}
    /\ \A c \in Conns : st[c] \in {"tls", "handshake"} \/ bound[c] # INVALID_SOCKET =>
        "openssl" \in ToSet(made)

\* Where in its life a Connection has a number, a handle, or is being closed.
InvConn ==
    \A c \in Conns :
        /\ st[c] \in {"none", "lost", "resolve", "socket"} => sd[c] = INVALID_SOCKET
        /\ st[c] \in {"connect", "tls", "handshake", "undo", "shut"} => sd[c] # INVALID_SOCKET
        /\ cl[c] # "no" => st[c] \in {"recv", "over", "dying"}
        /\ st[c] = "dying" /\ cl[c] = "no" => sd[c] = INVALID_SOCKET
        /\ bound[c] # INVALID_SOCKET =>
            /\ st[c] \in {"handshake", "undo", "talk", "recv", "over", "idle", "dying"}
            /\ cl[c] \in {"no", "ssl"}
            /\ sd[c] = bound[c]
        /\ st[c] \in {"handshake", "undo"} => bound[c] # INVALID_SOCKET
        /\ st[c] \in {"tls", "handshake"} => settings.USE_SSL
        /\ /\ settings.USE_SSL /\ st[c] \in {"talk", "recv", "over", "idle"}
           /\ cl[c] = "no" /\ sd[c] # INVALID_SOCKET
           => bound[c] # INVALID_SOCKET

\* The same of the listening socket and of the one that Accept returns.
InvServers ==
    /\ bound[Listener] = INVALID_SOCKET /\ bound[Accepted] = INVALID_SOCKET
    /\ thr \in {"off", "socket"} => sd[Listener] = INVALID_SOCKET
    /\ thr \in {"bind", "shut"} => sd[Listener] # INVALID_SOCKET
    /\ srv => thr \notin {"off", "socket", "bind", "shut", "assign"}
    /\ cl[Listener] # "no" => srv /\ main \in {"join", "unset", "killed"}
    /\ thr \notin {"got", "request", "answer", "drop"} =>
        sd[Accepted] = INVALID_SOCKET /\ cl[Accepted] = "no"
    /\ thr \in {"got", "request", "answer"} => cl[Accepted] = "no"
    /\ thr = "drop" /\ cl[Accepted] = "no" => sd[Accepted] = INVALID_SOCKET
    /\ cl[Listener] = "forget" => table[sd[Listener]] = Free

\* An object and its number, as far as it has one.
InvOwner ==
    /\ \A n \in Fds : table[n] # Free => sd[table[n]] = n
    /\ \A o \in Objs :
        /\ sd[o] # INVALID_SOCKET /\ cl[o] # "forget" => table[sd[o]] = o
        /\ cl[o] \in {"sd", "forget"} => sd[o] # INVALID_SOCKET
        /\ cl[o] = "forget" => table[sd[o]] # o

\* The number that accept waits on.
InvNum ==
    thr = "accept" /\ num # INVALID_SOCKET =>
        table[num] = Listener \/ (table[num] = Free /\ main \in {"join", "killed"})

IInv ==
    /\ TypeMain /\ TypeSock /\ TypeConns /\ TypeThr
    /\ InvMade /\ InvConns /\ InvConn /\ InvServers /\ InvOwner /\ InvNum

\* A set of numbers that is not empty has a least one: what the kernel gives.
LEMMA Smallest ==
    ASSUME NEW T, T \subseteq Nat, T # {}
    PROVE  \E n \in T : \A k \in T : n <= k
<1>1. PICK n \in T : \A k \in T : ~(<<k, n>> \in OpToRel(<, Nat))
  BY NatLessThanWellFounded, WFMin
<1>2. ASSUME NEW k \in T, k < n PROVE FALSE
  BY <1>1, <1>2 DEF OpToRel
<1>. QED  BY <1>2

-----------------------------------------------------------------------------
(* The objects, the descriptors, and the stack of what has been made.      *)

\* The server's two objects, the Connections and "free" are all different.
LEMMA Named ==
    /\ Listener \in Objs /\ Accepted \in Objs /\ Listener # Accepted
    /\ \A c \in Conns : c \in Objs /\ c # Listener /\ c # Accepted
    /\ \A o \in Objs : o # Free /\ (o \in Conns \/ o = Listener \/ o = Accepted)
    /\ INVALID_SOCKET \notin Fds /\ Fds \subseteq Nat
BY ProcessAssumption DEF Objs, Servers, Listener, Accepted, Free, Fds, INVALID_SOCKET

\* The descriptor that the kernel gives exists, and is free.
LEMMA LowestFree ==
    ASSUME FreeFds # {}
    PROVE  Lowest \in Fds /\ table[Lowest] = Free
<1>1. FreeFds \subseteq Nat
  BY Named DEF FreeFds
<1>2. \E n \in FreeFds : \A k \in FreeFds : n <= k
  BY <1>1, Smallest
<1>3. Lowest \in FreeFds
  BY <1>2 DEF Lowest
<1>. QED  BY <1>3 DEF FreeFds

\* socket() and accept(), for an object that has no descriptor.
LEMMA OpensOne ==
    ASSUME TypeSock, InvOwner, NEW o \in Objs, Opens(o),
           sd[o] = INVALID_SOCKET, cl[o] = "no", UNCHANGED <<bound, cl>>
    PROVE  /\ TypeSock' /\ InvOwner'
           /\ sd'[o] # INVALID_SOCKET /\ \A q \in Objs \ {o} : sd'[q] = sd[q]
           /\ \A n \in Fds : table[n] # Free => table'[n] = table[n]
<1>1. PICK n \in Fds : /\ table[n] = Free
                       /\ table' = [table EXCEPT ![n] = o]
                       /\ sd' = [sd EXCEPT ![o] = n]
  BY LowestFree DEF Opens
<1>2. TypeSock'
  BY <1>1 DEF TypeSock
<1>3. /\ sd'[o] = n /\ \A q \in Objs \ {o} : sd'[q] = sd[q]
      /\ table'[n] = o /\ \A k \in Fds \ {n} : table'[k] = table[k]
  BY <1>1 DEF TypeSock
<1>4. InvOwner'
  BY <1>1, <1>3, Named DEF TypeSock, InvOwner
<1>. QED  BY <1>1, <1>2, <1>3, <1>4, Named

\* close() of the socket of a constructor that throws.
LEMMA ShutsOne ==
    ASSUME TypeSock, InvOwner, NEW o \in Objs, sd[o] # INVALID_SOCKET, cl[o] = "no",
           Closes(sd[o]), sd' = [sd EXCEPT ![o] = INVALID_SOCKET],
           UNCHANGED cl, bound' \in [Objs -> Fds \cup {INVALID_SOCKET}]
    PROVE  /\ TypeSock' /\ InvOwner'
           /\ sd'[o] = INVALID_SOCKET /\ \A q \in Objs \ {o} : sd'[q] = sd[q]
           /\ \A n \in Fds : table'[n] = IF table[n] = o THEN Free ELSE table[n]
<1>1. PICK n \in Fds : n = sd[o] /\ table[n] = o
  BY DEF TypeSock, InvOwner
<1>2. /\ table'[n] = Free /\ \A k \in Fds \ {n} : table'[k] = table[k] /\ table[k] # o
      /\ sd'[o] = INVALID_SOCKET /\ \A q \in Objs \ {o} : sd'[q] = sd[q]
  BY <1>1, Named DEF Closes, TypeSock, InvOwner
<1>3. TypeSock'
  BY <1>1 DEF Closes, TypeSock
<1>4. \A k \in Fds : table'[k] # Free => sd'[table'[k]] = k
  <2>1. \A k \in Fds \ {n} : table[k] # Free => table[k] \in Objs /\ table[k] # o /\ sd[table[k]] = k
    BY <1>2 DEF TypeSock, InvOwner
  <2>. QED  BY <1>2, <2>1
<1>5. \A q \in Objs \ {o} : sd'[q] # INVALID_SOCKET /\ cl[q] # "forget" => table'[sd'[q]] = q
  <2>1. \A q \in Objs \ {o} : sd[q] # INVALID_SOCKET /\ cl[q] # "forget" =>
            sd[q] \in Fds /\ sd[q] # n /\ table[sd[q]] = q
    BY <1>1 DEF TypeSock, InvOwner
  <2>. QED  BY <1>2, <2>1
<1>6. \A q \in Objs \ {o} : cl[q] = "forget" => table'[sd'[q]] # q
  <2>1. \A q \in Objs \ {o} : cl[q] = "forget" => sd[q] \in Fds /\ table[sd[q]] # q
    BY <1>1 DEF TypeSock, InvOwner
  <2>2. \A q \in Objs : q # Free
    BY Named
  <2>. QED  BY <1>2, <2>1, <2>2
<1>7. InvOwner'
  BY <1>2, <1>4, <1>5, <1>6 DEF InvOwner
<1>. QED  BY <1>1, <1>2, <1>3, <1>7

\* How high the stack is, and what is in it.
LEMMA StackIs ==
    ASSUME NEW m, NEW k \in 0 .. 3, Stack(m, k)
    PROVE  /\ \A l \in 0 .. 3 : Stack(m, l) => l = k
           /\ ToSet(m) \subseteq {"openssl", "www", "notify", "conn"}
           /\ k > 0 => "www" \in ToSet(m)
           /\ k = 3 => "conn" \in ToSet(m)
<1>1. m \in Seq({"openssl", "www", "notify", "conn"})
  BY DEF Stack
<1>2. Objects[1] = "www" /\ Objects[2] = "notify" /\ Objects[3] = "conn"
  BY DEF Objects
<1>4. \A l \in 0 .. 3 : Stack(m, l) => l = k
  BY <1>1, <1>2 DEF Stack
<1>5. ToSet(m) \subseteq {"openssl", "www", "notify", "conn"}
  BY <1>1 DEF ToSet
<1>6. k > 0 => \E i \in DOMAIN m : m[i] = "www"
  BY <1>1, <1>2 DEF Stack
<1>7. k = 3 => \E i \in DOMAIN m : m[i] = "conn"
  BY <1>1, <1>2 DEF Stack
<1>. QED  BY <1>4, <1>5, <1>6, <1>7 DEF ToSet

\* InitNzbStruct and the two singletons before it, each made once.
LEMMA StackGrows ==
    ASSUME NEW m, NEW k \in 0 .. 2, Stack(m, k)
    PROVE  /\ Stack(With(Objects[k + 1], m), k + 1)
           /\ "openssl" \in ToSet(m) => "openssl" \in ToSet(With(Objects[k + 1], m))
<1>1. m \in Seq({"openssl", "www", "notify", "conn"})
  BY DEF Stack
<1>2. Objects[1] = "www" /\ Objects[2] = "notify" /\ Objects[3] = "conn"
  BY DEF Objects
<1>4. \A j \in DOMAIN m : m[j] # Objects[k + 1]
  BY <1>1, <1>2, SMTT(60) DEF Stack
<1>5. With(Objects[k + 1], m) = Append(m, Objects[k + 1])
  BY <1>4 DEF With, ToSet
<1>6. /\ Append(m, Objects[k + 1]) \in Seq({"openssl", "www", "notify", "conn"})
      /\ Len(Append(m, Objects[k + 1])) = Len(m) + 1
      /\ \A j \in 1 .. Len(m) : Append(m, Objects[k + 1])[j] = m[j]
      /\ Append(m, Objects[k + 1])[Len(m) + 1] = Objects[k + 1]
  BY <1>1, <1>2
<1>7. Stack(Append(m, Objects[k + 1]), k + 1)
  BY <1>1, <1>6 DEF Stack
<1>8. ToSet(m) \subseteq ToSet(Append(m, Objects[k + 1]))
  BY <1>1, <1>6 DEF ToSet
<1>. QED  BY <1>5, <1>7, <1>8

\* InitSSL, at each -e.
LEMMA StackOpenssl ==
    ASSUME NEW m, Stack(m, 0)
    PROVE  Stack(With("openssl", m), 0) /\ "openssl" \in ToSet(With("openssl", m))
<1>1. m \in Seq({"openssl", "www", "notify", "conn"}) /\ Len(m) \in {0, 1} /\ (Len(m) = 1 => m[1] = "openssl")
  BY DEF Stack
<1>2. CASE Len(m) = 1
  BY <1>1, <1>2 DEF With, ToSet
<1>3. CASE Len(m) = 0
  <2>1. With("openssl", m) = Append(m, "openssl")
    BY <1>1, <1>3 DEF With, ToSet
  <2>2. /\ Append(m, "openssl") \in Seq({"openssl", "www", "notify", "conn"})
        /\ Len(Append(m, "openssl")) = 1 /\ Append(m, "openssl")[1] = "openssl"
    BY <1>1, <1>3
  <2>3. Stack(Append(m, "openssl"), 0)
    BY <2>2 DEF Stack
  <2>4. 1 \in DOMAIN Append(m, "openssl")
    BY <2>2
  <2>5. "openssl" \in ToSet(Append(m, "openssl"))
    BY <2>2, <2>4 DEF ToSet
  <2>. QED  BY <2>1, <2>3, <2>5
<1>. QED  BY <1>1, <1>2, <1>3

\* All of a sequence but its last element.
LEMMA FrontIs ==
    ASSUME NEW S, NEW s \in Seq(S), Len(s) \in Nat \ {0}
    PROVE  /\ Front(s) \in Seq(S) /\ Len(Front(s)) = Len(s) - 1
           /\ \A j \in 1 .. Len(s) - 1 : Front(s)[j] = s[j]
<1>1. PICK n \in 0 .. Len(s) : n = Len(s) - 1
  <2>1. Len(s) - 1 \in 0 .. Len(s)
    OBVIOUS
  <2>. QED  BY <2>1
<1>2. SubSeq(s, 1, n) \in Seq(S) /\ Len(SubSeq(s, 1, n)) = n /\ \A j \in 1 .. n : SubSeq(s, 1, n)[j] = s[j]
  OBVIOUS
<1>. QED  BY <1>1, <1>2 DEF Front

\* A static destructor: the last object, or OpenSSL's clean-up at the end.
LEMMA StackShrinks ==
    ASSUME NEW m, NEW k \in 0 .. 3, Stack(m, k), m # <<>>
    PROVE  /\ k = 0 => Last(m) = "openssl" /\ Stack(Front(m), 0)
           /\ k > 0 => Last(m) = Objects[k] /\ Stack(Front(m), k - 1)
<1>1. m \in Seq({"openssl", "www", "notify", "conn"}) /\ Len(m) \in Nat \ {0}
  BY DEF Stack
<1>2. /\ Front(m) \in Seq({"openssl", "www", "notify", "conn"})
      /\ Len(Front(m)) = Len(m) - 1 /\ \A j \in 1 .. Len(m) - 1 : Front(m)[j] = m[j]
      /\ Last(m) = m[Len(m)]
  BY <1>1, FrontIs DEF Last
<1>3. CASE k = 0
  BY <1>1, <1>2, <1>3 DEF Stack
<1>4. CASE k > 0
  BY <1>1, <1>2, <1>4, SMTT(60) DEF Stack
<1>. QED  BY <1>3, <1>4

-----------------------------------------------------------------------------
\* Where the program starts.
LEMMA InitIInv == Init => IInv
<1>. SUFFICES ASSUME Init PROVE IInv
  OBVIOUS
<1>. USE Named DEF Init
<1>0. Default \in Settings /\ Default.USE_SSL = FALSE
  BY DefaultTyped
<1>1. TypeSock /\ TypeConns /\ TypeThr
  BY DEF TypeSock, TypeConns, TypeThr, St
<1>2. TypeMain
  BY <1>0, ProcessAssumption DEF TypeMain
<1>3. Stack(<<>>, 0)
  BY DEF Stack
<1>5. InvMade
  BY <1>0, <1>3 DEF InvMade
<1>4. InvConns /\ InvConn /\ InvServers /\ InvOwner /\ InvNum
  BY DEF InvConns, InvConn, InvServers, InvOwner, InvNum, InSession, Ctor, Session
<1>. QED  BY <1>1, <1>2, <1>4, <1>5 DEF IInv

\* What does not depend on where the Connections are.
LEMMA FrameOfSteps ==
    ASSUME IInv, UNCHANGED <<main, optVars, made, sockVars, wwwVars>>
    PROVE  TypeMain' /\ TypeSock' /\ TypeThr' /\ InvMade' /\ InvServers' /\ InvOwner' /\ InvNum'
<1>. USE DEF IInv, optVars, sockVars, wwwVars
<1>1. TypeMain' /\ TypeSock' /\ TypeThr'
  BY DEF TypeMain, TypeSock, TypeThr
<1>2. InvMade'
  BY DEF InvMade
<1>3. InvServers' /\ InvOwner' /\ InvNum'
  BY DEF InvServers, InvOwner, InvNum
<1>. QED  BY <1>1, <1>2, <1>3

\* A step of a thread that fetches.
LEMMA ConnectionKeeps ==
    ASSUME IInv, Alive, NEW c \in Conns, Connection(c)
    PROVE  IInv'
<1>. USE Named DEF IInv, Goes, Steps, Closed, optVars, sockVars, wwwVars, InSession, Ctor, Session, Works, St
<1>1. CASE Fetch(c)
  <2>1. UNCHANGED <<main, optVars, made, sockVars, wwwVars>>
    BY <1>1 DEF Fetch, MayStart
  <2>2. TypeMain' /\ TypeSock' /\ TypeThr' /\ InvMade' /\ InvServers' /\ InvOwner' /\ InvNum'
    BY <2>1, FrameOfSteps
  <2>3. TypeConns' /\ InvConns' /\ InvConn'
    BY <1>1 DEF Fetch, MayStart, TypeConns, InvConn, InvMade, InvConns, TypeSock, InvOwner
  <2>. QED  BY <2>2, <2>3
<1>2. CASE Resolve(c)
  <2>1. UNCHANGED <<main, optVars, made, sockVars, wwwVars>>
    BY <1>2 DEF Resolve, Unmade
  <2>2. TypeMain' /\ TypeSock' /\ TypeThr' /\ InvMade' /\ InvServers' /\ InvOwner' /\ InvNum'
    BY <2>1, FrameOfSteps
  <2>3. TypeConns' /\ InvConns' /\ InvConn'
    BY <1>2 DEF Resolve, Unmade, TypeConns, InvConn, InvMade, InvConns, TypeSock, InvOwner
  <2>. QED  BY <2>2, <2>3
<1>3. CASE OpenSocket(c)
  <2>1. CASE Goes(c, "socket", "connect") /\ Opens(c)
    <3>1. UNCHANGED <<main, optVars, made, bound, cl, held, wwwVars>>
      BY <1>3, <2>1 DEF OpenSocket
    <3>2. sd[c] = INVALID_SOCKET /\ cl[c] = "no" /\ bound[c] = INVALID_SOCKET /\ main \in {"pool", "retry"}
      BY <2>1 DEF InvConn, InvConns, Alive
    <3>3. /\ TypeSock' /\ InvOwner'
          /\ sd'[c] # INVALID_SOCKET /\ \A q \in Objs \ {c} : sd'[q] = sd[q]
          /\ \A m \in Fds : table[m] # Free => table'[m] = table[m]
      BY <2>1, <3>1, <3>2, OpensOne
    <3>4. TypeMain' /\ TypeThr' /\ TypeConns'
      BY <2>1, <3>1 DEF TypeMain, TypeThr, TypeConns
    <3>5. InvMade'
      BY <3>1 DEF InvMade
    <3>6. InvConns'
      BY <2>1, <3>1, <3>2 DEF TypeConns, InvConns, InvConn, InvMade
    <3>7. InvConn'
      BY <2>1, <3>1, <3>2, <3>3 DEF TypeConns, InvConn
    <3>8. InvServers'
      BY <3>1, <3>2, <3>3 DEF InvServers
    <3>9. InvNum'
      BY <3>1, <3>2, <3>3 DEF TypeThr, InvNum
    <3>. QED  BY <3>3, <3>4, <3>5, <3>6, <3>7, <3>8, <3>9
  <2>2. CASE Steps(c, "socket", Unmade(c))
    <3>1. UNCHANGED <<main, optVars, made, sockVars, wwwVars>>
      BY <2>2
    <3>2. TypeMain' /\ TypeSock' /\ TypeThr' /\ InvMade' /\ InvServers' /\ InvOwner' /\ InvNum'
      BY <3>1, FrameOfSteps
    <3>3. TypeConns' /\ InvConns' /\ InvConn'
      BY <2>2 DEF Unmade, TypeConns, InvConns, InvConn
    <3>. QED  BY <3>2, <3>3
  <2>. QED  BY <1>3, <2>1, <2>2 DEF OpenSocket
<1>4. CASE Connect(c)
  <2>1. UNCHANGED <<main, optVars, made, sockVars, wwwVars>>
    BY <1>4 DEF Connect, Ready
  <2>2. TypeMain' /\ TypeSock' /\ TypeThr' /\ InvMade' /\ InvServers' /\ InvOwner' /\ InvNum'
    BY <2>1, FrameOfSteps
  <2>3. TypeConns'
    BY <1>4 DEF Connect, Ready, TypeConns, InvConn
  <2>4. InvConns'
    <3>1. main \in {"pool", "retry"} /\ (settings.USE_SSL => "openssl" \in ToSet(made))
      BY <1>4 DEF Connect, Ready, Alive, InvConns, InvMade
    <3>. QED  BY <1>4, <3>1 DEF Connect, Ready, TypeConns, InvConns
  <2>5. InvConn'
    BY <1>4 DEF Connect, Ready, TypeSock, TypeConns, InvConns, InvConn, InvOwner
  <2>. QED  BY <2>2, <2>3, <2>4, <2>5
<1>5. CASE Tls(c)
  <2>1. TypeMain' /\ TypeSock' /\ TypeConns' /\ TypeThr'
    BY <1>5 DEF Tls, TypeSock, TypeConns, InvConn, InvConns, TypeMain, TypeThr
  <2>2. InvMade' /\ InvConns' /\ InvConn' /\ InvServers' /\ InvOwner' /\ InvNum'
    BY <1>5 DEF Tls, TypeSock, TypeConns, InvConn, InvConns, InvMade, InvOwner, InvServers, InvNum
  <2>. QED  BY <2>1, <2>2
<1>6. CASE Handshake(c)
  BY SMTT(30), <1>6 DEF Handshake, Ready, TypeSock, TypeConns, InvConn, InvConns, TypeMain, TypeThr,
      InvMade, InvOwner, InvServers, InvNum
<1>7. CASE Undo(c)
  BY <1>7 DEF Undo, TypeSock, TypeConns, InvConn, InvConns, TypeMain, TypeThr, InvMade,
      InvOwner, InvServers, InvNum
<1>8. CASE Shut(c)
  <2>1. UNCHANGED <<main, optVars, made, bound, cl, held, wwwVars>>
    BY <1>8 DEF Shut
  <2>2. sd[c] # INVALID_SOCKET /\ cl[c] = "no" /\ bound[c] = INVALID_SOCKET /\ main \in {"pool", "retry"}
    BY <1>8 DEF Shut, InvConn, InvConns, Alive
  <2>3. /\ TypeSock' /\ InvOwner'
        /\ sd'[c] = INVALID_SOCKET /\ \A q \in Objs \ {c} : sd'[q] = sd[q]
        /\ \A m \in Fds : table'[m] = IF table[m] = c THEN Free ELSE table[m]
    BY <1>8, <2>1, <2>2, ShutsOne DEF Shut, TypeSock
  <2>4. TypeMain' /\ TypeThr' /\ TypeConns'
    BY <1>8, <2>1 DEF Shut, Unmade, TypeMain, TypeThr, TypeConns
  <2>5. InvMade' /\ InvConns' /\ InvConn' /\ InvServers' /\ InvNum'
    BY <2>1, <1>8, <2>2, <2>3 DEF InvMade, Shut, Unmade, TypeConns, InvConns, InvConn,
        InvServers, TypeThr, InvNum
  <2>. QED  BY <2>3, <2>4, <2>5
<1>9. CASE Send(c)
  <2>1. TypeMain' /\ TypeSock' /\ TypeConns' /\ TypeThr'
    BY <1>9 DEF Send, Fails, BeginsClose, TypeSock, TypeConns, InvConn, InvConns,
        TypeMain, TypeThr
  <2>2. InvMade' /\ InvConns' /\ InvConn' /\ InvServers' /\ InvOwner' /\ InvNum'
    BY <1>9 DEF Send, Fails, BeginsClose, TypeSock, TypeConns, InvConn, InvConns, InvMade,
        InvOwner, InvServers, InvNum
  <2>. QED  BY <2>1, <2>2
<1>10. CASE Recv(c)
  <2>1. TypeMain' /\ TypeSock' /\ TypeConns' /\ TypeThr'
    BY <1>10 DEF Recv, Fails, BeginsClose, TypeSock, TypeConns, InvConn, InvConns,
        TypeMain, TypeThr
  <2>2. InvMade' /\ InvConns' /\ InvConn' /\ InvServers' /\ InvOwner' /\ InvNum'
    BY <1>10 DEF Recv, Fails, BeginsClose, TypeSock, TypeConns, InvConn, InvConns, InvMade,
        InvOwner, InvServers, InvNum
  <2>. QED  BY <2>1, <2>2
<1>11. CASE Over(c)
  <2>1. TypeMain' /\ TypeSock' /\ TypeConns' /\ TypeThr'
    BY <1>11 DEF Over, Fails, BeginsClose, TypeSock, TypeConns, InvConn, InvConns,
        TypeMain, TypeThr
  <2>2. InvMade' /\ InvConns' /\ InvConn' /\ InvServers' /\ InvOwner' /\ InvNum'
    BY <1>11 DEF Over, Fails, BeginsClose, TypeSock, TypeConns, InvConn, InvConns, InvMade,
        InvOwner, InvServers, InvNum
  <2>. QED  BY <2>1, <2>2
<1>12. CASE Deleted(c)
  <2>1. UNCHANGED <<main, optVars, made, sockVars, wwwVars>>
    BY <1>12 DEF Deleted
  <2>2. TypeMain' /\ TypeSock' /\ TypeThr' /\ InvMade' /\ InvServers' /\ InvOwner' /\ InvNum'
    BY <2>1, FrameOfSteps
  <2>3. TypeConns' /\ InvConns' /\ InvConn'
    BY <1>12 DEF Deleted, TypeConns, InvConn, InvMade, InvConns, TypeSock, InvOwner
  <2>. QED  BY <2>2, <2>3
<1>. QED  BY <1>1, <1>2, <1>3, <1>4, <1>5, <1>6, <1>7, <1>8, <1>9, <1>10, <1>11, <1>12
    DEF Connection

\* A step of Close, of whichever thread, or a broken pipe.
LEMMA DescriptorsKeep ==
    ASSUME IInv, Alive, NEW o \in Objs, Descriptors(o)
    PROVE  IInv'
<1>. USE Named DEF IInv, optVars, sockVars, wwwVars, Closed, Alive, Closes
<1>1. CASE CloseSsl(o)
  BY <1>1 DEF CloseSsl, InvMade, TypeMain, TypeSock, TypeConns, TypeThr, InvConns,
      InSession, InvConn, InvOwner, InvServers, InvNum
<1>2. CASE CloseSd(o)
  BY <1>2 DEF CloseSd, InvMade, TypeMain, TypeSock, TypeConns, TypeThr, InvConns,
      InSession, InvConn, InvOwner, InvServers, InvNum
<1>3. CASE CloseForget(o)
  BY <1>3 DEF CloseForget, InvMade, TypeMain, TypeSock, TypeConns, TypeThr, InvConns,
      InSession, InvConn, InvOwner, InvServers, InvNum
<1>4. CASE BrokenPipe(o)
  BY <1>4 DEF BrokenPipe, InvMade, TypeMain, TypeSock, TypeConns, TypeThr, Sends,
      InSession, Session, InvConns, InvConn, InvOwner, InvServers, InvNum
<1>. QED  BY <1>1, <1>2, <1>3, <1>4 DEF Descriptors

\* A step of the web server's thread.
LEMMA ServerKeeps ==
    ASSUME IInv, Alive, Server
    PROVE  IInv'
<1>. USE Named DEF IInv, optVars, sockVars, wwwVars, Closed, Alive, ThrGoes, ThrSteps, BeginsClose
<1>1. CASE Listen
  <2>0. /\ UNCHANGED <<main, optVars, made, bound, cl, st, held, run, srv, num>>
        /\ thr' \in {"bind", "end", "assign", "shut"} /\ thr # "accept" /\ thr # "off" /\ thr # "end"
        /\ cl[Listener] = "no" /\ ~srv
        /\ thr \in {"socket", "bind", "shut"}
    BY <1>1 DEF Listen, InvServers
  <2>1. /\ TypeSock' /\ InvOwner'
        /\ \A q \in Objs \ {Listener} : sd'[q] = sd[q]
        /\ IF thr' = "end" THEN sd'[Listener] = INVALID_SOCKET ELSE sd'[Listener] # INVALID_SOCKET
    <3>1. CASE thr = "socket" /\ Opens(Listener)
      <4>1. sd[Listener] = INVALID_SOCKET
        BY <3>1 DEF InvServers
      <4>2. thr' = "bind"
        BY <1>1, <3>1 DEF Listen, Opens
      <4>. QED  BY <2>0, <3>1, <4>1, <4>2, OpensOne
    <3>2. CASE thr = "shut"
      <4>1. sd[Listener] # INVALID_SOCKET /\ bound' \in [Objs -> Fds \cup {INVALID_SOCKET}]
        BY <2>0, <3>2 DEF InvServers, TypeSock
      <4>2. thr' = "end" /\ Closes(sd[Listener]) /\ sd' = [sd EXCEPT ![Listener] = INVALID_SOCKET]
        BY <1>1, <3>2 DEF Listen
      <4>. QED  BY <2>0, <4>1, <4>2, ShutsOne
    <3>3. CASE table' = table /\ sd' = sd /\ thr \in {"socket", "bind"} /\ (thr' = "end" <=> thr = "socket")
      <4>1. TypeSock' /\ InvOwner'
        BY <2>0, <3>3 DEF TypeSock, InvOwner
      <4>2. IF thr' = "end" THEN sd[Listener] = INVALID_SOCKET ELSE sd[Listener] # INVALID_SOCKET
        BY <3>3 DEF InvServers
      <4>. QED  BY <3>3, <4>1, <4>2
    <3>4. ASSUME ThrSteps("socket", "end") \/ ThrSteps("bind", "assign") \/ ThrSteps("bind", "shut")
          PROVE  table' = table /\ sd' = sd /\ thr \in {"socket", "bind"} /\ (thr' = "end" <=> thr = "socket")
      BY <3>4
    <3>. QED  BY <1>1, <3>1, <3>2, <3>3, <3>4 DEF Listen
  <2>2. TypeMain' /\ TypeConns' /\ TypeThr'
    BY <2>0 DEF TypeMain, TypeConns, TypeThr
  <2>3. InvMade' /\ InvConns' /\ InvConn' /\ InvServers' /\ InvNum'
    BY <2>0, <2>1, <1>1 DEF InvMade, InSession, InvConns, InvConn, InvServers, InvNum
  <2>. QED  BY <2>1, <2>2, <2>3
<1>2. CASE Assign
  BY <1>2 DEF Assign, InvMade, TypeMain, TypeSock, TypeConns, TypeThr, InSession,
      InvConns, InvConn, InvOwner, InvServers, InvNum
<1>3. CASE TestRun
  BY <1>3 DEF TestRun, InvMade, TypeMain, TypeSock, TypeConns, TypeThr, InSession,
      InvConns, InvConn, InvOwner, InvServers, InvNum
<1>4. CASE Accept
  <2>0. /\ UNCHANGED <<main, optVars, made, bound, cl, st, held, run, srv>>
        /\ thr = "accept" /\ thr' \in {"got", "accept", "end"}
        /\ sd[Accepted] = INVALID_SOCKET /\ cl[Accepted] = "no"
    BY <1>4 DEF Accept, InvServers
  <2>1. /\ TypeSock' /\ InvOwner'
        /\ \A q \in Objs \ {Accepted} : sd'[q] = sd[q]
        /\ thr' # "got" => UNCHANGED <<table, sd>>
        /\ \A n \in Fds : table[n] # Free => table'[n] = table[n]
        /\ thr' = "got" => cl[Listener] # "forget"
    <3>1. CASE thr' = "got" /\ Opens(Accepted) /\ num # INVALID_SOCKET /\ table[num] # Free
      <4>1. cl[Listener] # "forget"
        BY <2>0, <3>1 DEF InvNum, InvOwner, TypeThr
      <4>. QED  BY <2>0, <3>1, <4>1, OpensOne
    <3>2. CASE thr' # "got" /\ UNCHANGED <<table, sd>>
      BY <2>0, <3>2 DEF TypeSock, InvOwner
    <3>. QED  BY <1>4, <3>1, <3>2 DEF Accept
  <2>2. TypeMain' /\ TypeConns'
    BY <2>0 DEF TypeMain, TypeConns
  <2>3. TypeThr' /\ InvMade' /\ InvConns' /\ InvConn' /\ InvServers' /\ InvNum'
    BY <1>4, <2>0, <2>1 DEF Accept, TypeSock, TypeThr, InvMade, InSession, InvConns,
        InvConn, InvServers, InvOwner, InvNum
  <2>. QED  BY <2>1, <2>2, <2>3
<1>5. CASE Serve
  BY <1>5 DEF Serve, ClosesAccepted, InvMade, TypeMain, TypeSock, TypeConns, TypeThr,
      InSession, InvConns, InvConn, InvOwner, InvServers, InvNum
<1>. QED  BY <1>1, <1>2, <1>3, <1>4, <1>5 DEF Server

\* When main has waited for all jobs.
LEMMA QuietConns ==
    ASSUME Quiet, TypeConns
    PROVE  \A c \in Conns : ~InSession(c) /\ st[c] \in {"none", "idle", "lost"}
BY DEF Quiet, Sessions, InSession, TypeConns, St, Ctor, Session

\* A step of main.
LEMMA MainKeeps ==
    ASSUME IInv, Alive, Main
    PROVE  IInv'
<1>. USE Named DEF IInv, optVars, sockVars, wwwVars, Closed, MainGoes, MainSteps, InSession, Ctor, Session
<1>0. /\ \A m : \A k, l \in 0 .. 3 : Stack(m, k) /\ Stack(m, l) => k = l
      /\ \A k \in 0 .. 3 : k = 0 \/ k = 1 \/ k = 2 \/ k = 3
      /\ Objects[1] = "www" /\ Objects[2] = "notify" /\ Objects[3] = "conn"
  BY StackIs DEF Objects
<1>. USE <1>0
<1>1. CASE ParseOption
  <2>0. /\ main = "parse" /\ main' \in {"parse", "exit"} /\ thr = "off"
        /\ UNCHANGED <<argv, sockVars, st, held, wwwVars>>
        /\ opt' = opt + 1 /\ opt \in 1 .. Len(argv)
        /\ settings' \in Settings /\ Stack(made, 0) /\ Stack(made', 0)
        /\ settings'.USE_SSL => "openssl" \in ToSet(made')
    <3>1. opt \in 1 .. Len(argv) /\ argv[opt] \in Option /\ Stack(made, 0) /\ settings \in Settings
      BY <1>1, ProcessAssumption DEF ParseOption, TypeMain, InvMade
    <3>2. settings' \in Settings
      BY <1>1, <3>1, ApplyTyped DEF ParseOption
    <3>3. CASE argv[opt].c = "e"
      BY <1>1, <3>1, <3>2, <3>3, StackOpenssl DEF ParseOption, InvMade
    <3>4. CASE argv[opt].c # "e"
      BY <1>1, <3>1, <3>2, <3>4, ApplySsl DEF ParseOption, InvMade
    <3>. QED  BY <3>3, <3>4
  <2>. QED  BY <2>0, <1>1 DEF TypeMain, ParseOption, InvConn, TypeSock, TypeConns, TypeThr, InvMade,
      InvConns, InvServers, InvOwner, InvNum
<1>2. CASE EndOptions
  <2>0. /\ main = "parse" /\ main' = "connections" /\ thr = "off"
        /\ UNCHANGED <<argv, opt, made, sockVars, st, held, wwwVars>>
        /\ settings' \in Settings /\ settings'.NNTP_port # 0 /\ settings'.USE_SSL = settings.USE_SSL
        /\ Stack(made, 0)
    <3>1. settings \in Settings /\ settings' = DefaultPort(settings) /\ Stack(made, 0) /\ main = "parse"
      BY <1>2 DEF EndOptions, TypeMain, InvMade
    <3>2. settings'.NNTP_port \in 1 .. UShortMax
      BY <3>1, PortSet
    <3>3. settings'.NNTP_port # 0
      BY <3>2
    <3>. QED  BY <1>2, <3>1, <3>3, DefaultPortTyped DEF EndOptions, InvMade
  <2>. QED  BY <2>0, <1>2 DEF TypeMain, EndOptions, InvConn, TypeSock, TypeConns, TypeThr, InvMade,
      InvConns, InvServers, InvOwner, InvNum
<1>3. CASE ConnectionInit
  BY <1>3 DEF ConnectionInit, InvMade, TypeMain, InvConn, TypeSock, TypeConns, TypeThr,
      InvConns, InvServers, InvOwner, InvNum
<1>4. CASE WwwInit
  <2>0. /\ main = "www" /\ Stack(made, 0) /\ thr = "off"
        /\ main' = "notify" => Stack(made', 1) /\ ("openssl" \in ToSet(made) => "openssl" \in ToSet(made'))
    BY <1>4, StackGrows DEF WwwInit, InvMade
  <2>1. TypeMain' /\ TypeSock' /\ TypeConns' /\ TypeThr'
    BY <1>4, <2>0 DEF WwwInit, InvMade, TypeMain, TypeSock, TypeConns, TypeThr
  <2>2. InvMade' /\ InvConns' /\ InvConn' /\ InvServers' /\ InvOwner' /\ InvNum'
    BY <1>4, <2>0 DEF WwwInit, InvMade, InvConn, TypeSock, TypeConns, InvConns, InvServers, InvOwner, InvNum
  <2>. QED  BY <2>1, <2>2
<1>5. CASE NotifyInit
  <2>0. /\ main = "notify" /\ Stack(made, 1)
        /\ Stack(made', 2) /\ ("openssl" \in ToSet(made) => "openssl" \in ToSet(made'))
    BY <1>5, StackGrows DEF NotifyInit, Makes, InvMade
  <2>. QED  BY <1>5, <2>0 DEF NotifyInit, Makes, InvMade, TypeMain, InvConn, TypeSock, TypeConns,
      TypeThr, InvConns, InvServers, InvOwner, InvNum
<1>6. CASE SigInit
  BY <1>6 DEF SigInit, InvMade, TypeMain, InvConn, TypeSock, TypeConns, TypeThr, InvConns,
      InvServers, InvOwner, InvNum
<1>7. CASE InitNzbStruct
  <2>0. /\ main = "nzb" /\ Stack(made, 2)
        /\ Stack(made', 3) /\ ("openssl" \in ToSet(made) => "openssl" \in ToSet(made'))
    BY <1>7, StackGrows DEF InitNzbStruct, Makes, InvMade
  <2>. QED  BY <1>7, <2>0 DEF InitNzbStruct, Makes, InvMade, TypeMain, InvConn, TypeSock, TypeConns,
      TypeThr, InvConns, InvServers, InvOwner, InvNum
<1>8. CASE CheckBasic
  BY <1>8 DEF CheckBasic, InvMade, TypeMain, InvConn, TypeSock, TypeConns, TypeThr,
      InvConns, InvServers, InvOwner, InvNum
<1>9. CASE FetchFile
  BY <1>9 DEF FetchFile, InvMade, TypeMain, InvConn, TypeSock, TypeConns, TypeThr,
      InvConns, InvServers, InvOwner, InvNum
<1>10. CASE Reset
  <2>0. Quiet => \A c \in Conns : ~InSession(c) /\ st[c] \in {"none", "idle", "lost"}
    BY QuietConns
  <2>. QED  BY <1>10, <2>0 DEF Reset, DeletesAll, InvMade, TypeMain, InvConn, TypeSock, TypeConns,
      St, TypeThr, InvConns, InvServers, InvOwner, InvNum
<1>11. CASE Retries
  <2>0. Quiet => \A c \in Conns : ~InSession(c) /\ st[c] \in {"none", "idle", "lost"}
    BY QuietConns
  <2>. QED  BY <1>11, <2>0 DEF Retries, InvMade, TypeMain, InvConn, TypeSock, TypeConns, TypeThr,
      InvConns, InvServers, InvOwner, InvNum
<1>12. CASE EndConn
  <2>0. /\ Quiet => \A c \in Conns : ~InSession(c) /\ st[c] \in {"none", "idle", "lost"}
        /\ main' = "exit" => main = "conn" /\ Stack(made', 2)
        /\ main' = "conn" => made' = made
        /\ Stack(made, 3)
    <3>1. CASE Goner("conn") /\ MainGoes("exit", "conn") /\ DeletesAll
      <4>1. PICK k \in 0 .. 3 : Stack(made, k)
        BY DEF InvMade
      <4>2. k = 3
        BY <3>1, <4>1, StackShrinks DEF Goner
      <4>. QED  BY <3>1, <4>1, <4>2, QuietConns DEF DeletesAll
    <3>2. CASE Quiet /\ Unmake("conn")
      <4>1. Stack(made, 3) /\ made # <<>>
        BY <3>2 DEF Unmake, InvMade, Stack
      <4>. QED  BY <3>2, <4>1, StackShrinks, QuietConns DEF Unmake
    <3>. QED  BY <1>12, <3>1, <3>2 DEF EndConn
  <2>. QED  BY <1>12, <2>0 DEF EndConn, DeletesAll, Unmake, Goner, InvMade, TypeMain, InvConn,
      TypeSock, TypeConns, St, TypeThr, InvConns, InvServers, InvOwner, InvNum
<1>13. CASE EndOther
  <2>0. /\ main = "exit" /\ made # <<>>
        /\ \/ Stack(made, 2) /\ Stack(made', 1)
           \/ Stack(made, 0) /\ Stack(made', 0)
    BY <1>13, StackShrinks DEF EndOther, Unmake, Goner, InvMade
  <2>. QED  BY <1>13, <2>0 DEF EndOther, Unmake, Goner, InvMade, TypeMain, InvConn, TypeSock,
      TypeConns, TypeThr, InvConns, InvServers, InvOwner, InvNum
<1>14. CASE Stop
  <2>0. Stack(made, 1)
    BY <1>14, StackShrinks DEF Stop, Goner, InvMade
  <2>1. TypeMain' /\ TypeSock' /\ TypeConns' /\ TypeThr'
    BY <1>14, <2>0 DEF Stop, Goner, InvMade, TypeMain, InvConn, TypeSock, TypeConns,
        TypeThr
  <2>2. InvMade' /\ InvConns' /\ InvConn' /\ InvServers' /\ InvOwner' /\ InvNum'
    BY <1>14, <2>0 DEF Stop, Goner, TypeMain, TypeConns, InvConns, InvMade, InvConn,
        TypeSock, InvServers, InvOwner, TypeThr, InvNum
  <2>. QED  BY <2>1, <2>2
<1>15. CASE CloseSrv("close", "join")
  <2>0. main = "close" /\ cl[Listener] = "no"
    BY <1>15 DEF CloseSrv, InvServers
  <2>. QED  BY <1>15, <2>0 DEF CloseSrv, BeginsClose, InvMade, TypeMain, InvConn, TypeSock,
      TypeConns, TypeThr, InvConns, InvServers, InvOwner, InvNum
<1>16. CASE Join
  <2>0. /\ main' = "exit" => main = "unset" /\ Stack(made', 0)
        /\ main' # "exit" => made' = made
        /\ Stack(made, 1) /\ cl[Listener] = "no"
    <3>1. CASE CloseSrv("join", "unset")
      BY <1>16, <3>1 DEF Join, CloseSrv, InvMade
    <3>2. CASE Unmake("unset")
      <4>1. Stack(made, 1) /\ made # <<>>
        BY <3>2 DEF Unmake, InvMade, Stack
      <4>. QED  BY <1>16, <3>2, <4>1, StackShrinks DEF Join, Unmake
    <3>. QED  BY <1>16, <3>1, <3>2 DEF Join
  <2>. QED  BY <1>16, <2>0 DEF Join, CloseSrv, BeginsClose, Unmake, InvMade, TypeMain, InvConn,
      TypeSock, TypeConns, TypeThr, InvConns, InvServers, InvOwner, InvNum
<1>17. CASE Exit
  BY <1>17 DEF Exit, InvMade, TypeMain, InvConn, TypeSock, TypeConns, TypeThr, InvConns,
      InvServers, InvOwner, InvNum
<1>. QED  BY <1>1, <1>2, <1>3, <1>4, <1>5, <1>6, <1>7, <1>8, <1>9, <1>10, <1>11, <1>12,
    <1>13, <1>14, <1>15, <1>16, <1>17 DEF Main, EndWww

-----------------------------------------------------------------------------
\* Every step.
LEMMA NextIInv == IInv /\ [Next]_vars => IInv'
<1>. SUFFICES ASSUME IInv, [Next]_vars PROVE IInv'
  OBVIOUS
<1>1. CASE UNCHANGED vars
  <2>. USE <1>1 DEF IInv, vars, optVars, sockVars, wwwVars
  <2>1. TypeMain' /\ TypeSock' /\ TypeConns' /\ TypeThr'
    BY DEF TypeMain, TypeSock, TypeConns, TypeThr
  <2>2. InvMade' /\ InvConns' /\ InvConn'
    BY DEF InvMade, InvConns, InvConn, InSession
  <2>3. InvServers' /\ InvOwner' /\ InvNum'
    BY DEF InvServers, InvOwner, InvNum
  <2>. QED  BY <2>1, <2>2, <2>3
<1>2. CASE Alive /\ \E o \in Objs : Descriptors(o)
  BY <1>2, DescriptorsKeep
<1>3. CASE Alive /\ \E c \in Conns : Connection(c)
  BY <1>3, ConnectionKeeps
<1>4. CASE Alive /\ Server
  BY <1>4, ServerKeeps
<1>5. CASE Alive /\ Main
  BY <1>5, MainKeeps
<1>. QED  BY <1>1, <1>2, <1>3, <1>4, <1>5 DEF Next, Finished

\* IInv holds in every reachable state.
LEMMA Invariance == Spec => []IInv
BY InitIInv, NextIInv, PTL DEF Spec

\* Every variable has its type; in particular the settings stay within their
\* ranges, and a port is known whenever main has left its options (main.cpp).
THEOREM TypeCorrect == Spec => []TypeOK
<1>1. IInv => TypeOK
  <2>. SUFFICES ASSUME IInv PROVE TypeOK
    OBVIOUS
  <2>1. ToSet(made) \subseteq {"openssl", "www", "notify", "conn"}
    BY StackIs DEF IInv, InvMade
  <2>2. main \notin {"parse", "exit", "ended"} => settings.NNTP_port # 0
    BY DEF IInv, InvMade
  <2>. QED  BY <2>1, <2>2 DEF IInv, TypeMain, TypeSock, TypeConns, TypeThr, TypeOK
<1>. QED  BY <1>1, Invariance, PTL

\* Each open descriptor has one Connection that will close it, and the number
\* that Accept read before it waits is never another's, however the threads
\* that fetch, the web server and main interleave their socket, accept and close.
THEOREM OneOwnerHolds == Spec => []OneOwner
<1>1. IInv => OneOwner
  <2>. SUFFICES ASSUME IInv PROVE OneOwner
    OBVIOUS
  <2>1. \A n \in Fds : table[n] # Free => sd[table[n]] = n
    BY DEF IInv, InvOwner
  <2>2. \A o \in Objs : sd[o] # INVALID_SOCKET /\ cl[o] # "forget" => table[sd[o]] = o
    BY DEF IInv, InvOwner
  <2>3. thr = "accept" /\ num # INVALID_SOCKET => table[num] \in {Listener, Free}
    BY DEF IInv, InvNum
  <2>. QED  BY <2>1, <2>2, <2>3 DEF OneOwner
<1>. QED  BY <1>1, Invariance, PTL

\* With -e no command is sent and no answer received without TLS, and an SSL
\* handle writes only to the descriptor that its own Connection holds
\* (Connection::SendAll, Recv and Close).
THEOREM NeverInClearHolds == Spec => []NeverInClear
<1>1. IInv => NeverInClear
  <2>. SUFFICES ASSUME IInv PROVE NeverInClear
    OBVIOUS
  <2>1. \A c \in Conns : bound[c] # INVALID_SOCKET => sd[c] = bound[c] /\ table[bound[c]] = c
    BY Named DEF IInv, InvConn, InvOwner
  <2>2. settings.USE_SSL =>
          \A c \in Conns : st[c] \in {"talk", "recv"} /\ Closed(c) /\ sd[c] # INVALID_SOCKET =>
            bound[c] # INVALID_SOCKET
    BY DEF IInv, InvConn, Closed
  <2>. QED  BY <2>1, <2>2 DEF NeverInClear
<1>. QED  BY <1>1, Invariance, PTL

\* The static objects outlive what uses them, since they are destroyed in the
\* opposite order of their creation and main joins the server's thread first:
\* OpenSSL while a handle exists, ConnMgr and f_status_hndl during a session,
\* and f_status_hndl as long as its thread runs (main.cpp, www.cpp).
THEOREM AliveWhenUsedHolds == Spec => []AliveWhenUsed
<1>1. IInv => AliveWhenUsed
  <2>. SUFFICES ASSUME IInv PROVE AliveWhenUsed
    OBVIOUS
  <2>1. PICK k \in 0 .. 3 : Stack(made, k)
    BY DEF IInv, InvMade
  <2>2. /\ k > 0 => "www" \in ToSet(made)
        /\ k = 3 => "conn" \in ToSet(made)
        /\ Stack(made, 3) => k = 3
    BY <2>1, StackIs
  <2>3. Sessions # {} => Stack(made, 3)
    BY DEF IInv, InvConns, Sessions, InSession, Ctor, Session
  <2>4. k = 0 => Stack(made, 0)
    BY <2>1
  <2>5. thr \notin {"off", "end"} => k # 0
    BY <2>4 DEF IInv, InvMade
  <2>6. \A c \in Conns : st[c] \in {"tls", "handshake"} \/ bound[c] # INVALID_SOCKET =>
          "openssl" \in ToSet(made)
    BY DEF IInv, InvConns
  <2>7. Sessions # {} => {"conn", "www"} \subseteq ToSet(made)
    BY <2>2, <2>3
  <2>8. thr \notin {"off", "end"} => "www" \in ToSet(made)
    BY <2>2, <2>5
  <2>. QED  BY <2>6, <2>7, <2>8 DEF AliveWhenUsed
<1>. QED  BY <1>1, Invariance, PTL

-----------------------------------------------------------------------------
(* The order of the options: which settings an option gives a value, what  *)
(* a sequence of options makes of each setting, and that main has applied  *)
(* such a sequence when it leaves parse_options.                           *)

\* The names of the settings (settings.cpp).
Fields == {"NNTP_server", "NNTP_port", "NNTP_user", "NNTP_pass", "NNTP_strict_yenc", "NNTP_skip_par",
           "LOG", "NNTP_max_conn", "NNTP_wait_segment", "NNTP_recv_tmout", "NNTP_wait_conn",
           "YYDECODE_PATH", "OUT_DIR", "TMP_DIR", "OUT_DIR_NAME", "USE_CONN_POOL", "TEMPORARY_FILES",
           "MAX_PERC_REPAIR", "MAX_SEG_RETRY", "USE_LIB_NOTIFY", "WWW_PORT", "WWW_PASS", "USE_SSL"}

\* Which settings an option gives a value.
Gives(o, f) ==
    \/ o.c = "s" /\ (f = "NNTP_server" \/ (f = "NNTP_port" /\ o.colon))
    \/ o.c = "u" /\ f = "NNTP_user"
    \/ o.c = "p" /\ f = "NNTP_pass"
    \/ o.c = "c" /\ f = "NNTP_max_conn"
    \/ o.c = "t" /\ (f = "NNTP_wait_segment" \/ (f = "NNTP_max_conn" /\ o.n < 0))
    \/ o.c = "o" /\ f = "OUT_DIR"
    \/ o.c = "T" /\ f = "TMP_DIR"
    \/ o.c = "y" /\ f = "YYDECODE_PATH"
    \/ o.c = "x" /\ f = "MAX_PERC_REPAIR"
    \/ o.c = "l" /\ f = "LOG" /\ o.n \in 0 .. 4
    \/ o.c = "z" /\ f = "MAX_SEG_RETRY"
    \/ o.c = "C" /\ f = "NNTP_wait_conn"
    \/ o.c = "S" /\ f = "NNTP_recv_tmout"
    \/ o.c = "W" /\ (f = "WWW_PORT" \/ (f = "WWW_PASS" /\ o.colon))
    \/ o.c = "d" /\ f = "OUT_DIR_NAME"
    \/ o.c = "e" /\ f = "USE_SSL"
    \/ o.c = "F" /\ f = "TEMPORARY_FILES"
    \/ o.c = "P" /\ f = "NNTP_skip_par"
    \/ o.c = "r" /\ f = "USE_CONN_POOL"
    \/ o.c = "n" /\ f = "USE_LIB_NOTIFY"
    \/ o.c = "Y" /\ f = "NNTP_strict_yenc"

\* The settings have these names.
LEMMA SettingsAre == ASSUME NEW s \in Settings PROVE DOMAIN s = Fields
BY DEF Settings, Fields

\* One setting changes.
LEMMA Changes ==
    ASSUME NEW s, DOMAIN s = Fields, NEW g \in Fields, NEW v
    PROVE  /\ DOMAIN [s EXCEPT ![g] = v] = Fields /\ [s EXCEPT ![g] = v][g] = v
           /\ \A f \in Fields \ {g} : [s EXCEPT ![g] = v][f] = s[f]
OBVIOUS

\* What an option gives does not depend on the settings before, and the rest stays.
LEMMA ApplyGives ==
    ASSUME NEW s, NEW r, DOMAIN s = Fields, DOMAIN r = Fields, NEW o \in Option, NEW f \in Fields
    PROVE  /\ Gives(o, f) => Apply(s, o)[f] = Apply(r, o)[f]
           /\ ~Gives(o, f) => Apply(s, o)[f] = s[f]
<1>1. CASE o.c = "u"
  <2>1. \A x : Apply(x, o) = [x EXCEPT !.NNTP_user = o.text]
    BY <1>1 DEF Apply
  <2>2. Gives(o, f) <=> f = "NNTP_user"
    BY <1>1 DEF Gives
  <2>. QED  BY <2>1, <2>2
<1>2. CASE o.c = "p"
  <2>1. \A x : Apply(x, o) = [x EXCEPT !.NNTP_pass = o.text]
    BY <1>2 DEF Apply
  <2>2. Gives(o, f) <=> f = "NNTP_pass"
    BY <1>2 DEF Gives
  <2>. QED  BY <2>1, <2>2
<1>3. CASE o.c = "c"
  <2>1. \A x : Apply(x, o) = [x EXCEPT !.NNTP_max_conn = AtLeast(1, o.n, 1)]
    BY <1>3 DEF Apply
  <2>2. Gives(o, f) <=> f = "NNTP_max_conn"
    BY <1>3 DEF Gives
  <2>. QED  BY <2>1, <2>2
<1>4. CASE o.c = "o"
  <2>1. \A x : Apply(x, o) = [x EXCEPT !.OUT_DIR = Dir(o.text)]
    BY <1>4 DEF Apply
  <2>2. Gives(o, f) <=> f = "OUT_DIR"
    BY <1>4 DEF Gives
  <2>. QED  BY <2>1, <2>2
<1>5. CASE o.c = "T"
  <2>1. \A x : Apply(x, o) = [x EXCEPT !.TMP_DIR = Dir(o.text)]
    BY <1>5 DEF Apply
  <2>2. Gives(o, f) <=> f = "TMP_DIR"
    BY <1>5 DEF Gives
  <2>. QED  BY <2>1, <2>2
<1>6. CASE o.c = "y"
  <2>1. \A x : Apply(x, o) = [x EXCEPT !.YYDECODE_PATH = o.text]
    BY <1>6 DEF Apply
  <2>2. Gives(o, f) <=> f = "YYDECODE_PATH"
    BY <1>6 DEF Gives
  <2>. QED  BY <2>1, <2>2
<1>7. CASE o.c = "x"
  <2>1. \A x : Apply(x, o) = [x EXCEPT !.MAX_PERC_REPAIR = Within(0, 100, o.n)]
    BY <1>7 DEF Apply
  <2>2. Gives(o, f) <=> f = "MAX_PERC_REPAIR"
    BY <1>7 DEF Gives
  <2>. QED  BY <2>1, <2>2
<1>8. CASE o.c = "z"
  <2>1. \A x : Apply(x, o) = [x EXCEPT !.MAX_SEG_RETRY = AtLeast(0, o.n, 3)]
    BY <1>8 DEF Apply
  <2>2. Gives(o, f) <=> f = "MAX_SEG_RETRY"
    BY <1>8 DEF Gives
  <2>. QED  BY <2>1, <2>2
<1>9. CASE o.c = "C"
  <2>1. \A x : Apply(x, o) = [x EXCEPT !.NNTP_wait_conn = AtLeast(0, o.n, 0)]
    BY <1>9 DEF Apply
  <2>2. Gives(o, f) <=> f = "NNTP_wait_conn"
    BY <1>9 DEF Gives
  <2>. QED  BY <2>1, <2>2
<1>10. CASE o.c = "S"
  <2>1. \A x : Apply(x, o) = [x EXCEPT !.NNTP_recv_tmout = AtLeast(0, o.n, 0)]
    BY <1>10 DEF Apply
  <2>2. Gives(o, f) <=> f = "NNTP_recv_tmout"
    BY <1>10 DEF Gives
  <2>. QED  BY <2>1, <2>2
<1>11. CASE o.c = "d"
  <2>1. \A x : Apply(x, o) = [x EXCEPT !.OUT_DIR_NAME = TRUE]
    BY <1>11 DEF Apply
  <2>2. Gives(o, f) <=> f = "OUT_DIR_NAME"
    BY <1>11 DEF Gives
  <2>. QED  BY <2>1, <2>2
<1>12. CASE o.c = "e"
  <2>1. \A x : Apply(x, o) = [x EXCEPT !.USE_SSL = TRUE]
    BY <1>12 DEF Apply
  <2>2. Gives(o, f) <=> f = "USE_SSL"
    BY <1>12 DEF Gives
  <2>. QED  BY <2>1, <2>2
<1>13. CASE o.c = "F"
  <2>1. \A x : Apply(x, o) = [x EXCEPT !.TEMPORARY_FILES = TRUE]
    BY <1>13 DEF Apply
  <2>2. Gives(o, f) <=> f = "TEMPORARY_FILES"
    BY <1>13 DEF Gives
  <2>. QED  BY <2>1, <2>2
<1>14. CASE o.c = "P"
  <2>1. \A x : Apply(x, o) = [x EXCEPT !.NNTP_skip_par = TRUE]
    BY <1>14 DEF Apply
  <2>2. Gives(o, f) <=> f = "NNTP_skip_par"
    BY <1>14 DEF Gives
  <2>. QED  BY <2>1, <2>2
<1>15. CASE o.c = "r"
  <2>1. \A x : Apply(x, o) = [x EXCEPT !.USE_CONN_POOL = FALSE]
    BY <1>15 DEF Apply
  <2>2. Gives(o, f) <=> f = "USE_CONN_POOL"
    BY <1>15 DEF Gives
  <2>. QED  BY <2>1, <2>2
<1>16. CASE o.c = "n"
  <2>1. \A x : Apply(x, o) = [x EXCEPT !.USE_LIB_NOTIFY = FALSE]
    BY <1>16 DEF Apply
  <2>2. Gives(o, f) <=> f = "USE_LIB_NOTIFY"
    BY <1>16 DEF Gives
  <2>. QED  BY <2>1, <2>2
<1>17. CASE o.c = "Y"
  <2>1. \A x : Apply(x, o) = [x EXCEPT !.NNTP_strict_yenc = TRUE]
    BY <1>17 DEF Apply
  <2>2. Gives(o, f) <=> f = "NNTP_strict_yenc"
    BY <1>17 DEF Gives
  <2>. QED  BY <2>1, <2>2
<1>18. CASE o.c = "s"
  <2>1. \A x : Apply(x, o) = [x EXCEPT !.NNTP_server = o.text, !.NNTP_port = IF o.colon THEN Port(o.n) ELSE @]
    BY <1>18 DEF Apply, SetServer
  <2>2. Gives(o, f) <=> f = "NNTP_server" \/ (f = "NNTP_port" /\ o.colon)
    BY <1>18 DEF Gives
  <2>3. ASSUME NEW x, DOMAIN x = Fields
        PROVE  Apply(x, o)[f] = IF f = "NNTP_port" THEN (IF o.colon THEN Port(o.n) ELSE x[f]) ELSE IF f = "NNTP_server" THEN o.text ELSE x[f]
    <3>1. PICK y : y = [x EXCEPT !.NNTP_server = o.text]
      OBVIOUS
    <3>2. Apply(x, o) = [y EXCEPT !.NNTP_port = IF o.colon THEN Port(o.n) ELSE @]
      BY <2>1, <3>1, ZenonT(60)
    <3>3. DOMAIN y = Fields /\ y[f] = IF f = "NNTP_server" THEN o.text ELSE x[f]
      BY <2>3, <3>1
    <3>4. Apply(x, o)[f] = IF f = "NNTP_port" THEN (IF o.colon THEN Port(o.n) ELSE y[f]) ELSE y[f]
      BY <3>2, <3>3
    <3>. QED  BY <3>3, <3>4
  <2>. QED  BY <2>2, <2>3
<1>19. CASE o.c = "W"
  <2>1. \A x : Apply(x, o) = [x EXCEPT !.WWW_PORT = Within(0, UShortMax, o.n), !.WWW_PASS = IF o.colon THEN o.text ELSE @]
    BY <1>19 DEF Apply, SetWww
  <2>2. Gives(o, f) <=> f = "WWW_PORT" \/ (f = "WWW_PASS" /\ o.colon)
    BY <1>19 DEF Gives
  <2>3. ASSUME NEW x, DOMAIN x = Fields
        PROVE  Apply(x, o)[f] = IF f = "WWW_PASS" THEN (IF o.colon THEN o.text ELSE x[f]) ELSE IF f = "WWW_PORT" THEN Within(0, UShortMax, o.n) ELSE x[f]
    <3>1. PICK y : y = [x EXCEPT !.WWW_PORT = Within(0, UShortMax, o.n)]
      OBVIOUS
    <3>2. Apply(x, o) = [y EXCEPT !.WWW_PASS = IF o.colon THEN o.text ELSE @]
      BY <2>1, <3>1, ZenonT(60)
    <3>3. DOMAIN y = Fields /\ y[f] = IF f = "WWW_PORT" THEN Within(0, UShortMax, o.n) ELSE x[f]
      BY <2>3, <3>1
    <3>4. Apply(x, o)[f] = IF f = "WWW_PASS" THEN (IF o.colon THEN o.text ELSE y[f]) ELSE y[f]
      BY <3>2, <3>3
    <3>. QED  BY <3>3, <3>4
  <2>. QED  BY <2>2, <2>3
<1>20. CASE o.c = "t"
  <2>1. \A x : Apply(x, o) = [x EXCEPT !.NNTP_wait_segment = o.n, !.NNTP_max_conn = IF o.n < 0 THEN 1000 ELSE @]
    BY <1>20 DEF Apply, SetWaitSegment
  <2>2. Gives(o, f) <=> f = "NNTP_wait_segment" \/ (f = "NNTP_max_conn" /\ o.n < 0)
    BY <1>20 DEF Gives
  <2>3. ASSUME NEW x, DOMAIN x = Fields
        PROVE  Apply(x, o)[f] = IF f = "NNTP_max_conn" THEN (IF o.n < 0 THEN 1000 ELSE x[f]) ELSE IF f = "NNTP_wait_segment" THEN o.n ELSE x[f]
    <3>0. PICK y : y = [x EXCEPT !.NNTP_wait_segment = o.n]
      OBVIOUS
    <3>1. PICK k : k = IF o.n < 0 THEN 1000 ELSE x.NNTP_max_conn
      OBVIOUS
    <3>2. Apply(x, o) = [x EXCEPT !.NNTP_wait_segment = o.n, !.NNTP_max_conn = k]
      BY <2>1, <3>1
    <3>3. Apply(x, o) = [y EXCEPT !.NNTP_max_conn = k]
      BY <3>0, <3>2
    <3>4. DOMAIN y = Fields /\ y[f] = IF f = "NNTP_wait_segment" THEN o.n ELSE x[f]
      BY <2>3, <3>0
    <3>5. Apply(x, o)[f] = IF f = "NNTP_max_conn" THEN k ELSE y[f]
      BY <3>3, <3>4
    <3>6. f = "NNTP_max_conn" => k = IF o.n < 0 THEN 1000 ELSE x[f]
      BY <3>1
    <3>. QED  BY <3>4, <3>5, <3>6
  <2>. QED  BY <2>2, <2>3
<1>21. CASE o.c = "l"
  <2>1. \A x : Apply(x, o) = [x EXCEPT !.LOG = IF o.n \in 0 .. 4 THEN Levels[o.n + 1] ELSE @]
    BY <1>21 DEF Apply
  <2>2. Gives(o, f) <=> f = "LOG" /\ o.n \in 0 .. 4
    BY <1>21 DEF Gives
  <2>. QED  BY <2>1, <2>2
<1>22. CASE o.c \in {"h", "v", "?", "!"}
  <2>1. Apply(s, o) = s
    BY <1>22 DEF Apply
  <2>2. ~Gives(o, f)
    BY <1>22 DEF Gives
  <2>. QED  BY <2>1, <2>2
<1>. QED
  BY <1>1, <1>2, <1>3, <1>4, <1>5, <1>6, <1>7, <1>8, <1>9, <1>10, <1>11, <1>12,
     <1>13, <1>14, <1>15, <1>16, <1>17, <1>18, <1>19, <1>20, <1>21, <1>22 DEF Option

\* Two options that give the same setting a value have the same letter, or are -c
\* and a negative -t.
LEMMA SameLetter ==
    ASSUME NEW a, NEW b, NEW f, Gives(a, f), Gives(b, f)
    PROVE  a.c = b.c \/ (a.c = "c" /\ b.c = "t" /\ b.n < 0) \/ (b.c = "c" /\ a.c = "t" /\ a.n < 0)
BY DEF Gives

\* Settings are the same when each of them is.
LEMMA SameSettings ==
    ASSUME NEW a \in Settings, NEW b \in Settings, \A f \in Fields : a[f] = b[f]
    PROVE  a = b
<1>1. ASSUME NEW s \in Settings PROVE s = [f \in Fields |-> s[f]]
  BY ZenonT(60) DEF Settings, Fields
<1>2. a = [f \in Fields |-> a[f]] /\ b = [f \in Fields |-> b[f]]
  BY <1>1
<1>. QED  BY <1>2, Zenon

-----------------------------------------------------------------------------
(* The settings after each option.                                         *)

\* s holds the settings after each of the first n options.
Folds(o, n, s) ==
    /\ s \in [0 .. n -> Settings] /\ s[0] = Default
    /\ \A i \in 1 .. n : s[i] = Apply(s[i - 1], o[i])

\* Induction up to a bound.
LEMMA Upwards ==
    ASSUME NEW n \in Nat, NEW S, 0 \in S, \A k \in 0 .. n - 1 : k \in S => k + 1 \in S
    PROVE  \A k \in 0 .. n : k \in S
<1>. DEFINE T == {k \in 0 .. n : k \notin S}
<1>1. SUFFICES ASSUME T # {} PROVE FALSE
  OBVIOUS
<1>2. PICK m \in T : \A k \in T : m <= k
  <2>1. T \subseteq Nat
    OBVIOUS
  <2>. HIDE DEF T
  <2>. QED  BY <1>1, <2>1, Smallest
<1>3. m - 1 \in 0 .. n - 1 /\ m - 1 \notin T
  BY <1>2
<1>. QED  BY <1>2, <1>3

\* There are such settings.
LEMMA FoldsExist ==
    ASSUME NEW n \in Nat, NEW o, \A i \in 1 .. n : o[i] \in Option
    PROVE  \E s : Folds(o, n, s)
<1>. DEFINE S == {k \in 0 .. n : \E s : Folds(o, k, s)}
<1>1. 0 \in S
  <2>1. PICK s : s = [i \in 0 .. 0 |-> Default]
    OBVIOUS
  <2>2. s \in [0 .. 0 -> Settings] /\ s[0] = Default
    BY <2>1, DefaultTyped
  <2>3. Folds(o, 0, s)
    BY <2>2 DEF Folds
  <2>. QED  BY <2>3
<1>2. ASSUME NEW k \in 0 .. n - 1, k \in S PROVE k + 1 \in S
  <2>1. PICK s : Folds(o, k, s)
    BY <1>2
  <2>2. s \in [0 .. k -> Settings] /\ s[0] = Default /\ k + 1 \in 1 .. n
    BY <2>1 DEF Folds
  <2>3. PICK e \in Settings : e = Apply(s[k], o[k + 1])
    BY <2>2, ApplyTyped
  <2>4. PICK t : t = [i \in 0 .. k + 1 |-> IF i = k + 1 THEN e ELSE s[i]]
    OBVIOUS
  <2>5. t \in [0 .. k + 1 -> Settings]
    BY <2>2, <2>3, <2>4
  <2>6. t[k + 1] = e /\ \A i \in 0 .. k : t[i] = s[i]
    BY <2>4
  <2>7. k \in 0 .. k /\ (k + 1) - 1 = k
    OBVIOUS
  <2>8. t[k + 1] = Apply(t[k], o[k + 1])
    BY <2>3, <2>6, <2>7
  <2>9. ASSUME NEW i \in 1 .. k PROVE t[i] = Apply(t[i - 1], o[i])
    <3>1. i - 1 \in 0 .. k /\ i \in 0 .. k
      OBVIOUS
    <3>2. t[i] = s[i] /\ t[i - 1] = s[i - 1]
      BY <2>6, <3>1
    <3>. QED  BY <2>1, <3>2 DEF Folds
  <2>10. \A i \in 1 .. k + 1 : i \in 1 .. k \/ (i = k + 1 /\ i - 1 = k)
    OBVIOUS
  <2>11. \A i \in 1 .. k + 1 : t[i] = Apply(t[i - 1], o[i])
    BY <2>8, <2>9, <2>10, Zenon
  <2>12. t[0] = Default
    <3>1. 0 \in 0 .. k
      OBVIOUS
    <3>. QED  BY <2>2, <2>6, <3>1
  <2>13. Folds(o, k + 1, t)
    BY <2>5, <2>11, <2>12, Zenon DEF Folds
  <2>14. k + 1 \in 0 .. n
    OBVIOUS
  <2>. QED  BY <2>13, <2>14
<1>. HIDE DEF S
<1>3. n \in S
  <2>1. \A k \in 0 .. n : k \in S
    BY <1>1, <1>2, Upwards
  <2>. QED  BY <2>1
<1>. QED  BY <1>3 DEF S

\* The defining equation of Given.
LEMMA GivenIs ==
    ASSUME NEW o \in Seq(Option)
    PROVE  Folds(o, Len(o), Given(o))
<1>0. Len(o) \in Nat /\ \A i \in 1 .. Len(o) : o[i] \in Option
  OBVIOUS
<1>1. PICK s : s = CHOOSE z : z = [i \in 0 .. Len(o) |-> IF i = 0 THEN Default ELSE Apply(z[i - 1], o[i])]
  OBVIOUS
<1>2. PICK z : Folds(o, Len(o), z)
  BY <1>0, FoldsExist
<1>3. z = [i \in 0 .. Len(o) |-> IF i = 0 THEN Default ELSE Apply(z[i - 1], o[i])]
  <2>1. ASSUME NEW i \in 0 .. Len(o)
        PROVE  z[i] = IF i = 0 THEN Default ELSE Apply(z[i - 1], o[i])
    <3>1. i = 0 \/ i \in 1 .. Len(o)
      BY <1>0
    <3>2. 0 \notin 1 .. Len(o)
      BY <1>0
    <3>. QED  BY <1>2, <3>1, <3>2, Zenon DEF Folds
  <2>2. z \in [0 .. Len(o) -> Settings]
    BY <1>2 DEF Folds
  <2>. QED  BY <2>1, <2>2, Zenon
<1>4. s = [i \in 0 .. Len(o) |-> IF i = 0 THEN Default ELSE Apply(s[i - 1], o[i])]
  BY <1>1, <1>3, Zenon
<1>5. Given(o) = s
  BY <1>1, Zenon DEF Given
<1>6. s[0] = Default /\ DOMAIN s = 0 .. Len(o)
  <2>1. 0 \in 0 .. Len(o)
    BY <1>0
  <2>. QED  BY <1>4, <2>1, Zenon
<1>7. ASSUME NEW i \in 1 .. Len(o) PROVE s[i] = Apply(s[i - 1], o[i])
  <2>1. i \in 0 .. Len(o) /\ i # 0
    BY <1>0
  <2>. QED  BY <1>4, <2>1, Zenon
<1>8. \A i \in 0 .. Len(o) : s[i] \in Settings
  <2>. DEFINE S == {i \in 0 .. Len(o) : s[i] \in Settings}
  <2>1. 0 \in S
    BY <1>0, <1>6, DefaultTyped
  <2>2. ASSUME NEW i \in 0 .. Len(o) - 1, i \in S PROVE i + 1 \in S
    <3>1. i + 1 \in 1 .. Len(o) /\ (i + 1) - 1 = i /\ i + 1 \in 0 .. Len(o)
      BY <1>0
    <3>2. s[i + 1] = Apply(s[i], o[i + 1])
      BY <1>7, <3>1
    <3>3. s[i] \in Settings /\ o[i + 1] \in Option
      BY <1>0, <2>2, <3>1
    <3>. QED  BY <3>1, <3>2, <3>3, ApplyTyped
  <2>. HIDE DEF S
  <2>3. \A i \in 0 .. Len(o) : i \in S
    BY <1>0, <2>1, <2>2, Upwards
  <2>. QED  BY <2>3 DEF S
<1>9. s = [i \in 0 .. Len(o) |-> s[i]]
  BY <1>4, Zenon
<1>10. s \in [0 .. Len(o) -> Settings]
  BY <1>8, <1>9, Zenon
<1>. QED  BY <1>5, <1>6, <1>7, <1>10, Zenon DEF Folds

\* v is what the first i options make of setting f: what one of those that give
\* it a value makes of it, or its default.
ValueOf(o, i, f, v) ==
    \/ \E j \in 1 .. i : Gives(o[j], f) /\ v = Apply(Default, o[j])[f]
    \/ (\A j \in 1 .. i : ~Gives(o[j], f)) /\ v = Default[f]

\* The settings after each option have such values.
LEMMA ValuesAre ==
    ASSUME NEW n \in Nat, NEW o, \A i \in 1 .. n : o[i] \in Option, NEW s, Folds(o, n, s), NEW f \in Fields
    PROVE  ValueOf(o, n, f, s[n][f])
<1>. DEFINE S == {i \in 0 .. n : ValueOf(o, i, f, s[i][f])}
<1>1. 0 \in S
  BY DEF ValueOf, Folds
<1>2. ASSUME NEW k \in 0 .. n - 1, k \in S PROVE k + 1 \in S
  <2>1. /\ k + 1 \in 1 .. n /\ (k + 1) - 1 = k /\ k + 1 \in 0 .. n /\ k \in 0 .. n /\ k + 1 \in 1 .. k + 1
        /\ \A j \in 1 .. k + 1 : j \in 1 .. k \/ j = k + 1
        /\ \A j \in 1 .. k : j \in 1 .. k + 1
    OBVIOUS
  <2>2. s[k] \in Settings /\ s[k + 1] = Apply(s[k], o[k + 1]) /\ o[k + 1] \in Option
    BY <2>1 DEF Folds
  <2>3. DOMAIN s[k] = Fields /\ DOMAIN Default = Fields
    BY <2>2, SettingsAre, DefaultTyped
  <2>4. /\ Gives(o[k + 1], f) => s[k + 1][f] = Apply(Default, o[k + 1])[f]
        /\ ~Gives(o[k + 1], f) => s[k + 1][f] = s[k][f]
    BY <2>2, <2>3, ApplyGives
  <2>5. ValueOf(o, k, f, s[k][f])
    BY <1>2
  <2>6. ValueOf(o, k + 1, f, s[k + 1][f])
    BY <2>1, <2>4, <2>5, Zenon DEF ValueOf
  <2>. QED  BY <2>1, <2>6
<1>. HIDE DEF S
<1>3. n \in S
  <2>1. \A k \in 0 .. n : k \in S
    BY <1>1, <1>2, Upwards
  <2>. QED  BY <2>1
<1>. QED  BY <1>3 DEF S

\* When each setting is given a value once at most, the order does not count.
LEMMA PermutedSame ==
    ASSUME NEW o \in Seq(Option), NEW p \in Bijection(DOMAIN o, DOMAIN o),
           \A f \in Fields : \A i, j \in DOMAIN o : Gives(o[i], f) /\ Gives(o[j], f) => i = j
    PROVE  Parsed([i \in DOMAIN o |-> o[p[i]]]) = Parsed(o)
<1>1. PICK n \in Nat : n = Len(o) /\ DOMAIN o = 1 .. n /\ \A i \in 1 .. n : o[i] \in Option
  OBVIOUS
<1>2. /\ p \in [1 .. n -> 1 .. n]
      /\ \A j \in 1 .. n : \E i \in 1 .. n : p[i] = j
  BY <1>1 DEF Bijection, Injection, Surjection
<1>3. PICK q : q = [i \in DOMAIN o |-> o[p[i]]]
  OBVIOUS
<1>4. /\ q \in [1 .. n -> Option] /\ \A i \in 1 .. n : q[i] = o[p[i]]
  BY <1>1, <1>2, <1>3
<1>5. q \in Seq(Option) /\ Len(q) = n
  BY <1>1, <1>4
<1>6. Folds(o, n, Given(o)) /\ Folds(q, n, Given(q))
  BY <1>1, <1>5, GivenIs
<1>7. Given(o)[n] \in Settings /\ Given(q)[n] \in Settings
  <2>1. n \in 0 .. n
    OBVIOUS
  <2>. QED  BY <1>6, <2>1 DEF Folds
<1>8. ASSUME NEW f \in Fields PROVE Given(q)[n][f] = Given(o)[n][f]
  <2>1. ValueOf(o, n, f, Given(o)[n][f])
    BY <1>1, <1>6, ValuesAre
  <2>2. \A i \in 1 .. n : q[i] \in Option
    BY <1>4
  <2>3. ValueOf(q, n, f, Given(q)[n][f])
    BY <1>6, <2>2, ValuesAre
  <2>4. CASE \A j \in 1 .. n : ~Gives(o[j], f)
    <3>1. \A i \in 1 .. n : ~Gives(q[i], f)
      BY <1>2, <1>4, <2>4
    <3>. QED  BY <2>1, <2>3, <2>4, <3>1, Zenon DEF ValueOf
  <2>5. CASE \E j \in 1 .. n : Gives(o[j], f)
    <3>1. PICK j \in 1 .. n : Gives(o[j], f) /\ Given(o)[n][f] = Apply(Default, o[j])[f]
      BY <2>1, <2>5, Zenon DEF ValueOf
    <3>2. PICK i \in 1 .. n : p[i] = j
      BY <1>2
    <3>3. Gives(q[i], f)
      BY <1>4, <3>1, <3>2
    <3>4. PICK k \in 1 .. n : Gives(q[k], f) /\ Given(q)[n][f] = Apply(Default, q[k])[f]
      BY <2>3, <3>3, Zenon DEF ValueOf
    <3>5. q[k] = o[p[k]] /\ p[k] \in 1 .. n
      BY <1>2, <1>4
    <3>6. p[k] = j
      BY <1>1, <3>1, <3>4, <3>5, Zenon
    <3>. QED  BY <3>1, <3>4, <3>5, <3>6, Zenon
  <2>. QED  BY <2>4, <2>5
<1>9. Given(q)[n] = Given(o)[n]
  BY <1>7, <1>8, SameSettings
<1>. QED  BY <1>1, <1>3, <1>5, <1>9, Zenon DEF Parsed

-----------------------------------------------------------------------------
(* main's settings.                                                        *)

\* main has applied the options before the one it is at, and all of them when
\* it leaves parse_options.
InvOpt ==
    /\ main = "parse" => settings = Given(argv)[opt - 1]
    /\ main = "connections" => settings = Parsed(argv)

\* What the steps of the other threads leave alone.
LEMMA OthersLeaveOptions ==
    ASSUME \/ \E o \in Objs : Descriptors(o)
           \/ \E c \in Conns : Connection(c)
           \/ Server
    PROVE  UNCHANGED optVars /\ (main' = main \/ main' = "killed")
<1>1. CASE \E o \in Objs : Descriptors(o)
  BY <1>1 DEF Descriptors, CloseSsl, CloseSd, CloseForget, BrokenPipe, optVars
<1>2. CASE \E c \in Conns : Connection(c)
  <2>1. PICK c \in Conns : Connection(c)
    BY <1>2
  <2>2. CASE Fetch(c) \/ Resolve(c) \/ OpenSocket(c) \/ Connect(c) \/ Tls(c) \/ Handshake(c)
    BY <2>2 DEF Fetch, Resolve, OpenSocket, Connect, Tls, Handshake, Ready, Steps, optVars
  <2>3. CASE Undo(c) \/ Shut(c) \/ Send(c) \/ Recv(c) \/ Over(c) \/ Deleted(c)
    BY <2>3 DEF Undo, Shut, Send, Recv, Over, Deleted, Works, Fails, Steps, optVars
  <2>. QED  BY <2>1, <2>2, <2>3 DEF Connection
<1>3. CASE Server
  BY <1>3 DEF Server, Listen, Assign, TestRun, Accept, Serve, ClosesAccepted, optVars, ThrSteps
<1>. QED  BY <1>1, <1>2, <1>3

\* The steps of main after parse_options never come back to it.
LEMMA LaterSteps ==
    ASSUME Main, ~ParseOption, ~EndOptions
    PROVE  main' \notin {"parse", "connections"}
BY DEF Main, ConnectionInit, WwwInit, NotifyInit, SigInit, InitNzbStruct, Makes, CheckBasic, FetchFile,
       Reset, Retries, EndConn, EndOther, EndWww, Stop, CloseSrv, Join, Exit, Unmake, MainSteps, MainGoes

\* No step breaks it.
LEMMA NextInvOpt ==
    ASSUME IInv, InvOpt, [Next]_vars
    PROVE  InvOpt'
<1>1. CASE UNCHANGED vars
  BY <1>1 DEF vars, optVars, InvOpt
<1>2. CASE UNCHANGED optVars /\ (main' = main \/ main' = "killed")
  BY <1>2 DEF optVars, InvOpt
<1>3. CASE ParseOption
  <2>1. PICK o : o = argv
    OBVIOUS
  <2>2. o \in Seq(Option) /\ opt \in 1 .. Len(o) /\ main = "parse" /\ main' # "connections"
    BY <1>3, <2>1, ProcessAssumption DEF ParseOption, IInv, TypeMain
  <2>3. settings' = Apply(settings, o[opt]) /\ opt' = opt + 1 /\ argv' = o /\ settings = Given(o)[opt - 1]
    BY <1>3, <2>1, <2>2 DEF ParseOption, InvOpt
  <2>4. Given(o)[opt] = Apply(Given(o)[opt - 1], o[opt])
    BY <2>2, GivenIs DEF Folds
  <2>5. opt' - 1 = opt
    BY <2>2, <2>3
  <2>6. settings' = Given(o)[opt' - 1]
    BY <2>3, <2>4, <2>5, Zenon
  <2>. QED  BY <2>2, <2>3, <2>6, Zenon DEF InvOpt
<1>4. CASE EndOptions
  <2>1. opt - 1 = Len(argv) /\ main = "parse" /\ main' = "connections" /\ argv' = argv
    BY <1>4, ProcessAssumption DEF EndOptions, MainGoes, IInv, TypeMain
  <2>2. settings' = DefaultPort(settings) /\ settings = Given(argv)[opt - 1]
    BY <1>4, <2>1 DEF EndOptions, InvOpt
  <2>3. settings' = Parsed(argv)
    BY <2>1, <2>2, Zenon DEF Parsed
  <2>. QED  BY <2>1, <2>3, Zenon DEF InvOpt
<1>5. CASE Main /\ ~ParseOption /\ ~EndOptions
  BY <1>5, LaterSteps DEF InvOpt
<1>. QED  BY <1>1, <1>2, <1>3, <1>4, <1>5, OthersLeaveOptions DEF Next, Finished

\* Whatever the order in which options are given, as long as none is repeated
\* and a negative -t does not come with -c, the settings are the same; -e may
\* follow or precede -s (parse_options chooses the default port at its end).
THEOREM OrderOfOptionsHolds == Spec => []OrderOfOptions
<1>1. Init => InvOpt
  <2>. SUFFICES ASSUME Init PROVE InvOpt
    OBVIOUS
  <2>1. argv \in Seq(Option) /\ opt - 1 = 0 /\ main = "parse" /\ settings = Default
    BY ProcessAssumption DEF Init
  <2>2. Given(argv)[0] = Default
    BY <2>1, GivenIs DEF Folds
  <2>. QED  BY <2>1, <2>2 DEF InvOpt
<1>2. IInv /\ InvOpt /\ [Next]_vars => InvOpt'
  BY NextInvOpt
<1>3. IInv /\ InvOpt => OrderOfOptions
  <2>. SUFFICES ASSUME IInv, InvOpt, main = "connections", Independent,
                       NEW p \in Bijection(DOMAIN argv, DOMAIN argv)
                PROVE  Parsed([i \in DOMAIN argv |-> argv[p[i]]]) = settings
    BY DEF OrderOfOptions
  <2>1. argv \in Seq(Option) /\ settings = Parsed(argv)
    BY ProcessAssumption DEF IInv, TypeMain, InvOpt
  <2>2. ASSUME NEW f \in Fields, NEW i \in DOMAIN argv, NEW j \in DOMAIN argv, Gives(argv[i], f), Gives(argv[j], f)
        PROVE  i = j
    <3>1. \/ argv[i].c = argv[j].c
          \/ argv[i].c = "c" /\ argv[j].c = "t" /\ argv[j].n < 0
          \/ argv[j].c = "c" /\ argv[i].c = "t" /\ argv[i].n < 0
      BY <2>2, SameLetter
    <3>. QED  BY <3>1, Zenon DEF Independent
  <2>3. \A f \in Fields : \A i, j \in DOMAIN argv : Gives(argv[i], f) /\ Gives(argv[j], f) => i = j
    BY <2>2
  <2>. QED  BY <2>1, <2>3, PermutedSame
<1>. QED  BY <1>1, <1>2, <1>3, Invariance, PTL DEF Spec
=============================================================================
