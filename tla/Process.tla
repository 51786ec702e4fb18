------------------------------ MODULE Process ------------------------------
(***************************************************************************)
(* The program from its command line to its static destructors, and the    *)
(* sockets it holds meanwhile (main.cpp, connection.cpp, the singletons of *)
(* www.cpp, notify.cpp and connmgr.h).                                     *)
(*                                                                         *)
(* Three kinds of thread open and close descriptors: those that fetch      *)
(* segments (one at most per Connection), the web server's and main.  The  *)
(* kernel gives the lowest free number at once to whoever asks, so that a   *)
(* number kept after its close soon is another's.  A step is one system    *)
(* call, or one read or write of a _sd that another thread may see.        *)
(***************************************************************************)
EXTENDS Options, FiniteSets, SequencesExt

CONSTANTS
    ArgVs,     \* the command lines: sequences of options
    Conns,     \* the NNTP Connections: ConnMgr's slots, or with -r one per thread
    NFd,       \* the descriptors the process may have (RLIMIT_NOFILE)
    Stats,     \* what stat64 may say of a path, of type "none" when it fails
    UID, GID   \* __UID__ and __GID__

Listener == "_srv"
Accepted == "c"
Servers == {Listener, Accepted}
Free == "free"

ASSUME ProcessAssumption ==
    /\ ArgVs \subseteq Seq(Option) /\ NFd \in Nat
    /\ Conns \cap (Servers \cup {Free}) = {} /\ IsFiniteSet(Conns)

INVALID_SOCKET == -1
Fds == 0 .. NFd - 1
Objs == Conns \cup Servers

VARIABLES
    main,             \* where main is
    argv, opt,        \* the options, and the one parse_options is at
    settings,
    made,             \* the objects with a static destructor, in order of creation
    table,            \* the kernel's descriptors: the object that opened each
    sd,               \* _sd of each Connection
    bound,            \* the number its SSL handle writes to, if it has one
    st,               \* where the thread of each NNTP Connection is
    held,             \* the Conns that have an entry in _vec_conn
    cl,               \* where Close is on each object
    thr,              \* where the web server's thread is
    run, srv,         \* www_srv's _run, and whether _srv is set
    num               \* the number that Accept passes to accept

optVars == <<argv, opt, settings>>
sockVars == <<table, sd, bound, cl>>
wwwVars == <<thr, run, srv, num>>
vars == <<main, optVars, made, sockVars, st, held, wwwVars>>

\* Where a Connection is: none; in its constructor (resolve to shut, undo being
\* the SSL handle freed and shut the socket closed before the throw); in a
\* session (talk: about to send, recv: about to receive, over: at its end); in
\* the pool (idle; lost: marked in use with nobody to use it); in its destructor.
Ctor == {"resolve", "socket", "connect", "tls", "handshake", "undo", "shut"}
Session == {"talk", "recv", "over"}
St == {"none", "idle", "lost", "dying"} \cup Ctor \cup Session

TypeOK ==
    /\ main \in {"parse", "connections", "www", "notify", "sig", "nzb", "check", "files",
                 "pool", "reset", "retry", "exit", "conn", "close", "join",
                 "unset", "ended", "killed"}
    /\ argv \in ArgVs /\ opt \in 1 .. Len(argv) + 1 /\ settings \in Settings
    /\ main \notin {"parse", "exit", "ended"} => settings.NNTP_port # 0
    /\ ToSet(made) \subseteq {"openssl", "www", "notify", "conn"}
    /\ table \in [Fds -> Objs \cup {Free}]
    /\ sd \in [Objs -> Fds \cup {INVALID_SOCKET}] /\ bound \in [Objs -> Fds \cup {INVALID_SOCKET}]
    /\ st \in [Conns -> St] /\ held \subseteq Conns
    /\ cl \in [Objs -> {"no", "ssl", "sd", "forget"}]
    /\ thr \in {"off", "socket", "bind", "shut", "assign", "test", "accept", "got",
                "request", "answer", "drop", "end"}
    /\ run \in BOOLEAN /\ srv \in BOOLEAN /\ num \in Fds \cup {INVALID_SOCKET}

Init ==
    /\ main = "parse" /\ argv \in ArgVs /\ opt = 1 /\ settings = Default
    /\ made = <<>>
    /\ table = [n \in Fds |-> Free]
    /\ sd = [o \in Objs |-> INVALID_SOCKET] /\ bound = sd
    /\ cl = [o \in Objs |-> "no"]
    /\ st = [c \in Conns |-> "none"] /\ held = {}
    /\ thr = "off" /\ run = TRUE /\ srv = FALSE /\ num = INVALID_SOCKET

Alive == main \notin {"ended", "killed"}
MainGoes(from, to) == main = from /\ main' = to

-----------------------------------------------------------------------------
(* Descriptors.                                                            *)

FreeFds == {n \in Fds : table[n] = Free}
Lowest == CHOOSE n \in FreeFds : \A k \in FreeFds : n <= k

\* socket(), or the descriptor that accept() makes.
Opens(o) ==
    /\ FreeFds # {}
    /\ table' = [table EXCEPT ![Lowest] = o]
    /\ sd' = [sd EXCEPT ![o] = Lowest]

\* The kernel closes a number whoever asks.
Closes(n) == table' = [table EXCEPT ![n] = Free]

\* Connection::Close, called by the object's thread or, on _srv, by main: it
\* frees the SSL handle ...
BeginsClose(o) == cl' = [cl EXCEPT ![o] = "ssl"]
Closed(o) == cl[o] = "no"

CloseSsl(o) ==
    /\ cl[o] = "ssl"
    /\ bound' = [bound EXCEPT ![o] = INVALID_SOCKET]
    /\ cl' = [cl EXCEPT ![o] = IF sd[o] = INVALID_SOCKET THEN "no" ELSE "sd"]
    /\ UNCHANGED <<main, optVars, made, table, sd, st, held, wwwVars>>

\* ... shuts the socket down and closes it ...
CloseSd(o) ==
    /\ cl[o] = "sd"
    /\ Closes(sd[o])
    /\ cl' = [cl EXCEPT ![o] = "forget"]
    /\ UNCHANGED <<main, optVars, made, sd, bound, st, held, wwwVars>>

\* Mutant: the number stays in _sd.
CloseForgetNot(o) ==
    /\ cl[o] = "forget"
    /\ cl' = [cl EXCEPT ![o] = "no"]
    /\ UNCHANGED <<main, optVars, made, table, sd, bound, st, held, wwwVars>>

\* ... and forgets its number.
CloseForget(o) ==
    /\ cl[o] = "forget"
    /\ sd' = [sd EXCEPT ![o] = INVALID_SOCKET]
    /\ cl' = [cl EXCEPT ![o] = "no"]
    /\ UNCHANGED <<main, optVars, made, table, bound, st, held, wwwVars>>

\* send() or SSL_write() to a peer that has gone: SIGPIPE, which the program
\* neither ignores nor handles, ends it.
Sends(o) ==
    \/ o \in Conns /\ st[o] = "talk"
    \/ o = Accepted /\ thr = "answer"
BrokenPipe(o) ==
    /\ Sends(o) /\ Closed(o) /\ sd[o] # INVALID_SOCKET
    /\ main' = "killed"
    /\ UNCHANGED <<optVars, made, sockVars, st, held, wwwVars>>

Descriptors(o) == CloseSsl(o) \/ CloseSd(o) \/ CloseForget(o) \/ BrokenPipe(o)

-----------------------------------------------------------------------------
(* The NNTP Connections: Connection(address, port, useSSL), and a session  *)
(* reduced to sends and receives (NntpSession has its commands).           *)

Pooled == settings.USE_CONN_POOL
InSession(c) == st[c] \in Ctor \cup Session
Sessions == {c \in Conns : InSession(c)}

\* GetHandle keeps its lock from the choice of a slot to the end of the
\* constructor, which is "shut" when it throws.
LockFree == Pooled => \A c \in Conns : st[c] \notin Ctor

Goes(c, from, to) == st[c] = from /\ st' = [st EXCEPT ![c] = to]

\* With nothing but the place of c changed.
Steps(c, from, to) ==
    /\ Goes(c, from, to) /\ Closed(c)
    /\ UNCHANGED <<main, optVars, made, sockVars, held, wwwVars>>

\* Who may fetch a segment: the threads of the pool, or main in its retries.
MayStart ==
    \/ main = "pool" /\ Cardinality(Sessions) < settings.NNTP_max_conn
    \/ main = "retry" /\ Sessions = {}

\* fetch_nzb_segment: a slot that is connected, one that must be connected
\* again, a new one when none is idle, or with -r a Connection of its own.
Fetch(c) ==
    /\ MayStart /\ LockFree
    /\ \/ sd[c] # INVALID_SOCKET /\ Steps(c, "idle", "talk")
       \/ sd[c] = INVALID_SOCKET /\ Steps(c, "idle", "resolve")
       \/ /\ Steps(c, "none", "resolve")
          /\ Pooled => /\ \A d \in Conns : st[d] # "idle"
                       /\ Cardinality(held) < settings.NNTP_max_conn

\* The constructor has thrown: in the pool a slot that was there is lost.
Unmade(c) == IF c \in held THEN "lost" ELSE "none"

Resolve(c) == Steps(c, "resolve", "socket") \/ Steps(c, "resolve", Unmade(c))

OpenSocket(c) ==
    \/ /\ Goes(c, "socket", "connect") /\ Opens(c)
       /\ UNCHANGED <<main, optVars, made, bound, cl, held, wwwVars>>
    \/ FreeFds = {} /\ Steps(c, "socket", Unmade(c))

\* The greeting of a new connection is received first.
Ready(c, from) ==
    /\ Goes(c, from, "recv")
    /\ held' = IF Pooled THEN held \cup {c} ELSE held
    /\ UNCHANGED <<main, optVars, made, sockVars, wwwVars>>

Connect(c) ==
    \/ settings.USE_SSL /\ Steps(c, "connect", "tls")
    \/ ~settings.USE_SSL /\ Ready(c, "connect")
    \/ Steps(c, "connect", "shut")

\* sslInfo: the context, its paths and the handle, bound to the socket; each
\* frees what the ones before it made when it fails.
Tls(c) ==
    \/ /\ Goes(c, "tls", "handshake")
       /\ bound' = [bound EXCEPT ![c] = sd[c]]
       /\ UNCHANGED <<main, optVars, made, table, sd, cl, held, wwwVars>>
    \/ Steps(c, "tls", "shut")

\* Mutant: a handshake that fails leaves the connection without TLS.
HandshakeOptional(c) ==
    \/ Ready(c, "handshake")
    \/ /\ Goes(c, "handshake", "recv")
       /\ bound' = [bound EXCEPT ![c] = INVALID_SOCKET]
       /\ held' = IF Pooled THEN held \cup {c} ELSE held
       /\ UNCHANGED <<main, optVars, made, table, sd, cl, wwwVars>>

\* SSL_connect, which no time-out ends: the socket has none yet.
Handshake(c) == Ready(c, "handshake") \/ Steps(c, "handshake", "undo")

Undo(c) ==
    /\ Goes(c, "undo", "shut")
    /\ bound' = [bound EXCEPT ![c] = INVALID_SOCKET]
    /\ UNCHANGED <<main, optVars, made, table, sd, cl, held, wwwVars>>

\* The socket of a constructor that throws; the object and its _sd go.
Shut(c) ==
    /\ Goes(c, "shut", Unmade(c))
    /\ Closes(sd[c])
    /\ sd' = [sd EXCEPT ![c] = INVALID_SOCKET]
    /\ UNCHANGED <<main, optVars, made, bound, cl, held, wwwVars>>

\* A send or a receive that fails, at once when the object is closed, closes it.
Fails(c, from, to) ==
    /\ Goes(c, from, to) /\ Closed(c)
    /\ BeginsClose(c)
    /\ UNCHANGED <<main, optVars, made, table, sd, bound, held, wwwVars>>
Works(c, from, to) == sd[c] # INVALID_SOCKET /\ Steps(c, from, to)

\* fetch_cmd does not look at what SendAll returns.  fetch_term throws when the
\* receive fails; an answer, or an exception for another reason, may end the
\* session with the connection open.
Send(c) == Works(c, "talk", "recv") \/ Fails(c, "talk", "recv")
Recv(c) ==
    \/ Works(c, "recv", "recv") \/ Works(c, "recv", "talk") \/ Works(c, "recv", "over")
    \/ Fails(c, "recv", "over")

\* ~ConnHandle gives the slot back under the lock; with -r the object goes.
Over(c) ==
    \/ Pooled /\ LockFree /\ Steps(c, "over", "idle")
    \/ ~Pooled /\ Fails(c, "over", "dying")

Deleted(c) == Steps(c, "dying", "none")

Connection(c) ==
    \/ Fetch(c) \/ Resolve(c) \/ OpenSocket(c) \/ Connect(c) \/ Tls(c) \/ Handshake(c)
    \/ Undo(c) \/ Shut(c) \/ Send(c) \/ Recv(c) \/ Over(c) \/ Deleted(c)

-----------------------------------------------------------------------------
(* The web server's thread: www_srv::run, with Connection(port) and Accept. *)

ThrGoes(from, to) == thr = from /\ thr' = to
ThrSteps(from, to) ==
    /\ ThrGoes(from, to)
    /\ UNCHANGED <<main, optVars, made, sockVars, st, held, run, srv, num>>

Listen ==
    \/ /\ ThrGoes("socket", "bind") /\ Opens(Listener)
       /\ UNCHANGED <<main, optVars, made, bound, cl, st, held, run, srv, num>>
    \/ FreeFds = {} /\ ThrSteps("socket", "end")
    \/ ThrSteps("bind", "assign") \/ ThrSteps("bind", "shut")
    \/ /\ ThrGoes("shut", "end")
       /\ Closes(sd[Listener])
       /\ sd' = [sd EXCEPT ![Listener] = INVALID_SOCKET]
       /\ UNCHANGED <<main, optVars, made, bound, cl, st, held, run, srv, num>>

\* _srv is set; from here stop() may close it.
Assign ==
    /\ ThrGoes("assign", "test")
    /\ srv' = TRUE
    /\ UNCHANGED <<main, optVars, made, sockVars, st, held, run, num>>

\* while(_run), and Accept's read of _sd.
TestRun ==
    \/ ~run /\ ThrSteps("test", "end")
    \/ /\ run /\ ThrGoes("test", "accept")
       /\ num' = sd[Listener]
       /\ UNCHANGED <<main, optVars, made, sockVars, st, held, run, srv>>

\* accept(): a connection; a time-out, after which _sd is read again; or an
\* error (the socket is closed, no descriptor is free, the browser has gone
\* already), for which Accept returns NULL and the server ends.
Accept ==
    \/ /\ ThrGoes("accept", "got")
       /\ num # INVALID_SOCKET /\ table[num] # Free /\ Opens(Accepted)
       /\ UNCHANGED <<main, optVars, made, bound, cl, st, held, run, srv, num>>
    \/ /\ thr = "accept" /\ num' = sd[Listener]
       /\ num # INVALID_SOCKET
       /\ UNCHANGED <<main, optVars, made, sockVars, st, held, thr, run, srv>>
    \/ ThrSteps("accept", "end")

ClosesAccepted(from, to) ==
    /\ ThrGoes(from, to)
    /\ BeginsClose(Accepted)
    /\ UNCHANGED <<main, optVars, made, table, sd, bound, st, held, run, srv, num>>

\* The request is read, its first line taken apart, and a page sent; c goes at
\* the end of the turn, or earlier with a receive or a send that fails.
Serve ==
    /\ Closed(Accepted)
    /\ \/ run /\ ThrSteps("got", "request")
       \/ ~run /\ ClosesAccepted("got", "drop")
       \/ ThrSteps("request", "answer")
       \/ ClosesAccepted("request", "drop")
       \/ ClosesAccepted("answer", "drop")
       \/ ThrSteps("drop", "test")

Server == Listen \/ Assign \/ TestRun \/ Accept \/ Serve

-----------------------------------------------------------------------------
(* main: the options, the singletons, the files.                           *)

MainSteps(from, to) ==
    /\ MainGoes(from, to)
    /\ UNCHANGED <<optVars, made, sockVars, st, held, wwwVars>>

\* Function-local statics, and the clean-up that OpenSSL registers in InitSSL.
With(x, objects) == IF x \in ToSet(objects) THEN objects ELSE Append(objects, x)

\* The letters that print something and exit.
Exits == {"h", "v", "!"}

ParseOption ==
    /\ main = "parse" /\ opt <= Len(argv)
    /\ main' = IF argv[opt].c \in Exits THEN "exit" ELSE "parse"
    /\ settings' = Apply(settings, argv[opt])
    /\ made' = IF argv[opt].c = "e" THEN With("openssl", made) ELSE made
    /\ opt' = opt + 1
    /\ UNCHANGED <<argv, sockVars, st, held, wwwVars>>

EndOptions ==
    /\ MainGoes("parse", "connections") /\ opt > Len(argv)
    /\ settings' = DefaultPort(settings)
    /\ UNCHANGED <<argv, opt, made, sockVars, st, held, wwwVars>>

\* Connection::Init resolves the name of the host, and uses the answer without
\* a look at whether there is one.
ConnectionInit == MainSteps("connections", "www") \/ MainSteps("connections", "killed")

\* The thread of the web server starts in the constructor of f_status_hndl.
WwwInit ==
    \/ /\ MainGoes("www", "notify")
       /\ made' = With("www", made)
       /\ thr' = IF settings.WWW_PORT # 0 THEN "socket" ELSE "off"
       /\ UNCHANGED <<optVars, sockVars, st, held, run, srv, num>>
    \/ settings.WWW_PORT # 0 /\ MainSteps("www", "exit")

Makes(from, to, x) ==
    /\ MainGoes(from, to)
    /\ made' = With(x, made)
    /\ UNCHANGED <<optVars, sockVars, st, held, wwwVars>>

NotifyInit == Makes("notify", "sig", "notify")
SigInit == MainSteps("sig", "nzb") \/ MainSteps("sig", "exit")
InitNzbStruct == Makes("nzb", "check", "conn")

\* check_basic, for what stat64 says of the two directories and of yydecode.
Usable(stat, type, want) == stat.type = type /\ IS_F(stat, UID, GID, want)
Checked(out, tmp, yydecode) ==
    /\ settings.NNTP_server # ""
    /\ Usable(out, "dir", {"r", "w", "x"}) /\ Usable(tmp, "dir", {"r", "w", "x"})
    /\ Usable(yydecode, "file", {"r", "x"})
    /\ settings.WWW_PASS \in Alnum \cup {""}
CheckBasic ==
    \E out, tmp, yydecode \in Stats :
        MainSteps("check", IF Checked(out, tmp, yydecode) THEN "files" ELSE "exit")

\* fetch_nzb_file: the pool of threads, unless its size is refused or the signal
\* is there; or there is no file left.
FetchFile ==
    \/ settings.NNTP_max_conn <= 256 /\ MainSteps("files", "pool")
    \/ MainSteps("files", "exit")

\* Main has waited for all jobs; or an exception leaves fetch_nzb_file, and the
\* pool's destructor joins its threads.  Only Reset closes what is in the pool.
Quiet == Sessions = {} /\ \A c \in Conns : st[c] # "dying"

\* The objects that main deletes, in the pool or at the end.
DeletesAll ==
    /\ st' = [c \in Conns |-> IF st[c] \in {"idle", "lost"} THEN "dying" ELSE st[c]]
    /\ cl' = [o \in Objs |-> IF o \in Conns /\ st[o] \in {"idle", "lost"} THEN "ssl" ELSE cl[o]]
    /\ held' = {}
    /\ UNCHANGED <<optVars, made, table, sd, bound, wwwVars>>

Reset ==
    /\ Quiet
    /\ \/ /\ Pooled /\ \A c \in Conns : st[c] # "lost"
          /\ MainGoes("pool", "reset") /\ DeletesAll
       \/ /\ Pooled => \E c \in Conns : st[c] = "lost"
          /\ MainSteps("pool", "retry")
       \/ MainSteps("pool", "exit")

\* The retries, the decoding and the end of fetch_nzb_file.
Retries ==
    /\ Quiet
    /\ \/ MainSteps("reset", "retry")
       \/ MainSteps("retry", "files") \/ MainSteps("retry", "exit")

-----------------------------------------------------------------------------
(* After main: what has a static destructor goes in the opposite order.    *)

Goner(x) == made # <<>> /\ Last(made) = x
Unmake(from) ==
    /\ MainGoes(from, "exit")
    /\ made' = Front(made)
    /\ UNCHANGED <<optVars, sockVars, st, held, wwwVars>>

EndConn ==
    \/ Goner("conn") /\ MainGoes("exit", "conn") /\ DeletesAll
    \/ Quiet /\ Unmake("conn")

EndOther == (Goner("notify") \/ Goner("openssl")) /\ Unmake("exit")

\* ~f_status_hndl: stop() clears _run, then closes _srv when it sees one ...
Stop ==
    /\ Goner("www") /\ MainGoes("exit", "close")
    /\ run' = FALSE
    /\ UNCHANGED <<optVars, made, sockVars, st, held, thr, srv, num>>

CloseSrv(from, to) ==
    \/ /\ srv /\ MainGoes(from, to) /\ BeginsClose(Listener)
       /\ UNCHANGED <<optVars, made, table, sd, bound, st, held, wwwVars>>
    \/ ~srv /\ MainSteps(from, to)

\* Mutant: the thread is not waited for.
JoinForgotten ==
    /\ Closed(Listener)
    /\ \/ CloseSrv("join", "unset")
       \/ Unmake("unset")

\* ... the thread is joined, and ~www_srv deletes _srv.
Join ==
    /\ Closed(Listener)
    /\ \/ thr \in {"off", "end"} /\ CloseSrv("join", "unset")
       \/ Unmake("unset")

EndWww == Stop \/ CloseSrv("close", "join") \/ Join

Exit == made = <<>> /\ MainSteps("exit", "ended")

Main ==
    \/ ParseOption \/ EndOptions \/ ConnectionInit \/ WwwInit \/ NotifyInit \/ SigInit
    \/ InitNzbStruct \/ CheckBasic \/ FetchFile \/ Reset \/ Retries
    \/ EndConn \/ EndOther \/ EndWww \/ Exit

Finished == ~Alive /\ UNCHANGED vars

Next ==
    \/ /\ Alive
       /\ \/ \E o \in Objs : Descriptors(o)
          \/ \E c \in Conns : Connection(c)
          \/ Server \/ Main
    \/ Finished

Spec == Init /\ [][Next]_vars

-----------------------------------------------------------------------------
\* Each open descriptor has one Connection that will close it, and a number that
\* an object still holds is its own: none leaks when a constructor throws half
\* way, none is closed twice (the second time another's), and accept, whose
\* number was read before, never waits on what another thread opened since.
OneOwner ==
    /\ \A n \in Fds : table[n] # Free => sd[table[n]] = n
    /\ \A o \in Objs : sd[o] # INVALID_SOCKET /\ cl[o] # "forget" => table[sd[o]] = o
    /\ thr = "accept" /\ num # INVALID_SOCKET => table[num] \in {Listener, Free}

\* With -e nothing is sent or received in clear, after a send that failed and
\* was ignored no more than before it; and no SSL handle writes to a descriptor
\* that its Connection does not hold.
NeverInClear ==
    /\ \A c \in Conns : bound[c] # INVALID_SOCKET => sd[c] = bound[c] /\ table[bound[c]] = c
    /\ settings.USE_SSL =>
         \A c \in Conns : st[c] \in {"talk", "recv"} /\ Closed(c) /\ sd[c] # INVALID_SOCKET =>
            bound[c] # INVALID_SOCKET

\* What threads use is there: OpenSSL while a handle exists, also in the
\* destructor of ConnMgr; ConnMgr and the progress page during a session; and
\* f_status_hndl as long as the web server's thread runs.
AliveWhenUsed ==
    /\ \A c \in Conns : st[c] \in {"tls", "handshake"} \/ bound[c] # INVALID_SOCKET =>
         "openssl" \in ToSet(made)
    /\ Sessions # {} => {"conn", "www"} \subseteq ToSet(made)
    /\ thr \notin {"off", "end"} => "www" \in ToSet(made)

\* The order of the options does not count (a repeated one, and -t with a
\* negative time, which sets what -c sets, apart).
Given(options) ==
    LET s[i \in 0 .. Len(options)] == IF i = 0 THEN Default ELSE Apply(s[i - 1], options[i])
    IN  s
Parsed(options) == DefaultPort(Given(options)[Len(options)])
Independent ==
    /\ \A i, j \in DOMAIN argv : argv[i].c = argv[j].c => i = j
    /\ \A i, j \in DOMAIN argv : ~(argv[i].c = "c" /\ argv[j].c = "t" /\ argv[j].n < 0)
OrderOfOptions ==
    main = "connections" /\ Independent =>
        \A p \in Bijection(DOMAIN argv, DOMAIN argv) :
            Parsed([i \in DOMAIN argv |-> argv[p[i]]]) = settings
=============================================================================
