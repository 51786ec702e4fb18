# myNZB in TLA+

Specifications of myNZB (a multi-threaded downloader of NZB files), the TLC
runs that check them and the TLAPS proofs about them. Paths are relative to the
repository; `nzb.cpp:394` stands for `src/nzb.cpp` line 394.

## The system

| component | state | operations | interacts with |
|---|---|---|---|
| thread pool, `mt.h` | `_list_jobs`, `_list_sem`, `_tp_quit`, each job's semaphore | `add`, `job_exec`, `wait`, destructor | jobs of `fetch_nzb_file`, created and deleted by main |
| connection pool, `connmgr.h`, `connection.cpp` | `_vec_conn` (connection, `in_use`, `already_used`), `_mtx` | `GetHandle`, `~ConnHandle`, `Reset` | every segment's session; the next file |
| a session, `nzb.cpp:170-459` | the receive buffer, the bytes left in the connection | greeting, MODE READER, GROUP, HEAD, BODY, AUTHINFO | the server; the next session on the same connection |
| body framing, `nzb.cpp:129-168, 342-392`, `res_pool.h` | the shared buffers and their `in_use` | `fetch_body`, `dot_unstuff`, `GetHandle`, `~handle` | the segment's stream |
| download of a file, `nzb.cpp:502-699` | results and streams of the segments, temporary files | jobs, retries, concatenation, decoding, cleaning | all of the above, the signal, the web page |
| main, `main.cpp`, `nzb_file.cpp` | `nzb_jobs`, the output directories | selection, the two loops, renaming | the runs before; yydecode |
| web report, `www.cpp` | `_status`, `_progress`, `_sids`, `_run`, `_srv` | `update`, `progress_reset`, `progress_set`, `run`, `stop` | main and pool threads write, its thread reads |
| options, `main.cpp:104-278`, `settings.cpp` | the settings, written once before any thread exists | one per letter, `check_basic` | everything reads them |
| sockets and TLS, `connection.cpp` | `_sd` and the SSL handle of each Connection, the kernel's descriptors | the two constructors, `SendAll`, `RecvAll`, `Accept`, `Close`, destructor | sessions, the web server's thread, main's `stop()` |
| singletons of `www.cpp`, `notify.cpp`, `connmgr.h`, OpenSSL | which exist | made on first use, destroyed after main in the opposite order | threads that outlive main's last file |
| `shared_ptr.h`, helpers | - | - | containers and formatting, see *Not modelled* |

What is hard: the pool's threads race with main for jobs that main deletes as
soon as they are waited for; `_list_sem` is both a job counter and the signal of
the end; `GetHandle` connects while it holds its lock; a session may fail
anywhere and gives its connection, with whatever is unread in it, to the next;
buffers are used again without being cleared; the signal arrives anywhere and
its exception is swallowed in most places; a page is put together under two
locks; the program may be killed between decoding a file and naming it; and
threads of three kinds open and close descriptors, whose numbers the kernel
gives out again at once.

## Modules

* `JobPool` - what a pool of workers promises its owner: jobs start once, in
  order, at most `NExec` at a time; results are handed over when they are there.
* `ThreadPool` - `mt::ThreadPool` with the client it has, `fetch_nzb_file`'s
  add and wait loops. One action per semaphore operation, critical section and
  test of `_tp_quit`; `pc` is the place in `job_exec`, `main` the place in
  `fetch_nzb_file`. `StatusBar` maps its state to that of `JobPool`.
* `ConnMgr` - `GetHandle` in the pieces the lock allows (taking the lock and a
  slot, the end of the connection attempt), the session reduced to its outcome,
  `~ConnHandle`, `Reset`. `greeted` says whether the server's greeting has been
  read, which the code has to deduce from `already_used`.
* `FetchFile` - composes `JobPool` and `ConnMgr` (by INSTANCE: each of its steps
  that uses one is a step of that module) with `fetch_nzb_file`, `seg_job::run`,
  `auto_filer` and main's loop over files. A pool thread is named by its job,
  the main thread is one more caller of `fetch_nzb_segment` in the retries. The
  options it depends on (`-r`, `-F`, `-z`) and the number of files are a variable,
  `given`, which never changes, so that one run covers several of them.
* `NntpSession` - several sessions one after the other on one slot. The byte
  stream is a sequence of pieces at the grain the parser distinguishes: a first
  line (whole, or cut before or after four bytes), data, terminator. `Receive`
  returns any number that fits. An answer that overruns the buffer stays in the
  connection, as in the code (`lost`).
* `FetchBody` - `fetch_body` and `dot_unstuff` character by character
  (CRLF is one character), on `res_pool`'s buffers.
* `WebServer` - main and pool threads publish, the server's thread accepts,
  reads and answers; `~f_status_hndl` stops it.
* `NzbMain` - arguments, selection, jobs map, the .big file, decode, rename, crash
  and rerun. `TmpDir` is where the segments are put together, by default the output
  directory itself; the .big file is then listed like any other when the decoded
  file is looked for, and goes, if it still has its name, when `fetch_nzb_file`
  returns. A date is whether a file has that of what was written last (`late`):
  the next one to be written shares it or makes all others older. `tied` remembers
  that a rename met two files with the date it looked for. A subject is reduced to what the code gets from it: its quoted name and the
  names `is_already` finds in it. An entry of `nzb_jobs` is the argument it was
  made from (which fixes `outdir`) and the places, in the argument's list, of the
  files that were selected.
* `Options` - the settings as a record, `Apply` for the switch of
  `parse_options`, `DefaultPort` for its end, and the permission macros of
  `check_basic` beside the kernel's own rule (`Grants`). `atoi`'s result goes into
  an unsigned short by `%`.
* `Process` - main from its first option to the last static destructor, with
  what happens to descriptors and SSL handles on the way. A step is a system
  call, or a read or write of a `_sd` that another thread may see; `table` is the
  kernel's view (who opened each descriptor), `sd` the program's, `bound` the
  number an SSL handle writes to. `Close` is three steps (`cl`), the constructor
  of a Connection up to seven (`Ctor`), each of which may fail. A session is
  sends and receives here, fetch_nzb_file the threads, Reset and the retries.
* `ThreadPool_proofs`, `ConnMgr_proofs`, `FetchFile_proofs`, `NntpSession_proofs`,
  `FetchBody_proofs`, `WebServer_proofs`, `NzbMain_proofs`, `Process_proofs` (which
  has what is proved of `Options` too) - an inductive invariant and the theorems
  of each component.
* `MC...` - constants of the runs. Operators commented `Mutant:` are deliberate
  faults that no specification uses: each property is known to fail when one of
  them takes the place of the definition it varies.

`FetchFile` relies on `JobPool` because `ThreadPool` is shown to implement it,
fairness included (`ImplementsJobPool`), and takes no other steps on the pool than
`JobPool`'s (`UsesJobPool`); it relies on `ConnMgr`'s own actions (`UsesConnMgr`).
`ConnMgr` and `FetchFile` treat a session as an outcome; `NntpSession` says
which outcomes there are and what each leaves behind. In `FetchBody` an answer
that does not fit its buffer ends in an exception; what it leaves in the
connection is `NntpSession`'s. `NzbMain` takes
`fetch_nzb_file` as a result. `Process` extends `Options` and has every kind of
thread, each reduced to what it does to a descriptor, a TLS handle or an
object with a static destructor; the order of jobs, the contents of sessions and
the pages are in the other modules.

## Runs

| run | question | result |
|---|---|---|
| `thread_pool` (2 threads, 4 jobs) | Is a job ever touched after its deletion, run twice or lost, is a result read too early, does the destructor always join? | holds; implements `JobPool` |
| `conn_mgr` (3 threads, 2 slots) | Are connections exclusive, do handles dangle, is each greeting read exactly once, with Reset and the signal anywhere? | holds |
| `conn_leak` | Is every slot in use held by somebody? | **no**, see below |
| `fetch_file` (1 file of 3 segments on the pool with 1 retry; with `-r` 2 files, 2 retries; with `-F` 1 file; 2 threads) | Is only a complete file decoded, are temporary files removed, is the pool quiet at Reset, do page and log tell the truth from one file to the next, does the program end? | holds |
| `nntp_session` (3 sessions, 2 groups, cuts in MODE and BODY) | Are client and server in step, is the body the segment's own, does each session end? | holds |
| `head_auth` | Is a 480 to HEAD acted on? | **no** |
| `fetch_body` (2 threads, 2 bodies out of 5) | Is what is written the article, are buffers lost? | holds |
| `web_server` (2 NZBs, 2 browsers, 3 connections) | Do rows and bars agree, does a login last, does the server stop? | holds |
| `nzb_main` (2 NZBs, 2 runs) | Is what is reported good there, under its name, and not fetched again, where names and dates keep files apart? | holds |
| `nzb_big` (the same) | Is what gets a subject's name always a decoded file? | **no** |
| `process` (10 command lines, 3 Connections, 3 descriptors) | Does each descriptor have one owner, is TLS ever left out, is anything used before it is made or after it is destroyed, does the order of the options count? | holds |
| `nzb_same_name` | Is every selected file tried? | **no** |

### Bounds, and why they are enough

* `thread_pool`: two threads suffice for every race between two executors and
  main; four jobs give jobs that are queued, running, done and waited for at
  the same time. The proofs remove the bounds for the safety properties.
* `conn_mgr`: more threads than slots, so that `NoneLeft` happens; two slots
  give a free, a busy and a broken one. The proofs remove the bounds.
* `fetch_file`: three segments and a repair limit of 70 % give no
  error, few errors (with two segments to retry) and too many. Two files are
  needed for what survives from one to the next, and are run with `-r`, where
  nothing but the segments and the page is left over.
* `nntp_session`: three sessions are one to leave bytes behind, one to meet them
  and one to be in step again. Buffers of three and five pieces are passed and
  not passed by answers of up to two pieces of data. Cuts are put in one command
  of `fetch_cmd` and in BODY, whose loop is a different one. `InSync` and `OwnBody`
  speak of a connection on which no session has given up in the middle of an
  answer; the proofs remove the bounds.
* `fetch_body`: every cut of every answer, two threads at once or one after the
  other on a used buffer. One article has two stuffed lines, after which the
  swapped vector is smaller than asked for. The answers have 4, 5, 10, 10 and 11
  characters and the room is 10, so that some fit, two fill it to the last
  character and one does not fit. The proofs remove the bounds.
* `web_server`: a page may be made while main goes through several files and
  from one NZB to the next; three connections are a login, a page with its
  cookie and one of the other browser.
* `nzb_main`: two files posted under one meaningless name (so that the renaming
  matters), one under its own, one with no name in its subject, a par2, and a
  file that both NZBs have; two runs, of which the first ends anywhere.
  The .big file is in the output directory, as it is by default, and every file
  is written in the second of the one before or in a later one. The three
  properties are about files that are kept apart (`Apart`). Their names are, in
  this instance: the name a file ends under is nobody else's, nor one that yydecode
  gives another file, and a file that yydecode itself puts under that name is
  asked for once. And their dates have been so far (`~tied`): no rename has met
  a second file with the date of the one just decoded, be it the .big file or one
  decoded before. Neither can be dropped: where dates are tied the first of the
  latest in `readdir`'s order is renamed, which need not be the decoded file
  (`nzb_big`); and where names clash, see *What the runs found*.
* `process`: with three Connections and three descriptors, `socket()`, `accept()`
  and the listener each meet a full table, and a number that was closed is given
  out again while its former owner still exists. The command lines are ports
  that wrap (70000, 65536, -1), `-t -1` before and after `-c` (after it the pool of
  1000 connections is refused), three connections, the web server with and
  without password, with and without `-e`, `-r`, and options that exit (`-h`, `-v`).
  The Connections are symmetric: no formula names one.

Deadlock is checked in every run; states where the program has ended stutter.

### Fairness

Weak fairness per thread where threads have steps of their own (`ThreadPool`:
main and each executor; `FetchFile`: main and each job): the operating system
runs a thread that can run, and a receive ends because of `SO_RCVTIMEO`
(`settings::NNTP_recv_tmout`, 2 s unless `-S` changes it). `-S 0` takes that
away, and with it `SessionsEnd` and `Terminates`. In `NntpSession` the client
is one thread. In `WebServer` main and the server's thread are fair, a browser
that connects is not needed: requests end by their 2 s time-out, and SendAll,
which has no time-out, is assumed to end because the browser reads or goes
away. `ConnMgr`, `NzbMain` and `Process` have safety properties only, and no fairness.

`Terminates` and `SessionsEnd` are claims about servers that answer the
connection attempt: `gethostbyname`, `connect` and `SSL_connect` wait without a
time-out, since `-S` is set on the socket after the constructor (`nzb.cpp:416`),
and `GetHandle` calls them under its lock. In `Process` they may last for ever.

## What is proved

Theorems hold for every value of the constants that the named assumptions of
the modules allow. These say what kind of thing a constant is: numbers of jobs,
files, sessions, attempts and buffer sizes are natural numbers, positive where
the code has at least one (`NSegAssumption`, `MaxConnAssumption`, `SizesAssumption`,
`ServerAssumption`, `NFetchAssumption`); threads are a finite set (`ExecsAssumption`,
`FetchBody`'s `ThrAssumption`) and `NoThr` is none of them; there is at least one
article, of lines that end with CRLF (`ArticlesAssumption`), and `bufSize` is a
natural number (`RoomAssumption`); Connections are a finite
set apart from the two sockets of the server (`ProcessAssumption`); the strings that
pass `isalnum` are strings (`TextAssumption`); the arguments are sequences of known
files, yydecode always has a name for what it decodes (`ArgsAssumption`), a
subject contains what it quotes (`QuotedAssumption`), and no posted file is called
as a .big file is, with a pid and a random number (`BigAssumption`).

Each module below proves `Spec => []IInv` from `InitIInv` (the initial states) and
one lemma per action or group of actions, and takes its theorems from there. No
property is inductive by itself; what `IInv` adds is the argument.

* `ThreadPool_proofs`: `TypeCorrect`, `NoUseAfterFreeHolds`, `ResultsReadyHolds`,
  `RunOnceHolds`, `NoLostWakeupHolds`, `QuitTokensSufficeHolds`. `IInv` says which
  jobs can be where: the list is strictly increasing and what a thread holds is
  older than what is listed, so nothing is held twice; a job's semaphore is up
  only after its run; the jobs that exist are those created and not yet waited
  for. `WakeInv`, on top of it, counts tokens against listed jobs and against
  waiting threads; its steps need facts about cardinalities (`CountThreads`).
  `ImplementsJobPoolSteps` is the safety half of the refinement: the initial state
  is that of `JobPool` and each step maps, through `StatusBar`, to one of its steps
  or to none (`AddPush` submits, taking from the list starts, the post of a job's
  semaphore finishes it, `WaitPush` takes the result, everything else stutters).
* `ConnMgr_proofs`: `TypeCorrect`, `ExclusiveHolds`, `NoDanglingHolds`,
  `GreetingBehindHolds`, `GreetedOnceHolds`. `IInv` ties the lock to the thread
  that connects, slots to their owners, and `already_used` to what has been read
  of the connection (`InvGreet`).
* `FetchFile_proofs`: `TypeCorrect`, `DecodesWholeHolds`, `TmpRemovedHolds`,
  `ResetQuiescentHolds`, `ReportsHonestHolds`, `EnoughConnectionsHolds`,
  `UsesConnMgr`, `UsesJobPool`. `IInv` follows a segment from its submission to the answer main
  takes (`InvSeg`: only a running job is inside `fetch_nzb_segment`, what counts as
  good has its body), main's own downloads (`InvRetry`), where jobs may still be
  queued or running (`InvMain`), and which temporary files `auto_filer` still owns
  (`InvDisk`). Without `-r` every step is a step of `ConnMgr` or leaves it alone (`ConnSteps`), so
  `ConnMgr`'s invariant is carried over by its own lemmas and not proved again;
  without `-r` the whole behaviour is one of `ConnMgr`'s specification, and with it
  the pool stays empty (`UsesConnMgr`). In the same
  way every step is one of `JobPool` or leaves the thread pool alone, but for the
  next file's new pool, which is made when the one before has nothing left to
  run (`UsesJobPool`).
* `NntpSession_proofs`: `TypeCorrect`, `InSyncHolds`, `OwnBodyHolds`. `InvTurn`: as
  long as no answer has overrun its buffer, and no refusal or 480 to BODY has been
  cut by the network (`CutOff`), what has been received and what is to come are together one answer to the last command, `auth`'s inside the
  session's. At the end of each receiving loop it follows that nothing is to
  come (`OneLine`, `LastOfAll`), which is why the next command may be sent.
* `FetchBody_proofs`: `TypeOKHolds`, `NoBufferLostHolds`, `OneHolderHolds` (no two
  frames, of one thread or of two, hold the same buffer), `WritesTheBodyHolds`.
  `IInv` says that a buffer is marked exactly while one frame holds it, and how
  many frames each place in the code has; when all are marked there are at most
  three for each thread (`AllHeld`). `TInv` adds the texts: what a thread has
  received, in the buffer that its innermost `fetch_body` holds, and what is to
  come are together the answer to its command (`InvText`), and the steps of
  other threads do not touch that buffer (`OthersKeep`). It rests on two theorems
  about text: `UnstuffedIs`, that `dot_unstuff` gives back the article whatever
  follows the answer in the buffer, and `EndsOnce`, that `BODY_TERM` is at the end
  of an answer and of no prefix of it. `Stuffed` and `Unstuffed` are recursive
  functions; where each character goes is an induction over their steps, written
  out over the set of the lengths for which it holds (`Upwards`, `Downwards`), since
  the induction rules of the library cannot be used.
* `WebServer_proofs`: `TypeCorrect`, `PageAgreesHolds`, `LoggedInOnceHolds`,
  `StatusForward` (an action property: a published status never goes back). A row is
  read before its bar: it is not ahead of what is published when the bar is read
  (`InvPage`), because the status of an NZB never goes back, and what is published
  is itself at most one file ahead of the bar (`InvStatus`), because main updates
  the status first. `InvSid` says that a sid is in a browser's hands, or on its
  way, only after the password.
* `NzbMain_proofs`: `TypeCorrect`, `OkMeansThereHolds`, `NamedAsAskedHolds`,
  `ResumesWorkHolds`, `NeverReplaced` (an action property: as long as the files are
  `Apart` one that is in its place is not replaced, moved or cut short by any step,
  crash or later run), for any arguments, subjects, temporary directory and number
  of runs. The argument follows a file: it has no place yet (`InvPending`), then it
  has the latest date of its directory (`InvDecoded`), then it is in its place,
  where nothing else is ever put (`InvHome`, `InvNamed`, `InvSettled`). The last step
  is where `Apart` is needed: names, so that nothing else belongs there, and dates,
  so that the file found is the one just decoded (`LatestIsDecoded`). All else that
  is written or removed, the .big file above all, keeps what is in place (`Kept`).
* `Process_proofs`: `TypeCorrect`, `OneOwnerHolds`, `NeverInClearHolds`,
  `AliveWhenUsedHolds`, `OrderOfOptionsHolds`. `IInv` says where in its life an object has a number and a
  TLS handle, through each step of the constructors and of `Close` (`InvConn`,
  `InvServers`), what number `Accept` may still wait on (`InvNum`), and what main has
  made and undone meanwhile (`InvMade`, `InvConns`). For the types it needs
  `ApplyTyped` (no option, whatever its argument, moves a setting out of its range)
  and `PortSet` (after the options there is a port, in 1..65535). `PermissionsRight`:
  `IS_F_RWX` and `IS_F_RX` agree with the kernel for every file, user and group,
  root and supplementary groups apart. `OrderOfOptionsHolds` compares the settings
  after a command line with those after any other order of it: each setting is what
  one of the options that give it a value (`Gives`) makes of it, or its default
  (`ValueOf`, by induction along the command line), and at most one option does
  where none is repeated; `InvOpt` says that main has the settings of the options it
  has passed.

Only model-checked: liveness (`PoolTerminates`, `Terminates`, `SessionsEnd`,
`ServerStops`) and the fairness half of `ImplementsJobPool`, for which the prover
has no rules. Every invariant of the passing runs is a theorem.

## What the runs found

1. `conn_leak`: `GetHandle` marks a slot in use before `new Connection`, which
   may throw; nobody is left to free it (`connmgr.h:108-117`). Such slots add up
   until every segment fails, and Reset refuses for the rest of the program.
   `FetchFile`'s `EnoughConnections` shows that this is the only way to
   run out of connections.
2. `nzb_big`: `get_latest_yydecoded` takes any file of the directory, and of files
   with one `st_mtime`, in seconds, the first that `readdir` gives
   (`nzb.cpp:477-495`). By default (`settings.cpp:36-37`) the program's own .big file is
   among them; it was closed just before yydecode ran. If it comes first it is
   renamed, undecoded, to the subject's name, the decoded file keeps yydecode's
   name, which the next file of that name replaces, and the page says
   "Done (Ok)". Another `-T` avoids it.
3. `head_auth`: `fetch_head` reads up to the end of a multi-line answer before
   it looks at the code (`nzb.cpp:243`); a 480 is one line, so the authentication
   that `nzb.cpp:244` speaks of is not reached before the time-out.
4. `nzb_same_name`: `nzb_jobs` is keyed by base name (`main.cpp:319`), the second
   of two equal ones replaces the first, and the NZB is reported as done.

Met while modelling, with nothing in the repository to hold against them, and
therefore without a run of their own:

* `Accept` ends the server on every error but a time-out or an interrupt, also
  on those that pass, such as a table of descriptors that is full for a moment
  (`connection.cpp:267-268`): there are no pages for the rest of the program.
* A browser or a server that has closed raises SIGPIPE (`connection.cpp:313`), which
  ends the program where it is (`BrokenPipe`).
* `Connection::Init` uses the answer of `gethostbyname` without a test
  (`connection.cpp:422`): a host whose own name does not resolve crashes there. With
  `-r`, several threads share the static result of that function
  (`connection.cpp:178`).
* `fetch_body` receives up to `bufSize` bytes into a vector that may have no more
  (`nzb.cpp:360`). An answer that ends with the last of them has its `'\0'` written one
  past the vector (`nzb.cpp:380`), and `dot_unstuff`'s `strstr` reads it there. The
  sizes of an NZB leave 2048 bytes for the headers of an article, so that it takes
  an article of just that excess. The model takes the `'\0'` to be found where it was
  written; the rest of the code then writes the right body.
* `f_bstream` opens its file with `in|out` (`nzb.cpp:62`), which does not create
  it, and nothing else does: with `-F` the first segment's stream throws
  "Can't open (r/w) file", and nothing can be downloaded, though the help offers
  the option. In `FetchFile` such a file ends as "noopen".
* A negative `-t` sets the connections to 1000 (`main.cpp:143`) and not the time,
  which stays negative; unless a `-c` follows, `ThreadPool` refuses that number and
  the first file ends the program.
* After an answer that overran its buffer (`nzb.cpp:187`) the connection goes back
  to the pool with the rest unread. From then on each session takes what was
  left for the answer to its first command and adds an answer of its own, so
  that the lag may grow, until a BODY is given the answer to an older HEAD. An
  earlier `OwnBody`, which allowed this up to the next whole session, held on three
  sessions and not on nine; it now speaks of connections without such a loss.
* `yydecode -f` replaces what has the name. A file that yydecode itself names as
  its subject asks, selected from two NZBs, is decoded twice; if the second
  decoding breaks off, a part of it replaces the good file while the page says
  "Done (Ok)" of the first NZB. The same happens to files whose names clash. The
  proof of `OkMeansThere` did not go through without `Apart`, and the model checker
  found these behaviours on an instance with such a file.
* `get_latest_yydecoded` returns nothing when the target name exists
  (`nzb.cpp:480-483`), also when it is the file just decoded: a file that needs no
  renaming is logged as "bad names. Manual intervention required"
  (`nzb.cpp:694`), and the test `l_yydecoded != f_name` is always true.

## Not modelled

* `shared_ptr.h`: a reference count touched by one thread or under `ConnMgr`'s
  lock; a sequential container.
* `notify.cpp` beyond the place of its singleton in the order of destruction: the
  calls into libnotify change nothing of the program's state.
* Of `connection.cpp`, the byte counters, the list of local addresses and
  `IsGoodIpAddress`, which nothing uses; what TLS does with the bytes.
* The HTML, malformed requests, the XML, logging, dates and sizes: formatting
  and pure input.
* `fetch_article`, which is never called.
* The cancelling of threads when the pool cannot be created (`mt.h:271`), which is
  undefined behaviour: the cancelled threads are not joined.
* `system()`'s treatment of SIGINT while yydecode runs (`yDec.cpp:28`).
* `ostr.close()` is not tested (`nzb.cpp:679`): if the last buffer of the .big file
  cannot be written, a file without its end is decoded. `FetchFile` takes the
  concatenation to be whole or to throw.
* `-x nan` gives a fraction that neither clamp catches (`main.cpp:154-156`), after
  which no comparison with it holds and no file is repaired; `Option` has a number.
* Failures of `remove()` on a temporary file, and directories that another program
  writes to meanwhile.
* The percentage of bad segments (`nzb.cpp:636`) is a comparison of floats; the model
  compares exactly, the segments being too few for a rounding to matter.

## Plan

1. Done: `JobPool`, `ThreadPool`, `ConnMgr`, `FetchFile`, `NntpSession`, `FetchBody`,
   `WebServer`, `NzbMain`, `Options` and `Process`, with every safety property of each
   proved, and the safety half of the refinement.
2. Left to model: nothing planned; what is left out is under *Not modelled*.
3. Left to prove: nothing that this prover can reach. Liveness would need rules for
   fairness and ENABLED.
