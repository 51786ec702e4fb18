------------------------------ MODULE NzbMain ------------------------------
(***************************************************************************)
(* The program from its arguments to the output directory: main's two      *)
(* loops (main.cpp) over the NZBs, what get_NZB_content (nzb_file.cpp)     *)
(* selects of each, and the end of fetch_nzb_file (nzb.cpp), where the     *)
(* segments are put together in a temporary file, yydecode makes another   *)
(* of it, and that one is looked for by its date and renamed.  By default  *)
(* both are written to the same directory.                                 *)
(* The program is run again and again on the same output directory, and    *)
(* may be stopped or killed anywhere.                                      *)
(*                                                                         *)
(* A file is a model value: its subject, segments and content.  How its    *)
(* segments are downloaded is FetchFile's.                                 *)
(***************************************************************************)
EXTENDS Integers, Sequences

CONSTANTS
    Args,        \* the NZBs of the command line: [name, dir, files], in order
    Quoted,      \* the name between double quotes in a file's subject, or NoName
    YName,       \* the name yydecode gives the file
    Mentions,    \* the names that is_already finds in the file's subject
    Par,         \* the files with ".par2" in their subject
    NoName,      \* an empty get_filename
    SkipPar,     \* settings::NNTP_skip_par (-P)
    OutDirName,  \* settings::OUT_DIR_NAME (-d)
    TmpDir,      \* settings::TMP_DIR, by default the output directory (-T, -o)
    BigName,     \* the name of a run's ".big" file, with its pid and a random number
    NRuns        \* how often the program is run

Files == DOMAIN Quoted
FileNames == {YName[f] : f \in Files} \cup ({Quoted[f] : f \in Files} \ {NoName})
Names == FileNames \cup {BigName[r] : r \in 1 .. NRuns}

ASSUME ArgsAssumption ==
    /\ DOMAIN YName = Files /\ DOMAIN Mentions = Files /\ Par \subseteq Files
    /\ Args \in Seq([name : Nat \ {0}, dir : STRING, files : Seq(Files)])
    /\ \A f \in Files : YName[f] # NoName
    /\ NRuns \in Nat \ {0}
    /\ {SkipPar, OutDirName} \subseteq BOOLEAN
\* lc() and alphanum_lower(): a subject contains what it has between quotes.
ASSUME QuotedAssumption ==
    \A f \in Files : Quoted[f] # NoName => Quoted[f] \in Mentions[f]
\* ".myNZB.tmp.<pid>.<random>.big" is no posted file's name.
ASSUME BigAssumption ==
    /\ TmpDir \in STRING
    /\ \A r \in 1 .. NRuns : BigName[r] \notin FileNames

OutDir(k) == IF OutDirName THEN Args[k].dir ELSE "out"
Dirs == {OutDir(k) : k \in DOMAIN Args}
Jobs == {Args[k].name : k \in DOMAIN Args}

VARIABLES
    runs,      \* how often the program has been started
    main,      \* where main is
    i,         \* the argument of the first loop
    nzb_jobs,  \* the map of the first loop: an argument, its selected places
    page,      \* what www::update has been told last
    cur,       \* the entry of the second loop
    idx,       \* the place of the file in it
    is_ok,     \* main's is_ok
    disk,      \* the directories: what is behind each name
    named,     \* history: <<dir, file>> decoded, its subject's name given to some file
    before,    \* history: those of the runs that are over
    wanted,    \* history: <<dir, file>> that this run has selected
    tried,     \* history: <<dir, file>> that this run has tried to download
    warned,    \* history: a rename() has failed, which the log says
    tied       \* history: the date did not tell which file to rename

loopVars == <<i, nzb_jobs>>
curVars == <<cur, idx, is_ok>>
histVars == <<named, before, wanted, tried, warned, tied>>
vars == <<runs, main, loopVars, page, curVars, disk, histVars>>

\* What is behind a name: the file it was made from, whether its st_mtime is that of
\* what was written last, and whether it is the file, decoded to its end.
Entry == [of : Files, late : BOOLEAN, whole : BOOLEAN]
NoFile == [of |-> "nothing", late |-> FALSE, whole |-> FALSE]
There(d) == {x \in Names : disk[d][x] # NoFile}

TypeOK ==
    /\ runs \in 1 .. NRuns
    /\ main \in {"add", "next", "file", "fetch", "decode", "rename", "end", "left"}
    /\ i \in 1 .. Len(Args) + 1
    /\ DOMAIN nzb_jobs \subseteq Jobs /\ DOMAIN page = DOMAIN nzb_jobs
    /\ \A z \in DOMAIN nzb_jobs :
        /\ nzb_jobs[z].arg \in DOMAIN Args /\ Args[nzb_jobs[z].arg].name = z
        /\ nzb_jobs[z].todo \subseteq DOMAIN Args[nzb_jobs[z].arg].files
        /\ page[z] \in {"n/a", "ok", "errors"}
    /\ cur \in {0} \cup DOMAIN nzb_jobs
    /\ main \in {"file", "fetch", "decode", "rename"} => cur # 0
    /\ main \in {"fetch", "decode", "rename"} => idx \in nzb_jobs[cur].todo
    /\ idx \in Nat
    /\ is_ok \in BOOLEAN
    /\ disk \in [Dirs -> [Names -> {NoFile} \cup Entry]]
    /\ {named, before, wanted, tried} \subseteq SUBSET (Dirs \X Files)
    /\ warned \in BOOLEAN /\ tied \in BOOLEAN

Init ==
    /\ runs = 1 /\ main = "add" /\ i = 1
    /\ nzb_jobs = <<>> /\ page = <<>>
    /\ cur = 0 /\ idx = 0 /\ is_ok = TRUE
    /\ disk = [d \in Dirs |-> [x \in Names |-> NoFile]]
    /\ named = {} /\ before = {} /\ wanted = {} /\ tried = {} /\ warned = FALSE /\ tied = FALSE

-----------------------------------------------------------------------------
(* The first loop.                                                         *)

\* f[x] = v, in a std::map.
Put(f, x, v) == [y \in DOMAIN f \cup {x} |-> IF y = x THEN v ELSE f[y]]

\* Mutant: the directory is not looked at.
SelectedAll(k) ==
    {p \in DOMAIN Args[k].files : ~(SkipPar /\ Args[k].files[p] \in Par)}

\* get_NZB_content: no ".par2" with -P, and no file whose subject has the name
\* of a file that is there.
Selected(k) ==
    {p \in DOMAIN Args[k].files :
        LET f == Args[k].files[p] IN
        ~(SkipPar /\ f \in Par) /\ Mentions[f] \cap There(OutDir(k)) = {}}

Pairs(k, ps) == {<<OutDir(k), Args[k].files[p]>> : p \in ps}

\* Mutant: an NZB with nothing to download is not reported.
AddNzbQuietly ==
    /\ main = "add" /\ i <= Len(Args) /\ i' = i + 1
    /\ LET ps == Selected(i) IN
       /\ nzb_jobs' = Put(nzb_jobs, Args[i].name, [arg |-> i, todo |-> ps])
       /\ page' = IF ps = {} THEN page ELSE Put(page, Args[i].name, "n/a")
       /\ wanted' = wanted \cup Pairs(i, ps)
    /\ UNCHANGED <<runs, main, curVars, disk, named, before, tried, warned, tied>>

\* The NZB is read, and takes the entry of its name.
AddNzb ==
    /\ main = "add" /\ i <= Len(Args) /\ i' = i + 1
    /\ LET ps == Selected(i) IN
       /\ nzb_jobs' = Put(nzb_jobs, Args[i].name, [arg |-> i, todo |-> ps])
       /\ page' = Put(page, Args[i].name, IF ps = {} THEN "ok" ELSE "n/a")
       /\ wanted' = wanted \cup Pairs(i, ps)
    /\ UNCHANGED <<runs, main, curVars, disk, named, before, tried, warned, tied>>

\* It is not an NZB, or its directory cannot be made: the next one.
RefuseNzb ==
    /\ main = "add" /\ i <= Len(Args) /\ i' = i + 1
    /\ UNCHANGED <<runs, main, nzb_jobs, page, curVars, disk, histVars>>

-----------------------------------------------------------------------------
(* The second loop.                                                        *)

Later == {z \in DOMAIN nzb_jobs : z > cur}

\* The next entry, in the order of the map, or the end.
NextNzb ==
    /\ \/ main = "add" /\ i > Len(Args)
       \/ main = "next"
    /\ \/ /\ main' = "file" /\ idx' = 0 /\ is_ok' = TRUE
          /\ cur' \in Later /\ \A z \in Later : cur' <= z
       \/ Later = {} /\ main' = "end" /\ UNCHANGED curVars
    /\ UNCHANGED <<runs, loopVars, page, disk, histVars>>

Job == nzb_jobs[cur]
JobDir == OutDir(Job.arg)
JobFile == Args[Job.arg].files[idx]

Rest == {p \in Job.todo : p > idx}

NextFile ==
    /\ main = "file" /\ main' = "fetch"
    /\ idx' \in Rest /\ \A p \in Rest : idx' <= p
    /\ tried' = tried \cup {<<JobDir, Args[Job.arg].files[idx']>>}
    /\ UNCHANGED <<runs, loopVars, page, cur, is_ok, disk, named, before, wanted, warned, tied>>

NzbDone ==
    /\ main = "file" /\ Rest = {}
    /\ main' = "next"
    /\ page' = [page EXCEPT ![cur] = IF is_ok THEN "ok" ELSE "errors"]
    /\ UNCHANGED <<runs, loopVars, curVars, disk, histVars>>

\* Mutant: main's is_ok is that of the last file.
ReturnsTrueForAll == main' = "file" /\ is_ok' = TRUE /\ UNCHANGED <<cur, idx>>

\* fetch_nzb_file returns true, or false.
ReturnsTrue == main' = "file" /\ UNCHANGED curVars
ReturnsFalse == main' = "file" /\ is_ok' = FALSE /\ UNCHANGED <<cur, idx>>

\* The segments cannot be had.
NotFetched ==
    /\ main = "fetch" /\ ReturnsFalse
    /\ UNCHANGED <<runs, loopVars, page, disk, histVars>>

\* A later second: nothing that is there has its date.
Aged == [d \in Dirs |-> [x \in Names |-> [disk[d][x] EXCEPT !.late = FALSE]]]

\* What main's file gives is written to name x of directory d, in the second of
\* what was written before it or in a later one.
Written(d, x, whole) ==
    {[old EXCEPT ![d][x] = [of |-> JobFile, late |-> TRUE, whole |-> whole]] : old \in {disk, Aged}}

\* The segments are put together in the run's .big file.
Concat ==
    /\ main = "fetch" /\ main' = "decode"
    /\ disk' \in IF TmpDir \in Dirs THEN Written(TmpDir, BigName[runs], FALSE) ELSE {disk}
    /\ UNCHANGED <<runs, loopVars, page, curVars, histVars>>

\* ~auto_filer, at the end of fetch_nzb_file: the .big file goes, if it still has
\* its name.
WithoutBig(s) ==
    IF TmpDir \in Dirs THEN [s EXCEPT ![TmpDir][BigName[runs]] = NoFile] ELSE s

\* yydecode -f takes the place of what has the name.
Decode ==
    /\ main = "decode" /\ main' = "rename"
    /\ disk' \in Written(JobDir, YName[JobFile], TRUE)
    /\ UNCHANGED <<runs, loopVars, page, curVars, histVars>>

\* It fails, with a part of the file written.
DecodeFails ==
    /\ main = "decode" /\ ReturnsFalse
    /\ \E s \in Written(JobDir, YName[JobFile], FALSE) : disk' = WithoutBig(s)
    /\ UNCHANGED <<runs, loopVars, page, histVars>>

\* Mutant: the first file that readdir returns.
LatestAny(d) == There(d)

\* get_latest_yydecoded: a file that none is later than, the first of them in
\* readdir's order.  The .big file is one of them where it is in that directory.
Latest(d) == {x \in There(d) : \A y \in There(d) : disk[d][y].late => disk[d][x].late}

\* Another file has the date of the one that yydecode has just written.
SameDate(d) == \E x, y \in There(d) : x # y /\ disk[d][x].late /\ disk[d][y].late

\* There is no name in the subject, or a file has it: the file keeps yydecode's.
KeepsName ==
    /\ main = "rename" /\ ReturnsTrue
    /\ Quoted[JobFile] \in There(JobDir) \cup {NoName}
    /\ disk' = WithoutBig(disk)
    /\ named' = IF Quoted[JobFile] = YName[JobFile]
                THEN named \cup {<<JobDir, JobFile>>} ELSE named
    /\ UNCHANGED <<runs, loopVars, page, before, wanted, tried, warned, tied>>

\* The latest file gets the name of the subject.
Rename ==
    /\ main = "rename" /\ ReturnsTrue
    /\ Quoted[JobFile] \notin There(JobDir) \cup {NoName}
    /\ \E x \in Latest(JobDir) :
        disk' = WithoutBig([disk EXCEPT ![JobDir] =
                               [@ EXCEPT ![Quoted[JobFile]] = disk[JobDir][x], ![x] = NoFile]])
    /\ named' = named \cup {<<JobDir, JobFile>>}
    /\ tied' = (tied \/ SameDate(JobDir))
    /\ UNCHANGED <<runs, loopVars, page, before, wanted, tried, warned>>

\* rename() fails, which is logged.
RenameFails ==
    /\ main = "rename" /\ ReturnsTrue
    /\ Quoted[JobFile] \notin There(JobDir) \cup {NoName}
    /\ disk' = WithoutBig(disk)
    /\ warned' = TRUE
    /\ UNCHANGED <<runs, loopVars, page, named, before, wanted, tried, tied>>

\* The first signal, or an exception, ends the program through ~auto_filer; the
\* second one, or a crash, stops it anywhere, with its .big file where it is.
Leaves ==
    /\ main \notin {"end", "left"} /\ main' = "left"
    /\ disk' \in {disk, WithoutBig(disk)}
    /\ UNCHANGED <<runs, loopVars, page, curVars, histVars>>

\* The same command again.
Again ==
    /\ main \in {"end", "left"} /\ runs < NRuns
    /\ runs' = runs + 1 /\ main' = "add" /\ i' = 1
    /\ nzb_jobs' = <<>> /\ page' = <<>>
    /\ cur' = 0 /\ idx' = 0 /\ is_ok' = TRUE
    /\ before' = before \cup named
    /\ wanted' = {} /\ tried' = {}
    /\ UNCHANGED <<named, disk, warned, tied>>

Done == main \in {"end", "left"} /\ runs = NRuns

Next ==
    \/ AddNzb \/ RefuseNzb \/ NextNzb \/ NextFile \/ NzbDone
    \/ NotFetched \/ Concat \/ Decode \/ DecodeFails \/ KeepsName \/ Rename \/ RenameFails
    \/ Leaves \/ Again \/ (Done /\ UNCHANGED vars)

Spec == Init /\ [][Next]_vars
-----------------------------------------------------------------------------
\* The name a file ends under.
Home(f) == IF Quoted[f] = NoName THEN YName[f] ELSE Quoted[f]

\* What the directory needs for files not to take each other's names, since
\* yydecode -f replaces what has the name: a file's final name is nobody else's,
\* and a file that yydecode puts under its final name at once is asked for once
\* (its second copy would be written over the first).
NamesApart ==
    /\ \A f, g \in Files : f # g => Home(f) \notin {Home(g), YName[g]}
    /\ \A k, l \in DOMAIN Args :
        \A p \in DOMAIN Args[k].files, q \in DOMAIN Args[l].files :
            LET f == Args[k].files[p] IN
            YName[f] = Home(f) /\ Args[l].files[q] = f => k = l /\ p = q

\* The files can be told apart, by their names, and so far by their dates: none in
\* the directory had the date of a file just decoded when that was looked for.
Apart == NamesApart /\ ~tied

\* When an NZB is reported "Done (Ok)" every file that was selected from it is
\* in the output directory, whole, whatever the other files, the renames and
\* the runs before have put there, unless a rename() has failed (main's second
\* loop and the end of fetch_nzb_file).
OkMeansThere ==
    Apart /\ ~warned => \A z \in DOMAIN page : page[z] = "ok" =>
        \A p \in Pairs(nzb_jobs[z].arg, nzb_jobs[z].todo) :
            \E x \in There(p[1]) : disk[p[1]][x].of = p[2] /\ disk[p[1]][x].whole

\* The file that has been renamed, or had its name already, is the one whose
\* subject asks for that name: get_latest_yydecoded finds what yydecode has
\* just written.
NamedAsAsked ==
    Apart => \A p \in named :
        LET e == disk[p[1]][Quoted[p[2]]] IN e.of = p[2] /\ e.whole

\* A file that an earlier run has put in its place is not downloaded again,
\* even if that run did not come to its end (list_dir and is_already, against
\* the names that Rename has given).
ResumesWork ==
    Apart => \A z \in DOMAIN nzb_jobs :
        Pairs(nzb_jobs[z].arg, nzb_jobs[z].todo) \cap before = {}

\* nzb.cpp's comment, "try to rename the latest yydecoded file": what gets the name
\* of the subject has been written by yydecode, to its end.
RenamesDecoded ==
    NamesApart => \A p \in named : disk[p[1]][Quoted[p[2]]].whole

\* main's comment, "create a struct for each nzb": a run that comes to its end
\* has tried every file that it selected.
EveryNzbServed == main = "end" => wanted \subseteq tried
=============================================================================
