-------------------------- MODULE NzbMain_proofs --------------------------
(***************************************************************************)
(* What holds of NzbMain for any arguments, subjects, names and temporary  *)
(* directory and any number of runs.  Everything but the types depends on  *)
(* Apart: without it a later yydecode -f may take the place of a file that *)
(* was good, or another file, the run's own .big one among them, may be    *)
(* renamed in the place of what has been decoded.                          *)
(*                                                                         *)
(* The argument follows one file: from its selection to its decoding it    *)
(* has no place yet (InvPending), then it has the latest date of its       *)
(* directory (InvDecoded), then it is in its place, where no other file    *)
(* is ever put (InvHome, InvNamed, InvSettled).  Dates, and the .big file, *)
(* come and go without disturbing what is in its place (Kept).             *)
(***************************************************************************)
EXTENDS NzbMain, SequenceTheorems, TLAPS

\* TypeOK in four parts: where main is, the jobs, the directories, the history.
TypeMain ==
    /\ runs \in 1 .. NRuns
    /\ main \in {"add", "next", "file", "fetch", "decode", "rename", "end", "left"}
    /\ i \in 1 .. Len(Args) + 1
    /\ is_ok \in BOOLEAN /\ warned \in BOOLEAN /\ tied \in BOOLEAN

TypeJobs ==
    /\ DOMAIN nzb_jobs \subseteq Jobs /\ DOMAIN page = DOMAIN nzb_jobs
    /\ \A z \in DOMAIN nzb_jobs :
        /\ nzb_jobs[z].arg \in DOMAIN Args /\ Args[nzb_jobs[z].arg].name = z
        /\ nzb_jobs[z].todo \subseteq DOMAIN Args[nzb_jobs[z].arg].files
        /\ page[z] \in {"n/a", "ok", "errors"}
    /\ cur \in {0} \cup DOMAIN nzb_jobs
    /\ main \in {"file", "fetch", "decode", "rename"} => cur # 0
    /\ main \in {"fetch", "decode", "rename"} => idx \in nzb_jobs[cur].todo
    /\ idx \in Nat

DiskType == [Dirs -> [Names -> {NoFile} \cup Entry]]
TypeDisk == disk \in DiskType

TypeHist ==
    /\ named \subseteq Dirs \X Files /\ before \subseteq Dirs \X Files
    /\ wanted \subseteq Dirs \X Files /\ tried \subseteq Dirs \X Files

\* File f is in directory d, whole, under the name it ends under.
InPlace(d, f) == disk[d][Home(f)].of = f /\ disk[d][Home(f)].whole

DirOf(z) == OutDir(nzb_jobs[z].arg)
FileOf(z, p) == Args[nzb_jobs[z].arg].files[p]

\* Place p of entry z has not been decoded and named yet.
Pending(z, p) ==
    \/ z > cur
    \/ z = cur /\ p > idx
    \/ z = cur /\ p = idx /\ main \in {"fetch", "decode", "rename"}

\* Place p of entry z is good, as far as main knows.
Settled(z, p) ==
    \/ page[z] = "ok"
    \/ z = cur /\ is_ok /\ main = "file" /\ p <= idx
    \/ z = cur /\ is_ok /\ main \in {"fetch", "decode", "rename"} /\ p < idx

\* The first loop comes before the second, and the page says "ok" of entries
\* that the second loop has left behind.
InvFrame ==
    /\ main = "add" => cur = 0
    /\ main = "file" \/ main = "next" => cur # 0
    /\ \A z \in DOMAIN nzb_jobs :
         page[z] = "ok" /\ nzb_jobs[z].todo # {} =>
            z < cur \/ (z = cur /\ main \notin {"file", "fetch", "decode", "rename"})

\* A final name that yydecode does not give belongs to its file.
InvHome ==
    \A d \in Dirs, f \in Files :
        YName[f] # Home(f) /\ disk[d][Home(f)] # NoFile => InPlace(d, f)

\* Nothing is later than what yydecode has just written.
InvDecoded ==
    main = "rename" =>
        disk[JobDir][YName[JobFile]] = [of |-> JobFile, late |-> TRUE, whole |-> TRUE]

InvNamed ==
    /\ before \subseteq named
    /\ \A d \in Dirs, f \in Files :
         <<d, f>> \in named => Quoted[f] # NoName /\ InPlace(d, f)

\* What is selected was not there; what yydecode itself will put in its place is
\* not there yet.
InvPending ==
    \A z \in DOMAIN nzb_jobs : \A p \in nzb_jobs[z].todo :
        /\ <<DirOf(z), FileOf(z, p)>> \notin before
        /\ Pending(z, p) /\ YName[FileOf(z, p)] = Home(FileOf(z, p)) =>
             <<DirOf(z), FileOf(z, p)>> \notin named

InvSettled ==
    ~warned => \A z \in DOMAIN nzb_jobs : \A p \in nzb_jobs[z].todo :
        Settled(z, p) => InPlace(DirOf(z), FileOf(z, p))

ApartInv == InvHome /\ InvDecoded /\ InvNamed /\ InvPending /\ InvSettled

IInv == TypeOK /\ InvFrame /\ (Apart => ApartInv)

-----------------------------------------------------------------------------
(* The operators.                                                          *)

\* The arguments and the final names are what they should be.
LEMMA ConstantFacts ==
    /\ \A k \in DOMAIN Args : /\ Args[k].name \in Jobs /\ Args[k].name \in Nat \ {0}
                              /\ OutDir(k) \in Dirs
                              /\ \A p \in DOMAIN Args[k].files :
                                   p \in Nat \ {0} /\ Args[k].files[p] \in Files
    /\ \A f \in Files : /\ YName[f] \in FileNames /\ Home(f) \in FileNames
                        /\ Quoted[f] # NoName => Quoted[f] \in FileNames /\ Home(f) = Quoted[f]
    /\ FileNames \subseteq Names
  <1> DEFINE Arg == [name : Nat \ {0}, dir : STRING, files : Seq(Files)]
  <1>1. Args \in Seq(Arg)
    BY ArgsAssumption
  <1> HIDE DEF Arg
  <1>2. \A k \in DOMAIN Args : Args[k] \in Arg
    BY <1>1, ElementOfSeq, LenProperties
  <1>3. \A k \in DOMAIN Args : Args[k].name \in Nat \ {0} /\ Args[k].files \in Seq(Files)
    BY <1>2 DEF Arg
  <1>4. ASSUME NEW k \in DOMAIN Args, NEW p \in DOMAIN Args[k].files
        PROVE  p \in Nat \ {0} /\ Args[k].files[p] \in Files
    <2>1. Args[k].files \in Seq(Files) /\ p \in 1 .. Len(Args[k].files)
      BY <1>3, LenProperties
    <2>2. Args[k].files[p] \in Files
      BY <2>1, ElementOfSeq
    <2>3. Len(Args[k].files) \in Nat
      BY <2>1, LenProperties
    <2> QED
      BY <2>1, <2>2, <2>3
  <1>5. \A k \in DOMAIN Args : Args[k].name \in Jobs /\ OutDir(k) \in Dirs
    BY DEF Jobs, Dirs
  <1> QED
    BY <1>3, <1>4, <1>5, ArgsAssumption DEF Names, FileNames, Home

\* The current place is one of the current entry, and so is every other.
LEMMA EntryFacts ==
    ASSUME TypeOK, NEW z \in DOMAIN nzb_jobs, NEW p \in nzb_jobs[z].todo
    PROVE  DirOf(z) \in Dirs /\ FileOf(z, p) \in Files
  BY ConstantFacts DEF TypeOK, DirOf, FileOf

\* Of the file main is at: its entry, its directory and its name.
LEMMA JobFacts ==
    ASSUME TypeOK, main \in {"fetch", "decode", "rename"}
    PROVE  /\ cur \in DOMAIN nzb_jobs /\ idx \in nzb_jobs[cur].todo
           /\ JobDir \in Dirs /\ JobFile \in Files
           /\ JobDir = DirOf(cur) /\ JobFile = FileOf(cur, idx)
  <1>1. cur \in DOMAIN nzb_jobs /\ idx \in nzb_jobs[cur].todo
    BY DEF TypeOK
  <1> QED
    BY <1>1, EntryFacts DEF JobDir, JobFile, Job, DirOf, FileOf

\* Under Apart a file that yydecode puts in its place has one place in the jobs.
LEMMA OnePlace ==
    ASSUME TypeOK, Apart,
           NEW z \in DOMAIN nzb_jobs, NEW p \in nzb_jobs[z].todo,
           NEW y \in DOMAIN nzb_jobs, NEW q \in nzb_jobs[y].todo,
           FileOf(z, p) = FileOf(y, q), YName[FileOf(z, p)] = Home(FileOf(z, p))
    PROVE  z = y /\ p = q
  BY DEF TypeOK, Apart, NamesApart, FileOf

\* f[x] = v.
LEMMA PutFacts ==
    ASSUME NEW f, NEW x, NEW v
    PROVE  /\ DOMAIN Put(f, x, v) = DOMAIN f \cup {x}
           /\ Put(f, x, v)[x] = v
           /\ \A y \in DOMAIN f \ {x} : Put(f, x, v)[y] = f[y]
  BY DEF Put

\* On disk s, what has name x in directory d is what has it on the disk, but perhaps
\* for its date.
Kept(s, d, x) ==
    /\ s[d][x].of = disk[d][x].of /\ s[d][x].whole = disk[d][x].whole
    /\ s[d][x] # NoFile => disk[d][x] # NoFile

\* A file is written, and the others are kept.
LEMMA WrittenFacts ==
    ASSUME TypeOK, NEW d \in Dirs, NEW x \in Names, NEW w \in BOOLEAN, JobFile \in Files,
           NEW s \in Written(d, x, w)
    PROVE  /\ s \in DiskType
           /\ s[d][x] = [of |-> JobFile, late |-> TRUE, whole |-> w]
           /\ \A e \in Dirs, y \in Names : ~(e = d /\ y = x) => Kept(s, e, y)
  <1> DEFINE new == [of |-> JobFile, late |-> TRUE, whole |-> w]
  <1>1. disk \in DiskType
    BY DEF TypeOK, DiskType
  <1>2. /\ Aged \in DiskType
        /\ \A e \in Dirs, y \in Names : Kept(Aged, e, y)
    <2>1. ASSUME NEW e \in Dirs, NEW y \in Names
          PROVE  /\ Aged[e][y] \in {NoFile} \cup Entry
                 /\ Kept(Aged, e, y)
      <3>1. Aged[e][y] = [disk[e][y] EXCEPT !.late = FALSE]
        BY DEF Aged
      <3>2. disk[e][y] \in {NoFile} \cup Entry
        BY <1>1 DEF DiskType
      <3>3. CASE disk[e][y] = NoFile
        <4>1. [NoFile EXCEPT !.late = FALSE] = NoFile
          <5>1. [NoFile EXCEPT !.late = NoFile.late] = NoFile
            BY DEF NoFile
          <5>2. NoFile.late = FALSE
            BY DEF NoFile
          <5> QED
            BY <5>1, <5>2, Zenon
        <4> QED
          BY <3>1, <3>3, <4>1 DEF Kept
      <3>4. ASSUME disk[e][y] \in Entry
            PROVE  /\ Aged[e][y] \in Entry
                   /\ Aged[e][y].of = disk[e][y].of /\ Aged[e][y].whole = disk[e][y].whole
        <4>1. PICK h : h = disk[e][y] /\ h \in Entry
          BY <3>4
        <4>2. /\ [h EXCEPT !.late = FALSE] \in Entry
              /\ [h EXCEPT !.late = FALSE].of = h.of /\ [h EXCEPT !.late = FALSE].whole = h.whole
          BY <4>1 DEF Entry
        <4> QED
          BY <3>1, <4>1, <4>2
      <3> QED
        BY <3>2, <3>3, <3>4 DEF Kept
    <2> QED
      BY <2>1 DEF Aged, DiskType
  <1>3. \A e \in Dirs, y \in Names : Kept(disk, e, y)
    BY DEF Kept
  <1>4. PICK old \in {disk, Aged} : s = [old EXCEPT ![d][x] = new]
    BY DEF Written
  <1>5. old \in DiskType /\ \A e \in Dirs, y \in Names : Kept(old, e, y)
    BY <1>1, <1>2, <1>3
  <1>6. new \in Entry
    BY DEF Entry
  <1> HIDE DEF new
  <1>7. s \in DiskType /\ s[d][x] = new
    BY <1>4, <1>5, <1>6 DEF DiskType
  <1>8. \A e \in Dirs, y \in Names : ~(e = d /\ y = x) => s[e][y] = old[e][y]
    BY <1>4, <1>5 DEF DiskType
  <1> QED
    BY <1>5, <1>7, <1>8 DEF new, Kept

\* ~auto_filer takes nothing but the .big file.
LEMMA WithoutBigFacts ==
    ASSUME TypeOK, NEW s \in DiskType
    PROVE  /\ WithoutBig(s) \in DiskType
           /\ \A e \in Dirs, y \in FileNames : WithoutBig(s)[e][y] = s[e][y]
  <1>1. BigName[runs] \in Names /\ BigName[runs] \notin FileNames
    BY BigAssumption DEF TypeOK, Names
  <1>2. CASE TmpDir \in Dirs
    <2>1. WithoutBig(s) = [s EXCEPT ![TmpDir][BigName[runs]] = NoFile]
      BY <1>2 DEF WithoutBig
    <2> QED
      BY <1>1, <1>2, <2>1, ConstantFacts DEF DiskType
  <1>3. CASE TmpDir \notin Dirs
    BY <1>3 DEF WithoutBig
  <1> QED
    BY <1>2, <1>3

\* Neither the writing of the .big file nor its removal changes anything else.
LEMMA OthersKept ==
    ASSUME TypeOK,
           \/ Concat
           \/ disk' \in {disk, WithoutBig(disk)}
    PROVE  disk' \in DiskType /\ \A e \in Dirs, y \in FileNames : Kept(disk', e, y)
  <1>1. disk \in DiskType /\ FileNames \subseteq Names
    BY ConstantFacts DEF TypeOK, DiskType
  <1>2. CASE disk' \in {disk, WithoutBig(disk)}
    <2>1. WithoutBig(disk) \in DiskType
          /\ \A e \in Dirs, y \in FileNames : WithoutBig(disk)[e][y] = disk[e][y]
      BY <1>1, WithoutBigFacts
    <2> QED
      BY <1>1, <1>2, <2>1 DEF Kept
  <1>3. CASE Concat /\ TmpDir \in Dirs
    <2>1. JobFile \in Files /\ disk' \in Written(TmpDir, BigName[runs], FALSE)
      BY <1>3, JobFacts DEF Concat
    <2>2. BigName[runs] \in Names /\ BigName[runs] \notin FileNames
      BY BigAssumption DEF TypeOK, Names
    <2> QED
      BY <1>1, <1>3, <2>1, <2>2, WrittenFacts
  <1>4. CASE Concat /\ TmpDir \notin Dirs
    BY <1>1, <1>4 DEF Concat, Kept
  <1> QED
    BY <1>2, <1>3, <1>4

\* yydecode writes main's file under its name, and keeps the others.
LEMMA DecodeFacts ==
    ASSUME TypeOK, NEW d \in Dirs, NEW g \in Files, d = JobDir, g = JobFile,
           Decode \/ DecodeFails
    PROVE  /\ disk' \in DiskType
           /\ Decode => disk'[d][YName[g]] = [of |-> g, late |-> TRUE, whole |-> TRUE]
           /\ \A e \in Dirs, y \in FileNames :
                ~(e = d /\ y = YName[g]) => Kept(disk', e, y)
  <1>1. YName[g] \in FileNames /\ FileNames \subseteq Names
    BY ConstantFacts
  <1>2. CASE Decode
    <2>1. disk' \in Written(d, YName[g], TRUE)
      BY <1>2 DEF Decode
    <2> QED
      BY <1>1, <2>1, WrittenFacts
  <1>3. CASE DecodeFails /\ ~Decode
    <2>1. PICK s \in Written(d, YName[g], FALSE) : disk' = WithoutBig(s)
      BY <1>3 DEF DecodeFails
    <2>2. s \in DiskType /\ \A e \in Dirs, y \in Names :
                               ~(e = d /\ y = YName[g]) => Kept(s, e, y)
      BY <1>1, <2>1, WrittenFacts
    <2>3. disk' \in DiskType /\ \A e \in Dirs, y \in FileNames : disk'[e][y] = s[e][y]
      BY <2>1, <2>2, WithoutBigFacts
    <2> QED
      BY <1>1, <1>3, <2>2, <2>3 DEF Kept
  <1> QED
    BY <1>2, <1>3

\* rename() moves what has name x in directory d to name q.
Moves(d, x, q) ==
    disk' = WithoutBig([disk EXCEPT ![d] = [@ EXCEPT ![q] = disk[d][x], ![x] = NoFile]])

\* Every other name of a posted file keeps what it had.
LEMMA MovesFacts ==
    ASSUME TypeOK, NEW d \in Dirs, NEW x \in Names, NEW q \in FileNames, x # q,
           Moves(d, x, q)
    PROVE  /\ disk' \in DiskType
           /\ disk'[d][q] = disk[d][x]
           /\ \A e \in Dirs, y \in FileNames :
                ~(e = d /\ y \in {x, q}) => disk'[e][y] = disk[e][y]
  <1> DEFINE s == [disk EXCEPT ![d] = [disk[d] EXCEPT ![q] = disk[d][x], ![x] = NoFile]]
  <1>1. disk \in DiskType /\ FileNames \subseteq Names
    BY ConstantFacts DEF TypeOK, DiskType
  <1>2. disk' = WithoutBig(s)
    BY DEF Moves
  <1>3. /\ s \in DiskType
        /\ s[d][q] = disk[d][x]
        /\ \A e \in Dirs, y \in Names : ~(e = d /\ y \in {x, q}) => s[e][y] = disk[e][y]
    BY <1>1 DEF DiskType
  <1> HIDE DEF s
  <1>4. disk' \in DiskType /\ \A e \in Dirs, y \in FileNames : disk'[e][y] = s[e][y]
    BY <1>2, <1>3, WithoutBigFacts
  <1> QED
    BY <1>1, <1>3, <1>4

\* If no other file of its directory has its date, what get_latest_yydecoded finds
\* is what yydecode has just written.
LEMMA LatestIsDecoded ==
    ASSUME TypeOK, NEW d \in Dirs, NEW g \in Files, ~SameDate(d),
           disk[d][YName[g]] = [of |-> g, late |-> TRUE, whole |-> TRUE],
           NEW x \in Latest(d)
    PROVE  x = YName[g] /\ YName[g] \in There(d)
  <1>1. YName[g] \in There(d)
    BY ConstantFacts DEF There, NoFile
  <1>2. x \in There(d) /\ disk[d][x].late
    BY <1>1 DEF Latest
  <1> QED
    BY <1>1, <1>2 DEF SameDate

\* The files could be told apart before a step after which they can.
LEMMA ApartBefore ==
    ASSUME TypeOK, Next, Apart'
    PROVE  Apart
  <1>1. NamesApart /\ tied' = FALSE
    BY DEF Apart, TypeOK
  <1>2. CASE Rename
    BY <1>1, <1>2, Zenon DEF Apart, Rename
  <1>3. CASE UNCHANGED tied
    BY <1>1, <1>3 DEF Apart
  <1> QED
    BY <1>2, <1>3
    DEF Next, AddNzb, RefuseNzb, NextNzb, NextFile, NzbDone, NotFetched, Concat, Decode,
        DecodeFails, KeepsName, RenameFails, Leaves, Again, vars, histVars

-----------------------------------------------------------------------------
(* The types.                                                              *)

\* The type invariant is the conjunction of its parts,
LEMMA TypeParts == TypeOK <=> TypeMain /\ TypeJobs /\ TypeDisk /\ TypeHist
  <1>1. {named, before, wanted, tried} \subseteq SUBSET (Dirs \X Files) <=> TypeHist
    BY DEF TypeHist
  <1> QED
    BY <1>1, Zenon DEF TypeOK, TypeMain, TypeJobs, TypeDisk, DiskType

\* The first run starts with no jobs and an empty disk.
LEMMA InitIInv == Init => IInv
  <1> SUFFICES ASSUME Init PROVE IInv
    OBVIOUS
  <1>1. nzb_jobs = <<>> /\ page = <<>> /\ DOMAIN <<>> = {}
    BY DEF Init
  <1>2. 1 \in 1 .. Len(Args) + 1 /\ 1 \in 1 .. NRuns
    BY ArgsAssumption, LenProperties
  <1>3. TypeOK
    <2>1. TypeMain
      BY <1>2 DEF Init, TypeMain
    <2>2. TypeJobs
      BY <1>1 DEF Init, TypeJobs
    <2>3. TypeDisk
      BY DEF Init, TypeDisk, DiskType
    <2>4. TypeHist
      BY DEF Init, TypeHist
    <2> QED
      BY <2>1, <2>2, <2>3, <2>4, TypeParts
  <1>4. InvFrame
    BY <1>1 DEF Init, InvFrame
  <1>5. ApartInv
    <2>1. DOMAIN nzb_jobs = {}
      BY <1>1
    <2>2. InvHome
      BY ConstantFacts DEF Init, InvHome
    <2> QED
      BY <2>1, <2>2 DEF Init, ApartInv, InvDecoded, InvNamed, InvPending, InvSettled
  <1> QED
    BY <1>3, <1>4, <1>5 DEF IInv

\* and so it is after a step.
LEMMA TypePartsNext == TypeOK' <=> TypeMain' /\ TypeJobs' /\ TypeDisk' /\ TypeHist'
  BY TypeParts, PTL

\* An argument that is added takes its name's entry.
LEMMA AddNzbTyped ==
    ASSUME TypeOK, InvFrame, AddNzb
    PROVE  TypeOK' /\ InvFrame'
  <1> USE TypeParts
  <1> DEFINE ps == Selected(i)  x == Args[i].name
  <1>1. /\ i \in DOMAIN Args /\ i' \in 1 .. Len(Args) + 1 /\ main = "add" /\ main' = "add"
        /\ cur = 0 /\ UNCHANGED <<runs, cur, idx, is_ok, disk, named, before, tried, warned, tied>>
    BY ArgsAssumption, LenProperties
    DEF AddNzb, TypeMain, InvFrame, curVars
  <1>2. /\ nzb_jobs' = Put(nzb_jobs, x, [arg |-> i, todo |-> ps])
        /\ page' = Put(page, x, IF ps = {} THEN "ok" ELSE "n/a")
        /\ wanted' = wanted \cup Pairs(i, ps)
    BY DEF AddNzb
  <1>3. ps \subseteq DOMAIN Args[i].files
    BY DEF Selected
  <1> HIDE DEF ps, x
  <1>4. /\ DOMAIN nzb_jobs' = DOMAIN nzb_jobs \cup {x}
        /\ nzb_jobs'[x] = [arg |-> i, todo |-> ps]
        /\ \A y \in DOMAIN nzb_jobs \ {x} : nzb_jobs'[y] = nzb_jobs[y]
    <2>1. DOMAIN nzb_jobs' = DOMAIN nzb_jobs \cup {x}
      BY <1>2, PutFacts
    <2>2. nzb_jobs'[x] = [arg |-> i, todo |-> ps]
      BY <1>2 DEF Put
    <2>3. \A y \in DOMAIN nzb_jobs \ {x} : nzb_jobs'[y] = nzb_jobs[y]
      BY <1>2 DEF Put
    <2> QED
      BY <2>1, <2>2, <2>3
  <1>5. /\ DOMAIN page' = DOMAIN page \cup {x}
        /\ page'[x] = IF ps = {} THEN "ok" ELSE "n/a"
        /\ \A y \in DOMAIN page \ {x} : page'[y] = page[y]
    <2>1. DOMAIN page' = DOMAIN page \cup {x}
      BY <1>2, PutFacts
    <2>2. page'[x] = IF ps = {} THEN "ok" ELSE "n/a"
      BY <1>2 DEF Put
    <2>3. \A y \in DOMAIN page \ {x} : page'[y] = page[y]
      BY <1>2 DEF Put
    <2> QED
      BY <2>1, <2>2, <2>3
  <1>6. x \in Jobs /\ x = Args[i].name
    BY <1>1, ConstantFacts DEF x
  <1>7. TypeJobs'
    <2>1. DOMAIN nzb_jobs' \subseteq Jobs /\ DOMAIN page' = DOMAIN nzb_jobs'
      BY <1>4, <1>5, <1>6 DEF TypeJobs
    <2>2. ASSUME NEW z \in DOMAIN nzb_jobs'
          PROVE  /\ nzb_jobs'[z].arg \in DOMAIN Args /\ Args[nzb_jobs'[z].arg].name = z
                 /\ nzb_jobs'[z].todo \subseteq DOMAIN Args[nzb_jobs'[z].arg].files
                 /\ page'[z] \in {"n/a", "ok", "errors"}
      <3>1. CASE z = x
        BY <1>1, <1>3, <1>4, <1>5, <1>6, <3>1
      <3>2. CASE z # x
        BY <1>4, <1>5, <2>2, <3>2 DEF TypeJobs
      <3> QED
        BY <3>1, <3>2
    <2> QED
      BY <1>1, <2>1, <2>2 DEF TypeJobs
  <1>8. TypeHist'
    <2>1. Pairs(i, ps) \subseteq Dirs \X Files
      BY <1>1, <1>3, ConstantFacts DEF Pairs
    <2> QED
      BY <1>1, <1>2, <2>1 DEF TypeHist
  <1>9. TypeMain' /\ TypeDisk'
    BY <1>1 DEF TypeMain, TypeDisk
  <1>10. InvFrame'
    BY <1>1, <1>4, <1>5 DEF InvFrame, TypeJobs
  <1> QED
    BY <1>7, <1>8, <1>9, <1>10, TypePartsNext

\* The other steps take the program from one place to the next.
LEMMA NextTyped ==
    ASSUME TypeOK, InvFrame, Next
    PROVE  TypeOK' /\ InvFrame'
  <1> USE TypeParts, TypePartsNext
  <1> DEFINE jobs == <<nzb_jobs, page>>  hist == <<named, before, wanted, tried>>
  <1>1. \A z \in DOMAIN nzb_jobs : z \in Nat \ {0}
    BY ConstantFacts DEF TypeJobs, Jobs
  <1>2. CASE RefuseNzb
    <2>1. i' \in 1 .. Len(Args) + 1
      BY <1>2, ArgsAssumption, LenProperties DEF RefuseNzb, TypeMain
    <2>2. /\ main = "add" /\ main' = "add"
          /\ UNCHANGED <<runs, jobs, cur, idx, is_ok, disk, hist, warned, tied>>
      BY <1>2 DEF RefuseNzb, curVars, histVars
    <2> QED
      BY <2>1, <2>2 DEF TypeMain, TypeJobs, TypeDisk, TypeHist, InvFrame
  <1>3. CASE NextNzb
    <2>1. \/ /\ main' = "file" /\ idx' = 0 /\ is_ok' = TRUE
             /\ cur' \in DOMAIN nzb_jobs /\ cur' > cur
          \/ main' = "end" /\ UNCHANGED <<cur, idx, is_ok>>
      <3>1. CASE main' = "file" /\ idx' = 0 /\ is_ok' = TRUE /\ cur' \in Later
        <4>1. cur' \in DOMAIN nzb_jobs /\ cur' > cur
          BY <3>1 DEF Later
        <4> QED
          BY <3>1, <4>1
      <3>2. CASE main' = "end" /\ UNCHANGED curVars
        BY <3>2 DEF curVars
      <3> QED
        BY <1>3, <3>1, <3>2 DEF NextNzb
    <2>2. main \in {"add", "next"} /\ UNCHANGED <<runs, i, jobs, disk, hist, warned, tied>>
      BY <1>3 DEF NextNzb, loopVars, histVars
    <2>3. TypeMain' /\ TypeDisk' /\ TypeHist'
      BY <2>1, <2>2 DEF TypeMain, TypeDisk, TypeHist
    <2>4. TypeJobs'
      BY <1>1, <2>1, <2>2 DEF TypeJobs
    <2>5. InvFrame'
      BY <1>1, <2>1, <2>2 DEF InvFrame, TypeJobs
    <2> QED
      BY <2>3, <2>4, <2>5
  <1>4. CASE NextFile
    <2>1. /\ idx' \in nzb_jobs[cur].todo /\ idx' > idx /\ main = "file" /\ main' = "fetch"
          /\ tried' = tried \cup {<<JobDir, Args[Job.arg].files[idx']>>}
          /\ UNCHANGED <<runs, i, jobs, cur, is_ok, disk, named, before, wanted, warned, tied>>
      BY <1>4 DEF NextFile, Rest, Job, loopVars
    <2>2. cur \in DOMAIN nzb_jobs
      BY <2>1 DEF TypeJobs
    <2>3. idx' \in Nat
      BY <2>1, <2>2, ConstantFacts DEF TypeJobs
    <2>4. JobDir \in Dirs /\ Args[Job.arg].files[idx'] \in Files
      BY <2>1, <2>2, ConstantFacts DEF JobDir, Job, TypeJobs
    <2>5. TypeMain' /\ TypeDisk' /\ TypeHist'
      BY <2>1, <2>4 DEF TypeMain, TypeDisk, TypeHist
    <2>6. TypeJobs'
      BY <2>1, <2>2, <2>3 DEF TypeJobs
    <2>7. InvFrame'
      BY <2>1 DEF InvFrame
    <2> QED
      BY <2>5, <2>6, <2>7
  <1>5. CASE NzbDone
    <2>1. /\ main = "file" /\ main' = "next"
          /\ page' = [page EXCEPT ![cur] = IF is_ok THEN "ok" ELSE "errors"]
          /\ UNCHANGED <<runs, i, nzb_jobs, cur, idx, is_ok, disk, hist, warned, tied>>
      BY <1>5 DEF NzbDone, loopVars, curVars, histVars
    <2>2. TypeMain' /\ TypeDisk' /\ TypeHist'
      BY <2>1 DEF TypeMain, TypeDisk, TypeHist
    <2>3. TypeJobs'
      BY <2>1 DEF TypeJobs
    <2>4. InvFrame'
      BY <2>1 DEF InvFrame, TypeJobs
    <2> QED
      BY <2>2, <2>3, <2>4
  <1>6. CASE Again
    <2>1. /\ runs' = runs + 1 /\ runs < NRuns /\ main' = "add" /\ i' = 1 /\ is_ok' = TRUE
          /\ nzb_jobs' = <<>> /\ page' = <<>> /\ cur' = 0 /\ idx' = 0
          /\ before' = before \cup named /\ wanted' = {} /\ tried' = {}
          /\ UNCHANGED <<named, disk, warned, tied>>
      BY <1>6 DEF Again
    <2>2. runs' \in 1 .. NRuns /\ 1 \in 1 .. Len(Args) + 1
      BY <2>1, ArgsAssumption, LenProperties DEF TypeMain
    <2>3. TypeMain' /\ TypeDisk' /\ TypeHist'
      BY <2>1, <2>2 DEF TypeMain, TypeDisk, TypeHist
    <2>4. TypeJobs' /\ InvFrame'
      BY <2>1 DEF TypeJobs, InvFrame
    <2> QED
      BY <2>3, <2>4
  <1>7. ASSUME main \in {"fetch", "decode"}, main' \in {"file", "decode", "rename"},
               is_ok' \in BOOLEAN, TypeDisk',
               UNCHANGED <<runs, i, jobs, cur, idx, hist, warned, tied>>
        PROVE  TypeOK' /\ InvFrame'
    BY <1>7 DEF TypeMain, TypeJobs, TypeHist, InvFrame
  <1>8. CASE NotFetched
    BY <1>7, <1>8 DEF NotFetched, ReturnsFalse, loopVars, histVars, TypeDisk
  <1>9. CASE Concat
    <2>1. TypeDisk'
      BY <1>9, OthersKept DEF TypeDisk
    <2> QED
      BY <1>7, <1>9, <2>1 DEF Concat, loopVars, curVars, histVars, TypeMain
  <1>10. CASE Decode \/ DecodeFails
    <2>1. PICK d \in Dirs, g \in Files : d = JobDir /\ g = JobFile
      BY <1>10, JobFacts DEF Decode, DecodeFails
    <2>2. TypeDisk'
      BY <1>10, <2>1, DecodeFacts DEF TypeDisk
    <2>3. CASE Decode
      BY <1>7, <2>2, <2>3 DEF Decode, loopVars, curVars, histVars, TypeMain
    <2>4. CASE DecodeFails
      BY <1>7, <2>2, <2>4 DEF DecodeFails, ReturnsFalse, loopVars, histVars
    <2> QED
      BY <1>10, <2>3, <2>4
  <1>12. ASSUME main = "rename", main' = "file", {warned', tied'} \subseteq BOOLEAN, TypeDisk',
                named' \subseteq named \cup {<<JobDir, JobFile>>},
                UNCHANGED <<runs, i, jobs, cur, idx, is_ok, before, wanted, tried>>
         PROVE  TypeOK' /\ InvFrame'
    <2>1. JobDir \in Dirs /\ JobFile \in Files
      BY <1>12, JobFacts
    <2> QED
      BY <1>12, <2>1 DEF TypeMain, TypeJobs, TypeHist, InvFrame
  <1>13. CASE KeepsName
    <2>1. TypeDisk'
      BY <1>13, OthersKept DEF KeepsName, TypeDisk
    <2> QED
      BY <1>12, <1>13, <2>1 DEF KeepsName, ReturnsTrue, loopVars, curVars, TypeMain
  <1>14. CASE Rename
    <2>1. JobDir \in Dirs /\ JobFile \in Files
      BY <1>14, JobFacts DEF Rename
    <2>2. PICK x \in Latest(JobDir) : Moves(JobDir, x, Quoted[JobFile])
      BY <1>14 DEF Rename, Moves
    <2>3. x \in Names /\ Quoted[JobFile] \in FileNames /\ x # Quoted[JobFile]
      BY <1>14, <2>1, <2>2, ConstantFacts DEF Rename, Latest, There
    <2>4. TypeDisk'
      BY <2>1, <2>2, <2>3, MovesFacts DEF TypeDisk
    <2>5. {warned', tied'} \subseteq BOOLEAN
      BY <1>14 DEF Rename, TypeMain, SameDate
    <2> QED
      BY <1>12, <1>14, <2>4, <2>5 DEF Rename, ReturnsTrue, loopVars, curVars
  <1>15. CASE RenameFails
    <2>1. TypeDisk'
      BY <1>15, OthersKept DEF RenameFails, TypeDisk
    <2> QED
      BY <1>12, <1>15, <2>1 DEF RenameFails, ReturnsTrue, loopVars, curVars, TypeMain
  <1>16. CASE Leaves
    <2>1. TypeDisk'
      BY <1>16, OthersKept DEF Leaves, TypeDisk
    <2> QED
      BY <1>16, <2>1 DEF Leaves, loopVars, curVars, histVars, TypeMain, TypeJobs, TypeHist, InvFrame
  <1>17. CASE UNCHANGED vars
    BY <1>17 DEF vars, loopVars, curVars, histVars,
       TypeMain, TypeJobs, TypeDisk, TypeHist, InvFrame
  <1> QED
    BY <1>2, <1>3, <1>4, <1>5, <1>6, <1>8, <1>9, <1>10, <1>13, <1>14, <1>15, <1>16,
       <1>17, AddNzbTyped DEF Next

-----------------------------------------------------------------------------
(* The places of the files.                                                *)

\* A file in its place is there.
LEMMA PlaceIsThere ==
    ASSUME NEW d \in Dirs, NEW f \in Files, InPlace(d, f)
    PROVE  disk[d][Home(f)] # NoFile /\ Home(f) \in There(d)
  <1>1. disk[d][Home(f)] # NoFile
    BY DEF InPlace, NoFile
  <1> QED
    BY <1>1, ConstantFacts DEF There

\* What is kept under the final name of a file leaves it in its place.
LEMMA PlaceKept ==
    ASSUME NEW d \in Dirs, NEW f \in Files, Kept(disk', d, Home(f))
    PROVE  /\ InPlace(d, f)' <=> InPlace(d, f)
           /\ disk'[d][Home(f)] # NoFile => disk[d][Home(f)] # NoFile
  BY DEF Kept, InPlace

\* Steps that touch neither the posted files of a directory nor the jobs, and settle
\* nothing that was not settled unless a rename() has failed.
LEMMA QuietKeeps ==
    ASSUME TypeOK, ApartInv, main' # "rename", warned \in BOOLEAN,
           UNCHANGED <<nzb_jobs, named, before>>,
           \A d \in Dirs, x \in FileNames : Kept(disk', d, x),
           ~warned' => ~warned,
           \A z \in DOMAIN nzb_jobs : \A p \in nzb_jobs[z].todo :
             /\ Pending(z, p)' => Pending(z, p)
             /\ ~warned' /\ Settled(z, p)' => Settled(z, p)
    PROVE  ApartInv'
  <1>1. \A d \in Dirs, f \in Files :
          /\ InPlace(d, f)' <=> InPlace(d, f)
          /\ disk'[d][Home(f)] # NoFile => disk[d][Home(f)] # NoFile
    BY ConstantFacts, PlaceKept
  <1>2. \A z, p : DirOf(z)' = DirOf(z) /\ FileOf(z, p)' = FileOf(z, p)
    BY DEF DirOf, FileOf
  <1>3. InvHome'
    BY <1>1 DEF ApartInv, InvHome
  <1>4. InvNamed'
    BY <1>1 DEF ApartInv, InvNamed
  <1>5. InvPending'
    BY <1>2 DEF ApartInv, InvPending
  <1>6. InvSettled'
    <2>1. ASSUME ~warned', NEW z \in DOMAIN nzb_jobs, NEW p \in nzb_jobs[z].todo,
                 Settled(z, p)'
          PROVE  InPlace(DirOf(z), FileOf(z, p))'
      <3>1. PICK e \in Dirs, f \in Files : e = DirOf(z) /\ f = FileOf(z, p)
        BY EntryFacts
      <3>2. InPlace(e, f)'
        BY <1>1, <2>1, <3>1 DEF ApartInv, InvSettled
      <3>3. e = DirOf(z)' /\ f = FileOf(z, p)'
        BY <1>2, <3>1
      <3> QED
        BY <3>2, <3>3 DEF InPlace
    <2> QED
      BY <2>1 DEF InvSettled
  <1> QED
    BY <1>3, <1>4, <1>5, <1>6 DEF ApartInv, InvDecoded

\* So does a step that changes nothing.
LEMMA StutterKeeps ==
    ASSUME ApartInv, UNCHANGED vars
    PROVE  ApartInv'
  <1>1. UNCHANGED <<main, nzb_jobs, page, cur, idx, is_ok, disk, named, before, warned>>
    BY DEF vars, loopVars, curVars, histVars
  <1>2. \A d, f : InPlace(d, f)' <=> InPlace(d, f)
    BY <1>1 DEF InPlace
  <1>3. \A z, p : /\ DirOf(z)' = DirOf(z) /\ FileOf(z, p)' = FileOf(z, p)
                  /\ Pending(z, p)' <=> Pending(z, p)
                  /\ Settled(z, p)' <=> Settled(z, p)
    BY <1>1 DEF DirOf, FileOf, Pending, Settled
  <1>4. InvHome' /\ InvNamed'
    BY <1>1, <1>2 DEF ApartInv, InvHome, InvNamed
  <1>5. InvDecoded'
    BY <1>1 DEF ApartInv, InvDecoded, JobDir, JobFile, Job
  <1>6. InvPending'
    BY <1>1, <1>3 DEF ApartInv, InvPending
  <1>7. InvSettled'
    BY <1>1, <1>2, <1>3 DEF ApartInv, InvSettled
  <1> QED
    BY <1>4, <1>5, <1>6, <1>7 DEF ApartInv

\* An argument's selection leaves out what is in its place.
LEMMA AddNzbKeeps ==
    ASSUME TypeOK, InvFrame, ApartInv, AddNzb
    PROVE  ApartInv'
  <1> USE TypeParts
  <1> DEFINE ps == Selected(i)
  <1>0. PICK x : x = Args[i].name
    OBVIOUS
  <1>1. /\ i \in DOMAIN Args /\ main = "add" /\ main' = "add" /\ cur = 0
        /\ UNCHANGED <<cur, idx, is_ok, disk, named, before, warned>>
    BY ArgsAssumption, LenProperties
    DEF AddNzb, TypeMain, InvFrame, curVars
  <1>2. x \in Nat \ {0}
    BY <1>0, <1>1, ConstantFacts
  <1>3. ASSUME NEW p \in ps
        PROVE  <<OutDir(i), Args[i].files[p]>> \notin named \cup before
    <2> DEFINE d == OutDir(i)  f == Args[i].files[p]
    <2>1. d \in Dirs /\ f \in Files
      BY <1>1, ConstantFacts DEF Selected
    <2>2. Mentions[f] \cap There(d) = {}
      BY DEF Selected
    <2> HIDE DEF d, f, ps
    <2>3. ASSUME <<d, f>> \in named
          PROVE  FALSE
      <3>1. Quoted[f] # NoName /\ InPlace(d, f)
        BY <2>1, <2>3 DEF ApartInv, InvNamed
      <3>2. Quoted[f] \in There(d)
        BY <2>1, <3>1, ConstantFacts, PlaceIsThere
      <3>3. Quoted[f] \in Mentions[f]
        BY <2>1, <3>1, QuotedAssumption
      <3> QED
        BY <2>2, <3>2, <3>3
    <2> QED
      BY <2>3 DEF ApartInv, InvNamed, d, f
  <1>4. /\ nzb_jobs' = Put(nzb_jobs, x, [arg |-> i, todo |-> ps])
        /\ page' = Put(page, x, IF ps = {} THEN "ok" ELSE "n/a")
    BY <1>0 DEF AddNzb
  <1>5. DOMAIN page = DOMAIN nzb_jobs
    BY DEF TypeJobs
  <1> HIDE DEF ps
  <1>6. DOMAIN nzb_jobs' = DOMAIN nzb_jobs \cup {x}
    BY <1>4 DEF Put
  <1>7. nzb_jobs'[x].arg = i /\ nzb_jobs'[x].todo = ps
    BY <1>4 DEF Put
  <1>8. \A z \in DOMAIN nzb_jobs \ {x} : nzb_jobs'[z] = nzb_jobs[z]
    BY <1>4 DEF Put
  <1>9. page'[x] = "ok" => ps = {}
    BY <1>4 DEF Put
  <1>10. \A z \in DOMAIN nzb_jobs \ {x} : page'[z] = page[z]
    BY <1>4, <1>5 DEF Put
  <1>11. \A d, f : InPlace(d, f)' <=> InPlace(d, f)
    BY <1>1 DEF InPlace
  <1>12. ASSUME NEW z \in DOMAIN nzb_jobs \ {x}, NEW p
         PROVE  /\ DirOf(z)' = DirOf(z) /\ FileOf(z, p)' = FileOf(z, p)
                /\ Pending(z, p)' <=> Pending(z, p)
                /\ Settled(z, p)' <=> Settled(z, p)
    BY <1>1, <1>8, <1>10 DEF DirOf, FileOf, Pending, Settled
  <1>13. \A p : DirOf(x)' = OutDir(i) /\ FileOf(x, p)' = Args[i].files[p]
    BY <1>7 DEF DirOf, FileOf
  <1>14. \A p \in ps : ~Settled(x, p)'
    BY <1>1, <1>2, <1>9 DEF Settled
  <1>15. InvPending'
    <2>1. ASSUME NEW z \in DOMAIN nzb_jobs', NEW p \in nzb_jobs'[z].todo
          PROVE  /\ <<DirOf(z)', FileOf(z, p)'>> \notin before
                 /\ Pending(z, p)' /\ YName[FileOf(z, p)'] = Home(FileOf(z, p)') =>
                      <<DirOf(z)', FileOf(z, p)'>> \notin named
      <3>1. CASE z = x
        BY <1>3, <1>7, <1>13, <2>1, <3>1
      <3>2. CASE z # x
        <4>1. z \in DOMAIN nzb_jobs \ {x} /\ p \in nzb_jobs[z].todo
          BY <1>6, <1>8, <2>1, <3>2
        <4> QED
          BY <1>12, <4>1 DEF ApartInv, InvPending
      <3> QED
        BY <3>1, <3>2
    <2> QED
      BY <1>1, <2>1 DEF InvPending
  <1>16. InvSettled'
    <2>1. ASSUME ~warned, NEW z \in DOMAIN nzb_jobs', NEW p \in nzb_jobs'[z].todo,
                 Settled(z, p)'
          PROVE  InPlace(DirOf(z)', FileOf(z, p)')
      <3>1. z # x
        BY <1>7, <1>14, <2>1
      <3>2. z \in DOMAIN nzb_jobs \ {x} /\ p \in nzb_jobs[z].todo
        BY <1>6, <1>8, <2>1, <3>1
      <3> QED
        BY <1>12, <2>1, <3>2 DEF ApartInv, InvSettled
    <2>2. \A z, p : InPlace(DirOf(z), FileOf(z, p))' <=> InPlace(DirOf(z)', FileOf(z, p)')
      BY <1>1 DEF InPlace
    <2> QED
      BY <1>1, <2>1, <2>2 DEF InvSettled
  <1>17. InvHome' /\ InvNamed' /\ InvDecoded'
    BY <1>1, <1>11 DEF ApartInv, InvHome, InvNamed, InvDecoded
  <1> QED
    BY <1>15, <1>16, <1>17 DEF ApartInv

\* yydecode's file takes nobody's place: its name is no other file's, and where
\* it is its own final name it had no copy there.
LEMMA DecodeKeeps ==
    ASSUME TypeOK, InvFrame, ApartInv, Apart, Decode \/ DecodeFails
    PROVE  ApartInv'
  <1> USE TypeParts
  <1>0. /\ main = "decode"
        /\ \/ main' = "rename" /\ Decode /\ UNCHANGED is_ok
           \/ main' = "file" /\ is_ok' = FALSE
        /\ UNCHANGED <<nzb_jobs, page, cur, idx, named, before, warned>>
    BY DEF Decode, DecodeFails, ReturnsFalse, loopVars, curVars, histVars
  <1>1. PICK d \in Dirs, g \in Files : d = JobDir /\ g = JobFile
    BY <1>0, JobFacts
  <1>2. cur \in DOMAIN nzb_jobs /\ idx \in nzb_jobs[cur].todo /\ d = DirOf(cur) /\ g = FileOf(cur, idx)
    BY <1>0, <1>1, JobFacts
  <1>3. /\ Decode => disk'[d][YName[g]] = [of |-> g, late |-> TRUE, whole |-> TRUE]
        /\ \A e \in Dirs, y \in FileNames : ~(e = d /\ y = YName[g]) => Kept(disk', e, y)
    BY <1>1, DecodeFacts
  <1>7. ASSUME NEW e \in Dirs, NEW f \in Files, ~(e = d /\ f = g /\ YName[g] = Home(g))
        PROVE  Kept(disk', e, Home(f))
    BY <1>3, <1>7, ConstantFacts DEF Apart, NamesApart
  <1>8. ASSUME NEW e \in Dirs, NEW f \in Files, ~(e = d /\ f = g /\ YName[g] = Home(g))
        PROVE  /\ InPlace(e, f)' <=> InPlace(e, f)
               /\ disk'[e][Home(f)] # NoFile => disk[e][Home(f)] # NoFile
    BY <1>7, <1>8, PlaceKept
  <1>9. \A z, p : DirOf(z)' = DirOf(z) /\ FileOf(z, p)' = FileOf(z, p)
    BY <1>0 DEF DirOf, FileOf
  <1>10. InvHome'
    BY <1>8 DEF ApartInv, InvHome
  <1>11. InvDecoded'
    <2> SUFFICES ASSUME main' = "rename" PROVE InvDecoded'
      BY DEF InvDecoded
    <2>1. JobDir' = d /\ JobFile' = g /\ Decode
      BY <1>0, <1>1 DEF JobDir, JobFile, Job
    <2> QED
      BY <1>3, <2>1 DEF InvDecoded
  <1>12. InvNamed'
    <2>1. YName[g] = Home(g) => <<d, g>> \notin named
      BY <1>0, <1>2 DEF ApartInv, InvPending, Pending
    <2> QED
      BY <1>0, <1>8, <2>1 DEF ApartInv, InvNamed
  <1>13. InvPending'
    <2>1. \A z, p : Pending(z, p)' => Pending(z, p)
      BY <1>0 DEF Pending
    <2> QED
      BY <1>0, <1>9, <2>1 DEF ApartInv, InvPending
  <1>14. InvSettled'
    <2>1. \A z, p : Settled(z, p)' => Settled(z, p)
      BY <1>0 DEF Settled
    <2>2. ~Settled(cur, idx)
      <3>1. idx \in Nat /\ cur \in Nat
        BY <1>2, ConstantFacts DEF TypeJobs, Jobs
      <3>2. page[cur] # "ok"
        BY <1>0, <1>2, <3>1 DEF InvFrame
      <3> QED
        BY <1>0, <3>1, <3>2 DEF Settled
    <2>3. ASSUME ~warned, NEW z \in DOMAIN nzb_jobs, NEW p \in nzb_jobs[z].todo,
                 Settled(z, p)'
          PROVE  InPlace(DirOf(z), FileOf(z, p)) /\ ~(FileOf(z, p) = g /\ YName[g] = Home(g))
      BY <1>2, <2>1, <2>2, <2>3, OnePlace DEF ApartInv, InvSettled
    <2>4. ASSUME ~warned, NEW z \in DOMAIN nzb_jobs, NEW p \in nzb_jobs[z].todo,
                 Settled(z, p)'
          PROVE  InPlace(DirOf(z), FileOf(z, p))'
      <3>1. PICK e \in Dirs, f \in Files : e = DirOf(z) /\ f = FileOf(z, p)
        BY EntryFacts
      <3>2. InPlace(e, f)'
        BY <1>8, <2>3, <2>4, <3>1
      <3>3. e = DirOf(z)' /\ f = FileOf(z, p)'
        BY <1>9, <3>1
      <3> QED
        BY <3>2, <3>3 DEF InPlace
    <2> QED
      BY <1>0, <2>4 DEF InvSettled
  <1> QED
    BY <1>10, <1>11, <1>12, <1>13, <1>14 DEF ApartInv

\* The end of fetch_nzb_file when the file has come to its place.
LEMMA PlacedKeeps ==
    ASSUME TypeOK, ApartInv, Apart, main = "rename", main' = "file",
           UNCHANGED <<nzb_jobs, page, cur, idx, is_ok, before, warned>>,
           NEW d \in Dirs, NEW g \in Files, d = JobDir, g = JobFile,
           InPlace(d, g)',
           \A e \in Dirs, f \in Files :
             ~(e = d /\ f = g) => Kept(disk', e, Home(f)),
           \/ named' = named
           \/ named' = named \cup {<<d, g>>} /\ Quoted[g] # NoName
    PROVE  ApartInv'
  <1> USE TypeParts
  <1>1. cur \in DOMAIN nzb_jobs /\ idx \in nzb_jobs[cur].todo /\ d = DirOf(cur) /\ g = FileOf(cur, idx)
    BY JobFacts
  <1>2. ASSUME NEW e \in Dirs, NEW f \in Files
        PROVE  /\ InPlace(e, f) => InPlace(e, f)'
               /\ disk'[e][Home(f)] # NoFile => disk[e][Home(f)] # NoFile \/ InPlace(e, f)'
    BY PlaceKept
  <1>3. \A z, p : DirOf(z)' = DirOf(z) /\ FileOf(z, p)' = FileOf(z, p)
    BY DEF DirOf, FileOf
  <1>4. InvHome'
    BY <1>2 DEF ApartInv, InvHome
  <1>5. InvDecoded'
    BY DEF InvDecoded
  <1>6. InvNamed'
    BY <1>2 DEF ApartInv, InvNamed
  <1>7. InvPending'
    <2>1. \A z, p : Pending(z, p)' => Pending(z, p) /\ ~(z = cur /\ p = idx)
      <3>1. idx \in Nat /\ cur \in Nat
        BY <1>1, ConstantFacts DEF TypeJobs, Jobs
      <3> QED
        BY <3>1 DEF Pending
    <2>2. ASSUME NEW z \in DOMAIN nzb_jobs, NEW p \in nzb_jobs[z].todo,
                 Pending(z, p)', YName[FileOf(z, p)] = Home(FileOf(z, p))
          PROVE  <<DirOf(z), FileOf(z, p)>> \notin named'
      <3>1. <<DirOf(z), FileOf(z, p)>> \notin named
        BY <2>1, <2>2 DEF ApartInv, InvPending
      <3>2. FileOf(z, p) # g
        BY <1>1, <2>1, <2>2, OnePlace
      <3> QED
        BY <3>1, <3>2
    <2> QED
      BY <1>3, <2>2 DEF ApartInv, InvPending
  <1>8. InvSettled'
    <2>1. ASSUME NEW z \in DOMAIN nzb_jobs, NEW p \in nzb_jobs[z].todo, Settled(z, p)'
          PROVE  Settled(z, p) \/ (z = cur /\ p = idx)
      <3>1. idx \in Nat /\ p \in Nat
        BY ConstantFacts DEF TypeJobs
      <3> QED
        BY <2>1, <3>1 DEF Settled
    <2>2. ASSUME ~warned, NEW z \in DOMAIN nzb_jobs, NEW p \in nzb_jobs[z].todo,
                 Settled(z, p)'
          PROVE  InPlace(DirOf(z), FileOf(z, p))'
      <3>1. PICK e \in Dirs, f \in Files : e = DirOf(z) /\ f = FileOf(z, p)
        BY EntryFacts
      <3>2. InPlace(e, f)'
        BY <1>1, <1>2, <2>1, <2>2, <3>1 DEF ApartInv, InvSettled
      <3>3. e = DirOf(z)' /\ f = FileOf(z, p)'
        BY <1>3, <3>1
      <3> QED
        BY <3>2, <3>3 DEF InPlace
    <2> QED
      BY <2>2 DEF InvSettled
  <1> QED
    BY <1>4, <1>5, <1>6, <1>7, <1>8 DEF ApartInv

\* The naming: if dates tell, the latest file is the one yydecode has just written.
LEMMA NamingKeeps ==
    ASSUME TypeOK, ApartInv, Apart', Apart, KeepsName \/ Rename
    PROVE  ApartInv'
  <1> USE TypeParts
  <1>1. PICK d \in Dirs, g \in Files : d = JobDir /\ g = JobFile
    BY JobFacts DEF KeepsName, Rename
  <1>2. /\ main = "rename" /\ main' = "file"
        /\ UNCHANGED <<nzb_jobs, page, cur, idx, is_ok, before, warned>>
    BY DEF KeepsName, Rename, ReturnsTrue, loopVars, curVars
  <1>3. disk[d][YName[g]] = [of |-> g, late |-> TRUE, whole |-> TRUE]
    BY <1>1, <1>2 DEF ApartInv, InvDecoded
  <1>4. CASE KeepsName
    <2>1. \A e \in Dirs, f \in Files : Kept(disk', e, Home(f))
      BY <1>4, OthersKept, ConstantFacts DEF KeepsName
    <2>2. InPlace(d, g)
      <3>1. CASE YName[g] = Home(g)
        BY <1>3, <3>1 DEF InPlace
      <3>2. CASE YName[g] # Home(g)
        <4>1. Quoted[g] # NoName /\ Home(g) = Quoted[g]
          BY <3>2 DEF Home
        <4>2. disk[d][Home(g)] # NoFile
          BY <1>1, <1>4, <4>1 DEF KeepsName, There
        <4> QED
          BY <3>2, <4>2 DEF ApartInv, InvHome
      <3> QED
        BY <3>1, <3>2
    <2>3. InPlace(d, g)'
      BY <2>1, <2>2, PlaceKept
    <2>4. \/ named' = named
          \/ named' = named \cup {<<d, g>>} /\ Quoted[g] # NoName
      BY <1>1, <1>4, ArgsAssumption DEF KeepsName
    <2> QED
      BY <1>1, <1>2, <2>1, <2>3, <2>4, PlacedKeeps
  <1>5. CASE Rename
    <2>1. PICK x \in Latest(d) : Moves(d, x, Quoted[g])
      BY <1>1, <1>5 DEF Rename, Moves
    <2>2. Quoted[g] \notin There(d) /\ Quoted[g] # NoName
      BY <1>1, <1>5 DEF Rename
    <2>3. Home(g) = Quoted[g] /\ Home(g) \in FileNames /\ YName[g] \in FileNames
      BY <2>2, ConstantFacts
    <2>4. ~SameDate(d)
      BY <1>1, <1>5 DEF Apart, Rename
    <2>5. x = YName[g] /\ YName[g] \in There(d)
      BY <1>3, <2>1, <2>4, LatestIsDecoded
    <2>6. YName[g] # Home(g)
      BY <2>2, <2>3, <2>5
    <2>7. /\ disk'[d][Home(g)] = disk[d][YName[g]]
          /\ \A e \in Dirs, y \in FileNames :
               ~(e = d /\ y \in {YName[g], Home(g)}) => disk'[e][y] = disk[e][y]
      BY <2>1, <2>3, <2>5, <2>6, ConstantFacts, MovesFacts
    <2>9. InPlace(d, g)'
      BY <1>3, <2>7 DEF InPlace
    <2>10. ASSUME NEW e \in Dirs, NEW f \in Files, ~(e = d /\ f = g)
           PROVE  Kept(disk', e, Home(f))
      BY <2>7, <2>10, ConstantFacts DEF Apart, NamesApart, Kept
    <2>11. named' = named \cup {<<d, g>>}
      BY <1>1, <1>5 DEF Rename
    <2> QED
      BY <1>1, <1>2, <2>2, <2>9, <2>10, <2>11, PlacedKeeps
  <1> QED
    BY <1>4, <1>5

\* Every step, under Apart.
LEMMA NextApart ==
    ASSUME TypeOK, InvFrame, ApartInv, Apart', Next
    PROVE  ApartInv'
  <1> USE TypeParts
  <1>0. Apart
    BY ApartBefore
  <1>1. warned \in BOOLEAN /\ idx \in Nat
    BY DEF TypeMain, TypeJobs
  <1>2. \A z \in DOMAIN nzb_jobs : z \in Nat \ {0}
    BY ConstantFacts DEF TypeJobs, Jobs
  <1>3. \A z \in DOMAIN nzb_jobs : \A p \in nzb_jobs[z].todo : p \in Nat \ {0}
    BY ConstantFacts DEF TypeJobs
  <1>4. CASE RefuseNzb
    <2>1. /\ main = "add" /\ main' = "add"
          /\ UNCHANGED <<nzb_jobs, page, cur, idx, is_ok, disk, named, before, warned>>
      BY <1>4 DEF RefuseNzb, curVars, histVars
    <2>2. \A z, p : (Pending(z, p)' <=> Pending(z, p)) /\ (Settled(z, p)' <=> Settled(z, p))
      BY <2>1 DEF Pending, Settled
    <2> QED
      BY <1>1, <2>1, <2>2, QuietKeeps DEF Kept
  <1>5. CASE NextNzb
    <2>1. /\ main \in {"add", "next"} /\ UNCHANGED <<nzb_jobs, page, disk, named, before, warned>>
          /\ \/ main' = "file" /\ idx' = 0 /\ cur' \in Later
             \/ main' = "end" /\ UNCHANGED <<cur, idx, is_ok>>
      BY <1>5 DEF NextNzb, loopVars, curVars, histVars
    <2>2. cur \in Nat
      BY <1>2 DEF TypeJobs
    <2>3. cur' \in Later => cur' \in Nat /\ cur' > cur
      BY <1>2 DEF Later
    <2>4. ASSUME NEW z \in DOMAIN nzb_jobs, NEW p \in nzb_jobs[z].todo
          PROVE  /\ Pending(z, p)' => Pending(z, p)
                 /\ Settled(z, p)' => Settled(z, p)
      <3>1. z \in Nat /\ p \in Nat /\ p > 0
        BY <1>2, <1>3
      <3> QED
        BY <2>1, <2>2, <2>3, <3>1 DEF Pending, Settled
    <2> QED
      BY <1>1, <2>1, <2>4, QuietKeeps DEF Kept
  <1>6. CASE NextFile
    <2>1. /\ main = "file" /\ main' = "fetch" /\ idx' > idx
          /\ \A p \in Rest : idx' <= p
          /\ UNCHANGED <<nzb_jobs, page, cur, is_ok, disk, named, before, warned>>
      BY <1>6 DEF NextFile, Rest, loopVars
    <2>2. idx' \in Nat
      BY <1>3, <1>6 DEF NextFile, Rest, Job, TypeJobs
    <2>3. ASSUME NEW z \in DOMAIN nzb_jobs, NEW p \in nzb_jobs[z].todo
          PROVE  /\ Pending(z, p)' => Pending(z, p)
                 /\ Settled(z, p)' => Settled(z, p)
      <3>1. p \in Nat
        BY <1>3
      <3>2. z = cur /\ p > idx => idx' <= p
        BY <2>1 DEF Rest, Job
      <3> QED
        BY <1>1, <2>1, <2>2, <3>1, <3>2 DEF Pending, Settled
    <2> QED
      BY <1>1, <2>1, <2>3, QuietKeeps DEF Kept
  <1>7. CASE NzbDone
    <2>1. /\ main = "file" /\ main' = "next" /\ Rest = {}
          /\ page' = [page EXCEPT ![cur] = IF is_ok THEN "ok" ELSE "errors"]
          /\ UNCHANGED <<nzb_jobs, cur, idx, is_ok, disk, named, before, warned>>
      BY <1>7 DEF NzbDone, loopVars, curVars, histVars
    <2>2. ASSUME NEW z \in DOMAIN nzb_jobs, NEW p \in nzb_jobs[z].todo
          PROVE  /\ Pending(z, p)' => Pending(z, p)
                 /\ Settled(z, p)' => Settled(z, p)
      <3>1. p \in Nat
        BY <1>3
      <3>2. z = cur => p <= idx
        BY <1>1, <2>1, <3>1 DEF Rest, Job
      <3>3. page'[z] = "ok" => page[z] = "ok" \/ (z = cur /\ is_ok)
        BY <2>1 DEF TypeJobs, TypeMain
      <3> QED
        BY <2>1, <3>2, <3>3 DEF Pending, Settled
    <2> QED
      BY <1>1, <2>1, <2>2, QuietKeeps DEF Kept
  <1>8. CASE NotFetched \/ Concat \/ RenameFails \/ Leaves
    <2>1. /\ main' \in {"file", "decode", "left"}
          /\ UNCHANGED <<nzb_jobs, page, cur, idx, named, before>>
          /\ \/ main' = "left" /\ UNCHANGED warned
             \/ main' = "file" /\ is_ok' = FALSE /\ UNCHANGED warned
             \/ main' = "file" /\ warned' = TRUE
             \/ main = "fetch" /\ main' = "decode" /\ UNCHANGED <<is_ok, warned>>
          /\ Concat \/ disk' \in {disk, WithoutBig(disk)}
      BY <1>8 DEF NotFetched, Concat, RenameFails, Leaves, ReturnsTrue, ReturnsFalse,
         loopVars, curVars, histVars
    <2>2. \A z, p : /\ Pending(z, p)' => Pending(z, p)
                    /\ ~warned' /\ Settled(z, p)' => Settled(z, p)
      BY <2>1 DEF Pending, Settled
    <2>3. \A d \in Dirs, x \in FileNames : Kept(disk', d, x)
      BY <2>1, OthersKept
    <2> QED
      BY <1>1, <2>1, <2>2, <2>3, QuietKeeps
  <1>9. CASE Again
    <2>1. /\ main' = "add" /\ nzb_jobs' = <<>> /\ before' = before \cup named
          /\ UNCHANGED <<named, disk>>
      BY <1>9 DEF Again
    <2>2. DOMAIN nzb_jobs' = {}
      BY <2>1
    <2>3. \A d, f : InPlace(d, f)' <=> InPlace(d, f)
      BY <2>1 DEF InPlace
    <2>4. InvHome' /\ InvNamed' /\ InvDecoded'
      BY <2>1, <2>3 DEF ApartInv, InvHome, InvNamed, InvDecoded
    <2> QED
      BY <2>2, <2>4 DEF ApartInv, InvPending, InvSettled
  <1>10. CASE Decode \/ DecodeFails
    BY <1>0, <1>10, DecodeKeeps
  <1>11. CASE KeepsName \/ Rename
    BY <1>0, <1>11, NamingKeeps
  <1>12. CASE UNCHANGED vars
    BY <1>12, StutterKeeps
  <1> QED
    BY <1>4, <1>5, <1>6, <1>7, <1>8, <1>9, <1>10, <1>11, <1>12,
       AddNzbKeeps DEF Next

\* The three facts of the inductive invariant together.
LEMMA Invariance == Spec => []IInv
  <1>1. IInv /\ Next => IInv'
    <2> SUFFICES ASSUME IInv, Next PROVE IInv'
      OBVIOUS
    <2>1. TypeOK' /\ InvFrame'
      BY NextTyped DEF IInv
    <2>2. Apart' => ApartInv'
      BY ApartBefore, NextApart DEF IInv
    <2> QED
      BY <2>1, <2>2 DEF IInv
  <1>2. IInv /\ UNCHANGED vars => IInv'
    <2> SUFFICES ASSUME IInv, UNCHANGED vars PROVE IInv'
      OBVIOUS
    <2>1. TypeOK'
      BY TypeParts, TypePartsNext DEF vars, loopVars, curVars, histVars,
         IInv, TypeMain, TypeJobs, TypeDisk, TypeHist
    <2>2. InvFrame'
      BY DEF vars, loopVars, curVars, IInv, InvFrame
    <2>3. Apart' => ApartInv'
      BY StutterKeeps DEF IInv, Apart, vars, histVars
    <2> QED
      BY <2>1, <2>2, <2>3 DEF IInv
  <1> QED
    BY InitIInv, <1>1, <1>2, PTL DEF Spec
-----------------------------------------------------------------------------
(* The theorems.                                                           *)

\* Every variable keeps its type: the page has a row for each entry of the map,
\* whose places are places of an argument of that name (main's two loops).
THEOREM TypeCorrect == Spec => []TypeOK
  BY Invariance, PTL DEF IInv

\* A page that says "Done (Ok)" tells the truth, if no two files take each
\* other's names, no file that was looked for had its date from another one as
\* well, the .big file included, and no rename() has failed (main's second loop
\* and the end of fetch_nzb_file).
THEOREM OkMeansThereHolds == Spec => []OkMeansThere
  <1>1. IInv => OkMeansThere
    <2> SUFFICES ASSUME IInv, Apart, ~warned,
                        NEW z \in DOMAIN page, page[z] = "ok",
                        NEW p \in nzb_jobs[z].todo
                 PROVE  \E x \in There(DirOf(z)) :
                          /\ disk[DirOf(z)][x].of = FileOf(z, p)
                          /\ disk[DirOf(z)][x].whole
      BY DEF OkMeansThere, Pairs, DirOf, FileOf
    <2>1. z \in DOMAIN nzb_jobs
      BY TypeParts DEF IInv, TypeJobs
    <2>2. PICK d \in Dirs, f \in Files : d = DirOf(z) /\ f = FileOf(z, p)
      BY <2>1, EntryFacts DEF IInv
    <2>3. InPlace(d, f)
      BY <2>1, <2>2 DEF IInv, ApartInv, InvSettled, Settled
    <2>4. Home(f) \in There(d)
      BY <2>2, <2>3, PlaceIsThere
    <2> QED
      BY <2>2, <2>3, <2>4 DEF InPlace
  <1> QED
    BY Invariance, <1>1, PTL

\* Under the same condition the file that got a name is the one whose subject
\* asks for it (get_latest_yydecoded and rename).
THEOREM NamedAsAskedHolds == Spec => []NamedAsAsked
  <1>1. IInv => NamedAsAsked
    <2> SUFFICES ASSUME IInv, Apart, NEW q \in named
                 PROVE  disk[q[1]][Quoted[q[2]]].of = q[2] /\ disk[q[1]][Quoted[q[2]]].whole
      BY DEF NamedAsAsked
    <2>1. PICK d \in Dirs, f \in Files : q = <<d, f>>
      BY TypeParts DEF IInv, TypeHist
    <2>2. Quoted[f] # NoName /\ InPlace(d, f)
      BY <2>1 DEF IInv, ApartInv, InvNamed
    <2> QED
      BY <2>1, <2>2 DEF InPlace, Home
  <1> QED
    BY Invariance, <1>1, PTL

\* Nor is a file that an earlier run has put in its place downloaded again
\* (list_dir and is_already).
THEOREM ResumesWorkHolds == Spec => []ResumesWork
  <1>1. IInv => ResumesWork
    BY DEF IInv, ApartInv, InvPending, ResumesWork, Pairs, DirOf, FileOf
  <1> QED
    BY Invariance, <1>1, PTL

\* A file in its place stays there, whatever main does.
LEMMA NamedStay ==
    ASSUME TypeOK, InvFrame, ApartInv, Apart', Next,
           NEW d \in Dirs, NEW f \in Files, <<d, f>> \in named
    PROVE  <<d, f>> \in named' /\ Kept(disk', d, Home(f))
  <1> USE TypeParts
  <1>0. Apart
    BY ApartBefore
  <1>1. Home(f) \in There(d) /\ Home(f) \in FileNames
    BY PlaceIsThere, ConstantFacts DEF ApartInv, InvNamed
  <1>2. CASE Decode \/ DecodeFails
    <2>1. named' = named /\ main = "decode"
      BY <1>2 DEF Decode, DecodeFails, histVars
    <2>2. PICK e \in Dirs, g \in Files : e = JobDir /\ g = JobFile /\ e = DirOf(cur) /\ g = FileOf(cur, idx)
      BY <2>1, JobFacts
    <2>3. YName[g] = Home(g) => <<e, g>> \notin named
      BY <2>1, <2>2, JobFacts DEF ApartInv, InvPending, Pending
    <2>4. ~(d = e /\ Home(f) = YName[g])
      BY <1>0, <2>3 DEF Apart, NamesApart
    <2> QED
      BY <1>1, <1>2, <2>1, <2>2, <2>4, DecodeFacts
  <1>3. CASE Rename
    <2>1. PICK e \in Dirs, g \in Files : e = JobDir /\ g = JobFile /\ e = DirOf(cur) /\ g = FileOf(cur, idx)
      BY <1>3, JobFacts DEF Rename
    <2>2. PICK x \in Latest(e) : Moves(e, x, Quoted[g])
      BY <1>3, <2>1 DEF Rename, Moves
    <2>3. Quoted[g] \notin There(e) /\ Quoted[g] # NoName /\ main = "rename"
      BY <1>3, <2>1 DEF Rename
    <2>4. disk[e][YName[g]] = [of |-> g, late |-> TRUE, whole |-> TRUE]
      BY <2>1, <2>3 DEF ApartInv, InvDecoded
    <2>5. ~SameDate(e)
      BY <1>3, <2>1 DEF Apart, Rename
    <2>6. x = YName[g] /\ YName[g] \in There(e)
      BY <2>2, <2>4, <2>5, LatestIsDecoded
    <2>7. YName[g] = Home(g) => <<e, g>> \notin named
      BY <2>1, <2>3, JobFacts DEF ApartInv, InvPending, Pending
    <2>8. ~(d = e /\ Home(f) \in {YName[g], Quoted[g]})
      <3>1. d = e => Home(f) # Quoted[g]
        BY <1>1, <2>3
      <3>2. d = e => Home(f) # YName[g]
        BY <1>0, <2>7 DEF Apart, NamesApart
      <3> QED
        BY <3>1, <3>2
    <2>9. x \in Names /\ Quoted[g] \in FileNames /\ x # Quoted[g]
      BY <2>3, <2>6, ConstantFacts
    <2>10. disk'[d][Home(f)] = disk[d][Home(f)]
      BY <1>1, <2>2, <2>6, <2>8, <2>9, MovesFacts
    <2> QED
      BY <1>3, <2>10 DEF Rename, Kept
  <1>4. CASE Concat \/ KeepsName \/ RenameFails \/ Leaves
    BY <1>1, <1>4, OthersKept DEF Concat, KeepsName, RenameFails, Leaves, histVars
  <1>5. CASE UNCHANGED disk /\ named \subseteq named'
    BY <1>5 DEF Kept
  <1> QED
    BY <1>2, <1>3, <1>4, <1>5
    DEF Next, AddNzb, RefuseNzb, NextNzb, NextFile, NzbDone, NotFetched, Again, vars, histVars

\* Under Apart a file that has been put under the name its subject asks for is
\* not replaced, moved or cut short any more, in this run or in a later one, by
\* yydecode -f, by the renaming of another file or by the removal of a .big file.
THEOREM NeverReplaced ==
    Spec => [][Apart' => /\ named \subseteq named'
                         /\ \A p \in named : LET x == Quoted[p[2]] IN
                              /\ disk'[p[1]][x].of = disk[p[1]][x].of
                              /\ disk'[p[1]][x].whole = disk[p[1]][x].whole]_vars
  <1>1. IInv /\ Next => (Apart' => /\ named \subseteq named'
                                   /\ \A p \in named : LET x == Quoted[p[2]] IN
                                        /\ disk'[p[1]][x].of = disk[p[1]][x].of
                                        /\ disk'[p[1]][x].whole = disk[p[1]][x].whole)
    <2> SUFFICES ASSUME IInv, Next, Apart', NEW p \in named
                 PROVE  /\ p \in named'
                        /\ disk'[p[1]][Quoted[p[2]]].of = disk[p[1]][Quoted[p[2]]].of
                        /\ disk'[p[1]][Quoted[p[2]]].whole = disk[p[1]][Quoted[p[2]]].whole
      OBVIOUS
    <2>0. Apart
      BY ApartBefore DEF IInv
    <2>1. PICK d \in Dirs, f \in Files : p = <<d, f>>
      BY TypeParts DEF IInv, TypeHist
    <2>2. Quoted[f] # NoName
      BY <2>0, <2>1 DEF IInv, ApartInv, InvNamed
    <2>3. <<d, f>> \in named' /\ Kept(disk', d, Home(f))
      BY <2>0, <2>1, NamedStay DEF IInv
    <2> QED
      BY <2>1, <2>2, <2>3 DEF Home, Kept
  <1> QED
    BY Invariance, <1>1, PTL DEF Spec
=============================================================================
