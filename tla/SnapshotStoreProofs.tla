------------------------ MODULE SnapshotStoreProofs ------------------------
(***************************************************************************)
(* What holds of the snapshot store for any number of verbs on any tags,   *)
(* with no assumption on who works on what: its types, and that chunks of  *)
(* one tag never reach the file of another.  The argument: a process holds *)
(* chunks of the tag it works on, and its descriptor, whatever became of   *)
(* the file's name, points into a file of that tag.                        *)
(***************************************************************************)
EXTENDS SnapshotStore, SequenceTheorems, TLAPS

Working == {"has", "read", "reemit", "compare", "build",
            "delete", "create", "write"}

Holding == {"compare", "delete", "create", "write"}

OfTag(c, t) == \A i \in DOMAIN c : c[i] # Hole => c[i].tag = t

\* What a process at program counter a, with locals r, is sure to hold.
LocatedAt(a, r) ==
    /\ a \in Working => r.tag \in Tags
    /\ a \in Holding => r.held # << >> /\ OfTag(r.held, r.tag)

Located == \A p \in Procs : LocatedAt(pc[p], run[p])

FilesOK ==
    \A t \in Tags : /\ file[t] # None => OfTag(file[t], t)
                    /\ temp[t] # None => OfTag(temp[t], t)

\* A descriptor is open only while its process writes, into a file of the
\* tag the process works on; a file that has its name exists.
FdsOK ==
    \A p \in Procs : fd[p].of # "none" =>
        /\ pc[p] = "write" /\ fd[p].tag = run[p].tag
        /\ fd[p].of = "temp" => temp[fd[p].tag] # None
        /\ fd[p].of = "file" => file[fd[p].tag] # None

TypeInv == TypeOK /\ Located /\ FilesOK /\ FdsOK

-----------------------------------------------------------------------------
(* Lemmas on contents.                                                     *)

\* A file's contents are a sequence of at most Chunks chunks.
LEMMA ContentsAreSequences ==
    ASSUME NEW c \in Contents
    PROVE  /\ Len(c) \in 0..Chunks /\ DOMAIN c = 1..Len(c)
           /\ c \in [1..Len(c) -> Editions \cup {Hole}]
           /\ c # << >> => Len(c) # 0
  <1>1. PICK n \in 0..Chunks : c \in [1..n -> Editions \cup {Hole}]
    BY Zenon DEF Contents
  <1>2. n \in Nat /\ DOMAIN c = 1..n
    BY <1>1, EditionAssumption
  <1>3. c \in Seq(Editions \cup {Hole})
    BY <1>1, <1>2, SeqDef
  <1>4. Len(c) \in Nat /\ DOMAIN c = 1..Len(c) /\ (c # << >> => Len(c) # 0)
    BY <1>3, LenProperties, EmptySeq
  <1>5. Len(c) = n
    BY <1>2, <1>3, <1>4, SMT
  <1> QED
    BY <1>1, <1>4, <1>5

LEMMA SequencesAreContents ==
    ASSUME NEW n \in 0..Chunks, NEW c \in [1..n -> Editions \cup {Hole}]
    PROVE  c \in Contents /\ Len(c) = n /\ (n # 0 => c # << >>)
  <1>1. c \in Contents
    BY Zenon DEF Contents
  <1>2. n \in Nat /\ DOMAIN c = 1..n
    BY EditionAssumption
  <1>3. Len(c) \in 0..Chunks /\ DOMAIN c = 1..Len(c)
    BY <1>1, ContentsAreSequences
  <1>4. Len(c) = n
    BY <1>2, <1>3, EditionAssumption, SMT
  <1>5. Len(<< >>) = 0
    BY EmptySeq
  <1> QED
    BY <1>1, <1>4, <1>5

\* What Chunks and None are.
LEMMA Basics ==
    /\ Chunks \in Nat \ {0} /\ None \notin Contents /\ None \notin Tags
    /\ Hole \notin Editions
  BY EditionAssumption, StoreNoneAssumption

\* An empty file is a file.
LEMMA NothingIsContents ==
    << >> \in Contents /\ \A t : OfTag(<< >>, t)
  <1>1. << >> \in Seq(Editions \cup {Hole}) /\ Len(<< >>) = 0
    BY EmptySeq
  <1>2. << >> \in [1..0 -> Editions \cup {Hole}] /\ DOMAIN << >> = 1..0
    BY <1>1, LenProperties
  <1>3. 0 \in 0..Chunks /\ 1..0 = {}
    BY EditionAssumption, SMT
  <1>4. << >> \in Contents
    BY <1>2, <1>3, SequencesAreContents
  <1> QED
    BY <1>2, <1>3, <1>4 DEF OfTag

\* A whole snapshot is a file of its tag, and not empty.
LEMMA WholeIsContents ==
    ASSUME NEW e \in Editions
    PROVE  Whole(e) \in Contents /\ Whole(e) # << >> /\ OfTag(Whole(e), e.tag)
  <1>1. Whole(e) \in [1..Chunks -> Editions \cup {Hole}]
    BY DEF Whole
  <1>2. OfTag(Whole(e), e.tag)
    BY DEF Whole, OfTag
  <1> QED
    BY <1>1, <1>2, SequencesAreContents, EditionAssumption

\* So is what build_snapshot hands to write.
LEMMA BuiltIsContents ==
    ASSUME NEW t \in Tags
    PROVE  Built(t) \in Contents /\ Built(t) # << >> /\ OfTag(Built(t), t)
  <1> DEFINE e == [tag |-> t, extractor |-> Extractor, format |-> Format]
  <1>1. e \in Editions /\ e.tag = t
    BY EditionAssumption DEF Editions
  <1>2. Built(t) = Whole(e)
    BY DEF Built
  <1> HIDE DEF e
  <1> QED
    BY <1>1, <1>2, WholeIsContents

\* Writing a parsed snapshot again in another format keeps its length, its
\* tag and that it is not empty (format::to_string).
LEMMA ReemittedIsContents ==
    ASSUME NEW c \in Contents, Parses(c), NEW t, OfTag(c, t)
    PROVE  /\ Reemitted(c) \in Contents /\ Reemitted(c) # << >>
           /\ OfTag(Reemitted(c), t)
  <1>1. /\ Len(c) \in 0..Chunks /\ Len(c) # 0 /\ DOMAIN c = 1..Len(c)
        /\ c \in [1..Len(c) -> Editions \cup {Hole}]
    BY ContentsAreSequences DEF Parses
  <1>2. \A i \in 1..Len(c) : c[i] \in Editions
    BY <1>1 DEF Parses
  <1>3. \A i \in 1..Len(c) : /\ [c[i] EXCEPT !.format = Format] \in Editions
                             /\ [c[i] EXCEPT !.format = Format].tag = c[i].tag
    BY <1>2, EditionAssumption DEF Editions
  <1>4. Reemitted(c) \in [1..Len(c) -> Editions \cup {Hole}]
    BY <1>1, <1>3 DEF Reemitted
  <1>5. OfTag(Reemitted(c), t)
    <2>1. \A i \in 1..Len(c) : c[i].tag = t
      BY <1>1, <1>2, StoreNoneAssumption DEF OfTag
    <2> QED
      BY <1>1, <1>3, <2>1 DEF OfTag, Reemitted
  <1> QED
    BY <1>1, <1>4, <1>5, SequencesAreContents

\* Nor does a write at any position bring a chunk of another tag.
LEMMA WrittenIsContents ==
    ASSUME NEW c \in Contents, NEW i \in 1..Chunks, NEW t, OfTag(c, t),
           NEW k \in Editions \cup {Hole}, k # Hole => k.tag = t
    PROVE  WrittenAt(c, i, k) \in Contents /\ OfTag(WrittenAt(c, i, k), t)
  <1> DEFINE n == IF Len(c) > i THEN Len(c) ELSE i
  <1>1. /\ Len(c) \in 0..Chunks /\ DOMAIN c = 1..Len(c)
        /\ c \in [1..Len(c) -> Editions \cup {Hole}]
    BY ContentsAreSequences
  <1>2. n \in 0..Chunks
    BY <1>1, EditionAssumption, SMT
  <1>3. \A j \in 1..n : j <= Len(c) => j \in 1..Len(c)
    BY <1>1, SMT
  <1>4. WrittenAt(c, i, k) =
          [j \in 1..n |-> IF j = i THEN k ELSE IF j <= Len(c) THEN c[j] ELSE Hole]
    BY Zenon DEF WrittenAt
  <1> HIDE DEF n
  <1>5. WrittenAt(c, i, k) \in [1..n -> Editions \cup {Hole}]
    BY <1>1, <1>3, <1>4
  <1>6. OfTag(WrittenAt(c, i, k), t)
    BY <1>1, <1>3, <1>4 DEF OfTag
  <1> QED
    BY <1>2, <1>5, <1>6, SequencesAreContents

-----------------------------------------------------------------------------
(* Lemmas on steps.                                                        *)

\* A step of one process to program counter a and locals r keeps the locals
\* typed and located when a and r are.
LEMMA OneMoves ==
    ASSUME TypeInv, NEW p \in Procs, NEW a \in PCs, NEW r \in Runs,
           LocatedAt(a, r),
           pc' = [pc EXCEPT ![p] = a], run' = [run EXCEPT ![p] = r]
    PROVE  pc' \in [Procs -> PCs] /\ run' \in [Procs -> Runs] /\ Located'
  BY DEF TypeInv, TypeOK, Located

\* Such a step of a process that has no file open keeps the invariant when it
\* touches no file.
LEMMA MoveKeepsTypeInv ==
    ASSUME TypeInv, NEW p \in Procs, NEW a \in PCs, NEW r \in Runs,
           LocatedAt(a, r), pc[p] # "write", UNCHANGED files,
           faults' \in Nat,
           pc' = [pc EXCEPT ![p] = a], run' = [run EXCEPT ![p] = r]
    PROVE  TypeInv'
  <1>1. pc' \in [Procs -> PCs] /\ run' \in [Procs -> Runs] /\ Located'
    BY OneMoves
  <1>2. FdsOK'
    BY DEF TypeInv, TypeOK, FdsOK, files
  <1>3. FilesOK'
    BY DEF TypeInv, FilesOK, files
  <1>4. TypeOK'
    BY <1>1 DEF TypeInv, TypeOK, files, Located, LocatedAt, Working, Holding
  <1> QED
    BY <1>1, <1>2, <1>3, <1>4 DEF TypeInv

\* One more fault keeps their count a number.
LEMMA FaultType ==
    ASSUME TypeInv, Fault
    PROVE  faults' \in Nat
  BY DEF TypeInv, TypeOK, Fault

\* Nobody's locals are well typed.
LEMMA NoRunType == NoRun \in Runs
  BY NothingIsContents, EditionAssumption DEF NoRun, Runs, Verbs

\* A process that is done with a tag goes on or stops with typed locals.
LEMMA OnwardMoves ==
    ASSUME TypeInv, NEW p \in Procs, Proceed(p) \/ Stop(p) \/ FailTag(p)
    PROVE  \E a \in PCs, r \in Runs :
             /\ LocatedAt(a, r)
             /\ pc' = [pc EXCEPT ![p] = a] /\ run' = [run EXCEPT ![p] = r]
  <1>1. run[p] \in Runs
    BY DEF TypeInv, TypeOK
  <1>2. WithoutTag(run[p]) \in Runs
    <2>1. 0 \in 0..Chunks /\ << >> \in Contents /\ FALSE \in BOOLEAN
      BY NothingIsContents, EditionAssumption
    <2> QED
      BY <1>1, <2>1, Zenon DEF WithoutTag, Runs
  <1>3. CASE Proceed(p)
    <2>1. run' = [run EXCEPT ![p] = WithoutTag(run[p])]
      BY <1>3, Zenon DEF Proceed
    <2>2. LocatedAt("next", WithoutTag(run[p])) /\ "next" \in PCs
      BY DEF LocatedAt, Working, Holding, PCs
    <2> QED
      BY <1>2, <1>3, <2>1, <2>2 DEF Proceed
  <1>4. CASE Stop(p)
    BY <1>4, NoRunType DEF Stop, LocatedAt, Working, Holding, PCs
  <1> QED
    BY <1>3, <1>4 DEF FailTag

\* Only its own descriptor is closed, and the file stays.
LEMMA CloseKeepsFds ==
    ASSUME TypeInv, NEW p \in Procs, Close(p), NEW a, NEW r,
           pc' = [pc EXCEPT ![p] = a], run' = [run EXCEPT ![p] = r],
           UNCHANGED <<file, temp>>
    PROVE  fd' \in [Procs -> Fds] /\ FdsOK'
  <1>1. NoFd \in Fds /\ NoFd.of = "none"
    BY DEF NoFd, Fds
  <1> QED
    BY <1>1 DEF TypeInv, TypeOK, FdsOK, Close

-----------------------------------------------------------------------------
(* The steps of a verb that write nothing.                                 *)

\* Beginning any verb keeps TypeInv.
LEMMA StartType ==
    ASSUME TypeInv, NEW p \in Procs, Start(p)
    PROVE  TypeInv'
  <1>1. NoRun \in Runs
    BY NoRunType
  <1>2. ASSUME NEW r \in Runs, NEW a \in {"next", "build"}, Begin(p, r, a),
               a = "build" => r.tag \in Tags
        PROVE  TypeInv'
    <2>1. a \in PCs /\ LocatedAt(a, r)
      BY <1>2 DEF PCs, LocatedAt, Working, Holding
    <2>2. faults' \in Nat
      BY <1>2 DEF Begin, TypeInv, TypeOK
    <2> QED
      BY <1>2, <2>1, <2>2, MoveKeepsTypeInv DEF Begin
  <1>3. ASSUME NEW T \in SUBSET Tags, NEW b \in BOOLEAN, Generate(p, T, b)
        PROVE  TypeInv'
    <2> DEFINE r == [NoRun EXCEPT !.verb = IF b THEN "refresh" ELSE "generate",
                                  !.claims = T, !.todo = T]
    <2>1. r \in Runs
      BY <1>1 DEF Runs, Verbs
    <2>2. Begin(p, r, "next")
      BY <1>3, Zenon DEF Generate
    <2> QED
      BY <1>2, <2>1, <2>2
  <1>4. ASSUME NEW T \in SUBSET Tags, Check(p, T)
        PROVE  TypeInv'
    <2> DEFINE r == [NoRun EXCEPT !.verb = "check", !.claims = T,
                                  !.todo = T \ Present, !.unread = T]
    <2>1. r \in Runs
      BY <1>1 DEF Runs, Verbs
    <2>2. Begin(p, r, "next")
      BY <1>4, Zenon DEF Check
    <2> QED
      BY <1>2, <2>1, <2>2
  <1>5. ASSUME NEW t \in Tags, Rebuild(p, t)
        PROVE  TypeInv'
    <2> DEFINE r == [NoRun EXCEPT !.verb = "rebuild", !.claims = {t}, !.tag = t,
                                  !.replace = TRUE]
    <2>1. r \in Runs /\ r.tag = t
      BY <1>1 DEF Runs, Verbs, NoRun
    <2>2. Begin(p, r, "build")
      BY <1>5, Zenon DEF Rebuild
    <2> QED
      BY <1>2, <2>1, <2>2
  <1>6. CASE Migrate(p)
    <2> DEFINE r == [NoRun EXCEPT !.verb = "migrate", !.claims = Present,
                                  !.todo = Present]
    <2>1. r \in Runs
      BY <1>1 DEF Runs, Verbs, Present
    <2>2. Begin(p, r, "next")
      BY <1>6, Zenon DEF Migrate
    <2> QED
      BY <1>2, <2>1, <2>2
  <1> QED
    BY <1>3, <1>4, <1>5, <1>6 DEF Start

\* So does any decision about a tag, whatever the file holds by then.
LEMMA DecideType ==
    ASSUME TypeInv, NEW p \in Procs, Decide(p)
    PROVE  TypeInv'
  <1>1. /\ run[p] \in Runs /\ LocatedAt(pc[p], run[p])
        /\ faults \in Nat /\ pc \in [Procs -> PCs]
        /\ run \in [Procs -> Runs]
    BY DEF TypeInv, TypeOK, Located
  <1>2. ASSUME NEW a \in PCs, NEW r \in Runs, LocatedAt(a, r), pc[p] # "write",
               UNCHANGED <<files, faults>>,
               pc' = [pc EXCEPT ![p] = a], run' = [run EXCEPT ![p] = r]
        PROVE  TypeInv'
    <2>1. faults' \in Nat
      BY <1>1, <1>2
    <2> QED
      BY <1>2, <2>1, MoveKeepsTypeInv
  <1>3. ASSUME NEW a \in PCs, LocatedAt(a, run[p]), pc[p] # "write",
               UNCHANGED <<files, run, faults>>, pc' = [pc EXCEPT ![p] = a]
        PROVE  TypeInv'
    <2>1. run' = [run EXCEPT ![p] = run[p]]
      BY <1>1, <1>3
    <2> QED
      BY <1>1, <1>2, <1>3, <2>1
  <1>4. ASSUME pc[p] # "write", Proceed(p) \/ Stop(p) \/ FailTag(p),
               UNCHANGED files, faults' \in Nat
        PROVE  TypeInv'
    BY <1>4, OnwardMoves, MoveKeepsTypeInv
  <1>5. CASE TakeTag(p)
    <2>1. PICK t \in run[p].todo :
              run' = [run EXCEPT ![p].tag = t, ![p].todo = @ \ {t}]
      BY <1>5 DEF TakeTag
    <2> DEFINE r == [run[p] EXCEPT !.tag = t, !.todo = @ \ {t}]
               a == CASE run[p].verb = "check"   -> "build"
                      [] run[p].verb = "migrate" -> "reemit"
                      [] OTHER                   -> "has"
    <2>2. t \in Tags
      BY <1>1 DEF Runs
    <2>3. r \in Runs /\ r.tag = t
      BY <1>1, <2>2 DEF Runs
    <2>4. a \in {"build", "reemit", "has"}
      OBVIOUS
    <2>5. pc' = [pc EXCEPT ![p] = a] /\ run' = [run EXCEPT ![p] = r]
      BY <1>5, <2>1, Zenon DEF TakeTag
    <2> HIDE DEF a, r
    <2>6. a \in PCs /\ LocatedAt(a, r)
      BY <2>2, <2>3, <2>4 DEF PCs, LocatedAt, Holding
    <2> QED
      BY <1>2, <1>5, <2>3, <2>5, <2>6 DEF TakeTag
  <1>6. CASE HasSnapshot(p)
    <2>1. \A a \in {"read", "build"} : a \in PCs /\ LocatedAt(a, run[p])
      BY <1>1, <1>6 DEF HasSnapshot, LocatedAt, Working, Holding, PCs
    <2> QED
      BY <1>3, <1>6, <2>1 DEF HasSnapshot
  <1>7. CASE DecideAction(p)
    <2> DEFINE r == [run[p] EXCEPT !.replace = TRUE]
    <2>1. r \in Runs /\ r.tag = run[p].tag
      BY <1>1 DEF Runs
    <2>2. "build" \in PCs /\ LocatedAt("build", r)
      BY <1>1, <1>7, <2>1 DEF DecideAction, LocatedAt, Working, Holding, PCs
    <2>3. CASE pc' = [pc EXCEPT ![p] = "build"] /\ run' = [run EXCEPT ![p].replace = TRUE]
      <3>1. run' = [run EXCEPT ![p] = r]
        BY <2>3, Zenon
      <3> QED
        BY <1>2, <1>7, <2>1, <2>2, <2>3, <3>1 DEF DecideAction
    <2>4. CASE Proceed(p)
      BY <1>1, <1>4, <1>7, <2>4 DEF DecideAction
    <2> QED
      BY <1>7, <2>3, <2>4 DEF DecideAction
  <1>8. CASE Build(p)
    <2> DEFINE r == [run[p] EXCEPT !.held = Built(run[p].tag)]
    <2>1. run[p].tag \in Tags
      BY <1>1, <1>8 DEF Build, LocatedAt, Working
    <2>2. r \in Runs /\ r.tag = run[p].tag /\ r.held = Built(run[p].tag)
      BY <1>1, <2>1, BuiltIsContents DEF Runs
    <2>3. run' = [run EXCEPT ![p] = r]
      BY <1>8, Zenon DEF Build
    <2> HIDE DEF r
    <2>4. \A a \in {"delete", "create"} : a \in PCs /\ LocatedAt(a, r)
      BY <2>1, <2>2, BuiltIsContents DEF LocatedAt, PCs
    <2> QED
      BY <1>2, <1>8, <2>2, <2>3, <2>4 DEF Build
  <1>9. CASE BuildFails(p)
    <2>1. faults' \in Nat
      BY <1>9, FaultType DEF BuildFails
    <2> QED
      BY <1>4, <1>9, <2>1 DEF BuildFails
  <1>10. CASE Reemit(p)
    <2> DEFINE c == file[run[p].tag]
               r == [run[p] EXCEPT !.held = Reemitted(c)]
    <2>1. CASE Readable(run[p].tag)
      <3>1. run[p].tag \in Tags
        BY <1>1, <1>10 DEF Reemit, LocatedAt, Working
      <3>2. c \in Contents /\ Parses(c) /\ OfTag(c, run[p].tag)
        BY <2>1, <3>1 DEF TypeInv, TypeOK, FilesOK, Readable
      <3>3. /\ Reemitted(c) \in Contents /\ Reemitted(c) # << >>
            /\ OfTag(Reemitted(c), run[p].tag)
        BY <3>2, ReemittedIsContents
      <3>4. r \in Runs /\ r.tag = run[p].tag /\ r.held = Reemitted(c)
        BY <1>1, <3>3 DEF Runs
      <3>5. run' = [run EXCEPT ![p] = r] /\ pc' = [pc EXCEPT ![p] = "compare"]
        BY <1>10, <2>1, Zenon DEF Reemit
      <3> HIDE DEF r
      <3>6. "compare" \in PCs /\ LocatedAt("compare", r)
        BY <3>1, <3>3, <3>4 DEF LocatedAt, PCs
      <3> QED
        BY <1>2, <1>10, <3>4, <3>5, <3>6 DEF Reemit
    <2>2. CASE ~Readable(run[p].tag)
      BY <1>1, <1>4, <1>10, <2>2 DEF Reemit
    <2> QED
      BY <2>1, <2>2
  <1>11. CASE CompareText(p)
    <2>1. "create" \in PCs /\ LocatedAt("create", run[p])
      BY <1>1, <1>11 DEF CompareText, LocatedAt, Working, Holding, PCs
    <2>2. CASE Proceed(p)
      BY <1>1, <1>4, <1>11, <2>2 DEF CompareText
    <2>3. CASE pc' = [pc EXCEPT ![p] = "create"] /\ UNCHANGED run
      BY <1>3, <1>11, <2>1, <2>3 DEF CompareText
    <2> QED
      BY <1>11, <2>2, <2>3 DEF CompareText
  <1> QED
    BY <1>5, <1>6, <1>7, <1>8, <1>9, <1>10, <1>11 DEF Decide

-----------------------------------------------------------------------------
(* The steps that write.                                                   *)

\* Giving a tag up with its file closed keeps TypeInv; so does being killed.
LEMMA FailOrDieType ==
    ASSUME TypeInv, NEW p \in Procs, FailTag(p) \/ Stop(p), Close(p),
           UNCHANGED <<file, temp>>, faults' \in Nat
    PROVE  TypeInv'
  <1>1. PICK a \in PCs, r \in Runs :
            /\ LocatedAt(a, r)
            /\ pc' = [pc EXCEPT ![p] = a] /\ run' = [run EXCEPT ![p] = r]
    BY OnwardMoves
  <1>2. pc' \in [Procs -> PCs] /\ run' \in [Procs -> Runs] /\ Located'
    BY <1>1, OneMoves
  <1>3. fd' \in [Procs -> Fds] /\ FdsOK'
    BY <1>1, CloseKeepsFds
  <1>4. FilesOK'
    BY DEF TypeInv, FilesOK
  <1>5. TypeOK'
    BY <1>2, <1>3 DEF TypeInv, TypeOK, Located, LocatedAt, Working, Holding
  <1> QED
    BY <1>2, <1>3, <1>4, <1>5 DEF TypeInv

\* Unlinking a name leaves descriptors typed and on the tag they were on.
LEMMA UnlinkedType ==
    ASSUME NEW d \in Fds, NEW t
    PROVE  /\ Unlinked(d, t) \in Fds /\ Unlinked(d, t).tag = d.tag
           /\ Unlinked(d, t).of = "none" <=> d.of = "none"
           /\ Unlinked(d, t).of = "temp" <=> d.of = "temp"
           /\ Unlinked(d, t).of = "file" <=> d.of = "file" /\ d.tag # t
  <1>1. CASE d = [of |-> "file", tag |-> t]
    BY <1>1 DEF Unlinked, Fds
  <1>2. CASE d # [of |-> "file", tag |-> t]
    BY <1>2 DEF Unlinked, Fds
  <1> QED
    BY <1>1, <1>2

\* A rename moves the temp file's descriptors to the snapshot's name.
LEMMA RenamedType ==
    ASSUME NEW d \in Fds, NEW t \in Tags
    PROVE  /\ Renamed(d, t) \in Fds /\ Renamed(d, t).tag = d.tag
           /\ Renamed(d, t).of = "none" <=> d.of = "none"
           /\ Renamed(d, t).of = "temp" <=> d.of = "temp" /\ d.tag # t
           /\ Renamed(d, t).of = "file" /\ d.tag # t => d.of = "file"
  <1>1. CASE d = [of |-> "temp", tag |-> t]
    BY <1>1 DEF Renamed, TempOf, Fds
  <1>2. CASE d # [of |-> "temp", tag |-> t]
    BY <1>2, UnlinkedType DEF Renamed, TempOf, Fds
  <1> QED
    BY <1>1, <1>2

\* Every system call of delete and write keeps TypeInv.
LEMMA WriteType ==
    ASSUME TypeInv, NEW p \in Procs, Write(p)
    PROVE  TypeInv'
  <1>1. /\ run[p] \in Runs /\ LocatedAt(pc[p], run[p])
        /\ faults \in Nat /\ pc \in [Procs -> PCs]
        /\ run \in [Procs -> Runs] /\ fd \in [Procs -> Fds]
        /\ file \in [Tags -> Contents \cup {None}]
        /\ temp \in [Tags -> Contents \cup {None}]
    BY DEF TypeInv, TypeOK, Located
  <1>2. pc[p] \in {"delete", "create", "write"} =>
          run[p].tag \in Tags /\ run[p].held # << >> /\ OfTag(run[p].held, run[p].tag)
    BY <1>1 DEF LocatedAt, Working, Holding
  <1>3. ASSUME file' \in [Tags -> Contents \cup {None}],
               temp' \in [Tags -> Contents \cup {None}], FilesOK',
               fd' \in [Procs -> Fds], FdsOK', faults' \in Nat,
               pc' \in [Procs -> PCs], run' \in [Procs -> Runs], Located'
        PROVE  TypeInv'
    BY <1>3 DEF TypeInv, TypeOK, Located, LocatedAt, Working, Holding
  <1>4. ASSUME NEW a \in PCs, LocatedAt(a, run[p]), UNCHANGED run,
               pc' = [pc EXCEPT ![p] = a]
        PROVE  pc' \in [Procs -> PCs] /\ run' \in [Procs -> Runs] /\ Located'
    <2>1. run' = [run EXCEPT ![p] = run[p]]
      BY <1>1, <1>4
    <2> QED
      BY <1>1, <1>4, <2>1, OneMoves
  <1>5. CASE Delete(p)
    <2> DEFINE t == run[p].tag
    <2>1. t \in Tags /\ LocatedAt("create", run[p]) /\ "create" \in PCs
      BY <1>2, <1>5 DEF Delete, LocatedAt, PCs
    <2>2. pc' \in [Procs -> PCs] /\ run' \in [Procs -> Runs] /\ Located'
      BY <1>4, <1>5, <2>1 DEF Delete
    <2>3. /\ file' = [file EXCEPT ![t] = None] /\ temp' = temp
          /\ fd' = [q \in Procs |-> Unlinked(fd[q], t)]
          /\ pc' = [pc EXCEPT ![p] = "create"] /\ run' = run /\ pc[p] = "delete"
      BY <1>5 DEF Delete
    <2> HIDE DEF t
    <2>4. file' \in [Tags -> Contents \cup {None}] /\ temp' \in [Tags -> Contents \cup {None}]
      BY <1>1, <2>3
    <2>5. FilesOK'
      BY <1>1, <2>3 DEF TypeInv, FilesOK
    <2>6. fd' \in [Procs -> Fds]
      BY <1>1, <2>3, UnlinkedType
    <2>7. FdsOK'
      <3> SUFFICES ASSUME NEW q \in Procs, fd'[q].of # "none"
                   PROVE  /\ pc'[q] = "write" /\ fd'[q].tag = run'[q].tag
                          /\ fd'[q].of = "temp" => temp'[fd'[q].tag] # None
                          /\ fd'[q].of = "file" => file'[fd'[q].tag] # None
        BY DEF FdsOK
      <3>1. /\ fd'[q].tag = fd[q].tag /\ fd[q].of # "none"
            /\ fd'[q].of = "temp" => fd[q].of = "temp"
            /\ fd'[q].of = "file" => fd[q].of = "file" /\ fd[q].tag # t
        BY <1>1, <2>3, UnlinkedType
      <3> QED
        BY <1>1, <2>3, <3>1 DEF TypeInv, FdsOK
    <2> QED
      BY <1>1, <1>3, <1>5, <2>2, <2>4, <2>5, <2>6, <2>7 DEF Delete
  <1>6. CASE CreateTemp(p)
    <2> DEFINE t == run[p].tag
    <2>1. t \in Tags /\ LocatedAt("write", run[p]) /\ "write" \in PCs
      BY <1>2, <1>6 DEF CreateTemp, LocatedAt, PCs
    <2>2. pc' \in [Procs -> PCs] /\ run' \in [Procs -> Runs] /\ Located'
      BY <1>4, <1>6, <2>1 DEF CreateTemp
    <2>3. /\ temp' = [temp EXCEPT ![t] = << >>] /\ file' = file
          /\ fd' = [fd EXCEPT ![p] = [of |-> "temp", tag |-> t]]
          /\ pc' = [pc EXCEPT ![p] = "write"] /\ run' = run
      BY <1>6 DEF CreateTemp, TempOf
    <2>4. t = run'[p].tag
      BY <2>3
    <2> HIDE DEF t
    <2>5. file' \in [Tags -> Contents \cup {None}] /\ temp' \in [Tags -> Contents \cup {None}]
      BY <1>1, <2>3, NothingIsContents
    <2>6. FilesOK'
      BY <1>1, <2>3, NothingIsContents DEF TypeInv, FilesOK
    <2>7. fd' \in [Procs -> Fds]
      BY <1>1, <2>1, <2>3 DEF Fds
    <2>8. << >> # None
      BY NothingIsContents, Basics
    <2>9. FdsOK'
      BY <1>1, <2>1, <2>3, <2>4, <2>8 DEF TypeInv, FdsOK, Fds
    <2> QED
      BY <1>1, <1>3, <1>6, <2>2, <2>5, <2>6, <2>7, <2>9 DEF CreateTemp
  <1>7. CASE WriteChunk(p)
    <2> DEFINE i == run[p].at + 1
               k == run[p].held[i]
               t == run[p].tag
               u == fd[p].tag
               r == [run[p] EXCEPT !.at = i]
    <2>1. /\ pc[p] = "write" /\ run[p].at < Len(run[p].held)
          /\ temp' = IF fd[p].of = "temp"
                     THEN [temp EXCEPT ![u] = WrittenAt(@, i, k)] ELSE temp
          /\ file' = IF fd[p].of = "file"
                     THEN [file EXCEPT ![u] = WrittenAt(@, i, k)] ELSE file
          /\ fd' = fd /\ pc' = pc /\ faults' = faults
      BY <1>7, Zenon DEF WriteChunk
    <2>2. run' = [run EXCEPT ![p] = r]
      BY <1>7, Zenon DEF WriteChunk
    <2>3. run[p].held \in Contents /\ run[p].at \in 0..Chunks /\ t \in Tags
      BY <1>1, <1>2, <2>1 DEF Runs
    <2>4. i \in 1..Chunks /\ i \in 1..Len(run[p].held)
      BY <2>1, <2>3, ContentsAreSequences, EditionAssumption, SMT
    <2>5. k \in Editions \cup {Hole} /\ (k # Hole => k.tag = t)
      BY <1>2, <2>1, <2>3, <2>4, ContentsAreSequences DEF OfTag
    <2>6. r \in Runs /\ r.tag = t /\ r.held = run[p].held
      <3>1. i \in 0..Chunks
        BY <2>4, EditionAssumption
      <3> HIDE DEF i
      <3> QED
        BY <1>1, <3>1 DEF Runs
    <2>7. fd[p].of # "none" => u = t /\ (fd[p].of = "temp" => temp[t] # None)
                                    /\ (fd[p].of = "file" => file[t] # None)
      BY DEF TypeInv, FdsOK
    <2>8. ASSUME NEW c \in Contents, OfTag(c, t)
          PROVE  /\ WrittenAt(c, i, k) \in Contents /\ WrittenAt(c, i, k) # None
                 /\ OfTag(WrittenAt(c, i, k), t)
      BY <2>4, <2>5, <2>8, WrittenIsContents, Basics
    <2> HIDE DEF i, k, r
    <2>9. LocatedAt("write", r) /\ "write" \in PCs
      BY <1>2, <2>1, <2>3, <2>6 DEF LocatedAt, PCs
    <2>10. pc' = [pc EXCEPT ![p] = "write"]
      BY <1>1, <2>1
    <2>11. pc' \in [Procs -> PCs] /\ run' \in [Procs -> Runs] /\ Located'
      BY <2>2, <2>6, <2>9, <2>10, OneMoves
    <2>12. \A v \in Tags : /\ file[v] # None => file[v] \in Contents /\ OfTag(file[v], v)
                           /\ temp[v] # None => temp[v] \in Contents /\ OfTag(temp[v], v)
      BY <1>1 DEF TypeInv, FilesOK
    <2>13. /\ file' \in [Tags -> Contents \cup {None}]
           /\ \A v \in Tags : /\ file'[v] # None => OfTag(file'[v], v)
                              /\ file'[v] = None <=> file[v] = None
      <3>1. CASE fd[p].of = "file"
        <4>1. u = t /\ file[t] \in Contents /\ OfTag(file[t], t)
          BY <2>3, <2>7, <2>12, <3>1
        <4>2. file' = [file EXCEPT ![t] = WrittenAt(file[t], i, k)]
          BY <2>1, <3>1, <4>1
        <4> QED
          BY <1>1, <2>3, <2>7, <2>8, <2>12, <3>1, <4>1, <4>2
      <3>2. CASE fd[p].of # "file"
        BY <1>1, <2>1, <2>12, <3>2
      <3> QED
        BY <3>1, <3>2
    <2>14. /\ temp' \in [Tags -> Contents \cup {None}]
           /\ \A v \in Tags : /\ temp'[v] # None => OfTag(temp'[v], v)
                              /\ temp'[v] = None <=> temp[v] = None
      <3>1. CASE fd[p].of = "temp"
        <4>1. u = t /\ temp[t] \in Contents /\ OfTag(temp[t], t)
          BY <2>3, <2>7, <2>12, <3>1
        <4>2. temp' = [temp EXCEPT ![t] = WrittenAt(temp[t], i, k)]
          BY <2>1, <3>1, <4>1
        <4> QED
          BY <1>1, <2>3, <2>7, <2>8, <2>12, <3>1, <4>1, <4>2
      <3>2. CASE fd[p].of # "temp"
        BY <1>1, <2>1, <2>12, <3>2
      <3> QED
        BY <3>1, <3>2
    <2>15. FilesOK'
      BY <2>13, <2>14 DEF FilesOK
    <2>16. FdsOK'
      <3> SUFFICES ASSUME NEW q \in Procs, fd[q].of # "none"
                   PROVE  /\ pc[q] = "write" /\ fd[q].tag = run'[q].tag
                          /\ fd[q].of = "temp" => temp'[fd[q].tag] # None
                          /\ fd[q].of = "file" => file'[fd[q].tag] # None
        BY <2>1 DEF FdsOK
      <3>1. /\ pc[q] = "write" /\ fd[q].tag = run[q].tag
            /\ fd[q].of = "temp" => temp[fd[q].tag] # None
            /\ fd[q].of = "file" => file[fd[q].tag] # None
        BY DEF TypeInv, FdsOK
      <3>2. run'[q].tag = run[q].tag /\ run[q].tag \in Tags
        <4>1. run[q].tag \in Tags
          BY <3>1 DEF TypeInv, Located, LocatedAt, Working
        <4>2. CASE q = p
          BY <1>1, <2>2, <2>6, <4>1, <4>2
        <4>3. CASE q # p
          BY <1>1, <2>2, <4>1, <4>3
        <4> QED
          BY <4>2, <4>3
      <3> QED
        BY <2>13, <2>14, <3>1, <3>2
    <2> QED
      BY <1>1, <1>3, <2>1, <2>11, <2>13, <2>14, <2>15, <2>16
  <1>8. CASE Publish(p)
    <2> DEFINE t == run[p].tag
               g(q) == IF q = p THEN NoFd ELSE Renamed(fd[q], t)
    <2>1. t \in Tags /\ pc[p] = "write"
      BY <1>2, <1>8 DEF Publish
    <2>2. /\ temp[t] # None /\ faults' = faults /\ Proceed(p)
          /\ file' = [file EXCEPT ![t] = temp[t]] /\ temp' = [temp EXCEPT ![t] = None]
          /\ fd' = [q \in Procs |-> g(q)]
      BY <1>8 DEF Publish, TempOf
    <2>3. PICK a \in PCs, r \in Runs :
              /\ LocatedAt(a, r)
              /\ pc' = [pc EXCEPT ![p] = a] /\ run' = [run EXCEPT ![p] = r]
      BY <2>2, OnwardMoves
    <2>4. pc' \in [Procs -> PCs] /\ run' \in [Procs -> Runs] /\ Located'
      BY <2>3, OneMoves
    <2> HIDE DEF t
    <2>5. file' \in [Tags -> Contents \cup {None}] /\ temp' \in [Tags -> Contents \cup {None}]
      BY <1>1, <2>1, <2>2
    <2>6. FilesOK'
      BY <1>1, <2>1, <2>2 DEF TypeInv, FilesOK
    <2>7. NoFd \in Fds /\ NoFd.of = "none"
      BY DEF NoFd, Fds
    <2>8. fd' \in [Procs -> Fds]
      BY <1>1, <2>1, <2>2, <2>7, RenamedType
    <2>9. FdsOK'
      <3> SUFFICES ASSUME NEW q \in Procs, fd'[q].of # "none"
                   PROVE  /\ pc'[q] = "write" /\ fd'[q].tag = run'[q].tag
                          /\ fd'[q].of = "temp" => temp'[fd'[q].tag] # None
                          /\ fd'[q].of = "file" => file'[fd'[q].tag] # None
        BY DEF FdsOK
      <3>1. q # p /\ fd'[q] = Renamed(fd[q], t) /\ fd[q] \in Fds
        BY <1>1, <2>2, <2>7
      <3>2. /\ fd'[q].tag = fd[q].tag /\ fd[q].of # "none"
            /\ fd'[q].of = "temp" => fd[q].of = "temp" /\ fd[q].tag # t
            /\ fd'[q].of = "file" /\ fd[q].tag # t => fd[q].of = "file"
        BY <2>1, <3>1, RenamedType
      <3>3. /\ pc[q] = "write" /\ fd[q].tag = run[q].tag
            /\ fd[q].of = "temp" => temp[fd[q].tag] # None
            /\ fd[q].of = "file" => file[fd[q].tag] # None
        BY <3>2 DEF TypeInv, FdsOK
      <3>4. pc'[q] = pc[q] /\ run'[q] = run[q] /\ run[q].tag \in Tags
        BY <1>1, <2>3, <3>1, <3>3 DEF TypeInv, Located, LocatedAt, Working
      <3> QED
        BY <1>1, <2>1, <2>2, <3>2, <3>3, <3>4
    <2> QED
      BY <1>1, <1>3, <2>2, <2>4, <2>5, <2>6, <2>8, <2>9
  <1>9. ASSUME FailTag(p), Close(p), UNCHANGED <<file, temp>>,
               faults' \in Nat
        PROVE  TypeInv'
    BY <1>9, FailOrDieType
  <1>10. CASE PublishMissing(p)
    BY <1>1, <1>9, <1>10 DEF PublishMissing
  <1>11. CASE WriteFails(p)
    <2>1. faults' \in Nat
      BY <1>11, FaultType DEF WriteFails
    <2> QED
      BY <1>9, <1>11, <2>1 DEF WriteFails
  <1>12. CASE DeleteFails(p)
    <2>1. LocatedAt("create", run[p]) /\ "create" \in PCs
      BY <1>2, <1>12 DEF DeleteFails, LocatedAt, PCs
    <2>2. run' = [run EXCEPT ![p] = run[p]]
      BY <1>1, <1>12 DEF DeleteFails
    <2>3. faults' \in Nat
      BY <1>1, <1>12 DEF DeleteFails
    <2> QED
      BY <1>1, <1>12, <2>1, <2>2, <2>3, MoveKeepsTypeInv DEF DeleteFails
  <1> QED
    BY <1>5, <1>6, <1>7, <1>8, <1>10, <1>11, <1>12 DEF Write

-----------------------------------------------------------------------------
(* The theorems.                                                           *)

\* Reading a pin, ending and being killed keep TypeInv.
LEMMA EndType ==
    ASSUME TypeInv, NEW p \in Procs, ReadPin(p) \/ Finish(p) \/ Die(p)
    PROVE  TypeInv'
  <1>1. run[p] \in Runs /\ pc \in [Procs -> PCs] /\ faults \in Nat
    BY DEF TypeInv, TypeOK
  <1>2. ASSUME Stop(p), pc[p] = "next", UNCHANGED <<files, faults>>
        PROVE  TypeInv'
    BY <1>1, <1>2, OnwardMoves, MoveKeepsTypeInv
  <1>3. CASE ReadPin(p)
    <2>1. PICK t \in run[p].unread :
              \/ Stop(p)
              \/ run' = [run EXCEPT ![p].unread = @ \ {t}] /\ UNCHANGED pc
      BY <1>3 DEF ReadPin
    <2>2. CASE run' = [run EXCEPT ![p].unread = @ \ {t}] /\ UNCHANGED pc
      <3> DEFINE r == [run[p] EXCEPT !.unread = @ \ {t}]
      <3>1. r \in Runs
        BY <1>1 DEF Runs
      <3>2. run' = [run EXCEPT ![p] = r]
        BY <2>2, Zenon
      <3> HIDE DEF r
      <3>3. pc[p] = "next" /\ pc' = [pc EXCEPT ![p] = "next"]
        BY <1>1, <1>3, <2>2 DEF ReadPin
      <3>4. "next" \in PCs /\ LocatedAt("next", r)
        BY DEF PCs, LocatedAt, Working, Holding
      <3>5. UNCHANGED files /\ faults' \in Nat
        BY <1>1, <1>3 DEF ReadPin
      <3> QED
        BY <3>1, <3>2, <3>3, <3>4, <3>5, MoveKeepsTypeInv
    <2>3. CASE Stop(p)
      BY <1>2, <1>3, <2>3 DEF ReadPin
    <2> QED
      BY <2>1, <2>2, <2>3
  <1>4. CASE Finish(p)
    BY <1>2, <1>4 DEF Finish
  <1>5. CASE Die(p)
    <2>1. faults' \in Nat
      BY <1>5, FaultType DEF Die
    <2> QED
      BY <1>5, <2>1, FailOrDieType DEF Die
  <1> QED
    BY <1>3, <1>4, <1>5

LEMMA InitType ==
    ASSUME Init
    PROVE  TypeInv
  <1>1. file \in [Tags -> Contents \cup {None}]
    BY WholeIsContents DEF Init
  <1>2. \A t \in Tags : file[t] # None => OfTag(file[t], t)
    <2> SUFFICES ASSUME NEW t \in Tags, file[t] # None
                 PROVE  OfTag(file[t], t)
      OBVIOUS
    <2>1. PICK e \in Editions : file[t] = Whole(e)
      BY DEF Init
    <2>2. file[t][1].tag = t /\ Whole(e)[1] = e
      BY EditionAssumption DEF Init, Whole
    <2> QED
      BY <2>1, <2>2, WholeIsContents
  <1>3. NoFd \in Fds /\ NoFd.of = "none"
    BY DEF NoFd, Fds
  <1>4. TypeOK
    BY <1>1, <1>3, NoRunType DEF Init, TypeOK, PCs
  <1>5. Located
    BY DEF Init, Located, LocatedAt, Working, Holding
  <1>6. FilesOK
    BY <1>2 DEF Init, FilesOK
  <1>7. FdsOK
    BY <1>3 DEF Init, FdsOK
  <1> QED
    BY <1>4, <1>5, <1>6, <1>7 DEF TypeInv

LEMMA StepType ==
    ASSUME TypeInv, [Next]_vars
    PROVE  TypeInv'
  <1>1. CASE Next
    BY <1>1, StartType, DecideType, WriteType, EndType DEF Next
  <1>2. CASE UNCHANGED vars
    BY <1>2 DEF vars, TypeInv, TypeOK, Located, FilesOK, FdsOK
  <1> QED
    BY <1>1, <1>2

LEMMA TypeInvHolds == Spec => []TypeInv
  <1>1. Init => TypeInv
    BY InitType
  <1>2. TypeInv /\ [Next]_vars => TypeInv'
    BY StepType
  <1> QED
    BY <1>1, <1>2, PTL DEF Spec

\* Type correctness: a process that is about to write has something to write,
\* and every file is a sequence of chunks.
THEOREM StoreTypeCorrect == Spec => []TypeOK
  <1>1. TypeInv => TypeOK
    BY DEF TypeInv
  <1> QED
    BY <1>1, TypeInvHolds, PTL

\* However many verbs write one tag at once and wherever they are killed, no
\* snapshot ever holds a chunk of another tag.
THEOREM TagsNeverMix == Spec => []SnapshotsAreOfTheirTag
  <1>1. TypeInv => SnapshotsAreOfTheirTag
    BY DEF TypeInv, FilesOK, OfTag, SnapshotsAreOfTheirTag
  <1> QED
    BY <1>1, TypeInvHolds, PTL

-----------------------------------------------------------------------------
(* What one gains by leaving a tag to one verb at a time, for any number   *)
(* of verbs on the other tags: its snapshot is whole, changes only as      *)
(* asked for, and the store is a table of editions.  The argument: nobody  *)
(* but the process that claims the tag touches its two files, so what the  *)
(* process knows of them stays true until it acts on it.                   *)

\* One verb at a time works on an exclusive tag.
Disjoint ==
    \A p, q \in Procs : p # q => run[p].claims \cap run[q].claims \cap Exclusive = {}

IsWhole(c, t) == \E e \in Editions : e.tag = t /\ c = Whole(e)

FilesWhole == \A t \in Exclusive : file[t] # None => IsWhole(file[t], t)

\* A process works on what it claimed, and each verb in its own way.
VerbAt(a, r) ==
    /\ r.todo \cup r.unread \subseteq r.claims
    /\ r.tag # None => r.tag \in r.claims \ r.todo
    /\ a \in {"reemit", "compare"} => r.verb = "migrate"
    /\ r.todo # {} => r.verb \in {"generate", "refresh", "migrate", "check"}
    /\ a \in {"has", "read"} => r.verb \in {"generate", "refresh"}
    /\ a \in {"build", "delete"} => r.verb # "migrate"
    /\ a = "delete" => r.replace
    /\ r.replace => r.verb \in {"rebuild", "refresh"}
    /\ a = "next" => r.tag = None
    /\ a # "write" => r.at = 0

\* Of the exclusive pins of a check, those still to do are missing, and the
\* others are there once they are not being worked on.
PinsAt(r, f) ==
    r.verb = "check" =>
        /\ \A u \in r.todo \cap Exclusive : f[u] = None
        /\ \A u \in (r.unread \cap Exclusive) \ (r.todo \cup {r.tag}) : f[u] # None

\* What a verb knows of the snapshot of its tag.
TagAt(a, r, f) ==
    r.tag \in Exclusive =>
        /\ a \in {"build", "create", "write"} /\ r.verb # "migrate" /\ ~r.replace
             => f[r.tag] = None
        /\ a \in {"build", "delete", "create", "write"} /\ r.verb = "refresh"
             /\ r.replace /\ f[r.tag] # None => ~Fresh(f[r.tag])
        /\ a \in {"compare", "create", "write"} /\ r.verb = "migrate"
             => f[r.tag] # None /\ r.held = Reemitted(f[r.tag])
        /\ a \in {"delete", "create", "write"} /\ r.verb # "migrate"
             => r.held = Built(r.tag)

\* Its temp file holds what it has written so far.
TempAt(a, r, m, d) ==
    a = "write" /\ r.tag \in Exclusive =>
        /\ d = [of |-> "temp", tag |-> r.tag]
        /\ m[r.tag] \in Contents /\ Len(m[r.tag]) = r.at
        /\ \A i \in 1..r.at : m[r.tag][i] = r.held[i]

KnowsAt(a, r, f, m, d) ==
    VerbAt(a, r) /\ PinsAt(r, f) /\ TagAt(a, r, f) /\ TempAt(a, r, m, d)

Knows == \A p \in Procs : KnowsAt(pc[p], run[p], file, temp, fd[p])

AloneInv == TypeInv /\ Disjoint /\ FilesWhole /\ Knows

-----------------------------------------------------------------------------
(* Lemmas on whole snapshots.                                              *)

LEMMA WholeFacts ==
    ASSUME NEW t, NEW c, IsWhole(c, t)
    PROVE  /\ c \in Contents /\ c # << >> /\ Parses(c)
           /\ c[1] \in Editions /\ c[1].tag = t /\ c = Whole(c[1])
  <1>1. PICK e \in Editions : e.tag = t /\ c = Whole(e)
    BY DEF IsWhole
  <1>2. c \in Contents /\ c # << >>
    BY <1>1, WholeIsContents
  <1>3. DOMAIN c = 1..Chunks /\ \A i \in 1..Chunks : c[i] = e
    BY <1>1 DEF Whole
  <1>4. 1 \in 1..Chunks
    BY EditionAssumption
  <1>5. Parses(c)
    BY <1>1, <1>2, <1>3, StoreNoneAssumption DEF Parses
  <1> QED
    BY <1>1, <1>2, <1>3, <1>4, <1>5

\* A whole snapshot of t in another format is a whole snapshot of t.
LEMMA ReemittedIsWhole ==
    ASSUME NEW t, NEW c, IsWhole(c, t)
    PROVE  /\ IsWhole(Reemitted(c), t)
           /\ Reemitted(c)[1] = [c[1] EXCEPT !.format = Format]
  <1> DEFINE e == [c[1] EXCEPT !.format = Format]
  <1>1. c[1] \in Editions /\ c[1].tag = t /\ c = Whole(c[1])
    BY WholeFacts
  <1>2. e \in Editions /\ e.tag = t
    BY <1>1, EditionAssumption DEF Editions
  <1>3. DOMAIN c = 1..Chunks /\ \A i \in 1..Chunks : c[i] = c[1]
    BY <1>1 DEF Whole
  <1>4. Reemitted(c) = Whole(e)
    BY <1>3 DEF Reemitted, Whole
  <1>5. 1 \in 1..Chunks
    BY EditionAssumption
  <1> HIDE DEF e
  <1>6. Reemitted(c)[1] = e
    BY <1>4, <1>5 DEF Whole
  <1> QED
    BY <1>2, <1>4, <1>6 DEF IsWhole, e

LEMMA BuiltIsWhole ==
    ASSUME NEW t \in Tags
    PROVE  /\ IsWhole(Built(t), t)
           /\ Built(t)[1] = [tag |-> t, extractor |-> Extractor, format |-> Format]
  <1> DEFINE e == [tag |-> t, extractor |-> Extractor, format |-> Format]
  <1>1. e \in Editions /\ e.tag = t /\ Built(t) = Whole(e)
    BY EditionAssumption DEF Editions, Built
  <1>2. 1 \in 1..Chunks
    BY EditionAssumption
  <1> HIDE DEF e
  <1>3. Built(t)[1] = e
    BY <1>1, <1>2 DEF Whole
  <1> QED
    BY <1>1, <1>3 DEF IsWhole, e

-----------------------------------------------------------------------------
(* A step of p and everybody else.                                         *)

\* p touches the files of what it claims, and descriptors into them.
TouchesOwn(p) ==
    /\ \A u \in Tags \ run[p].claims : file'[u] = file[u] /\ temp'[u] = temp[u]
    /\ \A q \in Procs \ {p} :
          /\ pc'[q] = pc[q] /\ run'[q] = run[q]
          /\ fd[q].tag \notin run[p].claims => fd'[q] = fd[q]

\* What is to be shown of each step of p.
Fine(p) ==
    /\ TouchesOwn(p) /\ FilesWhole'
    /\ KnowsAt(pc'[p], run'[p], file', temp', fd'[p])
    /\ run'[p].claims \subseteq run[p].claims \/ Unclaimed(p, run'[p].claims)

\* What the others know is of exclusive tags they claim, which p does not.
LEMMA OthersKnow ==
    ASSUME AloneInv, NEW p \in Procs, TouchesOwn(p), NEW q \in Procs \ {p}
    PROVE  KnowsAt(pc'[q], run'[q], file', temp', fd'[q])
  <1>1. /\ pc'[q] = pc[q] /\ run'[q] = run[q]
        /\ fd[q].tag \notin run[p].claims => fd'[q] = fd[q]
    BY DEF TouchesOwn
  <1>2. /\ VerbAt(pc[q], run[q]) /\ PinsAt(run[q], file)
        /\ TagAt(pc[q], run[q], file) /\ TempAt(pc[q], run[q], temp, fd[q])
    BY DEF AloneInv, Knows, KnowsAt
  <1>3. ASSUME NEW u \in Exclusive, u \in run[q].claims
        PROVE  u \notin run[p].claims /\ file'[u] = file[u] /\ temp'[u] = temp[u]
    <2>1. u \notin run[p].claims
      BY <1>3 DEF AloneInv, Disjoint
    <2>2. u \in Tags
      BY StoreBoundAssumption
    <2> QED
      BY <2>1, <2>2 DEF TouchesOwn
  <1>4. /\ run[q].todo \cup run[q].unread \subseteq run[q].claims
        /\ run[q].tag # None => run[q].tag \in run[q].claims
    BY <1>2 DEF VerbAt
  <1>5. run[q].tag \in Exclusive => run[q].tag \in run[q].claims
    BY <1>4, StoreBoundAssumption, StoreNoneAssumption
  <1>6. PinsAt(run[q], file')
    BY <1>2, <1>3, <1>4 DEF PinsAt
  <1>7. TagAt(pc[q], run[q], file')
    BY <1>2, <1>3, <1>5 DEF TagAt
  <1>8. TempAt(pc[q], run[q], temp', fd'[q])
    <2> SUFFICES ASSUME pc[q] = "write", run[q].tag \in Exclusive
                 PROVE  TempAt(pc[q], run[q], temp', fd'[q])
      BY DEF TempAt
    <2>1. run[q].tag \notin run[p].claims /\ temp'[run[q].tag] = temp[run[q].tag]
      BY <1>3, <1>5
    <2>2. fd[q].tag = run[q].tag
      BY <1>2 DEF TempAt
    <2> QED
      BY <1>1, <1>2, <2>1, <2>2 DEF TempAt
  <1> QED
    BY <1>1, <1>2, <1>6, <1>7, <1>8 DEF KnowsAt

\* So a fine step of one process keeps the invariant.
LEMMA FineKeepsAloneInv ==
    ASSUME AloneInv, TypeInv', NEW p \in Procs, Fine(p)
    PROVE  AloneInv'
  <1>1. Knows'
    BY OthersKnow DEF Fine, Knows
  <1>2. Disjoint'
    <2> SUFFICES ASSUME NEW q \in Procs, NEW s \in Procs, q # s
                 PROVE  run'[q].claims \cap run'[s].claims \cap Exclusive = {}
      BY DEF Disjoint
    <2>1. run[q].claims \cap run[s].claims \cap Exclusive = {}
      BY DEF AloneInv, Disjoint
    <2>2. \A o \in Procs \ {p} : run'[o] = run[o]
      BY DEF Fine, TouchesOwn
    <2>3. \A o \in Procs \ {p} : run[o].claims \cap run'[p].claims \cap Exclusive = {}
      <3>1. \A o \in Procs \ {p} : run[o].claims \cap run[p].claims \cap Exclusive = {}
        BY DEF AloneInv, Disjoint
      <3> QED
        BY <3>1 DEF Fine, Unclaimed
    <2> QED
      BY <2>1, <2>2, <2>3
  <1> QED
    BY <1>1, <1>2 DEF AloneInv, Fine

-----------------------------------------------------------------------------
(* A step of p and p itself.                                               *)

\* A verb that is at work works on a tag it claimed.
LEMMA OwnTag ==
    ASSUME AloneInv, NEW p \in Procs, pc[p] \in Working
    PROVE  run[p].tag \in Tags /\ run[p].tag \in run[p].claims
  <1>1. run[p].tag \in Tags
    BY DEF AloneInv, TypeInv, Located, LocatedAt
  <1> QED
    BY <1>1, StoreNoneAssumption DEF AloneInv, Knows, KnowsAt, VerbAt

\* A step that writes no file is fine when p knows what it should.
LEMMA MoveIsFine ==
    ASSUME AloneInv, NEW p \in Procs, NEW a, NEW r,
           pc' = [pc EXCEPT ![p] = a], run' = [run EXCEPT ![p] = r],
           UNCHANGED <<file, temp>>, fd' = fd \/ Close(p),
           KnowsAt(a, r, file, temp, fd'[p]),
           r.claims \subseteq run[p].claims \/ Unclaimed(p, r.claims)
    PROVE  Fine(p)
  <1>1. pc'[p] = a /\ run'[p] = r
    BY DEF AloneInv, TypeInv, TypeOK
  <1>2. \A q \in Procs \ {p} : pc'[q] = pc[q] /\ run'[q] = run[q] /\ fd'[q] = fd[q]
    BY DEF AloneInv, TypeInv, TypeOK, Close
  <1>3. FilesWhole'
    BY DEF AloneInv, FilesWhole
  <1> QED
    BY <1>1, <1>2, <1>3 DEF Fine, TouchesOwn

LEMMA NoRunKnows ==
    ASSUME NEW f, NEW m, NEW d
    PROVE  KnowsAt("off", NoRun, f, m, d)
  <1>1. None \notin Exclusive
    BY StoreBoundAssumption, StoreNoneAssumption
  <1> QED
    BY <1>1 DEF KnowsAt, VerbAt, PinsAt, TagAt, TempAt, NoRun

\* A process that is done with its tag, or gives it up, knows what it should
\* of the rest.
LEMMA OnwardKnows ==
    ASSUME NEW r, NEW f, NEW m, NEW d, r \in Runs,
           r.todo \cup r.unread \subseteq r.claims,
           r.todo # {} => r.verb \in {"generate", "refresh", "migrate", "check"},
           r.verb = "check" => /\ \A u \in r.todo \cap Exclusive : f[u] = None
                               /\ \A u \in (r.unread \cap Exclusive) \ r.todo : f[u] # None
    PROVE  KnowsAt("next", WithoutTag(r), f, m, d) /\ WithoutTag(r).claims = r.claims
  <1> DEFINE w == WithoutTag(r)
  <1>1. /\ w.verb = r.verb /\ w.claims = r.claims /\ w.todo = r.todo
        /\ w.unread = r.unread /\ w.tag = None /\ w.replace = FALSE /\ w.at = 0
    BY DEF WithoutTag, Runs
  <1>2. None \notin Exclusive
    BY StoreBoundAssumption, StoreNoneAssumption
  <1> HIDE DEF w
  <1>3. VerbAt("next", w) /\ PinsAt(w, f)
    BY <1>1 DEF VerbAt, PinsAt
  <1>4. TagAt("next", w, f) /\ TempAt("next", w, m, d)
    BY <1>1, <1>2 DEF TagAt, TempAt
  <1> QED
    BY <1>1, <1>3, <1>4 DEF KnowsAt, w

\* Stopping is fine.
LEMMA StopIsFine ==
    ASSUME AloneInv, NEW p \in Procs, Stop(p), UNCHANGED <<file, temp>>,
           fd' = fd \/ Close(p)
    PROVE  Fine(p)
  <1>1. NoRun.claims = {}
    BY DEF NoRun
  <1> QED
    BY <1>1, NoRunKnows, MoveIsFine DEF Stop

\* Proceeding is fine, but for a check, which never leaves a tag undone.
LEMMA ProceedIsFine ==
    ASSUME AloneInv, NEW p \in Procs, Proceed(p), UNCHANGED <<file, temp>>,
           fd' = fd \/ Close(p), run[p].verb # "check"
    PROVE  Fine(p)
  <1>1. /\ run[p] \in Runs /\ run[p].todo \cup run[p].unread \subseteq run[p].claims
        /\ run[p].todo # {} => run[p].verb \in {"generate", "refresh", "migrate", "check"}
    BY DEF AloneInv, TypeInv, TypeOK, Knows, KnowsAt, VerbAt
  <1>2. /\ KnowsAt("next", WithoutTag(run[p]), file, temp, fd'[p])
        /\ WithoutTag(run[p]).claims = run[p].claims
    BY <1>1, OnwardKnows
  <1>3. run' = [run EXCEPT ![p] = WithoutTag(run[p])] /\ pc' = [pc EXCEPT ![p] = "next"]
    BY Zenon DEF Proceed
  <1> QED
    BY <1>2, <1>3, MoveIsFine

LEMMA FailTagIsFine ==
    ASSUME AloneInv, NEW p \in Procs, FailTag(p), UNCHANGED <<file, temp>>,
           fd' = fd \/ Close(p)
    PROVE  Fine(p)
  BY StopIsFine, ProceedIsFine DEF FailTag

-----------------------------------------------------------------------------
(* The steps that write nothing.                                           *)

LEMMA StartIsFine ==
    ASSUME AloneInv, NEW p \in Procs, Start(p)
    PROVE  Fine(p)
  <1>1. NoRun \in Runs /\ None \notin Exclusive /\ Exclusive \subseteq Tags
    BY NoRunType, StoreBoundAssumption, StoreNoneAssumption
  <1>2. ASSUME NEW r, NEW a, Begin(p, r, a), KnowsAt(a, r, file, temp, fd[p])
        PROVE  Fine(p)
    <2>1. Unclaimed(p, r.claims)
      BY <1>2 DEF Begin
    <2> QED
      BY <1>2, <2>1, MoveIsFine DEF Begin, files
  <1>3. ASSUME NEW T \in SUBSET Tags, NEW b \in BOOLEAN, Generate(p, T, b)
        PROVE  Fine(p)
    <2> DEFINE v == IF b THEN "refresh" ELSE "generate"
               r == [NoRun EXCEPT !.verb = v, !.claims = T, !.todo = T]
    <2>1. Begin(p, r, "next")
      BY <1>3, Zenon DEF Generate
    <2>2. v \in {"generate", "refresh"}
      OBVIOUS
    <2> HIDE DEF v
    <2>3. KnowsAt("next", r, file, temp, fd[p])
      BY <1>1, <2>2 DEF KnowsAt, VerbAt, PinsAt, TagAt, TempAt, NoRun
    <2> QED
      BY <1>2, <2>1, <2>3
  <1>4. ASSUME NEW T \in SUBSET Tags, Check(p, T)
        PROVE  Fine(p)
    <2> DEFINE r == [NoRun EXCEPT !.verb = "check", !.claims = T,
                                  !.todo = T \ Present, !.unread = T]
    <2>1. Begin(p, r, "next")
      BY <1>4, Zenon DEF Check
    <2>2. PinsAt(r, file)
      BY <1>1 DEF PinsAt, NoRun, Present
    <2>3. KnowsAt("next", r, file, temp, fd[p])
      BY <1>1, <2>2 DEF KnowsAt, VerbAt, TagAt, TempAt, NoRun
    <2> QED
      BY <1>2, <2>1, <2>3
  <1>5. ASSUME NEW t \in Tags, Rebuild(p, t)
        PROVE  Fine(p)
    <2> DEFINE r == [NoRun EXCEPT !.verb = "rebuild", !.claims = {t}, !.tag = t,
                                  !.replace = TRUE]
    <2>1. Begin(p, r, "build")
      BY <1>5, Zenon DEF Rebuild
    <2>2. KnowsAt("build", r, file, temp, fd[p])
      BY <1>1 DEF KnowsAt, VerbAt, PinsAt, TagAt, TempAt, NoRun
    <2> QED
      BY <1>2, <2>1, <2>2
  <1>6. CASE Migrate(p)
    <2> DEFINE r == [NoRun EXCEPT !.verb = "migrate", !.claims = Present,
                                  !.todo = Present]
    <2>1. Begin(p, r, "next")
      BY <1>6, Zenon DEF Migrate
    <2>2. KnowsAt("next", r, file, temp, fd[p])
      BY <1>1 DEF KnowsAt, VerbAt, PinsAt, TagAt, TempAt, NoRun
    <2> QED
      BY <1>2, <2>1, <2>2
  <1> QED
    BY <1>3, <1>4, <1>5, <1>6 DEF Start

LEMMA DecideIsFine ==
    ASSUME AloneInv, NEW p \in Procs, Decide(p)
    PROVE  Fine(p)
  <1> DEFINE t == run[p].tag
  <1>1. /\ run[p] \in Runs /\ pc \in [Procs -> PCs] /\ run \in [Procs -> Runs]
        /\ VerbAt(pc[p], run[p]) /\ PinsAt(run[p], file)
        /\ TagAt(pc[p], run[p], file)
    BY DEF AloneInv, TypeInv, TypeOK, Knows, KnowsAt
  <1>2. Exclusive \subseteq Tags /\ None \notin Exclusive
    BY StoreBoundAssumption, StoreNoneAssumption
  <1>3. \A u \in Exclusive : file[u] # None => Readable(u)
    BY WholeFacts DEF AloneInv, FilesWhole, Readable
  <1>4. ASSUME NEW a, NEW r, pc' = [pc EXCEPT ![p] = a],
               run' = [run EXCEPT ![p] = r], UNCHANGED files,
               KnowsAt(a, r, file, temp, fd[p]), r.claims = run[p].claims
        PROVE  Fine(p)
    BY <1>4, MoveIsFine DEF files
  <1>5. CASE TakeTag(p)
    <2>1. PICK u \in run[p].todo :
              run' = [run EXCEPT ![p].tag = u, ![p].todo = @ \ {u}]
      BY <1>5 DEF TakeTag
    <2> DEFINE r == [run[p] EXCEPT !.tag = u, !.todo = @ \ {u}]
               a == CASE run[p].verb = "check"   -> "build"
                      [] run[p].verb = "migrate" -> "reemit"
                      [] OTHER                   -> "has"
    <2>2. /\ r.tag = u /\ r.todo = run[p].todo \ {u} /\ r.verb = run[p].verb
          /\ r.claims = run[p].claims /\ r.unread = run[p].unread
          /\ r.replace = run[p].replace /\ r.at = run[p].at
      BY <1>1 DEF Runs
    <2>3. pc' = [pc EXCEPT ![p] = a] /\ run' = [run EXCEPT ![p] = r]
      BY <1>5, <2>1, Zenon DEF TakeTag
    <2>4. /\ a \in {"build", "reemit", "has"} /\ (a = "build" => run[p].verb = "check")
          /\ (a = "reemit" => run[p].verb = "migrate")
          /\ (a = "has" => run[p].verb \notin {"check", "migrate"})
      OBVIOUS
    <2>5. /\ run[p].todo \cup run[p].unread \subseteq run[p].claims
          /\ run[p].tag = None /\ run[p].at = 0 /\ pc[p] = "next"
          /\ run[p].replace => run[p].verb \in {"rebuild", "refresh"}
      BY <1>1, <1>5 DEF TakeTag, VerbAt
    <2>6. a = "has" => run[p].verb \in {"generate", "refresh"}
      BY <1>1, <1>5, <2>1, <2>4 DEF TakeTag, VerbAt
    <2> HIDE DEF a, r
    <2>7. VerbAt(a, r) /\ PinsAt(r, file)
      BY <1>1, <1>2, <2>2, <2>4, <2>5, <2>6 DEF VerbAt, PinsAt
    <2>8. TagAt(a, r, file) /\ TempAt(a, r, temp, fd[p])
      BY <1>1, <2>2, <2>4, <2>5 DEF TagAt, TempAt, PinsAt
    <2> QED
      BY <1>4, <1>5, <2>2, <2>3, <2>7, <2>8 DEF TakeTag, KnowsAt
  <1>6. CASE HasSnapshot(p)
    <2> DEFINE a == IF t \in Present THEN "read" ELSE "build"
    <2>1. run' = [run EXCEPT ![p] = run[p]] /\ pc' = [pc EXCEPT ![p] = a]
      BY <1>1, <1>6 DEF HasSnapshot
    <2>2. a = "build" => (t \in Tags => file[t] = None)
      BY DEF Present
    <2>3. a \in {"read", "build"}
      OBVIOUS
    <2> HIDE DEF a
    <2>4. VerbAt(a, run[p])
      BY <1>1, <1>6, <2>3 DEF HasSnapshot, VerbAt
    <2>5. TagAt(a, run[p], file) /\ TempAt(a, run[p], temp, fd[p])
      BY <1>2, <2>2, <2>3 DEF TagAt, TempAt
    <2> QED
      BY <1>1, <1>4, <1>6, <2>1, <2>4, <2>5 DEF HasSnapshot, KnowsAt
  <1>7. CASE DecideAction(p)
    <2>1. run[p].verb \in {"generate", "refresh"} /\ pc[p] = "read"
      BY <1>1, <1>7 DEF DecideAction, VerbAt
    <2>2. CASE Proceed(p)
      BY <1>7, <2>1, <2>2, ProceedIsFine DEF DecideAction, files
    <2>3. CASE ~Proceed(p)
      <3> DEFINE r == [run[p] EXCEPT !.replace = TRUE]
      <3>1. /\ Readable(t) => ~Fresh(file[t])
            /\ run[p].verb = "refresh"
            /\ pc' = [pc EXCEPT ![p] = "build"]
            /\ run' = [run EXCEPT ![p].replace = TRUE]
        BY <1>7, <2>3 DEF DecideAction
      <3>2. run' = [run EXCEPT ![p] = r]
        BY <3>1, Zenon
      <3>3. /\ r.tag = t /\ r.todo = run[p].todo /\ r.verb = "refresh"
            /\ r.claims = run[p].claims /\ r.unread = run[p].unread
            /\ r.replace = TRUE /\ r.at = run[p].at
        BY <1>1, <3>1 DEF Runs
      <3> HIDE DEF r
      <3>4. VerbAt("build", r) /\ PinsAt(r, file)
        BY <1>1, <2>1, <3>3 DEF VerbAt, PinsAt
      <3>5. TagAt("build", r, file) /\ TempAt("build", r, temp, fd[p])
        BY <1>3, <3>1, <3>3 DEF TagAt, TempAt
      <3> QED
        BY <1>4, <1>7, <3>1, <3>2, <3>3, <3>4, <3>5 DEF DecideAction, KnowsAt
    <2> QED
      BY <2>2, <2>3
  <1>8. CASE Build(p)
    <2> DEFINE r == [run[p] EXCEPT !.held = Built(t)]
               a == IF run[p].replace THEN "delete" ELSE "create"
    <2>1. pc' = [pc EXCEPT ![p] = a] /\ run' = [run EXCEPT ![p] = r] /\ pc[p] = "build"
      BY <1>8, Zenon DEF Build
    <2>2. /\ r.tag = t /\ r.todo = run[p].todo /\ r.verb = run[p].verb
          /\ r.claims = run[p].claims /\ r.unread = run[p].unread
          /\ r.replace = run[p].replace /\ r.at = run[p].at /\ r.held = Built(t)
      BY <1>1 DEF Runs
    <2>3. /\ a \in {"delete", "create"} /\ (a = "delete" => run[p].replace)
          /\ (a = "create" => ~run[p].replace)
      BY <1>1 DEF Runs
    <2> HIDE DEF a, r
    <2>4. VerbAt(a, r) /\ PinsAt(r, file)
      BY <1>1, <2>1, <2>2, <2>3 DEF VerbAt, PinsAt
    <2>5. TagAt(a, r, file) /\ TempAt(a, r, temp, fd[p])
      BY <1>1, <2>1, <2>2, <2>3 DEF VerbAt, TagAt, TempAt
    <2> QED
      BY <1>4, <1>8, <2>1, <2>2, <2>4, <2>5 DEF Build, KnowsAt
  <1>9. CASE BuildFails(p)
    BY <1>9, FailTagIsFine DEF BuildFails, files
  <1>10. CASE Reemit(p)
    <2>1. run[p].verb = "migrate" /\ pc[p] = "reemit"
      BY <1>1, <1>10 DEF Reemit, VerbAt
    <2>2. CASE Readable(t)
      <3> DEFINE r == [run[p] EXCEPT !.held = Reemitted(file[t])]
      <3>1. run' = [run EXCEPT ![p] = r] /\ pc' = [pc EXCEPT ![p] = "compare"]
        BY <1>10, <2>2, Zenon DEF Reemit
      <3>2. /\ r.tag = t /\ r.todo = run[p].todo /\ r.verb = "migrate"
            /\ r.claims = run[p].claims /\ r.unread = run[p].unread
            /\ r.replace = run[p].replace /\ r.at = run[p].at
            /\ r.held = Reemitted(file[t])
        BY <1>1, <2>1 DEF Runs
      <3> HIDE DEF r
      <3>3. VerbAt("compare", r) /\ PinsAt(r, file)
        BY <1>1, <2>1, <3>2 DEF VerbAt, PinsAt
      <3>4. TagAt("compare", r, file) /\ TempAt("compare", r, temp, fd[p])
        BY <2>2, <3>2 DEF TagAt, TempAt, Readable
      <3> QED
        BY <1>4, <1>10, <3>1, <3>2, <3>3, <3>4 DEF Reemit, KnowsAt
    <2>3. CASE ~Readable(t)
      BY <1>10, <2>1, <2>3, ProceedIsFine DEF Reemit, files
    <2> QED
      BY <2>2, <2>3
  <1>11. CASE CompareText(p)
    <2>1. run[p].verb = "migrate" /\ pc[p] = "compare"
      BY <1>1, <1>11 DEF CompareText, VerbAt
    <2>2. CASE Proceed(p)
      BY <1>11, <2>1, <2>2, ProceedIsFine DEF CompareText, files
    <2>3. CASE pc' = [pc EXCEPT ![p] = "create"] /\ UNCHANGED run
      <3>1. run' = [run EXCEPT ![p] = run[p]]
        BY <1>1, <2>3
      <3>2. VerbAt("create", run[p])
        BY <1>1, <2>1 DEF VerbAt
      <3>3. TagAt("create", run[p], file) /\ TempAt("create", run[p], temp, fd[p])
        BY <1>1, <2>1 DEF TagAt, TempAt
      <3> QED
        BY <1>1, <1>4, <1>11, <2>3, <3>1, <3>2, <3>3 DEF CompareText, KnowsAt
    <2> QED
      BY <1>11, <2>2, <2>3 DEF CompareText
  <1> QED
    BY <1>5, <1>6, <1>7, <1>8, <1>9, <1>10, <1>11 DEF Decide

-----------------------------------------------------------------------------
(* The steps that write.                                                   *)

\* When everything is written, the temp file is what was to be written.
LEMMA PublishedIsHeld ==
    ASSUME NEW r \in Runs, NEW m, NEW d, TempAt("write", r, m, d),
           r.tag \in Exclusive, r.at = Len(r.held)
    PROVE  m[r.tag] = r.held
  <1> DEFINE c == m[r.tag]
  <1>1. c \in Contents /\ r.held \in Contents
    BY DEF TempAt, Runs
  <1>2. Len(c) = Len(r.held) /\ \A i \in 1..Len(r.held) : c[i] = r.held[i]
    BY DEF TempAt
  <1>3. /\ c \in [1..Len(r.held) -> Editions \cup {Hole}]
        /\ r.held \in [1..Len(r.held) -> Editions \cup {Hole}]
    BY <1>1, <1>2, ContentsAreSequences
  <1> QED
    BY <1>2, <1>3

LEMMA WriteIsFine ==
    ASSUME AloneInv, NEW p \in Procs, Write(p)
    PROVE  Fine(p)
  <1> DEFINE t == run[p].tag
  <1>1. /\ run[p] \in Runs /\ pc \in [Procs -> PCs] /\ run \in [Procs -> Runs]
        /\ fd \in [Procs -> Fds]
        /\ file \in [Tags -> Contents \cup {None}]
        /\ temp \in [Tags -> Contents \cup {None}]
        /\ VerbAt(pc[p], run[p]) /\ PinsAt(run[p], file)
        /\ TagAt(pc[p], run[p], file) /\ TempAt(pc[p], run[p], temp, fd[p])
    BY DEF AloneInv, TypeInv, TypeOK, Knows, KnowsAt
  <1>2. t \in Tags /\ t \in run[p].claims
    <2>1. pc[p] \in Working
      BY DEF Write, Delete, DeleteFails, CreateTemp, WriteChunk, Publish,
             PublishMissing, WriteFails, Working
    <2> QED
      BY <2>1, OwnTag
  <1>3. \A u \in Exclusive : u \in Tags /\ u # None
    BY StoreBoundAssumption, StoreNoneAssumption
  <1>4. FilesWhole
    BY DEF AloneInv
  <1>5. fd[p].of # "none" => fd[p].tag = t
    BY DEF AloneInv, TypeInv, FdsOK
  <1>6. CASE Delete(p)
    <2>1. /\ file' = [file EXCEPT ![t] = None] /\ temp' = temp
          /\ fd' = [q \in Procs |-> Unlinked(fd[q], t)]
          /\ pc' = [pc EXCEPT ![p] = "create"] /\ run' = run /\ pc[p] = "delete"
      BY <1>6 DEF Delete
    <2>2. run[p].replace /\ run[p].verb \in {"rebuild", "refresh"}
      BY <1>1, <2>1 DEF VerbAt
    <2> HIDE DEF t
    <2>3. \A q \in Procs : fd[q].tag # t => fd'[q] = fd[q]
      BY <1>1, <2>1 DEF Unlinked, Fds
    <2>4. TouchesOwn(p)
      BY <1>1, <1>2, <2>1, <2>3 DEF TouchesOwn
    <2>5. FilesWhole'
      BY <1>1, <1>3, <1>4, <2>1 DEF FilesWhole
    <2>6. VerbAt("create", run[p]) /\ PinsAt(run[p], file') /\ TempAt("create", run[p], temp', fd'[p])
      BY <1>1, <2>1, <2>2 DEF VerbAt, PinsAt, TempAt
    <2>7. TagAt("create", run[p], file')
      BY <1>1, <1>2, <2>1, <2>2 DEF TagAt, t
    <2> QED
      BY <1>1, <2>1, <2>4, <2>5, <2>6, <2>7 DEF Fine, KnowsAt
  <1>7. CASE CreateTemp(p)
    <2>1. /\ temp' = [temp EXCEPT ![t] = << >>] /\ file' = file
          /\ fd' = [fd EXCEPT ![p] = [of |-> "temp", tag |-> t]]
          /\ pc' = [pc EXCEPT ![p] = "write"] /\ run' = run /\ pc[p] = "create"
      BY <1>7 DEF CreateTemp, TempOf
    <2>2. run[p].at = 0
      BY <1>1, <2>1 DEF VerbAt
    <2>3. << >> \in Contents /\ Len(<< >>) = 0
      BY NothingIsContents, EmptySeq
    <2>4. TouchesOwn(p)
      BY <1>1, <1>2, <2>1 DEF TouchesOwn
    <2>5. FilesWhole'
      BY <1>4, <2>1 DEF FilesWhole
    <2>6. VerbAt("write", run[p]) /\ PinsAt(run[p], file')
      BY <1>1, <2>1 DEF VerbAt, PinsAt
    <2>7. TagAt("write", run[p], file')
      BY <1>1, <2>1 DEF TagAt
    <2>8. TempAt("write", run[p], temp', fd'[p])
      BY <1>1, <1>2, <2>1, <2>2, <2>3 DEF TempAt
    <2> QED
      BY <1>1, <2>1, <2>4, <2>5, <2>6, <2>7, <2>8 DEF Fine, KnowsAt
  <1>8. CASE WriteChunk(p)
    <2> DEFINE i == run[p].at + 1
               k == run[p].held[i]
               r == [run[p] EXCEPT !.at = i]
    <2>1. /\ pc[p] = "write" /\ run[p].at < Len(run[p].held)
          /\ temp' = IF fd[p].of = "temp"
                     THEN [temp EXCEPT ![fd[p].tag] = WrittenAt(@, i, k)] ELSE temp
          /\ file' = IF fd[p].of = "file"
                     THEN [file EXCEPT ![fd[p].tag] = WrittenAt(@, i, k)] ELSE file
          /\ fd' = fd /\ pc' = pc
      BY <1>8, Zenon DEF WriteChunk
    <2>2. run' = [run EXCEPT ![p] = r]
      BY <1>8, Zenon DEF WriteChunk
    <2>3. /\ r.tag = t /\ r.todo = run[p].todo /\ r.verb = run[p].verb
          /\ r.claims = run[p].claims /\ r.unread = run[p].unread
          /\ r.replace = run[p].replace /\ r.at = i /\ r.held = run[p].held
      BY <1>1 DEF Runs
    <2>4. run'[p] = r /\ pc'[p] = "write"
      BY <1>1, <2>1, <2>2
    <2>5. run[p].at \in Nat /\ i \in 1..Chunks
      BY <1>1, <2>1, ContentsAreSequences, EditionAssumption, SMT DEF Runs
    <2> HIDE DEF r, k
    <2>6. /\ \A u \in Tags : u # t => file'[u] = file[u] /\ temp'[u] = temp[u]
          /\ t \in Exclusive => file' = file
      BY <1>1, <1>5, <2>1 DEF TempAt
    <2>7. TouchesOwn(p)
      BY <1>1, <1>2, <2>1, <2>2, <2>6 DEF TouchesOwn
    <2>8. FilesWhole'
      BY <1>3, <1>4, <2>6 DEF FilesWhole
    <2>9. VerbAt("write", r) /\ TagAt("write", r, file')
      BY <1>1, <2>1, <2>3, <2>6 DEF VerbAt, TagAt
    <2>10. PinsAt(r, file')
      BY <1>1, <1>2, <1>3, <2>3, <2>6 DEF PinsAt
    <2>11. TempAt("write", r, temp', fd'[p])
      <3> SUFFICES ASSUME t \in Exclusive
                   PROVE  TempAt("write", r, temp', fd'[p])
        BY <2>3 DEF TempAt
      <3> DEFINE c == temp[t]
                 w == WrittenAt(c, i, k)
      <3>1. /\ fd[p] = [of |-> "temp", tag |-> t] /\ c \in Contents
            /\ Len(c) = run[p].at /\ \A j \in 1..run[p].at : c[j] = run[p].held[j]
        BY <1>1, <2>1 DEF TempAt
      <3>2. temp' = [temp EXCEPT ![t] = w]
        BY <2>1, <3>1
      <3>3. w = [j \in 1..i |-> IF j = i THEN k ELSE IF j <= Len(c) THEN c[j] ELSE Hole]
        <4>1. ~(Len(c) > i)
          BY <2>5, <3>1, SMT
        <4> QED
          BY <4>1, Zenon DEF WrittenAt
      <3>4. /\ DOMAIN c = 1..Len(c) /\ c \in [1..Len(c) -> Editions \cup {Hole}]
        BY <3>1, ContentsAreSequences
      <3>5. i \in 1..Len(run[p].held) /\ run[p].held \in Contents
        BY <1>1, <2>1, <2>5, ContentsAreSequences, SMT DEF Runs
      <3>6. k \in Editions \cup {Hole}
        BY <3>5, ContentsAreSequences DEF k
      <3>7. \A j \in 1..i : j # i => j \in 1..run[p].at /\ j <= Len(c)
        BY <2>5, <3>1, SMT
      <3>8. \A j \in 1..i : w[j] = IF j = i THEN k ELSE c[j]
        BY <3>3, <3>7
      <3>9. w \in [1..i -> Editions \cup {Hole}]
        BY <3>1, <3>3, <3>4, <3>6, <3>7
      <3>10. i \in 0..Chunks
        BY <2>5, SMT
      <3> HIDE DEF w, i
      <3>11. w \in Contents /\ Len(w) = i
        BY <3>9, <3>10, SequencesAreContents
      <3>12. \A j \in 1..i : w[j] = r.held[j]
        BY <2>3, <3>1, <3>7, <3>8 DEF k
      <3>13. temp'[t] = w
        BY <1>1, <1>2, <3>2
      <3> QED
        BY <2>1, <2>3, <3>1, <3>11, <3>12, <3>13 DEF TempAt
    <2> QED
      BY <1>1, <2>1, <2>3, <2>4, <2>7, <2>8, <2>9, <2>10, <2>11 DEF Fine, KnowsAt
  <1>9. CASE Publish(p)
    <2> DEFINE w == WithoutTag(run[p])
    <2>1. /\ temp[t] # None /\ pc[p] = "write" /\ run[p].at = Len(run[p].held)
          /\ file' = [file EXCEPT ![t] = temp[t]] /\ temp' = [temp EXCEPT ![t] = None]
          /\ fd' = [q \in Procs |-> IF q = p THEN NoFd ELSE Renamed(fd[q], t)]
      BY <1>9 DEF Publish, TempOf
    <2>2. pc' = [pc EXCEPT ![p] = "next"] /\ run' = [run EXCEPT ![p] = w]
      BY <1>9, Zenon DEF Publish, Proceed
    <2>3. t \in Exclusive => IsWhole(file'[t], t) /\ file'[t] # None
      <3> SUFFICES ASSUME t \in Exclusive
                   PROVE  IsWhole(file'[t], t) /\ file'[t] # None
        OBVIOUS
      <3>1. temp[t] = run[p].held
        BY <1>1, <2>1, PublishedIsHeld
      <3>2. IsWhole(run[p].held, t)
        <4>1. CASE run[p].verb = "migrate"
          <5>1. file[t] # None /\ run[p].held = Reemitted(file[t])
            BY <1>1, <2>1, <4>1 DEF TagAt
          <5>2. IsWhole(file[t], t)
            BY <1>4, <5>1 DEF FilesWhole
          <5>3. IsWhole(Reemitted(file[t]), t)
            <6> HIDE DEF t
            <6> QED
              BY <5>2, ReemittedIsWhole
          <5> QED
            BY <5>1, <5>3
        <4>2. CASE run[p].verb # "migrate"
          BY <1>1, <1>2, <2>1, <4>2, BuiltIsWhole DEF TagAt
        <4> QED
          BY <4>1, <4>2
      <3> QED
        BY <1>1, <1>2, <2>1, <3>1, <3>2
    <2>4. \A u \in Tags : u # t => file'[u] = file[u] /\ temp'[u] = temp[u]
      BY <1>1, <2>1
    <2> HIDE DEF w, t
    <2>5. \A q \in Procs \ {p} : fd[q].tag # t => fd'[q] = fd[q]
      BY <1>1, <2>1 DEF Renamed, Unlinked, TempOf, Fds
    <2>6. TouchesOwn(p)
      BY <1>1, <1>2, <2>2, <2>4, <2>5 DEF TouchesOwn
    <2>7. FilesWhole'
      BY <1>3, <1>4, <2>3, <2>4 DEF FilesWhole
    <2>8. KnowsAt("next", w, file', temp', fd'[p]) /\ w.claims = run[p].claims
      <3>1. run[p].todo \cup run[p].unread \subseteq run[p].claims
        BY <1>1 DEF VerbAt
      <3>2. run[p].todo # {} => run[p].verb \in {"generate", "refresh", "migrate", "check"}
        BY <1>1 DEF VerbAt
      <3>3. ASSUME run[p].verb = "check"
            PROVE  /\ \A u \in run[p].todo \cap Exclusive : file'[u] = None
                   /\ \A u \in (run[p].unread \cap Exclusive) \ run[p].todo : file'[u] # None
        <4>1. /\ \A u \in run[p].todo \cap Exclusive : file[u] = None
              /\ \A u \in (run[p].unread \cap Exclusive) \ (run[p].todo \cup {t}) : file[u] # None
          BY <1>1, <3>3 DEF PinsAt, t
        <4>2. t \notin run[p].todo
          BY <1>1, <1>2, <2>1, StoreNoneAssumption DEF VerbAt, t
        <4> QED
          BY <1>3, <2>3, <2>4, <4>1, <4>2
      <3> QED
        BY <1>1, <3>1, <3>2, <3>3, OnwardKnows DEF w
    <2> QED
      BY <1>1, <2>2, <2>6, <2>7, <2>8 DEF Fine
  <1>10. CASE PublishMissing(p)
    BY <1>10, FailTagIsFine DEF PublishMissing
  <1>11. CASE WriteFails(p)
    BY <1>11, FailTagIsFine DEF WriteFails
  <1>12. CASE DeleteFails(p)
    <2>1. /\ UNCHANGED <<file, temp>> /\ fd' = fd /\ run' = run
          /\ pc' = [pc EXCEPT ![p] = "create"] /\ pc[p] = "delete"
      BY <1>12 DEF DeleteFails, files
    <2>2. run[p].replace /\ run[p].verb \in {"rebuild", "refresh"}
      BY <1>1, <2>1 DEF VerbAt
    <2>3. VerbAt("create", run[p]) /\ TempAt("create", run[p], temp, fd'[p])
      BY <1>1, <2>1, <2>2 DEF VerbAt, TempAt
    <2>4. TagAt("create", run[p], file)
      BY <1>1, <2>1, <2>2 DEF TagAt
    <2>5. run' = [run EXCEPT ![p] = run[p]]
      BY <1>1, <2>1
    <2> QED
      BY <1>1, <2>1, <2>3, <2>4, <2>5, MoveIsFine DEF KnowsAt
  <1> QED
    BY <1>6, <1>7, <1>8, <1>9, <1>10, <1>11, <1>12 DEF Write

-----------------------------------------------------------------------------
(* The invariant.                                                          *)

LEMMA EndIsFine ==
    ASSUME AloneInv, NEW p \in Procs, ReadPin(p) \/ Finish(p) \/ Die(p)
    PROVE  Fine(p)
  <1>1. CASE ReadPin(p)
    <2>1. PICK u \in run[p].unread :
              \/ Stop(p)
              \/ run' = [run EXCEPT ![p].unread = @ \ {u}] /\ UNCHANGED pc
      BY <1>1 DEF ReadPin
    <2>2. CASE Stop(p)
      BY <1>1, <2>2, StopIsFine DEF ReadPin, files
    <2>3. CASE run' = [run EXCEPT ![p].unread = @ \ {u}] /\ UNCHANGED pc
      <3> DEFINE r == [run[p] EXCEPT !.unread = @ \ {u}]
      <3>1. /\ run[p] \in Runs /\ pc \in [Procs -> PCs] /\ pc[p] = "next"
            /\ VerbAt("next", run[p]) /\ PinsAt(run[p], file)
            /\ TagAt("next", run[p], file)
        BY <1>1 DEF ReadPin, AloneInv, TypeInv, TypeOK, Knows, KnowsAt
      <3>2. run' = [run EXCEPT ![p] = r]
        BY <2>3, Zenon
      <3>3. pc' = [pc EXCEPT ![p] = "next"]
        BY <2>3, <3>1
      <3>4. /\ r.tag = run[p].tag /\ r.todo = run[p].todo /\ r.verb = run[p].verb
            /\ r.claims = run[p].claims /\ r.unread = run[p].unread \ {u}
            /\ r.replace = run[p].replace /\ r.at = run[p].at
        BY <3>1 DEF Runs
      <3> HIDE DEF r
      <3>5. VerbAt("next", r) /\ PinsAt(r, file)
        BY <3>1, <3>4 DEF VerbAt, PinsAt
      <3>6. TagAt("next", r, file) /\ TempAt("next", r, temp, fd'[p])
        BY DEF TagAt, TempAt
      <3>7. UNCHANGED <<file, temp>> /\ fd' = fd
        BY <1>1 DEF ReadPin, files
      <3> QED
        BY <3>2, <3>3, <3>4, <3>5, <3>6, <3>7, MoveIsFine DEF KnowsAt
    <2> QED
      BY <2>1, <2>2, <2>3
  <1>2. CASE Finish(p)
    BY <1>2, StopIsFine DEF Finish, files
  <1>3. CASE Die(p)
    BY <1>3, StopIsFine DEF Die
  <1> QED
    BY <1>1, <1>2, <1>3

LEMMA InitAlone ==
    ASSUME Init
    PROVE  AloneInv
  <1>1. TypeInv
    BY InitType
  <1>2. Disjoint
    BY DEF Init, Disjoint, NoRun
  <1>3. FilesWhole
    <2> SUFFICES ASSUME NEW t \in Exclusive, file[t] # None
                 PROVE  IsWhole(file[t], t)
      BY DEF FilesWhole
    <2>1. t \in Tags
      BY StoreBoundAssumption
    <2>2. PICK e \in Editions : file[t] = Whole(e)
      BY <2>1 DEF Init
    <2>3. file[t][1].tag = t /\ Whole(e)[1] = e
      BY <2>1, EditionAssumption DEF Init, Whole
    <2> QED
      BY <2>2, <2>3 DEF IsWhole
  <1>4. Knows
    BY NoRunKnows DEF Init, Knows
  <1> QED
    BY <1>1, <1>2, <1>3, <1>4 DEF AloneInv

LEMMA StepAlone ==
    ASSUME AloneInv, [Next]_vars
    PROVE  AloneInv'
  <1>1. TypeInv'
    BY StepType DEF AloneInv
  <1>2. CASE Next
    <2>1. PICK p \in Procs : Start(p) \/ Decide(p) \/ Write(p) \/ ReadPin(p)
                              \/ Finish(p) \/ Die(p)
      BY <1>2 DEF Next
    <2>2. Fine(p)
      BY <2>1, StartIsFine, DecideIsFine, WriteIsFine, EndIsFine
    <2> QED
      BY <1>1, <2>2, FineKeepsAloneInv
  <1>3. CASE UNCHANGED vars
    BY <1>1, <1>3 DEF vars, AloneInv, Disjoint, FilesWhole, Knows
  <1> QED
    BY <1>2, <1>3

LEMMA AloneInvHolds == Spec => []AloneInv
  <1>1. Init => AloneInv
    BY InitAlone
  <1>2. AloneInv /\ [Next]_vars => AloneInv'
    BY StepAlone
  <1> QED
    BY <1>1, <1>2, PTL DEF Spec

-----------------------------------------------------------------------------
(* The theorems.                                                           *)

\* A snapshot that one verb at a time works on is whole at every moment.
THEOREM SnapshotsAreWhole == Spec => []PublishedIsWhole
  <1>1. AloneInv => PublishedIsWhole
    BY DEF AloneInv, FilesWhole, IsWhole, PublishedIsWhole
  <1> QED
    BY <1>1, AloneInvHolds, PTL

\* What WrittenIsReadBack says of every write holds of a tag that one verb at a time works on:
\* what write stored (store/fs.rs) is what a reader gets.
THEOREM AloneWritesAreReadBack ==
    Spec => [][\A p \in Procs : Publish(p) /\ run[p].tag \in Exclusive =>
                  file'[run[p].tag] = run[p].held]_vars
  <1>1. ASSUME AloneInv, NEW p \in Procs, Publish(p), run[p].tag \in Exclusive
        PROVE  file'[run[p].tag] = run[p].held
    <2> DEFINE t == run[p].tag
    <2>1. pc[p] = "write" /\ run[p].at = Len(run[p].held) /\ file' = [file EXCEPT ![t] = temp[TempOf(t)]]
      BY <1>1 DEF Publish
    <2>2. /\ temp[t] \in Contents /\ Len(temp[t]) = run[p].at
          /\ \A i \in 1..run[p].at : temp[t][i] = run[p].held[i]
      BY <1>1, <2>1 DEF AloneInv, Knows, KnowsAt, TempAt
    <2>3. file \in [Tags -> Contents \cup {None}] /\ run[p].held \in Contents /\ t \in Tags
      <3>1. run[p] \in Runs /\ run[p].tag \in Tags
        BY <1>1, <2>1 DEF AloneInv, TypeInv, TypeOK, Located, LocatedAt, Working
      <3>2. run[p].held \in Contents
        BY <3>1 DEF Runs
      <3> QED
        BY <1>1, <3>1, <3>2 DEF AloneInv, TypeInv, TypeOK
    <2>4. temp[t] = run[p].held
      <3> DEFINE c == temp[t]  h == run[p].held
      <3>1. c \in [1..Len(c) -> Editions \cup {Hole}] /\ h \in [1..Len(h) -> Editions \cup {Hole}]
        BY <2>2, <2>3, ContentsAreSequences
      <3>2. Len(c) = Len(h) /\ \A i \in 1..Len(h) : c[i] = h[i]
        BY <2>1, <2>2
      <3> HIDE DEF c, h
      <3>3. c = h
        BY <3>1, <3>2
      <3> QED
        BY <3>3 DEF c, h
    <2> QED
      BY <2>1, <2>3, <2>4 DEF TempOf
  <1>2. AloneInv /\ [Next]_vars => [\A p \in Procs : Publish(p) /\ run[p].tag \in Exclusive =>
                                       file'[run[p].tag] = run[p].held]_vars
    BY <1>1
  <1> QED
    BY <1>2, AloneInvHolds, PTL DEF Spec

\* A check whose --auto-generate succeeded can read every pin it claims alone.
THEOREM PinsAreReadable == Spec => []EnsuredPinsAreReadable
  <1>1. ASSUME AloneInv, NEW p \in Procs, pc[p] = "next",
               run[p].verb = "check", run[p].todo = {},
               NEW t \in run[p].unread \cap Exclusive
        PROVE  Readable(t)
    <2>1. run[p].tag = None /\ None \notin Exclusive
      BY <1>1, StoreBoundAssumption, StoreNoneAssumption
         DEF AloneInv, Knows, KnowsAt, VerbAt
    <2>2. file[t] # None
      BY <1>1, <2>1 DEF AloneInv, Knows, KnowsAt, PinsAt
    <2> QED
      BY <1>1, <2>2, WholeFacts DEF AloneInv, FilesWhole, Readable
  <1>2. AloneInv => EnsuredPinsAreReadable
    BY <1>1 DEF EnsuredPinsAreReadable
  <1> QED
    BY <1>2, AloneInvHolds, PTL

-----------------------------------------------------------------------------
(* What a step does to the snapshots of exclusive tags.                    *)

\* It was asked to replace the snapshot of its tag.
MayReplace(p, t) ==
    /\ run[p].replace
    /\ \/ run[p].verb = "rebuild"
       \/ run[p].verb = "refresh" /\ (file[t] # None => ~Fresh(file[t]))

\* A snapshot that could not be removed is replaced where it stands.
Changes(p, t) ==
    \/ file'[t] = None /\ MayReplace(p, t)
    \/ file'[t] = Built(t) /\ (file[t] = None \/ MayReplace(p, t))
    \/ file[t] # None /\ file'[t] = Reemitted(file[t])

Leaves(U) == \A u \in U : file'[u] = file[u]

\* At most one of them changes, the one p works on.
Visible(p) ==
    \/ Leaves(Exclusive)
    \/ /\ run[p].tag \in Exclusive /\ Changes(p, run[p].tag)
       /\ Leaves(Exclusive \ {run[p].tag})

LEMMA WriteIsVisible ==
    ASSUME AloneInv, NEW p \in Procs, Write(p)
    PROVE  Visible(p)
  <1> DEFINE t == run[p].tag
  <1>1. /\ run[p] \in Runs /\ file \in [Tags -> Contents \cup {None}]
        /\ VerbAt(pc[p], run[p]) /\ TagAt(pc[p], run[p], file)
        /\ TempAt(pc[p], run[p], temp, fd[p])
    BY DEF AloneInv, TypeInv, TypeOK, Knows, KnowsAt
  <1>2. Exclusive \subseteq Tags
    BY StoreBoundAssumption
  <1>3. fd[p].of # "none" => fd[p].tag = t
    BY DEF AloneInv, TypeInv, FdsOK
  <1>4. CASE Delete(p)
    <2>1. file' = [file EXCEPT ![t] = None] /\ pc[p] = "delete"
      BY <1>4 DEF Delete
    <2>2. run[p].replace /\ run[p].verb \in {"rebuild", "refresh"}
      BY <1>1, <2>1 DEF VerbAt
    <2> HIDE DEF t
    <2>3. Leaves(Exclusive \ {t}) /\ (t \in Exclusive => file'[t] = None)
      BY <1>1, <1>2, <2>1 DEF Leaves
    <2>4. t \in Exclusive => MayReplace(p, t)
      BY <1>1, <2>1, <2>2, <2>3 DEF TagAt, MayReplace, t
    <2> QED
      BY <2>3, <2>4 DEF Visible, Changes, Leaves, t
  <1>5. CASE WriteChunk(p)
    <2>1. /\ pc[p] = "write"
          /\ \/ file' = file
             \/ fd[p].of = "file" /\ \E c : file' = [file EXCEPT ![fd[p].tag] = c]
      BY <1>5, Zenon DEF WriteChunk
    <2>2. t \in Exclusive => file' = file
      BY <1>1, <2>1 DEF TempAt
    <2>3. t \notin Exclusive => Leaves(Exclusive)
      BY <1>1, <1>2, <1>3, <2>1 DEF Leaves
    <2> QED
      BY <2>2, <2>3 DEF Visible, Leaves
  <1>6. CASE Publish(p)
    <2>1. /\ file' = [file EXCEPT ![t] = temp[t]] /\ temp[t] # None
          /\ pc[p] = "write" /\ run[p].at = Len(run[p].held)
      BY <1>6 DEF Publish, TempOf
    <2> HIDE DEF t
    <2>2. Leaves(Exclusive \ {t}) /\ (t \in Exclusive => file'[t] = temp[t])
      BY <1>1, <1>2, <2>1 DEF Leaves
    <2>3. t \in Exclusive => temp[t] = run[p].held
      BY <1>1, <2>1, PublishedIsHeld DEF t
    <2>4. t \in Exclusive /\ run[p].verb # "migrate" => file[t] = None \/ MayReplace(p, t)
      BY <1>1, <2>1 DEF VerbAt, TagAt, MayReplace, t
    <2>5. t \in Exclusive => Changes(p, t)
      BY <1>1, <2>1, <2>2, <2>3, <2>4 DEF TagAt, Changes, t
    <2> QED
      BY <2>2, <2>5 DEF Visible, Leaves, t
  <1>7. CASE DeleteFails(p) \/ CreateTemp(p) \/ PublishMissing(p) \/ WriteFails(p)
    BY <1>7 DEF DeleteFails, CreateTemp, PublishMissing, WriteFails, Visible, Leaves, files
  <1> QED
    BY <1>4, <1>5, <1>6, <1>7 DEF Write

LEMMA StepIsVisible ==
    ASSUME AloneInv, [Next]_vars
    PROVE  Leaves(Exclusive) \/ \E p \in Procs : Visible(p)
  <1>1. CASE Next
    <2>1. PICK p \in Procs : Start(p) \/ Decide(p) \/ Write(p) \/ ReadPin(p)
                              \/ Finish(p) \/ Die(p)
      BY <1>1 DEF Next
    <2>2. CASE Write(p)
      BY <2>2, WriteIsVisible
    <2>3. CASE Start(p) \/ Decide(p)
      BY <2>3 DEF Start, Generate, Check, Rebuild, Migrate, Begin, Decide, TakeTag,
         HasSnapshot, DecideAction, Build, BuildFails, Reemit, CompareText,
         files, Leaves
    <2>4. CASE ReadPin(p) \/ Finish(p) \/ Die(p)
      BY <2>4 DEF ReadPin, Finish, Die, files, Leaves
    <2> QED
      BY <2>1, <2>2, <2>3, <2>4
  <1>2. CASE UNCHANGED vars
    BY <1>2 DEF vars, Leaves
  <1> QED
    BY <1>1, <1>2

\* Outside rebuild and the stale snapshots of --refresh-stale, the snapshot of
\* a tag that one verb at a time works on only ever changes its format.
THEOREM OnlyAskedForChange == Spec => OnlyAskedForSnapshotsChange
  <1> DEFINE Asked(t) ==
        file'[t] # file[t] =>
          \/ file'[t] = Reemitted(file[t])
          \/ \E p \in Procs : /\ run[p].tag = t
                              /\ \/ run[p].verb = "rebuild"
                                 \/ run[p].verb = "refresh" /\ ~Fresh(file[t])
  <1>1. ASSUME AloneInv, [Next]_vars, NEW t \in Present \cap Exclusive
        PROVE  Asked(t)
    <2>1. file[t] # None
      BY <1>1 DEF Present
    <2>2. CASE Leaves(Exclusive)
      BY <1>1, <2>2 DEF Leaves
    <2>3. ASSUME NEW p \in Procs, Visible(p)
          PROVE  Asked(t)
      BY <1>1, <2>1, <2>3 DEF Visible, Changes, MayReplace, Leaves
    <2> QED
      BY <1>1, <2>2, <2>3, StepIsVisible
  <1>2. AloneInv /\ [Next]_vars => [\A t \in Present \cap Exclusive : Asked(t)]_vars
    BY <1>1
  <1> QED
    BY <1>2, AloneInvHolds, PTL DEF Spec, OnlyAskedForSnapshotsChange

-----------------------------------------------------------------------------
(* The store is a table.                                                   *)

EditionAt(f, t) == IF f[t] = None THEN None ELSE f[t][1]

edition == [t \in Exclusive |-> EditionAt(file, t)]

asked == {t \in Exclusive : \E p \in Procs : run[p].replace /\ run[p].tag = t}

LEMMA InitIsTableInit == Init => Table!Init
  <1> SUFFICES ASSUME Init PROVE Table!Init
    OBVIOUS
  <1>1. \A t \in Exclusive : file[t] # None => IsWhole(file[t], t)
    BY InitAlone DEF AloneInv, FilesWhole
  <1>2. \A t \in Exclusive : file[t] # None => file[t][1] \in Editions /\ file[t][1].tag = t
    BY <1>1, WholeFacts
  <1>3. Exclusive \subseteq Tags
    BY StoreBoundAssumption
  <1>4. \A t \in Exclusive : /\ EditionAt(file, t) \in Table!Editions \cup {None}
                             /\ EditionAt(file, t) # None => EditionAt(file, t).tag = t
    <2>1. SUFFICES ASSUME NEW t \in Exclusive, file[t] # None
                   PROVE  file[t][1] \in Table!Editions /\ file[t][1].tag = t
      BY DEF EditionAt
    <2>2. file[t][1] \in Editions /\ file[t][1].tag = t
      BY <1>2, <2>1
    <2> QED
      BY <2>2 DEF Editions, Table!Editions
  <1>5. asked \in SUBSET Exclusive
    BY DEF asked
  <1> QED
    BY <1>4, <1>5 DEF Table!Init, EditionAt, asked

\* What p does to its tag is one of the table's three operations.
LEMMA ChangeIsTableStep ==
    ASSUME AloneInv, NEW p \in Procs, NEW t \in Exclusive, t = run[p].tag, Changes(p, t),
           Leaves(Exclusive \ {t})
    PROVE  \/ UNCHANGED edition
           \/ Table!Capture(t) \/ Table!Reformat(t) \/ Table!Drop(t)
  <1>1. Exclusive \subseteq Tags /\ None \notin Editions
    BY StoreBoundAssumption, StoreNoneAssumption
  <1>2. /\ edition' = [edition EXCEPT ![t] = EditionAt(file', t)]
        /\ edition[t] = EditionAt(file, t)
    BY DEF Leaves, EditionAt, edition
  <1>3. file[t] # None => IsWhole(file[t], t) /\ edition[t] = file[t][1] /\ edition[t] # None
    <2>1. file[t] # None => IsWhole(file[t], t)
      BY DEF AloneInv, FilesWhole
    <2>2. file[t] # None => file[t][1] \in Editions
      BY <2>1, WholeFacts
    <2> QED
      BY <1>1, <1>2, <2>1, <2>2 DEF EditionAt
  <1>7. MayReplace(p, t) => t \in asked
    BY DEF MayReplace, asked
  <1>4. CASE file'[t] = None /\ MayReplace(p, t)
    <2>1. edition' = [edition EXCEPT ![t] = None]
      BY <1>2, <1>4 DEF EditionAt
    <2>2. CASE file[t] = None
      BY <1>2, <2>1, <2>2 DEF EditionAt, edition
    <2>3. CASE file[t] # None
      BY <1>3, <1>4, <1>7, <2>1, <2>3 DEF Table!Drop, edition, EditionAt, asked
    <2> QED
      BY <2>2, <2>3
  <1>5. CASE file'[t] = Built(t) /\ (file[t] = None \/ MayReplace(p, t))
    <2>1. Built(t) # None /\ Built(t)[1] = [tag |-> t, extractor |-> Extractor, format |-> Format]
      BY <1>1, BuiltIsWhole, WholeFacts, StoreNoneAssumption
    <2>2. edition' = [edition EXCEPT
                        ![t] = [tag |-> t, extractor |-> Extractor, format |-> Format]]
      BY <1>2, <1>5, <2>1 DEF EditionAt
    <2>3. edition[t] = None \/ t \in asked
      BY <1>2, <1>5, <1>7 DEF EditionAt
    <2> QED
      BY <2>2, <2>3 DEF Table!Capture, edition, EditionAt, asked
  <1>6. CASE file[t] # None /\ file'[t] = Reemitted(file[t])
    <2>1. Reemitted(file[t]) # None /\ Reemitted(file[t])[1] = [file[t][1] EXCEPT !.format = Format]
      BY <1>3, <1>6, ReemittedIsWhole, WholeFacts, StoreNoneAssumption
    <2>2. edition[t] # None /\ edition' = [edition EXCEPT ![t].format = Format]
      BY <1>2, <1>3, <1>6, <2>1 DEF EditionAt
    <2> QED
      BY <2>2 DEF Table!Reformat, edition, EditionAt
  <1> QED
    BY <1>4, <1>5, <1>6 DEF Changes

LEMMA StepIsTableStep ==
    ASSUME AloneInv, [Next]_vars
    PROVE  Table!Next
  <1> DEFINE Moves == \E t \in Exclusive : Table!Capture(t) \/ Table!Reformat(t) \/ Table!Drop(t)
  <1>1. Leaves(Exclusive) => UNCHANGED edition
    BY DEF Leaves, EditionAt, edition
  <1>2. ASSUME NEW p \in Procs, Visible(p)
        PROVE  UNCHANGED edition \/ Moves
    BY <1>1, <1>2, ChangeIsTableStep DEF Visible
  <1>3. UNCHANGED edition \/ Moves
    BY <1>1, <1>2, StepIsVisible
  <1>4. asked' \in SUBSET Exclusive
    BY DEF asked
  <1> QED
    BY <1>3, <1>4 DEF Table!Next, edition, EditionAt, asked

\* Every run of the verbs is one of a table in which a snapshot is captured,
\* reformatted or dropped in one step, and replaced only when asked: also where
\* the old file cannot be removed and is written over.
THEOREM StoreImplementsTable == Spec => StoreIsTable
  <1>1. AloneInv /\ [Next]_vars => [Table!Next]_<<edition, asked>>
    BY StepIsTableStep
  <1> QED
    BY <1>1, AloneInvHolds, InitIsTableInit, PTL
       DEF Spec, StoreIsTable, Table!Spec, edition, EditionAt, asked
=============================================================================
