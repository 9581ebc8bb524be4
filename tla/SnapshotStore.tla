--------------------------- MODULE SnapshotStore ---------------------------
(***************************************************************************)
(* The snapshot directory (crates/backhopper-core/src/store/fs.rs) and the *)
(* verbs that read and rewrite it: `snapshots generate`, with and without  *)
(* --refresh-stale, `rebuild`, `migrate`, and a check that generates the   *)
(* snapshots its pins lack (--auto-generate).  Each runs in a process of   *)
(* its own and none of them takes a lock.                                  *)
(*                                                                         *)
(* A file is a sequence of chunks: the header first, then the modules.  A  *)
(* chunk says which tag it describes, which extractor read the tag and     *)
(* which format version it is written in.  Chunks are written one by one   *)
(* through a file descriptor, which follows the file when its name changes.*)
(***************************************************************************)
EXTENDS Integers, Sequences

CONSTANTS
    Procs,                \* process slots
    Tags,                 \* the (project, tag) pairs of the store
    Extractors, Formats,  \* extractor and format versions, past and present
    Extractor, Format,    \* those of the running binary
    None, Hole,           \* no value; bytes nobody wrote
    Chunks,               \* chunks of a whole snapshot
    Exclusive,            \* the tags that one verb at a time works on
    MaxFaults             \* how many builds and writes fail, or verbs are killed
                          \* (a bound for TLC)

ASSUME EditionAssumption ==
    /\ Extractor \in Extractors /\ Format \in Formats
    /\ Chunks \in Nat \ {0}

ASSUME StoreBoundAssumption ==
    /\ Exclusive \subseteq Tags
    /\ MaxFaults \in Nat

-----------------------------------------------------------------------------
(* Contents.                                                               *)

Editions == [tag : Tags, extractor : Extractors, format : Formats]

Contents == UNION {[1..n -> Editions \cup {Hole}] : n \in 0..Chunks}

ASSUME StoreNoneAssumption ==
    None \notin Contents \cup Tags \cup Editions /\ Hole \notin Editions

Whole(e) == [i \in 1..Chunks |-> e]

\* build_snapshot depends on the tag and on the extractor alone.
Built(t) == Whole([tag |-> t, extractor |-> Extractor, format |-> Format])

\* The format has no end marker: what is cut off after the header parses.
Parses(c) == c # << >> /\ \A i \in DOMAIN c : c[i] # Hole

Fresh(c) == c[1].extractor = Extractor

\* Mutation: migrate stamps the running extractor on what it re-emits.
ReemittedAndStamped(c) ==
    [i \in DOMAIN c |-> [c[i] EXCEPT !.format = Format, !.extractor = Extractor]]

\* The writer always writes the running binary's format version.
Reemitted(c) == [i \in DOMAIN c |-> [c[i] EXCEPT !.format = Format]]

\* A write through a descriptor of its own position: a file truncated in
\* between has a hole below it.
WrittenAt(c, i, chunk) ==
    [j \in 1..(IF Len(c) > i THEN Len(c) ELSE i) |->
        IF j = i THEN chunk ELSE IF j <= Len(c) THEN c[j] ELSE Hole]

\* Mutation: one temp name for the whole directory.
TempShared(t) == CHOOSE u \in Tags : TRUE

\* temp_sibling: the tag's own file name with a suffix, for every process.
TempOf(t) == t

-----------------------------------------------------------------------------
(* State.                                                                  *)

VARIABLES
    file,   \* the snapshot file of each tag, None when there is none
    temp,   \* the temp file of each tag
    fd,     \* the file each process is writing, by where it is linked now
    pc, run, faults

vars == <<file, temp, fd, pc, run, faults>>

Verbs == {"generate", "refresh", "rebuild", "migrate", "check"}

PCs == {"off", "next", "has", "read", "reemit", "compare", "build",
        "delete", "create", "write"}

NoFd == [of |-> "none", tag |-> None]
Fds == [of : {"none", "temp", "file", "unlinked"}, tag : Tags \cup {None}]

NoRun == [verb |-> None, claims |-> {}, todo |-> {}, unread |-> {},
          tag |-> None, replace |-> FALSE, held |-> << >>, at |-> 0]

Runs == [verb : Verbs \cup {None}, claims : SUBSET Tags, todo : SUBSET Tags,
         unread : SUBSET Tags, tag : Tags \cup {None}, replace : BOOLEAN,
         held : Contents, at : 0..Chunks]

\* What is about to be written is never nothing.
TypeOK ==
    /\ file \in [Tags -> Contents \cup {None}]
    /\ temp \in [Tags -> Contents \cup {None}]
    /\ fd \in [Procs -> Fds] /\ pc \in [Procs -> PCs]
    /\ run \in [Procs -> Runs]
    /\ \A p \in Procs : pc[p] \in {"delete", "create", "write"} =>
           run[p].tag \in Tags /\ run[p].held # << >>
    /\ faults \in Nat

-----------------------------------------------------------------------------
(* Helpers.                                                                *)

files == <<file, temp, fd>>

Fault == faults < MaxFaults /\ faults' = faults + 1

Readable(t) == file[t] # None /\ Parses(file[t])

\* Nobody else's verb works on the exclusive ones of these tags.
Unclaimed(p, T) ==
    \A q \in Procs \ {p} : run[q].claims \cap T \cap Exclusive = {}

WithoutTag(r) ==
    [r EXCEPT !.tag = None, !.replace = FALSE, !.held = << >>, !.at = 0]

\* On with the next tag of the verb.
Proceed(p) ==
    /\ pc' = [pc EXCEPT ![p] = "next"]
    /\ run' = [run EXCEPT ![p] = WithoutTag(@)]

Stop(p) ==
    /\ pc' = [pc EXCEPT ![p] = "off"]
    /\ run' = [run EXCEPT ![p] = NoRun]

\* Mutation: every verb carries on after a tag that failed.
FailTagAndProceed(p) == Proceed(p)

\* generate lists the failure and goes on; the other verbs return it.
FailTag(p) ==
    IF run[p].verb \in {"generate", "refresh"} THEN Proceed(p) ELSE Stop(p)

Close(p) == fd' = [fd EXCEPT ![p] = NoFd]

\* Descriptors of the file that was t's snapshot lose their name, those of
\* t's temp file follow the rename.
Unlinked(d, t) == IF d = [of |-> "file", tag |-> t] THEN [d EXCEPT !.of = "unlinked"] ELSE d

Renamed(d, t) ==
    IF d = [of |-> "temp", tag |-> TempOf(t)]
    THEN [of |-> "file", tag |-> t] ELSE Unlinked(d, t)

-----------------------------------------------------------------------------
(* The verbs.                                                              *)

\* A store written by this binary or an older one.
Init ==
    /\ file \in [Tags -> {None} \cup {Whole(e) : e \in Editions}]
    /\ \A t \in Tags : file[t] # None => file[t][1].tag = t
    /\ temp = [t \in Tags |-> None]
    /\ fd = [p \in Procs |-> NoFd]
    /\ pc = [p \in Procs |-> "off"] /\ run = [p \in Procs |-> NoRun]
    /\ faults = 0

Begin(p, r, where) ==
    /\ pc[p] = "off" /\ Unclaimed(p, r.claims)
    /\ pc' = [pc EXCEPT ![p] = where]
    /\ run' = [run EXCEPT ![p] = r]
    /\ UNCHANGED <<files, faults>>

\* generate, for one project or for the pins of a series.
Generate(p, T, refreshStale) ==
    Begin(p, [NoRun EXCEPT !.verb = IF refreshStale THEN "refresh" ELSE "generate",
                           !.claims = T, !.todo = T], "next")

Rebuild(p, t) ==
    Begin(p, [NoRun EXCEPT !.verb = "rebuild", !.claims = {t}, !.tag = t,
                           !.replace = TRUE], "build")

Present == {t \in Tags : file[t] # None}

Migrate(p) ==
    Begin(p, [NoRun EXCEPT !.verb = "migrate", !.claims = Present,
                           !.todo = Present], "next")

\* A check with --auto-generate: the pins that are missing are listed first.
Check(p, pins) ==
    Begin(p, [NoRun EXCEPT !.verb = "check", !.claims = pins,
                           !.todo = pins \ Present, !.unread = pins], "next")

TakeTag(p) ==
    /\ pc[p] = "next"
    /\ \E t \in run[p].todo :
         run' = [run EXCEPT ![p].tag = t, ![p].todo = @ \ {t}]
    /\ pc' = [pc EXCEPT ![p] = CASE run[p].verb = "check"   -> "build"
                                 [] run[p].verb = "migrate" -> "reemit"
                                 [] OTHER                   -> "has"]
    /\ UNCHANGED <<files, faults>>

\* present_freshness asks whether the file exists and then reads it.
HasSnapshot(p) ==
    /\ pc[p] = "has"
    /\ pc' = [pc EXCEPT ![p] = IF run[p].tag \in Present THEN "read" ELSE "build"]
    /\ UNCHANGED <<files, run, faults>>

\* Mutation: --refresh-stale looks at no version.
RefreshAnything(p) ==
    /\ pc[p] = "read"
    /\ IF run[p].verb = "refresh"
       THEN /\ pc' = [pc EXCEPT ![p] = "build"]
            /\ run' = [run EXCEPT ![p].replace = TRUE]
       ELSE Proceed(p)
    /\ UNCHANGED <<files, faults>>

\* generate_action: what cannot be read counts as stale.
DecideAction(p) ==
    /\ pc[p] = "read"
    /\ LET stale == Readable(run[p].tag) => ~Fresh(file[run[p].tag])
       IN  IF stale /\ run[p].verb = "refresh"
           THEN /\ pc' = [pc EXCEPT ![p] = "build"]
                /\ run' = [run EXCEPT ![p].replace = TRUE]
           ELSE Proceed(p)
    /\ UNCHANGED <<files, faults>>

Build(p) ==
    /\ pc[p] = "build"
    /\ pc' = [pc EXCEPT ![p] = IF run[p].replace THEN "delete" ELSE "create"]
    /\ run' = [run EXCEPT ![p].held = Built(run[p].tag)]
    /\ UNCHANGED <<files, faults>>

\* Mutation: what could not be built is written all the same.
BuildFailsUnnoticed(p) ==
    /\ pc[p] = "build"
    /\ Fault
    /\ pc' = [pc EXCEPT ![p] = "create"]
    /\ UNCHANGED <<files, run>>

BuildFails(p) ==
    /\ pc[p] = "build"
    /\ Fault
    /\ FailTag(p)
    /\ UNCHANGED files

\* migrate reads the file twice: to parse it, and to compare its text.
Reemit(p) ==
    /\ pc[p] = "reemit"
    /\ IF Readable(run[p].tag)
       THEN /\ pc' = [pc EXCEPT ![p] = "compare"]
            /\ run' = [run EXCEPT ![p].held = Reemitted(file[run[p].tag])]
       ELSE Proceed(p)
    /\ UNCHANGED <<files, faults>>

CompareText(p) ==
    /\ pc[p] = "compare"
    /\ IF file[run[p].tag] = run[p].held
       THEN Proceed(p)
       ELSE pc' = [pc EXCEPT ![p] = "create"] /\ UNCHANGED run
    /\ UNCHANGED <<files, faults>>

Delete(p) ==
    /\ pc[p] = "delete"
    /\ file' = [file EXCEPT ![run[p].tag] = None]
    /\ fd' = [q \in Procs |-> Unlinked(fd[q], run[p].tag)]
    /\ pc' = [pc EXCEPT ![p] = "create"]
    /\ UNCHANGED <<temp, run, faults>>

\* The callers ignore that the file could not be removed (`let _ =`), and write
\* over it.
DeleteFails(p) ==
    /\ pc[p] = "delete" /\ run[p].tag \in Present
    /\ pc' = [pc EXCEPT ![p] = "create"]
    /\ UNCHANGED <<files, run, faults>>

-----------------------------------------------------------------------------
(* SnapshotStore::write.                                                   *)

\* Mutation: the snapshot file itself is truncated and written.
CreateInPlace(p) ==
    /\ pc[p] = "create"
    /\ file' = [file EXCEPT ![run[p].tag] = << >>]
    /\ temp' = [temp EXCEPT ![TempOf(run[p].tag)] = << >>]
    /\ fd' = [fd EXCEPT ![p] = [of |-> "file", tag |-> run[p].tag]]
    /\ pc' = [pc EXCEPT ![p] = "write"]
    /\ UNCHANGED <<run, faults>>

\* File::create truncates the temp file another process may have open.
CreateTemp(p) ==
    /\ pc[p] = "create"
    /\ temp' = [temp EXCEPT ![TempOf(run[p].tag)] = << >>]
    /\ fd' = [fd EXCEPT ![p] = [of |-> "temp", tag |-> TempOf(run[p].tag)]]
    /\ pc' = [pc EXCEPT ![p] = "write"]
    /\ UNCHANGED <<file, run, faults>>

WriteChunk(p) ==
    /\ pc[p] = "write" /\ run[p].at < Len(run[p].held)
    /\ LET i == run[p].at + 1
           Grown(c) == WrittenAt(c, i, run[p].held[i])
       IN  /\ temp' = IF fd[p].of = "temp"
                      THEN [temp EXCEPT ![fd[p].tag] = Grown(@)] ELSE temp
           /\ file' = IF fd[p].of = "file"
                      THEN [file EXCEPT ![fd[p].tag] = Grown(@)] ELSE file
           /\ run' = [run EXCEPT ![p].at = i]
    /\ UNCHANGED <<fd, pc, faults>>

\* rename moves whatever the temp name stands for by now.
Publish(p) ==
    LET t == run[p].tag IN
    /\ pc[p] = "write" /\ run[p].at = Len(run[p].held)
    /\ temp[TempOf(t)] # None
    /\ file' = [file EXCEPT ![t] = temp[TempOf(t)]]
    /\ temp' = [temp EXCEPT ![TempOf(t)] = None]
    /\ fd' = [q \in Procs |-> IF q = p THEN NoFd ELSE Renamed(fd[q], t)]
    /\ Proceed(p)
    /\ UNCHANGED faults

\* Another process renamed it away.
PublishMissing(p) ==
    /\ pc[p] = "write" /\ run[p].at = Len(run[p].held)
    /\ temp[TempOf(run[p].tag)] = None
    /\ FailTag(p) /\ Close(p)
    /\ UNCHANGED <<file, temp, faults>>

\* A full disk, at any chunk; the temp file stays.
WriteFails(p) ==
    /\ pc[p] \in {"create", "write"}
    /\ Fault
    /\ FailTag(p) /\ Close(p)
    /\ UNCHANGED <<file, temp>>

-----------------------------------------------------------------------------
(* The check reads its pins; any verb ends, or is killed.                  *)

ReadPin(p) ==
    /\ pc[p] = "next" /\ run[p].todo = {}
    /\ \E t \in run[p].unread :
         IF Readable(t)
         THEN /\ run' = [run EXCEPT ![p].unread = @ \ {t}]
              /\ UNCHANGED pc
         ELSE Stop(p)
    /\ UNCHANGED <<files, faults>>

Finish(p) ==
    /\ pc[p] = "next" /\ run[p].todo = {} /\ run[p].unread = {}
    /\ Stop(p)
    /\ UNCHANGED <<files, faults>>

Die(p) ==
    /\ pc[p] # "off"
    /\ Fault
    /\ Stop(p) /\ Close(p)
    /\ UNCHANGED <<file, temp>>

Start(p) == \/ \E T \in SUBSET Tags \ {{}} : \/ \E b \in BOOLEAN : Generate(p, T, b)
                                             \/ Check(p, T)
            \/ \E t \in Tags : Rebuild(p, t)
            \/ Migrate(p)

Decide(p) == TakeTag(p) \/ HasSnapshot(p) \/ DecideAction(p) \/ Build(p)
               \/ BuildFails(p) \/ Reemit(p) \/ CompareText(p)

Write(p) == Delete(p) \/ DeleteFails(p) \/ CreateTemp(p) \/ WriteChunk(p)
              \/ Publish(p) \/ PublishMissing(p) \/ WriteFails(p)

Next == \E p \in Procs :
            Start(p) \/ Decide(p) \/ Write(p) \/ ReadPin(p) \/ Finish(p) \/ Die(p)

Spec == Init /\ [][Next]_vars

-----------------------------------------------------------------------------
(* Properties.                                                             *)

\* Whatever verbs run on other tags, and wherever one of them fails or is
\* killed, the snapshot of a tag that one verb at a time works on is whole and
\* of one edition of that tag.
PublishedIsWhole ==
    \A t \in Exclusive : file[t] # None =>
        \E e \in Editions : e.tag = t /\ file[t] = Whole(e)

\* No process ever sees chunks of one tag in the snapshot of another, even
\* when two verbs write the same tag at once.
SnapshotsAreOfTheirTag ==
    \A t \in Tags : file[t] # None =>
        \A i \in DOMAIN file[t] : file[t][i] # Hole => file[t][i].tag = t

\* "Without this flag a tag with a snapshot is always skipped"
\* (cli/snapshots.rs): only rebuild replaces a current snapshot, only rebuild
\* and --refresh-stale a stale one; whatever else changes is its format.
OnlyAskedForSnapshotsChange ==
    [][\A t \in Present \cap Exclusive : file'[t] # file[t] =>
         \/ file'[t] = Reemitted(file[t])
         \/ \E p \in Procs : /\ run[p].tag = t
                             /\ \/ run[p].verb = "rebuild"
                                \/ run[p].verb = "refresh" /\ ~Fresh(file[t])]_vars

\* A check that got through --auto-generate reads every one of its pins.
EnsuredPinsAreReadable ==
    \A p \in Procs :
        pc[p] = "next" /\ run[p].verb = "check" /\ run[p].todo = {} =>
            \A t \in run[p].unread \cap Exclusive : Readable(t)

\* What write stored, read gives back (the round trip of store_unit_tests.rs,
\* at the moment write returns).
WrittenIsReadBack ==
    [][\A p \in Procs : Publish(p) => file'[run[p].tag] = run[p].held]_vars

\* To its users the store is a table: a verb captures, drops or reformats one
\* snapshot at a time, and nothing in between is visible.  A verb that replaces
\* a snapshot drops it first, or when the file cannot be removed captures over
\* it; no other verb does either.
Table == INSTANCE SnapshotTable WITH
    Tags <- Exclusive,
    edition <- [t \in Exclusive |-> IF file[t] = None THEN None ELSE file[t][1]],
    asked <- {t \in Exclusive : \E p \in Procs : run[p].replace /\ run[p].tag = t}

StoreIsTable == Table!Spec

=============================================================================
