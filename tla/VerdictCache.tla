---------------------------- MODULE VerdictCache ----------------------------
(***************************************************************************)
(* The two-level verdict cache of backhopper-cache, as the check and       *)
(* bisect verbs use it.  Several operating system processes share one      *)
(* cache directory; none of them takes a lock.  A process parses the       *)
(* configuration, opens a cache session, and takes one (commit, pins) pair *)
(* after another through lookup, lookup_content, evaluate and store.       *)
(*                                                                         *)
(* What an evaluation computes is represented by what it reads: its        *)
(* `verdict` holds the inputs the content key names, its `facts` the       *)
(* commit whose own tree and history it also consulted (already-present    *)
(* probe, dependency pins at the commit, inner pull request commits, the   *)
(* post-image of the patched files).  Two evaluations render the same      *)
(* exactly when they read the same.                                        *)
(***************************************************************************)
EXTENDS Integers, FiniteSets

CONSTANTS
    Procs,           \* process slots; a slot's name is its process id
    Commits,         \* commits a run may be asked about
    Patches, Envs,   \* normalized patches, macro environments
    PatchOf,         \* the normalized patch of each commit
    EnvOf,           \* the macro environment each commit's files resolve to
    Mirrorable,      \* commits whose environment the mirror resolver reproduces
    Configs, Snaps,  \* contents of the config file, of the pinned snapshots
    None, Torn,      \* no value; bytes that do not parse as an entry
    TTL,             \* days an entry lives; 0 disables expiry
    OrphanAge,       \* age at which a temp file counts as abandoned
    SweepInterval,   \* age at which the sweep marker is stale
    EditsDuringRuns, \* may inputs change while a process runs
    MaxHold,         \* longest a process takes over one pair
    Shapes,          \* the evaluation pipelines in use
    Max              \* how often each of them may happen (a bound for TLC)

Events == {"days", "pairs", "edits", "failures", "verbs", "kills", "outages"}

ASSUME CommitAssumption ==
    /\ PatchOf \in [Commits -> Patches]
    /\ EnvOf \in [Commits -> Envs]
    /\ Mirrorable \subseteq Commits

ASSUME TimeAssumption ==
    /\ TTL \in Nat /\ OrphanAge \in Nat /\ SweepInterval \in Nat
    /\ MaxHold \in Nat

ASSUME BoundAssumption ==
    /\ EditsDuringRuns \in BOOLEAN
    /\ Shapes \subseteq {"check", "bisect"}
    /\ Max \in [Events -> Nat]

-----------------------------------------------------------------------------
(* Keys and evaluations.                                                   *)

Verdicts == [shape : Shapes, patch : Patches, env : Envs \cup {None},
             cfg : Configs, snap : Snaps]

Evaluations == [verdict : Verdicts, facts : Commits \cup {None}, made : Nat]

\* A pair a process is asked about, with the inputs that determine its answer.
Requests == [shape : Shapes, commit : Commits, cfg : Configs, snap : Snaps]

ASSUME NoneAssumption ==
    /\ None \notin Shapes \cup Commits \cup Envs \cup Configs \cup Snaps
    /\ None \notin Evaluations \cup Requests
    /\ Torn \notin Evaluations

\* bisect consumes no macros and runs no probe against the commit.
EnvRead(s, c) == IF s = "bisect" THEN None ELSE EnvOf[c]

FreshVerdict(s, c, g, n) ==
    [shape |-> s, patch |-> PatchOf[c], env |-> EnvRead(s, c),
     cfg |-> g, snap |-> n]

FreshFacts(s, c) == IF s = "bisect" THEN None ELSE c

\* An environment the mirror resolver cannot reproduce is keyed by its commit.
MacroKey(s, c) ==
    CASE s = "bisect"                         -> [kind |-> "unused", of |-> None]
      [] s # "bisect" /\ c \in Mirrorable     -> [kind |-> "resolved", of |-> EnvOf[c]]
      [] s # "bisect" /\ c \notin Mirrorable  -> [kind |-> "opaque", of |-> c]

MacroKeys == [kind : {"unused"}, of : {None}]
               \cup [kind : {"resolved"}, of : Envs]
               \cup [kind : {"opaque"}, of : Commits]

\* Mutations: the evaluation shape, then the config hash, left out of the key.
InputKeyNoShape(s, c, g, n) ==
    [level |-> "by-input", shape |-> "check", commit |-> c, cfg |-> g, snap |-> n]

InputKeyNoConfig(s, c, g, n) ==
    [level |-> "by-input", shape |-> s, commit |-> c, cfg |-> None, snap |-> n]

InputKey(s, c, g, n) ==
    [level |-> "by-input", shape |-> s, commit |-> c, cfg |-> g, snap |-> n]

\* Mutation: the macro environment left out of the content key.
ContentKeyNoMacros(s, c, g, n) ==
    [level |-> "by-content", shape |-> s, patch |-> PatchOf[c],
     macros |-> [kind |-> "unused", of |-> None], cfg |-> g, snap |-> n]

ContentKey(s, c, g, n) ==
    [level |-> "by-content", shape |-> s, patch |-> PatchOf[c],
     macros |-> MacroKey(s, c), cfg |-> g, snap |-> n]

InputFiles == [level : {"by-input"}, shape : Shapes, commit : Commits,
               cfg : Configs, snap : Snaps]

ContentFiles == [level : {"by-content"}, shape : Shapes, patch : Patches,
                 macros : MacroKeys, cfg : Configs, snap : Snaps]

Files == InputFiles \cup ContentFiles

Tmps == [pid : Procs, file : Files, mtime : Nat]

Entries == [body : Evaluations \cup {Torn}, mtime : Nat]

-----------------------------------------------------------------------------
(* State.                                                                  *)

VARIABLES
    config, snap,  \* current contents of the config file and the snapshots
    clock,         \* today
    disk,          \* published entries: a function on the names that exist
    tmps,          \* temp files [pid, file, mtime], not yet renamed
    marker,        \* day of the last sweep, None when there is no marker
    pc, run,       \* where each process is, and what it holds
    verb,          \* files a `cache` maintenance verb is about to delete
    spent          \* how much of each TLC bound is used up

vars == <<config, snap, clock, disk, tmps, marker, pc, run, verb, spent>>

PCs == {"off", "parsed", "ready", "stat", "remove", "read", "evaluate",
        "write", "sweep", "publish", "uncached", "done"}

\* One process's locals.  keyCfg and keySnap are hashed for the key; cfg and
\* memo are what the evaluation itself parsed.
NoRun == [cfg |-> None, keyCfg |-> None, keySnap |-> None, memo |-> None,
          shape |-> None, commit |-> None, level |-> None, eval |-> None,
          started |-> 0, swept |-> FALSE, victims |-> {}]

Runs == [cfg : Configs \cup {None}, keyCfg : Configs \cup {None},
         keySnap : Snaps \cup {None}, memo : Snaps \cup {None},
         shape : Shapes \cup {None}, commit : Commits \cup {None},
         level : {"by-input", "by-content", None},
         eval : Evaluations \cup {None}, started : Nat, swept : BOOLEAN,
         victims : SUBSET (Files \cup Tmps)]

TypeOK ==
    /\ config \in Configs /\ snap \in Snaps /\ clock \in Nat
    /\ DOMAIN disk \subseteq Files
    /\ \A f \in DOMAIN disk : disk[f] \in Entries
    /\ tmps \subseteq Tmps
    /\ marker \in Nat \cup {None}
    /\ pc \in [Procs -> PCs] /\ run \in [Procs -> Runs]
    /\ verb \subseteq Files \cup Tmps
    /\ spent \in [Events -> Nat]

-----------------------------------------------------------------------------
(* Helpers.                                                                *)

\* The entry file of p's current level: its name is the hash of the key.
CurFile(p) ==
    LET r == run[p] IN
    IF r.level = "by-input"
    THEN InputKey(r.shape, r.commit, r.keyCfg, r.keySnap)
    ELSE ContentKey(r.shape, r.commit, r.keyCfg, r.keySnap)

OlderThan(mtime, age) == clock - mtime > age

Expired(f) == TTL > 0 /\ OlderThan(disk[f].mtime, TTL)

OrphanTmps == {t \in tmps : OlderThan(t.mtime, OrphanAge)}

\* Renaming over, and unlinking, names of the cache directory.
Published(f, e) ==
    [g \in DOMAIN disk \cup {f} |-> IF g = f THEN e ELSE disk[g]]

Without(F) == [g \in DOMAIN disk \ F |-> disk[g]]

\* The token lookup returns on a miss leads to the next level, or to evaluate.
MissStep(p) ==
    IF run[p].level = "by-input"
    THEN /\ pc' = [pc EXCEPT ![p] = "stat"]
         /\ run' = [run EXCEPT ![p].level = "by-content"]
    ELSE /\ pc' = [pc EXCEPT ![p] = "evaluate"]
         /\ UNCHANGED run

\* store writes by-content, then by-input; an alias is one by-input write.
\* A write that fails is only warned about.
WrittenStep(p) ==
    IF run[p].level = "by-content"
    THEN /\ pc' = [pc EXCEPT ![p] = "write"]
         /\ run' = [run EXCEPT ![p].level = "by-input"]
    ELSE /\ pc' = [pc EXCEPT ![p] = "done"]
         /\ UNCHANGED run

Spend(event) ==
    /\ spent[event] < Max[event]
    /\ spent' = [spent EXCEPT ![event] = @ + 1]

EditsAllowed == EditsDuringRuns \/ \A p \in Procs : pc[p] = "off"

disks == <<disk, tmps, marker>>
world == <<config, snap, clock>>

-----------------------------------------------------------------------------
(* A run: parse the configuration, open a session, take pairs one by one.  *)

Init ==
    /\ config \in Configs /\ snap \in Snaps /\ clock = 0
    /\ disk = << >> /\ tmps = {} /\ marker = None
    /\ pc = [p \in Procs |-> "off"] /\ run = [p \in Procs |-> NoRun]
    /\ verb = {}
    /\ spent = [b \in Events |-> 0]

LoadConfig(p) ==
    /\ pc[p] = "off"
    /\ pc' = [pc EXCEPT ![p] = "parsed"]
    /\ run' = [run EXCEPT ![p] = [NoRun EXCEPT !.cfg = config]]
    /\ UNCHANGED <<world, disks, verb, spent>>

\* The session hashes the config bytes by reading the file a second time.
OpenSession(p) ==
    /\ pc[p] = "parsed"
    /\ pc' = [pc EXCEPT ![p] = "ready"]
    /\ run' = [run EXCEPT ![p].keyCfg = config]
    /\ UNCHANGED <<world, disks, verb, spent>>

\* --no-cache, the environment, a debug build, a bypass flag, or config
\* bytes that cannot be read: every pair of the run is evaluated uncached.
OpenDisabledSession(p) ==
    /\ pc[p] = "parsed"
    /\ pc' = [pc EXCEPT ![p] = "ready"]
    /\ UNCHANGED <<world, disks, run, verb, spent>>

\* check_key and bisect_key; the snapshot hash is memoized for the run.
BeginPair(p, s, c) ==
    /\ pc[p] = "ready" /\ run[p].keyCfg # None
    /\ Spend("pairs")
    /\ pc' = [pc EXCEPT ![p] = "stat"]
    /\ run' = [run EXCEPT
                 ![p].shape = s, ![p].commit = c, ![p].level = "by-input",
                 ![p].keySnap = IF @ = None THEN snap ELSE @,
                 ![p].started = clock]
    /\ UNCHANGED <<world, disks, verb>>

\* A disabled session, or a key component that cannot be computed.
BeginUncached(p, s, c) ==
    /\ pc[p] = "ready"
    /\ Spend("pairs")
    /\ pc' = [pc EXCEPT ![p] = "uncached"]
    /\ run' = [run EXCEPT ![p].shape = s, ![p].commit = c, ![p].started = clock]
    /\ UNCHANGED <<world, disks, verb>>

\* The pipeline computes from the config parsed at the start of the run and
\* from the snapshots, each of which a run parses at most once.
Evaluated(p) ==
    LET r == run[p]
        n == IF r.memo = None THEN snap ELSE r.memo
    IN  [r EXCEPT !.memo = n,
                  !.eval = [verdict |-> FreshVerdict(r.shape, r.commit, r.cfg, n),
                            facts |-> FreshFacts(r.shape, r.commit),
                            made |-> clock]]

EvaluateUncached(p) ==
    /\ pc[p] = "uncached"
    /\ pc' = [pc EXCEPT ![p] = "done"]
    /\ run' = [run EXCEPT ![p] = Evaluated(p)]
    /\ UNCHANGED <<world, disks, verb, spent>>

-----------------------------------------------------------------------------
(* lookup and lookup_content: read_entry at either level.                  *)

\* Mutation: only the by-input level checks the age of what it reads.
StatInputOnly(p) ==
    /\ pc[p] = "stat"
    /\ pc' = [pc EXCEPT ![p] = IF /\ run[p].level = "by-input"
                                  /\ CurFile(p) \in DOMAIN disk
                                  /\ Expired(CurFile(p))
                               THEN "remove" ELSE "read"]
    /\ UNCHANGED <<world, disks, run, verb, spent>>

\* The age check is a stat of its own, before the file is opened.
StatEntry(p) ==
    /\ pc[p] = "stat"
    /\ pc' = [pc EXCEPT ![p] = IF CurFile(p) \in DOMAIN disk /\ Expired(CurFile(p))
                               THEN "remove" ELSE "read"]
    /\ UNCHANGED <<world, disks, run, verb, spent>>

\* remove_file by name: whatever the name holds by now is what goes.
RemoveEntry(p) ==
    /\ pc[p] = "remove"
    /\ disk' = Without({CurFile(p)})
    /\ MissStep(p)
    /\ UNCHANGED <<world, tmps, marker, verb, spent>>

ReadMissing(p) ==
    /\ pc[p] = "read"
    /\ CurFile(p) \notin DOMAIN disk
    /\ MissStep(p)
    /\ UNCHANGED <<world, disks, verb, spent>>

ReadTorn(p) ==
    /\ pc[p] = "read"
    /\ CurFile(p) \in DOMAIN disk /\ disk[CurFile(p)].body = Torn
    /\ pc' = [pc EXCEPT ![p] = "remove"]
    /\ UNCHANGED <<world, disks, run, verb, spent>>

\* Mutation: bytes that do not parse are served.
HitUnparsed(p) ==
    /\ pc[p] = "read" /\ run[p].level = "by-input"
    /\ CurFile(p) \in DOMAIN disk
    /\ pc' = [pc EXCEPT ![p] = "done"]
    /\ run' = [run EXCEPT ![p].eval = disk[CurFile(p)].body]
    /\ UNCHANGED <<world, disks, verb, spent>>

HitInput(p) ==
    /\ pc[p] = "read" /\ run[p].level = "by-input"
    /\ CurFile(p) \in DOMAIN disk /\ disk[CurFile(p)].body # Torn
    /\ pc' = [pc EXCEPT ![p] = "done"]
    /\ run' = [run EXCEPT ![p].eval = disk[CurFile(p)].body]
    /\ UNCHANGED <<world, disks, verb, spent>>

\* A content hit goes on to write the by-input alias of the looked-up commit.
HitContent(p) ==
    /\ pc[p] = "read" /\ run[p].level = "by-content"
    /\ CurFile(p) \in DOMAIN disk /\ disk[CurFile(p)].body # Torn
    /\ pc' = [pc EXCEPT ![p] = "write"]
    /\ run' = [run EXCEPT ![p].eval = disk[CurFile(p)].body,
                          ![p].level = "by-input"]
    /\ UNCHANGED <<world, disks, verb, spent>>

Evaluate(p) ==
    /\ pc[p] = "evaluate"
    /\ pc' = [pc EXCEPT ![p] = "write"]
    /\ run' = [run EXCEPT ![p] = Evaluated(p)]
    /\ UNCHANGED <<world, disks, verb, spent>>

-----------------------------------------------------------------------------
(* write_entry: the first write of a run may sweep; every write goes       *)
(* through a temp file named for the entry and the process.                *)

MarkerStale == marker # None => OlderThan(marker, SweepInterval)

SkipSweep(p) ==
    /\ pc[p] = "write" /\ ~run[p].swept /\ ~MarkerStale
    /\ run' = [run EXCEPT ![p].swept = TRUE]
    /\ UNCHANGED <<world, disks, pc, verb, spent>>

\* The ages of all files are read here; the code reads each one's when its
\* turn comes, so a file has less time to be replaced before it is deleted.
BeginSweep(p) ==
    /\ pc[p] = "write" /\ ~run[p].swept /\ MarkerStale
    /\ pc' = [pc EXCEPT ![p] = "sweep"]
    /\ run' = [run EXCEPT
                 ![p].swept = TRUE,
                 ![p].victims = {f \in DOMAIN disk : Expired(f)} \cup OrphanTmps]
    /\ UNCHANGED <<world, disks, verb, spent>>

SweepOne(p) ==
    /\ pc[p] = "sweep"
    /\ \E v \in run[p].victims :
         /\ disk' = Without({v})
         /\ tmps' = tmps \ {v}
         /\ run' = [run EXCEPT ![p].victims = @ \ {v}]
    /\ UNCHANGED <<world, marker, pc, verb, spent>>

EndSweep(p) ==
    /\ pc[p] = "sweep" /\ run[p].victims = {}
    /\ marker' = clock
    /\ pc' = [pc EXCEPT ![p] = "write"]
    /\ UNCHANGED <<world, disk, tmps, run, verb, spent>>

TmpsOf(p) == {t \in tmps : t.pid = p /\ t.file = CurFile(p)}

\* Mutation: the entry file itself is truncated and written.
CreateInPlace(p) ==
    /\ pc[p] = "write" /\ run[p].swept
    /\ disk' = Published(CurFile(p), [body |-> Torn, mtime |-> clock])
    /\ tmps' = (tmps \ TmpsOf(p))
                 \cup {[pid |-> p, file |-> CurFile(p), mtime |-> clock]}
    /\ pc' = [pc EXCEPT ![p] = "publish"]
    /\ UNCHANGED <<world, marker, run, verb, spent>>

CreateTmp(p) ==
    /\ pc[p] = "write" /\ run[p].swept
    /\ tmps' = (tmps \ TmpsOf(p))
                 \cup {[pid |-> p, file |-> CurFile(p), mtime |-> clock]}
    /\ pc' = [pc EXCEPT ![p] = "publish"]
    /\ UNCHANGED <<world, disk, marker, run, verb, spent>>

\* The bytes reach the temp file and the rename puts it in place.
Publish(p) ==
    /\ pc[p] = "publish" /\ TmpsOf(p) # {}
    /\ disk' = Published(CurFile(p), [body |-> run[p].eval, mtime |-> clock])
    /\ tmps' = tmps \ TmpsOf(p)
    /\ WrittenStep(p)
    /\ UNCHANGED <<world, marker, verb, spent>>

\* Somebody swept the temp file: the rename fails, the entry is not stored.
PublishSwept(p) ==
    /\ pc[p] = "publish" /\ TmpsOf(p) = {}
    /\ WrittenStep(p)
    /\ UNCHANGED <<world, disks, verb, spent>>

\* The write fails (a full disk) and leaves its temp file behind, or the
\* rename fails and the temp file is deleted.
WriteFails(p) ==
    /\ pc[p] = "publish" /\ TmpsOf(p) # {}
    /\ Spend("failures")
    /\ tmps' \in {tmps, tmps \ TmpsOf(p)}
    /\ WrittenStep(p)
    /\ UNCHANGED <<world, disk, marker, verb>>

FinishPair(p) ==
    /\ pc[p] = "done"
    /\ pc' = [pc EXCEPT ![p] = "ready"]
    /\ run' = [run EXCEPT ![p].shape = None, ![p].commit = None,
                          ![p].level = None, ![p].eval = None, ![p].started = 0]
    /\ UNCHANGED <<world, disks, verb, spent>>

Exit(p) ==
    /\ pc[p] = "ready"
    /\ pc' = [pc EXCEPT ![p] = "off"]
    /\ run' = [run EXCEPT ![p] = NoRun]
    /\ UNCHANGED <<world, disks, verb, spent>>

\* The run fails with an error, or is killed.  It cleans nothing up.
Die(p) ==
    /\ pc[p] \notin {"off", "ready"}
    /\ Spend("kills")
    /\ pc' = [pc EXCEPT ![p] = "off"]
    /\ run' = [run EXCEPT ![p] = NoRun]
    /\ UNCHANGED <<world, disks, verb>>

-----------------------------------------------------------------------------
(* The `cache` verbs: scan, then delete by name.  scan skips files that do *)
(* not parse, so no verb deletes a torn entry.                             *)

Scanned == {f \in DOMAIN disk : disk[f].body # Torn}

ScanFor(victims) ==
    /\ verb = {}
    /\ Spend("verbs")
    /\ verb' = victims
    /\ UNCHANGED <<world, disks, pc, run>>

EvictCommit(c) ==
    ScanFor({f \in Scanned : f.level = "by-input" /\ f.commit = c})

EvictKeys(F) == F # {} /\ F \subseteq Scanned /\ ScanFor(F)

Prune(days) ==
    ScanFor({f \in Scanned : OlderThan(disk[f].mtime, days)} \cup OrphanTmps)

Clear == ScanFor(Scanned \cup OrphanTmps)

RemoveScanned ==
    /\ \E v \in verb :
         /\ disk' = Without({v})
         /\ tmps' = tmps \ {v}
         /\ verb' = verb \ {v}
    /\ UNCHANGED <<world, marker, pc, run, spent>>

\* A later key prefix is ambiguous, or the verb is interrupted.
VerbFails ==
    /\ verb # {}
    /\ Spend("failures")
    /\ verb' = {}
    /\ UNCHANGED <<world, disks, pc, run>>

-----------------------------------------------------------------------------
(* The environment.                                                        *)

\* An editor, `series sync` or --write-suggestions rewrites the config file.
EditConfig ==
    /\ EditsAllowed
    /\ Spend("edits")
    /\ \E g \in Configs \ {config} : config' = g
    /\ UNCHANGED <<snap, clock, disks, pc, run, verb>>

\* `snapshots rebuild` or `generate --refresh-stale` rewrites a pinned snapshot.
RegenerateSnapshot ==
    /\ EditsAllowed
    /\ Spend("edits")
    /\ \E n \in Snaps \ {snap} : snap' = n
    /\ UNCHANGED <<config, clock, disks, pc, run, verb>>

Busy(p) == pc[p] \notin {"off", "parsed", "ready", "done"}

Tick ==
    /\ Spend("days")
    /\ \A p \in Procs : Busy(p) => clock < run[p].started + MaxHold
    /\ clock' = clock + 1
    /\ UNCHANGED <<config, snap, disks, pc, run, verb>>

\* write_atomic does not fsync: what was renamed today may come back empty.
PowerLoss ==
    /\ Spend("outages")
    /\ \E lost \in SUBSET {f \in DOMAIN disk : disk[f].mtime = clock} :
         disk' = [f \in DOMAIN disk |->
                    IF f \in lost THEN [disk[f] EXCEPT !.body = Torn] ELSE disk[f]]
    /\ pc' = [p \in Procs |-> "off"] /\ run' = [p \in Procs |-> NoRun]
    /\ verb' = {}
    /\ UNCHANGED <<world, tmps, marker>>

Lookup(p) == StatEntry(p) \/ RemoveEntry(p) \/ ReadMissing(p) \/ ReadTorn(p)
               \/ HitInput(p) \/ HitContent(p)

Store(p) == SkipSweep(p) \/ BeginSweep(p) \/ SweepOne(p) \/ EndSweep(p)
              \/ CreateTmp(p) \/ Publish(p) \/ PublishSwept(p) \/ WriteFails(p)

Pair(p) == \/ \E s \in Shapes, c \in Commits :
                BeginPair(p, s, c) \/ BeginUncached(p, s, c)
           \/ Evaluate(p) \/ EvaluateUncached(p) \/ FinishPair(p)

Session(p) == LoadConfig(p) \/ OpenSession(p) \/ OpenDisabledSession(p)
                \/ Exit(p) \/ Die(p)

CacheVerbs == \/ \E c \in Commits : EvictCommit(c)
              \/ \E F \in SUBSET DOMAIN disk : EvictKeys(F)
              \/ \E days \in {0, TTL} : Prune(days)
              \/ Clear \/ RemoveScanned \/ VerbFails

Next == \/ \E p \in Procs : Session(p) \/ Pair(p) \/ Lookup(p) \/ Store(p)
        \/ CacheVerbs
        \/ EditConfig \/ RegenerateSnapshot \/ Tick \/ PowerLoss

Spec == Init /\ [][Next]_vars

-----------------------------------------------------------------------------
(* Properties.                                                             *)

\* The verdict a file name stands for: what any process would compute from
\* the inputs the hashed key names.
Denotes(f) ==
    IF f.level = "by-input"
    THEN FreshVerdict(f.shape, f.commit, f.cfg, f.snap)
    ELSE [shape |-> f.shape, patch |-> f.patch,
          env |-> CASE f.macros.kind = "unused"   -> None
                    [] f.macros.kind = "resolved" -> f.macros.of
                    [] f.macros.kind = "opaque"   -> EnvOf[f.macros.of],
          cfg |-> f.cfg, snap |-> f.snap]

\* Whoever wrote it, whichever level it is on, and whether it was evaluated
\* or aliased: an entry holds the verdict its name stands for ("half-keyed is
\* the only forbidden state", verdict_cache.rs).
EntriesDenoteTheirKey ==
    \A f \in DOMAIN disk :
        disk[f].body # Torn => disk[f].body.verdict = Denotes(f)

\* A pair is answered with the verdict the uncached pipeline would compute
\* from today's inputs, through either level, an alias, or an evaluation.
AnswersAreFresh ==
    \A p \in Procs : pc[p] = "done" =>
        run[p].eval.verdict
          = FreshVerdict(run[p].shape, run[p].commit, config, snap)

\* A cached pair renders exactly as a fresh run of the same commit would,
\* commit-specific diagnostics included (README.md, The Verdict Cache).
HitsRenderAsFreshRuns ==
    \A p \in Procs : pc[p] = "done" =>
        run[p].eval.facts = FreshFacts(run[p].shape, run[p].commit)

\* An alias restarts the clock of the evaluation it copies, and only once: no
\* answer is older than two lifetimes plus the time three runs may hold it.
AnswersExpire ==
    [][TTL > 0 => \A p \in Procs :
         pc[p] # "done" /\ pc'[p] = "done" =>
           clock - run'[p].eval.made <= 2 * TTL + 3 * MaxHold]_vars

\* A process that dies at any point, in the middle of a write included, leaves
\* no torn entry behind; only an outage of the machine can (write_atomic).
CrashesTearNothing ==
    spent["outages"] = 0 => \A f \in DOMAIN disk : disk[f].body # Torn

\* The cache is invisible: with it, every process still gives the answer the
\* oracle gives (README.md: "Any input change is a miss").
Asked(p) == pc[p] \notin {"off", "parsed", "ready"}

Oracle == INSTANCE VerdictOracle WITH
    AnswerTo <- [r \in Requests |-> FreshVerdict(r.shape, r.commit, r.cfg, r.snap)],
    request  <- [p \in Procs |->
                   IF Asked(p)
                   THEN [shape |-> run[p].shape, commit |-> run[p].commit,
                         cfg |-> config, snap |-> snap]
                   ELSE None],
    reply    <- [p \in Procs |->
                   IF pc[p] = "done" THEN run[p].eval.verdict ELSE None]

CacheIsTransparent == Oracle!Spec

=============================================================================
