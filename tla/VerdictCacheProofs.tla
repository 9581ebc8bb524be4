------------------------- MODULE VerdictCacheProofs -------------------------
(***************************************************************************)
(* Theorems about the verdict cache, for any processes, commits, keys and  *)
(* bounds.  TypeInv adds to TypeOK what a process is sure to hold at each  *)
(* program counter; SoundInv adds to that how its locals relate to the     *)
(* configuration, the snapshots and the entries on disk.                   *)
(***************************************************************************)
EXTENDS VerdictCache, TLAPS

Idle == {"off", "parsed", "ready"}

Keyed == {"stat", "remove", "read", "evaluate", "write", "sweep", "publish"}

Holding == {"write", "sweep", "publish", "done"}

\* What a process at program counter a, with locals r, is sure to hold.
LocatedAt(a, r) ==
    /\ a # "off" => r.cfg \in Configs
    /\ a \notin Idle => r.shape \in Shapes /\ r.commit \in Commits
    /\ a \in Keyed => /\ r.keyCfg \in Configs /\ r.keySnap \in Snaps
                      /\ r.level \in {"by-input", "by-content"}
    /\ a \in Holding => r.eval \in Evaluations

Located == \A p \in Procs : LocatedAt(pc[p], run[p])

DiskOK ==
    /\ DOMAIN disk \subseteq Files
    /\ \A f \in DOMAIN disk : disk[f] \in Entries
    /\ tmps \subseteq Tmps
    /\ marker \in Nat \cup {None}

TypeInv == TypeOK /\ Located

-----------------------------------------------------------------------------
(* Lemmas on keys and evaluations.                                         *)

\* A macro key is always of one of its three kinds (MacroEnv).
LEMMA MacroKeyType ==
    ASSUME NEW s \in Shapes, NEW c \in Commits
    PROVE  MacroKey(s, c) \in MacroKeys
  BY CommitAssumption DEF MacroKey, MacroKeys

\* Both levels' keys name files of the cache (InputKey, ContentKey).
LEMMA KeyType ==
    ASSUME NEW s \in Shapes, NEW c \in Commits,
           NEW g \in Configs, NEW n \in Snaps
    PROVE  /\ InputKey(s, c, g, n) \in InputFiles
           /\ ContentKey(s, c, g, n) \in ContentFiles
  BY MacroKeyType, CommitAssumption
     DEF InputKey, ContentKey, InputFiles, ContentFiles

\* A verdict computed from typed inputs is a verdict.
LEMMA FreshType ==
    ASSUME NEW s \in Shapes, NEW c \in Commits,
           NEW g \in Configs, NEW n \in Snaps
    PROVE  /\ FreshVerdict(s, c, g, n) \in Verdicts
           /\ FreshFacts(s, c) \in Commits \cup {None}
  BY CommitAssumption DEF FreshVerdict, FreshFacts, Verdicts, EnvRead

\* The file a keyed process works on is a file of the cache.
LEMMA CurFileType ==
    ASSUME TypeInv, NEW p \in Procs, pc[p] \in Keyed
    PROVE  CurFile(p) \in Files
  <1>1. /\ run[p].shape \in Shapes /\ run[p].commit \in Commits
        /\ run[p].keyCfg \in Configs /\ run[p].keySnap \in Snaps
    BY DEF TypeInv, Located, LocatedAt, Keyed, Idle
  <1> QED
    BY <1>1, KeyType DEF CurFile, Files

\* What an evaluation produces is well typed, and keeps the rest of the run.
LEMMA EvaluatedType ==
    ASSUME TypeInv, NEW p \in Procs, pc[p] \notin Idle
    PROVE  \E n \in Snaps, e \in Evaluations :
             /\ n = IF run[p].memo = None THEN snap ELSE run[p].memo
             /\ e.verdict = FreshVerdict(run[p].shape, run[p].commit, run[p].cfg, n)
             /\ Evaluated(p) = [run[p] EXCEPT !.memo = n, !.eval = e]
  <1> DEFINE n == IF run[p].memo = None THEN snap ELSE run[p].memo
             v == FreshVerdict(run[p].shape, run[p].commit, run[p].cfg, n)
             m == FreshFacts(run[p].shape, run[p].commit)
             e == [verdict |-> v, facts |-> m, made |-> clock]
  <1>1. run[p] \in Runs /\ clock \in Nat /\ snap \in Snaps
    BY DEF TypeInv, TypeOK
  <1>2. n \in Snaps
    BY <1>1 DEF Runs
  <1>3. /\ run[p].cfg \in Configs /\ run[p].shape \in Shapes
        /\ run[p].commit \in Commits
    BY DEF TypeInv, Located, LocatedAt, Idle
  <1>4. v \in Verdicts /\ m \in Commits \cup {None}
    BY <1>2, <1>3, FreshType
  <1>5. e \in Evaluations /\ e.verdict = v
    BY <1>1, <1>4 DEF Evaluations
  <1>6. Evaluated(p) = [run[p] EXCEPT !.memo = n, !.eval = e]
    BY Zenon DEF Evaluated
  <1> HIDE DEF n, e
  <1> QED  BY <1>2, <1>5, <1>6 DEF n

-----------------------------------------------------------------------------
(* Lemmas on steps.                                                        *)

\* A step of one process to program counter a and locals r keeps the locals
\* typed and located when a and r are.
LEMMA OneMoves ==
    ASSUME TypeInv, NEW p \in Procs, NEW a \in PCs, NEW r \in Runs,
           LocatedAt(a, r),
           pc' = [pc EXCEPT ![p] = a], run' = [run EXCEPT ![p] = r]
    PROVE  pc' \in [Procs -> PCs] /\ run' \in [Procs -> Runs] /\ Located'
  BY DEF TypeInv, TypeOK, Located

\* Renaming a file over a typed entry keeps the cache directory typed.
LEMMA PublishedType ==
    ASSUME TypeInv, NEW f \in Files, NEW e \in Entries,
           disk' = Published(f, e)
    PROVE  DOMAIN disk' \subseteq Files /\ \A g \in DOMAIN disk' : disk'[g] \in Entries
  BY DEF TypeInv, TypeOK, Published

\* Deleting names keeps the cache directory typed.
LEMMA WithoutType ==
    ASSUME TypeInv, NEW F, disk' = Without(F)
    PROVE  DOMAIN disk' \subseteq Files /\ \A g \in DOMAIN disk' : disk'[g] \in Entries
  BY DEF TypeInv, TypeOK, Without

\* Spending keeps the bounds counted.
LEMMA SpendType ==
    ASSUME TypeInv, NEW event \in Events, Spend(event)
    PROVE  spent' \in [Events -> Nat]
  BY DEF TypeInv, TypeOK, Spend

\* A process that leaves holds nothing.
LEMMA NoRunType == NoRun \in Runs /\ LocatedAt("off", NoRun)
  BY DEF NoRun, Runs, LocatedAt, Idle, Keyed, Holding

\* The next level, and its file, of a keyed process on a miss or after a write.
LEMMA MissType ==
    ASSUME TypeInv, NEW p \in Procs, pc[p] \in {"remove", "read"}, MissStep(p)
    PROVE  pc' \in [Procs -> PCs] /\ run' \in [Procs -> Runs] /\ Located'
  <1>1. run[p] \in Runs /\ LocatedAt(pc[p], run[p])
    BY DEF TypeInv, TypeOK, Located
  <1>2. CASE run[p].level = "by-input"
    <2> DEFINE r == [run[p] EXCEPT !.level = "by-content"]
    <2>1. r \in Runs /\ LocatedAt("stat", r)
      BY <1>1 DEF Runs, LocatedAt, Idle, Keyed, Holding
    <2>2. pc' = [pc EXCEPT ![p] = "stat"] /\ run' = [run EXCEPT ![p] = r]
      BY <1>2, Zenon DEF MissStep
    <2> HIDE DEF r
    <2> QED  BY <2>1, <2>2, OneMoves DEF PCs
  <1>3. CASE run[p].level # "by-input"
    <2>1. LocatedAt("evaluate", run[p])
      BY <1>1 DEF LocatedAt, Idle, Keyed, Holding
    <2>2. pc' = [pc EXCEPT ![p] = "evaluate"] /\ run' = [run EXCEPT ![p] = run[p]]
      BY <1>3 DEF MissStep, TypeInv, TypeOK
    <2> QED  BY <1>1, <2>1, <2>2, OneMoves DEF PCs
  <1> QED  BY <1>2, <1>3

LEMMA WrittenType ==
    ASSUME TypeInv, NEW p \in Procs, pc[p] = "publish", WrittenStep(p)
    PROVE  pc' \in [Procs -> PCs] /\ run' \in [Procs -> Runs] /\ Located'
  <1>1. run[p] \in Runs /\ LocatedAt(pc[p], run[p])
    BY DEF TypeInv, TypeOK, Located
  <1>2. CASE run[p].level = "by-content"
    <2> DEFINE r == [run[p] EXCEPT !.level = "by-input"]
    <2>1. r \in Runs /\ LocatedAt("write", r)
      BY <1>1 DEF Runs, LocatedAt, Idle, Keyed, Holding
    <2>2. pc' = [pc EXCEPT ![p] = "write"] /\ run' = [run EXCEPT ![p] = r]
      BY <1>2, Zenon DEF WrittenStep
    <2> HIDE DEF r
    <2> QED  BY <2>1, <2>2, OneMoves DEF PCs
  <1>3. CASE run[p].level # "by-content"
    <2>1. LocatedAt("done", run[p])
      BY <1>1 DEF LocatedAt, Idle, Keyed, Holding
    <2>2. pc' = [pc EXCEPT ![p] = "done"] /\ run' = [run EXCEPT ![p] = run[p]]
      BY <1>3 DEF WrittenStep, TypeInv, TypeOK
    <2> QED  BY <1>1, <2>1, <2>2, OneMoves DEF PCs
  <1> QED  BY <1>2, <1>3

-----------------------------------------------------------------------------
(* Type correctness.                                                       *)

\* Every session action (opening, closing, dying) keeps TypeInv.
LEMMA SessionType ==
    ASSUME TypeInv, NEW p \in Procs, Session(p)
    PROVE  TypeInv'
  <1>1. run[p] \in Runs /\ LocatedAt(pc[p], run[p]) /\ config \in Configs
    BY DEF TypeInv, TypeOK, Located
  <1>2. CASE LoadConfig(p)
    <2> DEFINE r == [NoRun EXCEPT !.cfg = config]
    <2>1. r \in Runs /\ LocatedAt("parsed", r)
      BY <1>1 DEF NoRun, Runs, LocatedAt, Idle, Keyed, Holding
    <2> HIDE DEF r
    <2>2. pc' \in [Procs -> PCs] /\ run' \in [Procs -> Runs] /\ Located'
      BY <1>2, <2>1, OneMoves DEF LoadConfig, PCs, r
    <2> QED  BY <1>2, <2>2 DEF LoadConfig, TypeInv, TypeOK, world, disks
  <1>3. CASE OpenSession(p)
    <2> DEFINE r == [run[p] EXCEPT !.keyCfg = config]
    <2>1. r \in Runs /\ LocatedAt("ready", r)
      BY <1>1, <1>3 DEF Runs, LocatedAt, Idle, Keyed, Holding, OpenSession
    <2>2. pc' = [pc EXCEPT ![p] = "ready"] /\ run' = [run EXCEPT ![p] = r]
      BY <1>3, Zenon DEF OpenSession
    <2> HIDE DEF r
    <2>3. pc' \in [Procs -> PCs] /\ run' \in [Procs -> Runs] /\ Located'
      BY <2>1, <2>2, OneMoves DEF PCs
    <2> QED  BY <1>3, <2>3 DEF OpenSession, TypeInv, TypeOK, world, disks
  <1>4. CASE OpenDisabledSession(p)
    <2>1. LocatedAt("ready", run[p])
      BY <1>1, <1>4 DEF LocatedAt, Idle, Keyed, Holding, OpenDisabledSession
    <2>2. pc' = [pc EXCEPT ![p] = "ready"] /\ run' = [run EXCEPT ![p] = run[p]]
      BY <1>4 DEF OpenDisabledSession, TypeInv, TypeOK
    <2>3. pc' \in [Procs -> PCs] /\ run' \in [Procs -> Runs] /\ Located'
      BY <1>1, <2>1, <2>2, OneMoves DEF PCs
    <2> QED
      BY <1>4, <2>3 DEF OpenDisabledSession, TypeInv, TypeOK, world, disks
  <1>5. CASE Exit(p)
    <2>1. pc' \in [Procs -> PCs] /\ run' \in [Procs -> Runs] /\ Located'
      BY <1>5, NoRunType, OneMoves DEF PCs, Exit
    <2> QED  BY <1>5, <2>1 DEF Exit, TypeInv, TypeOK, world, disks
  <1>6. CASE Die(p)
    <2>1. pc' \in [Procs -> PCs] /\ run' \in [Procs -> Runs] /\ Located'
      BY <1>6, NoRunType, OneMoves DEF PCs, Die
    <2>2. spent' \in [Events -> Nat]
      BY <1>6, SpendType DEF Die, Events
    <2> QED  BY <1>6, <2>1, <2>2 DEF Die, TypeInv, TypeOK, world, disks
  <1> QED  BY <1>2, <1>3, <1>4, <1>5, <1>6 DEF Session

\* Taking up, evaluating and finishing a pair keeps TypeInv.
LEMMA PairType ==
    ASSUME TypeInv, NEW p \in Procs, Pair(p)
    PROVE  TypeInv'
  <1>1. /\ run[p] \in Runs /\ LocatedAt(pc[p], run[p]) /\ snap \in Snaps
        /\ clock \in Nat
    BY DEF TypeInv, TypeOK, Located
  <1>2. ASSUME NEW s \in Shapes, NEW c \in Commits, BeginPair(p, s, c)
        PROVE  TypeInv'
    <2> DEFINE k == IF run[p].keySnap = None THEN snap ELSE run[p].keySnap
               r == [run[p] EXCEPT !.shape = s, !.commit = c, !.level = "by-input",
                                   !.keySnap = k, !.started = clock]
    <2>1. k \in Snaps /\ run[p].keyCfg \in Configs /\ run[p].cfg \in Configs
      BY <1>1, <1>2 DEF Runs, BeginPair, LocatedAt
    <2>2. pc' = [pc EXCEPT ![p] = "stat"] /\ run' = [run EXCEPT ![p] = r]
      BY <1>2, Zenon DEF BeginPair
    <2> HIDE DEF k
    <2>3. r \in Runs /\ LocatedAt("stat", r)
      BY <1>1, <2>1 DEF Runs, LocatedAt, Idle, Keyed, Holding
    <2> HIDE DEF r
    <2>4. pc' \in [Procs -> PCs] /\ run' \in [Procs -> Runs] /\ Located'
      BY <2>2, <2>3, OneMoves DEF PCs
    <2>5. spent' \in [Events -> Nat]
      BY <1>2, SpendType DEF BeginPair, Events
    <2> QED  BY <1>2, <2>4, <2>5 DEF BeginPair, TypeInv, TypeOK, world, disks
  <1>3. ASSUME NEW s \in Shapes, NEW c \in Commits, BeginUncached(p, s, c)
        PROVE  TypeInv'
    <2> DEFINE r == [run[p] EXCEPT !.shape = s, !.commit = c, !.started = clock]
    <2>1. run[p].cfg \in Configs
      BY <1>1, <1>3 DEF BeginUncached, LocatedAt
    <2>2. pc' = [pc EXCEPT ![p] = "uncached"] /\ run' = [run EXCEPT ![p] = r]
      BY <1>3, Zenon DEF BeginUncached
    <2>3. r \in Runs /\ LocatedAt("uncached", r)
      BY <1>1, <2>1 DEF Runs, LocatedAt, Idle, Keyed, Holding
    <2> HIDE DEF r
    <2>4. pc' \in [Procs -> PCs] /\ run' \in [Procs -> Runs] /\ Located'
      BY <2>2, <2>3, OneMoves DEF PCs
    <2>5. spent' \in [Events -> Nat]
      BY <1>3, SpendType DEF BeginUncached, Events
    <2> QED  BY <1>3, <2>4, <2>5 DEF BeginUncached, TypeInv, TypeOK, world, disks
  <1>4. ASSUME NEW a \in {"write", "done"}, pc[p] \in {"evaluate", "uncached"},
               a = "write" => pc[p] = "evaluate",
               pc' = [pc EXCEPT ![p] = a],
               run' = [run EXCEPT ![p] = Evaluated(p)]
        PROVE  pc' \in [Procs -> PCs] /\ run' \in [Procs -> Runs] /\ Located'
    <2>1. PICK n \in Snaps, e \in Evaluations :
              Evaluated(p) = [run[p] EXCEPT !.memo = n, !.eval = e]
      BY <1>4, EvaluatedType DEF Idle
    <2>2. Evaluated(p) \in Runs /\ LocatedAt(a, Evaluated(p))
      BY <1>1, <1>4, <2>1 DEF Runs, LocatedAt, Idle, Keyed, Holding
    <2> QED  BY <1>4, <2>2, OneMoves DEF PCs
  <1>5. CASE Evaluate(p)
    BY <1>4, <1>5 DEF Evaluate, TypeInv, TypeOK, world, disks
  <1>6. CASE EvaluateUncached(p)
    BY <1>4, <1>6 DEF EvaluateUncached, TypeInv, TypeOK, world, disks
  <1>7. CASE FinishPair(p)
    <2> DEFINE r == [run[p] EXCEPT !.shape = None, !.commit = None, !.level = None,
                                   !.eval = None, !.started = 0]
    <2>1. run[p].cfg \in Configs
      BY <1>1, <1>7 DEF FinishPair, LocatedAt
    <2>2. pc' = [pc EXCEPT ![p] = "ready"] /\ run' = [run EXCEPT ![p] = r]
      BY <1>7, Zenon DEF FinishPair
    <2>3. r \in Runs /\ LocatedAt("ready", r)
      BY <1>1, <2>1 DEF Runs, LocatedAt, Idle, Keyed, Holding
    <2> HIDE DEF r
    <2>4. pc' \in [Procs -> PCs] /\ run' \in [Procs -> Runs] /\ Located'
      BY <2>2, <2>3, OneMoves DEF PCs
    <2> QED  BY <1>7, <2>4 DEF FinishPair, TypeInv, TypeOK, world, disks
  <1> QED  BY <1>2, <1>3, <1>5, <1>6, <1>7 DEF Pair

\* Reading either level, whatever the file holds, keeps TypeInv.
LEMMA LookupType ==
    ASSUME TypeInv, NEW p \in Procs, Lookup(p)
    PROVE  TypeInv'
  <1>1. run[p] \in Runs /\ LocatedAt(pc[p], run[p])
    BY DEF TypeInv, TypeOK, Located
  <1>2. ASSUME NEW a \in {"remove", "read"}, pc[p] \in {"stat", "read"},
               pc' = [pc EXCEPT ![p] = a], UNCHANGED run
        PROVE  pc' \in [Procs -> PCs] /\ run' \in [Procs -> Runs] /\ Located'
    <2>1. LocatedAt(a, run[p])
      BY <1>1, <1>2 DEF LocatedAt, Idle, Keyed, Holding
    <2>2. run' = [run EXCEPT ![p] = run[p]]
      BY <1>2 DEF TypeInv, TypeOK
    <2>3. run[p] \in Runs /\ a \in PCs /\ pc' = [pc EXCEPT ![p] = a]
      BY <1>1, <1>2 DEF PCs
    <2> QED  BY <2>1, <2>2, <2>3, OneMoves
  <1>3. CASE StatEntry(p)
    <2>1. pc' \in [Procs -> PCs] /\ run' \in [Procs -> Runs] /\ Located'
      BY <1>2, <1>3 DEF StatEntry
    <2> QED  BY <1>3, <2>1 DEF StatEntry, TypeInv, TypeOK, world, disks
  <1>4. CASE RemoveEntry(p)
    <2>1. pc' \in [Procs -> PCs] /\ run' \in [Procs -> Runs] /\ Located'
      BY <1>4, MissType DEF RemoveEntry
    <2>2. DOMAIN disk' \subseteq Files /\ \A g \in DOMAIN disk' : disk'[g] \in Entries
      BY <1>4, WithoutType DEF RemoveEntry
    <2> QED  BY <1>4, <2>1, <2>2 DEF RemoveEntry, TypeInv, TypeOK, world
  <1>5. CASE ReadMissing(p)
    <2>1. pc' \in [Procs -> PCs] /\ run' \in [Procs -> Runs] /\ Located'
      BY <1>5, MissType DEF ReadMissing
    <2> QED  BY <1>5, <2>1 DEF ReadMissing, TypeInv, TypeOK, world, disks
  <1>6. CASE ReadTorn(p)
    <2>1. pc' \in [Procs -> PCs] /\ run' \in [Procs -> Runs] /\ Located'
      BY <1>2, <1>6 DEF ReadTorn
    <2> QED  BY <1>6, <2>1 DEF ReadTorn, TypeInv, TypeOK, world, disks
  <1>7. ASSUME CurFile(p) \in DOMAIN disk, disk[CurFile(p)].body # Torn
        PROVE  disk[CurFile(p)].body \in Evaluations
    BY <1>7 DEF TypeInv, TypeOK, Entries
  <1>8. CASE HitInput(p)
    <2> DEFINE e == disk[CurFile(p)].body
               r == [run[p] EXCEPT !.eval = e]
    <2>1. e \in Evaluations
      BY <1>7, <1>8 DEF HitInput
    <2>2. pc' = [pc EXCEPT ![p] = "done"] /\ run' = [run EXCEPT ![p] = r]
      BY <1>8, Zenon DEF HitInput
    <2>3. pc[p] = "read"
      BY <1>8 DEF HitInput
    <2> HIDE DEF e
    <2>4. r \in Runs /\ LocatedAt("done", r)
      BY <1>1, <2>1, <2>3 DEF Runs, LocatedAt, Idle, Keyed, Holding
    <2> HIDE DEF r
    <2>5. pc' \in [Procs -> PCs] /\ run' \in [Procs -> Runs] /\ Located'
      BY <2>2, <2>4, OneMoves DEF PCs
    <2> QED  BY <1>8, <2>5 DEF HitInput, TypeInv, TypeOK, world, disks
  <1>9. CASE HitContent(p)
    <2> DEFINE e == disk[CurFile(p)].body
               r == [run[p] EXCEPT !.eval = e, !.level = "by-input"]
    <2>1. e \in Evaluations
      BY <1>7, <1>9 DEF HitContent
    <2>2. pc' = [pc EXCEPT ![p] = "write"] /\ run' = [run EXCEPT ![p] = r]
      BY <1>9, Zenon DEF HitContent
    <2>3. pc[p] = "read"
      BY <1>9 DEF HitContent
    <2> HIDE DEF e
    <2>4. r \in Runs /\ LocatedAt("write", r)
      BY <1>1, <2>1, <2>3 DEF Runs, LocatedAt, Idle, Keyed, Holding
    <2> HIDE DEF r
    <2>5. pc' \in [Procs -> PCs] /\ run' \in [Procs -> Runs] /\ Located'
      BY <2>2, <2>4, OneMoves DEF PCs
    <2> QED  BY <1>9, <2>5 DEF HitContent, TypeInv, TypeOK, world, disks
  <1> QED
    BY <1>3, <1>4, <1>5, <1>6, <1>8, <1>9 DEF Lookup

\* Sweeping, writing temp files and renaming them keeps TypeInv.
LEMMA StoreType ==
    ASSUME TypeInv, NEW p \in Procs, Store(p)
    PROVE  TypeInv'
  <1>1. /\ run[p] \in Runs /\ LocatedAt(pc[p], run[p]) /\ clock \in Nat
        /\ tmps \subseteq Tmps
    BY DEF TypeInv, TypeOK, Located
  <1>2. CASE SkipSweep(p)
    <2> DEFINE r == [run[p] EXCEPT !.swept = TRUE]
    <2>1. r \in Runs /\ LocatedAt("write", r)
      BY <1>1, <1>2 DEF SkipSweep, Runs, LocatedAt, Idle, Keyed, Holding
    <2>2. run' = [run EXCEPT ![p] = r]
      BY <1>2, Zenon DEF SkipSweep
    <2> HIDE DEF r
    <2>3. pc' = [pc EXCEPT ![p] = "write"]
      BY <1>2 DEF SkipSweep, TypeInv, TypeOK
    <2>4. pc' \in [Procs -> PCs] /\ run' \in [Procs -> Runs] /\ Located'
      BY <2>1, <2>2, <2>3, OneMoves DEF PCs
    <2> QED  BY <1>2, <2>4 DEF SkipSweep, TypeInv, TypeOK, world, disks
  <1>3. CASE BeginSweep(p)
    <2> DEFINE V == {f \in DOMAIN disk : Expired(f)} \cup OrphanTmps
               r == [run[p] EXCEPT !.swept = TRUE, !.victims = V]
    <2>1. V \in SUBSET (Files \cup Tmps)
      BY DEF TypeInv, TypeOK, OrphanTmps
    <2>2. pc' = [pc EXCEPT ![p] = "sweep"] /\ run' = [run EXCEPT ![p] = r]
      BY <1>3, Zenon DEF BeginSweep
    <2>3. pc[p] = "write"
      BY <1>3 DEF BeginSweep
    <2> HIDE DEF V
    <2>4. r \in Runs /\ LocatedAt("sweep", r)
      BY <1>1, <2>1, <2>3 DEF Runs, LocatedAt, Idle, Keyed, Holding
    <2> HIDE DEF r
    <2>5. pc' \in [Procs -> PCs] /\ run' \in [Procs -> Runs] /\ Located'
      BY <2>2, <2>4, OneMoves DEF PCs
    <2> QED  BY <1>3, <2>5 DEF BeginSweep, TypeInv, TypeOK, world, disks
  <1>4. CASE SweepOne(p)
    <2>1. PICK v \in run[p].victims :
            /\ disk' = Without({v}) /\ tmps' = tmps \ {v}
            /\ run' = [run EXCEPT ![p].victims = @ \ {v}]
      BY <1>4 DEF SweepOne
    <2> DEFINE W == run[p].victims \ {v}
               r == [run[p] EXCEPT !.victims = W]
    <2>2. W \in SUBSET (Files \cup Tmps)
      BY <1>1 DEF Runs
    <2>3. run' = [run EXCEPT ![p] = r]
      BY <2>1, Zenon
    <2> HIDE DEF W
    <2>4. r \in Runs /\ LocatedAt("sweep", r)
      BY <1>1, <1>4, <2>2 DEF SweepOne, Runs, LocatedAt, Idle, Keyed, Holding
    <2> HIDE DEF r
    <2>5. pc' = [pc EXCEPT ![p] = "sweep"]
      BY <1>4 DEF SweepOne, TypeInv, TypeOK
    <2>6. pc' \in [Procs -> PCs] /\ run' \in [Procs -> Runs] /\ Located'
      BY <2>3, <2>4, <2>5, OneMoves DEF PCs
    <2>7. DOMAIN disk' \subseteq Files /\ \A g \in DOMAIN disk' : disk'[g] \in Entries
      BY <2>1, WithoutType
    <2> QED
      BY <1>4, <2>1, <2>6, <2>7 DEF SweepOne, TypeInv, TypeOK, world
  <1>5. ASSUME NEW a \in {"write", "publish"}, pc[p] \in {"write", "sweep"},
               pc' = [pc EXCEPT ![p] = a], UNCHANGED run
        PROVE  pc' \in [Procs -> PCs] /\ run' \in [Procs -> Runs] /\ Located'
    <2>1. LocatedAt(a, run[p])
      BY <1>1, <1>5 DEF LocatedAt, Idle, Keyed, Holding
    <2>2. run' = [run EXCEPT ![p] = run[p]]
      BY <1>5 DEF TypeInv, TypeOK
    <2>3. run[p] \in Runs /\ a \in PCs /\ pc' = [pc EXCEPT ![p] = a]
      BY <1>1, <1>5 DEF PCs
    <2> QED  BY <2>1, <2>2, <2>3, OneMoves
  <1>6. CASE EndSweep(p)
    <2>1. pc' \in [Procs -> PCs] /\ run' \in [Procs -> Runs] /\ Located'
      BY <1>5, <1>6 DEF EndSweep
    <2> QED  BY <1>6, <2>1 DEF EndSweep, TypeInv, TypeOK, world
  <1>7. CASE CreateTmp(p)
    <2>1. pc' \in [Procs -> PCs] /\ run' \in [Procs -> Runs] /\ Located'
      BY <1>5, <1>7 DEF CreateTmp
    <2>2. CurFile(p) \in Files
      BY <1>7, CurFileType DEF CreateTmp, Keyed
    <2>3. [pid |-> p, file |-> CurFile(p), mtime |-> clock] \in Tmps
      BY <1>1, <2>2 DEF Tmps
    <2>4. tmps' \subseteq Tmps
      BY <1>1, <1>7, <2>3 DEF CreateTmp
    <2> QED  BY <1>7, <2>1, <2>4 DEF CreateTmp, TypeInv, TypeOK, world
  <1>8. CASE Publish(p)
    <2>1. pc' \in [Procs -> PCs] /\ run' \in [Procs -> Runs] /\ Located'
      BY <1>8, WrittenType DEF Publish
    <2>2. CurFile(p) \in Files /\ run[p].eval \in Evaluations
      BY <1>1, <1>8, CurFileType DEF Publish, Keyed, LocatedAt, Holding
    <2>3. [body |-> run[p].eval, mtime |-> clock] \in Entries
      BY <1>1, <2>2 DEF Entries
    <2>4. DOMAIN disk' \subseteq Files /\ \A g \in DOMAIN disk' : disk'[g] \in Entries
      BY <1>8, <2>2, <2>3, PublishedType DEF Publish
    <2> QED  BY <1>1, <1>8, <2>1, <2>4 DEF Publish, TypeInv, TypeOK, world
  <1>9. CASE PublishSwept(p)
    <2>1. pc' \in [Procs -> PCs] /\ run' \in [Procs -> Runs] /\ Located'
      BY <1>9, WrittenType DEF PublishSwept
    <2> QED  BY <1>9, <2>1 DEF PublishSwept, TypeInv, TypeOK, world, disks
  <1>10. CASE WriteFails(p)
    <2>1. pc' \in [Procs -> PCs] /\ run' \in [Procs -> Runs] /\ Located'
      BY <1>10, WrittenType DEF WriteFails
    <2>2. spent' \in [Events -> Nat]
      BY <1>10, SpendType DEF WriteFails, Events
    <2>3. tmps' \subseteq tmps
      BY <1>10 DEF WriteFails
    <2> QED  BY <1>1, <1>10, <2>1, <2>2, <2>3 DEF WriteFails, TypeInv, TypeOK, world
  <1> QED
    BY <1>2, <1>3, <1>4, <1>6, <1>7, <1>8, <1>9, <1>10 DEF Store

\* The `cache` verbs, which scan and then delete by name, keep TypeInv.
LEMMA VerbsType ==
    ASSUME TypeInv, CacheVerbs
    PROVE  TypeInv'
  <1>1. ASSUME NEW V \in SUBSET (Files \cup Tmps), ScanFor(V)
        PROVE  TypeInv'
    <2>1. spent' \in [Events -> Nat]
      BY <1>1, SpendType DEF ScanFor, Events
    <2> QED
      BY <1>1, <2>1 DEF ScanFor, TypeInv, TypeOK, Located, world, disks
  <1>2. Scanned \in SUBSET (Files \cup Tmps) /\ OrphanTmps \in SUBSET (Files \cup Tmps)
    BY DEF TypeInv, TypeOK, Scanned, OrphanTmps
  <1>3. ASSUME NEW c \in Commits, EvictCommit(c) PROVE TypeInv'
    BY <1>1, <1>2, <1>3 DEF EvictCommit
  <1>4. ASSUME NEW F, EvictKeys(F) PROVE TypeInv'
    BY <1>1, <1>2, <1>4 DEF EvictKeys
  <1>5. ASSUME NEW days \in {0, TTL}, Prune(days) PROVE TypeInv'
    BY <1>1, <1>2, <1>5 DEF Prune
  <1>6. CASE Clear
    BY <1>1, <1>2, <1>6 DEF Clear
  <1>7. CASE RemoveScanned
    <2>1. PICK v \in verb :
            disk' = Without({v}) /\ tmps' = tmps \ {v} /\ verb' = verb \ {v}
      BY <1>7 DEF RemoveScanned
    <2>2. DOMAIN disk' \subseteq Files /\ \A g \in DOMAIN disk' : disk'[g] \in Entries
      BY <2>1, WithoutType
    <2>3. UNCHANGED <<config, snap, clock, marker, pc, run, spent>>
      BY <1>7 DEF RemoveScanned, world
    <2> QED  BY <2>1, <2>2, <2>3 DEF TypeInv, TypeOK, Located
  <1>8. CASE VerbFails
    <2>1. spent' \in [Events -> Nat]
      BY <1>8, SpendType DEF VerbFails, Events
    <2> QED
      BY <1>8, <2>1 DEF VerbFails, TypeInv, TypeOK, Located, world, disks
  <1> QED  BY <1>3, <1>4, <1>5, <1>6, <1>7, <1>8 DEF CacheVerbs

\* Edits, days passing and outages keep TypeInv.
LEMMA EnvironmentType ==
    ASSUME TypeInv, EditConfig \/ RegenerateSnapshot \/ Tick \/ PowerLoss
    PROVE  TypeInv'
  <1>1. CASE EditConfig
    <2>1. spent' \in [Events -> Nat] /\ config' \in Configs
      BY <1>1, SpendType DEF EditConfig, Events
    <2> QED  BY <1>1, <2>1 DEF EditConfig, TypeInv, TypeOK, Located, disks
  <1>2. CASE RegenerateSnapshot
    <2>1. spent' \in [Events -> Nat] /\ snap' \in Snaps
      BY <1>2, SpendType DEF RegenerateSnapshot, Events
    <2> QED  BY <1>2, <2>1 DEF RegenerateSnapshot, TypeInv, TypeOK, Located, disks
  <1>3. CASE Tick
    <2>1. spent' \in [Events -> Nat]
      BY <1>3, SpendType DEF Tick, Events
    <2> QED  BY <1>3, <2>1 DEF Tick, TypeInv, TypeOK, Located, disks
  <1>4. CASE PowerLoss
    <2>1. spent' \in [Events -> Nat]
      BY <1>4, SpendType DEF PowerLoss, Events
    <2>2. pc' \in [Procs -> PCs] /\ run' \in [Procs -> Runs] /\ Located'
      BY <1>4, NoRunType DEF PowerLoss, PCs, Located
    <2>3. ASSUME NEW e \in Entries
          PROVE  [e EXCEPT !.body = Torn] \in Entries
      BY DEF Entries
    <2>4. PICK lost \in SUBSET {f \in DOMAIN disk : disk[f].mtime = clock} :
            disk' = [f \in DOMAIN disk |->
                       IF f \in lost THEN [disk[f] EXCEPT !.body = Torn] ELSE disk[f]]
      BY <1>4 DEF PowerLoss
    <2>5. DOMAIN disk' \subseteq Files
      BY <2>4 DEF TypeInv, TypeOK
    <2>6. \A g \in DOMAIN disk' : disk'[g] \in Entries
      BY <2>3, <2>4, Zenon DEF TypeInv, TypeOK
    <2>7. UNCHANGED <<config, snap, clock, tmps, marker>> /\ verb' = {}
      BY <1>4 DEF PowerLoss, world
    <2> QED  BY <2>1, <2>2, <2>5, <2>6, <2>7 DEF TypeInv, TypeOK
  <1> QED  BY <1>1, <1>2, <1>3, <1>4

LEMMA TypeInit == Init => TypeInv
  <1> SUFFICES ASSUME Init PROVE TypeInv
    OBVIOUS
  <1>1. DOMAIN disk = {}
    BY DEF Init
  <1>2. Located /\ run \in [Procs -> Runs] /\ pc \in [Procs -> PCs]
    BY NoRunType DEF Init, Located, PCs
  <1>3. spent \in [Events -> Nat]
    BY DEF Init
  <1> QED  BY <1>1, <1>2, <1>3 DEF Init, TypeInv, TypeOK

LEMMA TypeStep == TypeInv /\ [Next]_vars => TypeInv'
  <1> SUFFICES ASSUME TypeInv, [Next]_vars PROVE TypeInv'
    OBVIOUS
  <1>1. CASE UNCHANGED vars
    BY <1>1 DEF vars, TypeInv, TypeOK, Located
  <1>2. ASSUME NEW p \in Procs, Session(p) \/ Pair(p) \/ Lookup(p) \/ Store(p)
        PROVE  TypeInv'
    BY <1>2, SessionType, PairType, LookupType, StoreType
  <1> QED  BY <1>1, <1>2, VerbsType, EnvironmentType DEF Next

\* No interleaving of runs, verbs, sweeps and crashes brings a process or the
\* cache directory into an ill-typed state; in particular nothing unparsed is
\* ever held as an evaluation.
THEOREM TypeCorrect == Spec => []TypeOK
  <1>1. TypeInv => TypeOK
    BY DEF TypeInv
  <1> QED  BY TypeInit, TypeStep, <1>1, PTL DEF Spec

\* The strengthened type invariant itself, for the theorems below.
THEOREM TypeInvariant == Spec => []TypeInv
  BY TypeInit, TypeStep, PTL DEF Spec

-----------------------------------------------------------------------------
(* Crashes.                                                                *)

\* The only step that puts bytes under an entry's name is Publish, and it
\* puts a whole evaluation there.
LEMMA DiskSteps ==
    ASSUME TypeInv, [Next]_vars, ~PowerLoss
    PROVE  \/ UNCHANGED disk
           \/ \E F : disk' = Without(F)
           \/ \E f \in Files, e \in Entries : /\ disk' = Published(f, e)
                                              /\ e.body \in Evaluations
  <1>1. ASSUME NEW p \in Procs, Publish(p)
        PROVE  \E f \in Files, e \in Entries : /\ disk' = Published(f, e)
                                               /\ e.body \in Evaluations
    <2> DEFINE e == [body |-> run[p].eval, mtime |-> clock]
    <2>1. CurFile(p) \in Files
      BY <1>1, CurFileType DEF Publish, Keyed
    <2>2. run[p].eval \in Evaluations /\ clock \in Nat
      BY <1>1 DEF Publish, TypeInv, TypeOK, Located, LocatedAt, Holding
    <2>3. e \in Entries /\ e.body \in Evaluations
      BY <2>2 DEF Entries
    <2>4. disk' = Published(CurFile(p), e)
      BY <1>1 DEF Publish
    <2> HIDE DEF e
    <2> QED  BY <2>1, <2>3, <2>4
  <1>2. ASSUME NEW p \in Procs, Session(p) \/ Pair(p)
        PROVE  UNCHANGED disk
    BY <1>2 DEF Session, Pair, LoadConfig, OpenSession, OpenDisabledSession,
       Exit, Die, BeginPair, BeginUncached, Evaluate, EvaluateUncached,
       FinishPair, disks
  <1>3. ASSUME NEW p \in Procs, Lookup(p)
        PROVE  UNCHANGED disk \/ \E F : disk' = Without(F)
    BY <1>3 DEF Lookup, StatEntry, RemoveEntry, ReadMissing, ReadTorn, HitInput,
       HitContent, disks
  <1>4. ASSUME NEW p \in Procs, Store(p), ~Publish(p)
        PROVE  UNCHANGED disk \/ \E F : disk' = Without(F)
    BY <1>4 DEF Store, SkipSweep, BeginSweep, SweepOne, EndSweep, CreateTmp,
       PublishSwept, WriteFails, disks
  <1>5. CacheVerbs => UNCHANGED disk \/ \E F : disk' = Without(F)
    BY DEF CacheVerbs, EvictCommit, EvictKeys, Prune, Clear, RemoveScanned,
       VerbFails, ScanFor, disks
  <1>6. EditConfig \/ RegenerateSnapshot \/ Tick => UNCHANGED disk
    BY DEF EditConfig, RegenerateSnapshot, Tick, disks
  <1> QED
    BY <1>1, <1>2, <1>3, <1>4, <1>5, <1>6 DEF Next, vars

LEMMA OutageSteps ==
    ASSUME TypeInv, [Next]_vars, ~PowerLoss
    PROVE  spent'["outages"] = spent["outages"]
  <1>1. ASSUME NEW event \in Events \ {"outages"}, Spend(event)
        PROVE  spent'["outages"] = spent["outages"]
    BY <1>1 DEF Spend, TypeInv, TypeOK, Events
  <1>2. UNCHANGED spent \/ \E event \in Events \ {"outages"} : Spend(event)
    <2>1. {"days", "pairs", "edits", "failures", "verbs", "kills"}
            \subseteq Events \ {"outages"}
      BY DEF Events
    <2>2. ASSUME NEW p \in Procs, Session(p) \/ Pair(p)
          PROVE  UNCHANGED spent \/ \E event \in Events \ {"outages"} : Spend(event)
      BY <2>1, <2>2 DEF Session, Pair, LoadConfig, OpenSession,
         OpenDisabledSession, Exit, Die, BeginPair, BeginUncached, Evaluate,
         EvaluateUncached, FinishPair
    <2>3. ASSUME NEW p \in Procs, Lookup(p) \/ Store(p)
          PROVE  UNCHANGED spent \/ \E event \in Events \ {"outages"} : Spend(event)
      BY <2>1, <2>3 DEF Lookup, StatEntry, RemoveEntry, ReadMissing, ReadTorn,
         HitInput, HitContent, Store, SkipSweep, BeginSweep, SweepOne, EndSweep,
         CreateTmp, Publish, PublishSwept, WriteFails
    <2>4. CacheVerbs => UNCHANGED spent \/ \E event \in Events \ {"outages"} : Spend(event)
      BY <2>1 DEF CacheVerbs, EvictCommit, EvictKeys, Prune, Clear,
         RemoveScanned, VerbFails, ScanFor
    <2>5. EditConfig \/ RegenerateSnapshot \/ Tick
            => \E event \in Events \ {"outages"} : Spend(event)
      BY <2>1 DEF EditConfig, RegenerateSnapshot, Tick
    <2> QED  BY <2>2, <2>3, <2>4, <2>5 DEF Next, vars
  <1> QED  BY <1>1, <1>2

\* Only an outage of the machine tears an entry: no process that fails, is
\* killed, sweeps or evicts in the middle of another's write can do it.
THEOREM OnlyOutagesTear == Spec => []CrashesTearNothing
  <1>1. Init => CrashesTearNothing
    BY DEF Init, CrashesTearNothing
  <1>2. TypeInv /\ CrashesTearNothing /\ [Next]_vars => CrashesTearNothing'
    <2> SUFFICES ASSUME TypeInv, CrashesTearNothing, [Next]_vars
                 PROVE  CrashesTearNothing'
      OBVIOUS
    <2>1. CASE PowerLoss
      <3>1. spent'["outages"] # 0
        BY <2>1 DEF PowerLoss, Spend, TypeInv, TypeOK, Events
      <3> QED  BY <3>1 DEF CrashesTearNothing
    <2>2. CASE ~PowerLoss
      <3>1. spent'["outages"] = spent["outages"]
        BY <2>2, OutageSteps
      <3>2. CASE UNCHANGED disk
        BY <3>1, <3>2 DEF CrashesTearNothing
      <3>3. ASSUME NEW F, disk' = Without(F) PROVE CrashesTearNothing'
        BY <3>1, <3>3 DEF CrashesTearNothing, Without
      <3>4. ASSUME NEW f \in Files, NEW e \in Entries,
                   disk' = Published(f, e), e.body \in Evaluations
            PROVE  CrashesTearNothing'
        <4>1. e.body # Torn
          BY <3>4, NoneAssumption
        <4> QED  BY <3>1, <3>4, <4>1 DEF CrashesTearNothing, Published
      <3> QED  BY <2>2, <3>2, <3>3, <3>4, DiskSteps
    <2> QED  BY <2>1, <2>2
  <1> QED  BY <1>1, <1>2, TypeInvariant, PTL DEF Spec
-----------------------------------------------------------------------------
(* Ages.  AnswersExpire speaks of a step into "done"; what makes it true   *)
(* is spread over the days before: how old what the two levels hold may be *)
(* when it is written, and how long a run takes between two of its steps.  *)

\* How old an evaluation may be when an entry of this level is renamed into
\* place, and when the run that holds it for this level began.
StoredAge(level) == IF level = "by-content" THEN MaxHold ELSE TTL + 2 * MaxHold

HeldAge(level) == IF level = "by-content" THEN 0 ELSE TTL + MaxHold

\* An entry put under name f is dated today or before, and held what was
\* recent enough then.
DatedAt(f, e, now) ==
    /\ e.mtime <= now
    /\ e.body # Torn => e.mtime - e.body.made <= StoredAge(f.level)

Dated == \A f \in DOMAIN disk : DatedAt(f, disk[f], clock)

\* A run takes at most MaxHold over a pair; what it reads had not expired when
\* the pair began; what it writes was recent enough when the pair began.
InTime(p) ==
    /\ Busy(p) => run[p].started <= clock /\ clock <= run[p].started + MaxHold
    /\ pc[p] = "read" /\ CurFile(p) \in DOMAIN disk
         => run[p].started - disk[CurFile(p)].mtime <= TTL
    /\ pc[p] \in {"write", "sweep", "publish"}
         => run[p].started - run[p].eval.made <= HeldAge(run[p].level)

AgeInv == TTL > 0 => Dated /\ \A p \in Procs : InTime(p)

\* What a step may do to the directory: delete names, and put today's
\* entries, recent enough, under others.
DiskAges ==
    \A f \in DOMAIN disk' :
        \/ f \in DOMAIN disk /\ disk'[f] = disk[f]
        \/ disk'[f].mtime = clock /\ DatedAt(f, disk'[f], clock)

\* The name a process works on is of the level the process is at.
LEMMA CurFileLevel ==
    ASSUME TypeInv, NEW p \in Procs, pc[p] \in Keyed
    PROVE  CurFile(p).level = run[p].level
  <1>1. run[p].level \in {"by-input", "by-content"}
    BY DEF TypeInv, Located, LocatedAt
  <1> QED  BY <1>1 DEF CurFile, InputKey, ContentKey

\* Days, as the ages below subtract them, are numbers.
LEMMA AgesAreNumbers ==
    ASSUME TypeInv
    PROVE  /\ clock \in Nat /\ TTL \in Nat /\ MaxHold \in Nat
           /\ \A p \in Procs : run[p].started \in Nat
           /\ \A p \in Procs : pc[p] \in Holding => run[p].eval.made \in Nat
           /\ \A f \in DOMAIN disk : disk[f].mtime \in Nat
           /\ \A f \in DOMAIN disk : disk[f].body # Torn => disk[f].body.made \in Nat
  <1>1. \A p \in Procs : run[p].started \in Nat
    BY DEF TypeInv, TypeOK, Runs
  <1>2. \A p \in Procs : pc[p] \in Holding => run[p].eval.made \in Nat
    BY DEF TypeInv, Located, LocatedAt, Evaluations
  <1>3. \A f \in DOMAIN disk : disk[f] \in Entries
    BY DEF TypeInv, TypeOK
  <1>4. \A e \in Entries : e.mtime \in Nat /\ (e.body # Torn => e.body.made \in Nat)
    BY DEF Entries, Evaluations
  <1> QED  BY <1>1, <1>2, <1>3, <1>4, TimeAssumption DEF TypeInv, TypeOK

\* A step of one process leaves the others in time: a name one of them is
\* about to read is as it was, gone, or dated today.
LEMMA OneStepAges ==
    ASSUME TypeInv, Dated, \A q \in Procs : InTime(q), NEW p \in Procs,
           clock' = clock, DiskAges,
           \A q \in Procs \ {p} : pc'[q] = pc[q] /\ run'[q] = run[q],
           InTime(p)'
    PROVE  Dated' /\ \A q \in Procs : InTime(q)'
  <1>1. Dated'
    BY DEF Dated, DiskAges
  <1>2. ASSUME NEW q \in Procs \ {p}
        PROVE  InTime(q)'
    <2>1. pc'[q] = pc[q] /\ run'[q] = run[q] /\ CurFile(q)' = CurFile(q) /\ InTime(q)
      BY <1>2 DEF CurFile
    <2>2. CASE pc[q] = "read" /\ CurFile(q) \in DOMAIN disk'
      <3>1. /\ run[q].started \in Nat /\ clock \in Nat /\ TTL \in Nat
            /\ run[q].started <= clock
        BY <2>1, <2>2, AgesAreNumbers DEF InTime, Busy
      <3>2. \/ /\ CurFile(q) \in DOMAIN disk
               /\ disk'[CurFile(q)] = disk[CurFile(q)]
            \/ disk'[CurFile(q)].mtime = clock
        BY <2>2 DEF DiskAges
      <3>3. run[q].started - disk'[CurFile(q)].mtime <= TTL
        BY <2>1, <2>2, <3>1, <3>2 DEF InTime
      <3> QED  BY <2>1, <2>2, <3>3 DEF InTime, Busy
    <2>3. CASE ~(pc[q] = "read" /\ CurFile(q) \in DOMAIN disk')
      BY <2>1, <2>3 DEF InTime, Busy
    <2> QED  BY <2>2, <2>3
  <1> QED  BY <1>1, <1>2

\* Deleting names ages nothing.
LEMMA WithoutAges ==
    ASSUME NEW F, disk' = Without(F)
    PROVE  DiskAges
  BY DEF DiskAges, Without

LEMMA KeptAges ==
    ASSUME disk' = disk
    PROVE  DiskAges
  BY DEF DiskAges

\* A miss leads to the next level, or to an evaluation: nothing is held yet.
LEMMA MissAges ==
    ASSUME TypeInv, NEW p \in Procs, pc[p] \in {"remove", "read"}, InTime(p),
           MissStep(p), clock' = clock
    PROVE  /\ InTime(p)'
           /\ \A q \in Procs \ {p} : pc'[q] = pc[q] /\ run'[q] = run[q]
           /\ pc'[p] # "done"
  <1>1. pc \in [Procs -> PCs] /\ run \in [Procs -> Runs] /\ run[p] \in Runs
    BY DEF TypeInv, TypeOK
  <1>2. /\ pc'[p] \in {"stat", "evaluate"}
        /\ \A q \in Procs \ {p} : pc'[q] = pc[q]
    BY <1>1 DEF MissStep
  <1>3. /\ run'[p].started = run[p].started
        /\ \A q \in Procs \ {p} : run'[q] = run[q]
    <2>1. CASE run[p].level = "by-input"
      <3> DEFINE r == [run[p] EXCEPT !.level = "by-content"]
      <3>1. run' = [run EXCEPT ![p] = r]
        BY <2>1, Zenon DEF MissStep
      <3>2. r.started = run[p].started
        BY <1>1 DEF Runs
      <3> HIDE DEF r
      <3> QED  BY <1>1, <3>1, <3>2
    <2> QED  BY <2>1 DEF MissStep
  <1>4. run[p].started <= clock /\ clock <= run[p].started + MaxHold
    BY DEF InTime, Busy
  <1> QED  BY <1>2, <1>3, <1>4 DEF InTime, Busy

\* After a write a run goes on with the other level or answers; an alias may
\* hold what is older than an evaluation of this run.
LEMMA WrittenAges ==
    ASSUME TypeInv, NEW p \in Procs, pc[p] = "publish", InTime(p),
           WrittenStep(p), clock' = clock
    PROVE  /\ InTime(p)'
           /\ \A q \in Procs \ {p} : pc'[q] = pc[q] /\ run'[q] = run[q]
           /\ run'[p].eval = run[p].eval
  <1>1. pc \in [Procs -> PCs] /\ run \in [Procs -> Runs] /\ run[p] \in Runs
    BY DEF TypeInv, TypeOK
  <1>2. /\ run[p].started \in Nat /\ run[p].eval.made \in Nat
        /\ TTL \in Nat /\ MaxHold \in Nat
    BY AgesAreNumbers DEF Holding
  <1>3. /\ run[p].started <= clock /\ clock <= run[p].started + MaxHold
        /\ run[p].started - run[p].eval.made <= HeldAge(run[p].level)
    BY DEF InTime, Busy
  <1>4. CASE run[p].level = "by-content"
    <2> DEFINE r == [run[p] EXCEPT !.level = "by-input"]
    <2>1. run' = [run EXCEPT ![p] = r] /\ pc' = [pc EXCEPT ![p] = "write"]
      BY <1>4, Zenon DEF WrittenStep
    <2>2. /\ r.started = run[p].started /\ r.eval = run[p].eval
          /\ r.level = "by-input"
      BY <1>1 DEF Runs
    <2> HIDE DEF r
    <2>3. /\ pc'[p] = "write" /\ run'[p] = r
          /\ \A q \in Procs \ {p} : pc'[q] = pc[q] /\ run'[q] = run[q]
      BY <1>1, <2>1
    <2>4. r.started - r.eval.made <= HeldAge(r.level)
      BY <1>2, <1>3, <1>4, <2>2 DEF HeldAge
    <2>5. InTime(p)'
      BY <1>3, <2>2, <2>3, <2>4 DEF InTime, Busy
    <2> QED  BY <2>2, <2>3, <2>5
  <1>5. CASE run[p].level # "by-content"
    <2>1. /\ pc'[p] = "done" /\ run' = run
          /\ \A q \in Procs \ {p} : pc'[q] = pc[q]
      BY <1>1, <1>5 DEF WrittenStep
    <2>2. InTime(p)'
      BY <2>1 DEF InTime, Busy
    <2> QED  BY <2>1, <2>2
  <1> QED  BY <1>4, <1>5

\* A process that steps to program counter a with locals r.
LEMMA OwnAges ==
    ASSUME TypeInv, NEW p \in Procs, NEW a, NEW r,
           pc' = [pc EXCEPT ![p] = a], run' = [run EXCEPT ![p] = r]
    PROVE  /\ pc'[p] = a /\ run'[p] = r
           /\ \A q \in Procs \ {p} : pc'[q] = pc[q] /\ run'[q] = run[q]
  BY DEF TypeInv, TypeOK

\* A step that leaves a process neither reading nor holding, and within its
\* time, leaves it in time.
LEMMA IdleAges ==
    ASSUME NEW p \in Procs, pc'[p] \notin {"read", "write", "sweep", "publish"},
           Busy(p)' => run'[p].started <= clock' /\ clock' <= run'[p].started + MaxHold
    PROVE  InTime(p)'
  BY DEF InTime

\* Sessions are opened and closed outside every pair.
LEMMA SessionAges ==
    ASSUME TypeInv, NEW p \in Procs, Session(p)
    PROVE  /\ InTime(p)' /\ pc'[p] # "done" /\ disk' = disk /\ clock' = clock
           /\ \A q \in Procs \ {p} : pc'[q] = pc[q] /\ run'[q] = run[q]
  <1>1. pc \in [Procs -> PCs] /\ run \in [Procs -> Runs]
    BY DEF TypeInv, TypeOK
  <1>2. /\ pc'[p] \in {"off", "parsed", "ready"}
        /\ \A q \in Procs \ {p} : pc'[q] = pc[q]
    BY <1>1 DEF Session, LoadConfig, OpenSession, OpenDisabledSession, Exit, Die
  <1>3. \A q \in Procs \ {p} : run'[q] = run[q]
    BY <1>1 DEF Session, LoadConfig, OpenSession, OpenDisabledSession, Exit, Die
  <1>4. disk' = disk /\ clock' = clock
    BY DEF Session, LoadConfig, OpenSession, OpenDisabledSession, Exit, Die,
       world, disks
  <1> QED  BY <1>2, <1>3, <1>4 DEF InTime, Busy

\* An evaluation is dated today, which is not before the pair began.
LEMMA PairAges ==
    ASSUME TypeInv, NEW p \in Procs, InTime(p), Pair(p)
    PROVE  /\ InTime(p)' /\ disk' = disk /\ clock' = clock
           /\ \A q \in Procs \ {p} : pc'[q] = pc[q] /\ run'[q] = run[q]
           /\ pc'[p] = "done" /\ pc[p] # "done" => run'[p].eval.made = clock
  <1>1. /\ run[p] \in Runs /\ clock \in Nat /\ run[p].started \in Nat
        /\ TTL \in Nat /\ MaxHold \in Nat
    BY AgesAreNumbers DEF TypeInv, TypeOK
  <1>2. disk' = disk /\ clock' = clock
    BY DEF Pair, BeginPair, BeginUncached, Evaluate, EvaluateUncached,
       FinishPair, world, disks
  <1>3. ASSUME NEW s \in Shapes, NEW c \in Commits, BeginPair(p, s, c)
        PROVE  /\ InTime(p)' /\ pc'[p] # "done"
               /\ \A q \in Procs \ {p} : pc'[q] = pc[q] /\ run'[q] = run[q]
    <2> DEFINE k == IF run[p].keySnap = None THEN snap ELSE run[p].keySnap
               r == [run[p] EXCEPT !.shape = s, !.commit = c, !.level = "by-input",
                                   !.keySnap = k, !.started = clock]
    <2>1. pc' = [pc EXCEPT ![p] = "stat"] /\ run' = [run EXCEPT ![p] = r]
      BY <1>3, Zenon DEF BeginPair
    <2> HIDE DEF k
    <2>2. r.started = clock
      BY <1>1 DEF Runs
    <2> HIDE DEF r
    <2>3. /\ pc'[p] = "stat" /\ run'[p] = r
          /\ \A q \in Procs \ {p} : pc'[q] = pc[q] /\ run'[q] = run[q]
      BY <2>1, OwnAges
    <2>4. run'[p].started <= clock' /\ clock' <= run'[p].started + MaxHold
      BY <1>1, <1>2, <2>2, <2>3
    <2> QED  BY <2>3, <2>4, IdleAges
  <1>4. ASSUME NEW s \in Shapes, NEW c \in Commits, BeginUncached(p, s, c)
        PROVE  /\ InTime(p)' /\ pc'[p] # "done"
               /\ \A q \in Procs \ {p} : pc'[q] = pc[q] /\ run'[q] = run[q]
    <2> DEFINE r == [run[p] EXCEPT !.shape = s, !.commit = c, !.started = clock]
    <2>1. pc' = [pc EXCEPT ![p] = "uncached"] /\ run' = [run EXCEPT ![p] = r]
      BY <1>4, Zenon DEF BeginUncached
    <2>2. r.started = clock
      BY <1>1 DEF Runs
    <2> HIDE DEF r
    <2>3. /\ pc'[p] = "uncached" /\ run'[p] = r
          /\ \A q \in Procs \ {p} : pc'[q] = pc[q] /\ run'[q] = run[q]
      BY <2>1, OwnAges
    <2>4. run'[p].started <= clock' /\ clock' <= run'[p].started + MaxHold
      BY <1>1, <1>2, <2>2, <2>3
    <2> QED  BY <2>3, <2>4, IdleAges
  <1>5. /\ Evaluated(p).eval.made = clock
        /\ Evaluated(p).started = run[p].started
    <2> DEFINE n == IF run[p].memo = None THEN snap ELSE run[p].memo
               e == [verdict |-> FreshVerdict(run[p].shape, run[p].commit, run[p].cfg, n),
                     facts |-> FreshFacts(run[p].shape, run[p].commit),
                     made |-> clock]
    <2>1. Evaluated(p) = [run[p] EXCEPT !.memo = n, !.eval = e]
      BY Zenon DEF Evaluated
    <2>2. e.made = clock
      OBVIOUS
    <2> HIDE DEF n, e
    <2> QED  BY <1>1, <2>1, <2>2 DEF Runs
  <1>6. CASE Evaluate(p)
    <2> DEFINE r == Evaluated(p)
    <2>1. /\ pc' = [pc EXCEPT ![p] = "write"] /\ run' = [run EXCEPT ![p] = r]
          /\ pc[p] = "evaluate"
      BY <1>6 DEF Evaluate
    <2> HIDE DEF r
    <2>2. /\ pc'[p] = "write" /\ run'[p] = r
          /\ \A q \in Procs \ {p} : pc'[q] = pc[q] /\ run'[q] = run[q]
      BY <2>1, OwnAges
    <2>3. run[p].started <= clock /\ clock <= run[p].started + MaxHold
      BY <2>1 DEF InTime, Busy
    <2>4. r.started - r.eval.made <= HeldAge(r.level)
      BY <1>1, <1>5, <2>3 DEF HeldAge, r
    <2>5. InTime(p)'
      BY <1>2, <1>5, <2>2, <2>3, <2>4 DEF InTime, r
    <2> QED  BY <1>2, <2>2, <2>5
  <1>7. CASE EvaluateUncached(p)
    <2> DEFINE r == Evaluated(p)
    <2>1. pc' = [pc EXCEPT ![p] = "done"] /\ run' = [run EXCEPT ![p] = r]
      BY <1>7 DEF EvaluateUncached
    <2> HIDE DEF r
    <2>2. /\ pc'[p] = "done" /\ run'[p] = r
          /\ \A q \in Procs \ {p} : pc'[q] = pc[q] /\ run'[q] = run[q]
      BY <2>1, OwnAges
    <2>3. InTime(p)'
      BY <2>2 DEF InTime, Busy
    <2> QED  BY <1>2, <1>5, <2>2, <2>3 DEF r
  <1>8. CASE FinishPair(p)
    <2>1. /\ pc'[p] = "ready"
          /\ \A q \in Procs \ {p} : pc'[q] = pc[q] /\ run'[q] = run[q]
      BY <1>8 DEF FinishPair, TypeInv, TypeOK
    <2>2. InTime(p)'
      BY <2>1 DEF InTime, Busy
    <2> QED  BY <1>2, <2>1, <2>2
  <1> QED  BY <1>2, <1>3, <1>4, <1>6, <1>7, <1>8 DEF Pair

\* What a hit takes over had not expired when the pair began, so it is at most
\* one lifetime older than the entry's own age allows.
LEMMA LookupAges ==
    ASSUME TypeInv, TTL > 0, Dated, NEW p \in Procs, InTime(p), Lookup(p)
    PROVE  /\ InTime(p)' /\ DiskAges /\ clock' = clock
           /\ \A q \in Procs \ {p} : pc'[q] = pc[q] /\ run'[q] = run[q]
           /\ pc'[p] = "done" /\ pc[p] # "done"
                => clock - run'[p].eval.made <= 2 * TTL + 3 * MaxHold
  <1>1. /\ run[p] \in Runs /\ clock \in Nat /\ run[p].started \in Nat
        /\ TTL \in Nat /\ MaxHold \in Nat
    BY AgesAreNumbers DEF TypeInv, TypeOK
  <1>2. clock' = clock
    BY DEF Lookup, StatEntry, RemoveEntry, ReadMissing, ReadTorn, HitInput,
       HitContent, world
  <1>3. pc[p] \in {"stat", "remove", "read"}
    BY DEF Lookup, StatEntry, RemoveEntry, ReadMissing, ReadTorn, HitInput,
       HitContent
  <1>4. run[p].started <= clock /\ clock <= run[p].started + MaxHold
    BY <1>3 DEF InTime, Busy
  <1>5. CASE StatEntry(p)
    <2> DEFINE gone == CurFile(p) \in DOMAIN disk /\ Expired(CurFile(p))
               a == IF gone THEN "remove" ELSE "read"
    <2>1. pc' = [pc EXCEPT ![p] = a] /\ run' = [run EXCEPT ![p] = run[p]]
      BY <1>5 DEF StatEntry, TypeInv, TypeOK
    <2>2. a \in {"remove", "read"} /\ (a = "read" => ~gone)
      OBVIOUS
    <2> HIDE DEF a
    <2>3. /\ pc'[p] = a /\ run'[p] = run[p]
          /\ \A q \in Procs \ {p} : pc'[q] = pc[q] /\ run'[q] = run[q]
      BY <2>1, OwnAges
    <2>4. disk' = disk /\ CurFile(p)' = CurFile(p)
      BY <1>5, <2>3 DEF StatEntry, disks, CurFile
    <2>5. CASE a = "read" /\ CurFile(p) \in DOMAIN disk
      <3>1. clock - disk[CurFile(p)].mtime <= TTL
        BY <2>2, <2>5, <1>1, AgesAreNumbers DEF Expired, OlderThan
      <3>2. run[p].started - disk[CurFile(p)].mtime <= TTL
        BY <3>1, <1>1, <1>4, <2>5, AgesAreNumbers
      <3>3. InTime(p)'
        BY <1>2, <1>4, <2>3, <2>4, <2>5, <3>2 DEF InTime
      <3> QED  BY <1>2, <2>2, <2>3, <2>4, <3>3, KeptAges
    <2>6. CASE ~(a = "read" /\ CurFile(p) \in DOMAIN disk)
      <3>1. InTime(p)'
        BY <1>2, <1>4, <2>2, <2>3, <2>4, <2>6 DEF InTime
      <3> QED  BY <1>2, <2>2, <2>3, <2>4, <3>1, KeptAges
    <2> QED  BY <2>5, <2>6
  <1>6. CASE RemoveEntry(p)
    <2>1. DiskAges
      BY <1>6, WithoutAges DEF RemoveEntry
    <2> QED  BY <1>2, <1>6, <2>1, MissAges DEF RemoveEntry
  <1>7. CASE ReadMissing(p)
    <2>1. DiskAges
      BY <1>7, KeptAges DEF ReadMissing, disks
    <2> QED  BY <1>2, <1>7, <2>1, MissAges DEF ReadMissing
  <1>8. CASE ReadTorn(p)
    <2>1. pc' = [pc EXCEPT ![p] = "remove"] /\ run' = [run EXCEPT ![p] = run[p]]
      BY <1>8 DEF ReadTorn, TypeInv, TypeOK
    <2>2. /\ pc'[p] = "remove" /\ run'[p] = run[p]
          /\ \A q \in Procs \ {p} : pc'[q] = pc[q] /\ run'[q] = run[q]
      BY <2>1, OwnAges
    <2>3. InTime(p)'
      BY <1>2, <1>4, <2>2 DEF InTime
    <2>4. DiskAges
      BY <1>8, KeptAges DEF ReadTorn, disks
    <2> QED  BY <1>2, <2>2, <2>3, <2>4
  <1>9. ASSUME pc[p] = "read", CurFile(p) \in DOMAIN disk,
               disk[CurFile(p)].body # Torn
        PROVE  /\ disk[CurFile(p)].body.made \in Nat
               /\ run[p].started - disk[CurFile(p)].body.made
                    <= TTL + StoredAge(run[p].level)
    <2>1. run[p].started - disk[CurFile(p)].mtime <= TTL
      BY <1>9 DEF InTime
    <2>2. disk[CurFile(p)].mtime - disk[CurFile(p)].body.made
            <= StoredAge(CurFile(p).level)
      BY <1>9 DEF Dated, DatedAt
    <2>3. CurFile(p).level = run[p].level
      BY <1>9, CurFileLevel DEF Keyed
    <2>4. /\ disk[CurFile(p)].mtime \in Nat /\ disk[CurFile(p)].body.made \in Nat
          /\ StoredAge(run[p].level) \in Nat
      BY <1>1, <1>9, AgesAreNumbers DEF StoredAge
    <2> QED  BY <1>1, <2>1, <2>2, <2>3, <2>4
  <1>10. CASE HitInput(p)
    <2> DEFINE e == disk[CurFile(p)].body
               r == [run[p] EXCEPT !.eval = e]
    <2>1. /\ e.made \in Nat
          /\ run[p].started - e.made <= TTL + StoredAge(run[p].level)
          /\ run[p].level = "by-input"
      BY <1>9, <1>10 DEF HitInput
    <2>2. pc' = [pc EXCEPT ![p] = "done"] /\ run' = [run EXCEPT ![p] = r]
      BY <1>10, Zenon DEF HitInput
    <2> HIDE DEF e
    <2>3. r.eval = e
      BY <1>1 DEF Runs
    <2> HIDE DEF r
    <2>4. /\ pc'[p] = "done" /\ run'[p] = r
          /\ \A q \in Procs \ {p} : pc'[q] = pc[q] /\ run'[q] = run[q]
      BY <2>2, OwnAges
    <2>5. clock - run'[p].eval.made <= 2 * TTL + 3 * MaxHold
      BY <1>1, <1>4, <2>1, <2>3, <2>4 DEF StoredAge
    <2>6. InTime(p)'
      BY <2>4 DEF InTime, Busy
    <2>7. DiskAges
      BY <1>10, KeptAges DEF HitInput, disks
    <2> QED  BY <1>2, <2>4, <2>5, <2>6, <2>7
  <1>11. CASE HitContent(p)
    <2> DEFINE e == disk[CurFile(p)].body
               r == [run[p] EXCEPT !.eval = e, !.level = "by-input"]
    <2>1. /\ e.made \in Nat
          /\ run[p].started - e.made <= TTL + StoredAge(run[p].level)
          /\ run[p].level = "by-content"
      BY <1>9, <1>11 DEF HitContent
    <2>2. pc' = [pc EXCEPT ![p] = "write"] /\ run' = [run EXCEPT ![p] = r]
      BY <1>11, Zenon DEF HitContent
    <2> HIDE DEF e
    <2>3. r.eval = e /\ r.started = run[p].started /\ r.level = "by-input"
      BY <1>1 DEF Runs
    <2> HIDE DEF r
    <2>4. /\ pc'[p] = "write" /\ run'[p] = r
          /\ \A q \in Procs \ {p} : pc'[q] = pc[q] /\ run'[q] = run[q]
      BY <2>2, OwnAges
    <2>5. r.started - r.eval.made <= HeldAge(r.level)
      BY <1>1, <2>1, <2>3 DEF StoredAge, HeldAge
    <2>6. InTime(p)'
      BY <1>2, <1>4, <2>3, <2>4, <2>5 DEF InTime
    <2>7. DiskAges
      BY <1>11, KeptAges DEF HitContent, disks
    <2> QED  BY <1>2, <2>4, <2>6, <2>7
  <1> QED
    BY <1>5, <1>6, <1>7, <1>8, <1>10, <1>11 DEF Lookup

\* A write is dated today, at most MaxHold after the pair began.
LEMMA StoreAges ==
    ASSUME TypeInv, TTL > 0, NEW p \in Procs, InTime(p), Store(p)
    PROVE  /\ InTime(p)' /\ DiskAges /\ clock' = clock
           /\ \A q \in Procs \ {p} : pc'[q] = pc[q] /\ run'[q] = run[q]
           /\ pc'[p] = "done" /\ pc[p] # "done"
                => clock - run'[p].eval.made <= 2 * TTL + 3 * MaxHold
  <1>1. pc[p] \in {"write", "sweep", "publish"}
    BY DEF Store, SkipSweep, BeginSweep, SweepOne, EndSweep, CreateTmp, Publish,
       PublishSwept, WriteFails
  <1>2. /\ run[p] \in Runs /\ clock \in Nat /\ run[p].started \in Nat
        /\ run[p].eval.made \in Nat /\ TTL \in Nat /\ MaxHold \in Nat
        /\ run[p].level \in {"by-input", "by-content"}
    BY <1>1, AgesAreNumbers
       DEF TypeInv, TypeOK, Holding, Located, LocatedAt, Keyed
  <1>3. clock' = clock
    BY DEF Store, SkipSweep, BeginSweep, SweepOne, EndSweep, CreateTmp, Publish,
       PublishSwept, WriteFails, world
  <1>4. /\ run[p].started <= clock /\ clock <= run[p].started + MaxHold
        /\ run[p].started - run[p].eval.made <= HeldAge(run[p].level)
    BY <1>1 DEF InTime, Busy
  <1>5. clock - run[p].eval.made <= StoredAge(run[p].level)
    BY <1>2, <1>4 DEF HeldAge, StoredAge
  <1>6. ASSUME NEW a \in {"write", "sweep", "publish"}, NEW r,
               pc' = [pc EXCEPT ![p] = a], run' = [run EXCEPT ![p] = r],
               r.started = run[p].started, r.eval = run[p].eval,
               r.level = run[p].level
        PROVE  /\ InTime(p)' /\ pc'[p] # "done"
               /\ \A q \in Procs \ {p} : pc'[q] = pc[q] /\ run'[q] = run[q]
    <2>1. /\ pc'[p] = a /\ run'[p] = r
          /\ \A q \in Procs \ {p} : pc'[q] = pc[q] /\ run'[q] = run[q]
      BY <1>6, OwnAges
    <2>2. InTime(p)'
      BY <1>3, <1>4, <1>6, <2>1 DEF InTime
    <2> QED  BY <1>6, <2>1, <2>2
  <1>7. ASSUME NEW a \in {"write", "sweep", "publish"},
               pc' = [pc EXCEPT ![p] = a], run' = run
        PROVE  /\ InTime(p)' /\ pc'[p] # "done"
               /\ \A q \in Procs \ {p} : pc'[q] = pc[q] /\ run'[q] = run[q]
    <2>1. run' = [run EXCEPT ![p] = run[p]]
      BY <1>7 DEF TypeInv, TypeOK
    <2> QED  BY <1>6, <1>7, <2>1
  <1>8. pc = [pc EXCEPT ![p] = pc[p]]
    BY DEF TypeInv, TypeOK
  <1>9. CASE SkipSweep(p)
    <2> DEFINE r == [run[p] EXCEPT !.swept = TRUE]
    <2>1. run' = [run EXCEPT ![p] = r]
      BY <1>9, Zenon DEF SkipSweep
    <2>2. /\ r.started = run[p].started /\ r.eval = run[p].eval
          /\ r.level = run[p].level
      BY <1>2 DEF Runs
    <2> HIDE DEF r
    <2>3. pc' = [pc EXCEPT ![p] = "write"]
      BY <1>8, <1>9 DEF SkipSweep
    <2>4. DiskAges
      BY <1>9, KeptAges DEF SkipSweep, disks
    <2> QED  BY <1>3, <1>6, <2>1, <2>2, <2>3, <2>4
  <1>10. CASE BeginSweep(p)
    <2> DEFINE V == {f \in DOMAIN disk : Expired(f)} \cup OrphanTmps
               r == [run[p] EXCEPT !.swept = TRUE, !.victims = V]
    <2>1. run' = [run EXCEPT ![p] = r] /\ pc' = [pc EXCEPT ![p] = "sweep"]
      BY <1>10, Zenon DEF BeginSweep
    <2> HIDE DEF V
    <2>2. /\ r.started = run[p].started /\ r.eval = run[p].eval
          /\ r.level = run[p].level
      BY <1>2 DEF Runs
    <2> HIDE DEF r
    <2>3. DiskAges
      BY <1>10, KeptAges DEF BeginSweep, disks
    <2> QED  BY <1>3, <1>6, <2>1, <2>2, <2>3
  <1>11. CASE SweepOne(p)
    <2>1. PICK v : /\ disk' = Without({v})
                   /\ run' = [run EXCEPT ![p].victims = @ \ {v}]
      BY <1>11 DEF SweepOne
    <2> DEFINE W == run[p].victims \ {v}
               r == [run[p] EXCEPT !.victims = W]
    <2>2. run' = [run EXCEPT ![p] = r]
      BY <2>1, Zenon
    <2> HIDE DEF W
    <2>3. /\ r.started = run[p].started /\ r.eval = run[p].eval
          /\ r.level = run[p].level
      BY <1>2 DEF Runs
    <2> HIDE DEF r
    <2>4. pc' = [pc EXCEPT ![p] = "sweep"]
      BY <1>8, <1>11 DEF SweepOne
    <2>5. DiskAges
      BY <2>1, WithoutAges
    <2> QED  BY <1>3, <1>6, <2>2, <2>3, <2>4, <2>5
  <1>12. CASE EndSweep(p)
    <2>1. DiskAges
      BY <1>12, KeptAges DEF EndSweep
    <2> QED  BY <1>3, <1>7, <1>12, <2>1 DEF EndSweep
  <1>13. CASE CreateTmp(p)
    <2>1. DiskAges
      BY <1>13, KeptAges DEF CreateTmp
    <2> QED  BY <1>3, <1>7, <1>13, <2>1 DEF CreateTmp
  <1>14. ASSUME pc[p] = "publish", WrittenStep(p)
         PROVE  /\ InTime(p)'
                /\ \A q \in Procs \ {p} : pc'[q] = pc[q] /\ run'[q] = run[q]
                /\ clock - run'[p].eval.made <= 2 * TTL + 3 * MaxHold
    <2>1. clock - run[p].eval.made <= 2 * TTL + 3 * MaxHold
      BY <1>2, <1>5 DEF StoredAge
    <2> QED  BY <1>3, <1>14, <2>1, WrittenAges
  <1>15. CASE Publish(p)
    <2> DEFINE e == [body |-> run[p].eval, mtime |-> clock]
               f == CurFile(p)
    <2>1. f.level = run[p].level
      BY <1>15, CurFileLevel DEF Publish, Keyed
    <2>2. DatedAt(f, e, clock) /\ e.mtime = clock
      BY <1>2, <1>5, <2>1 DEF DatedAt
    <2>3. disk' = Published(f, e)
      BY <1>15 DEF Publish
    <2> HIDE DEF e, f
    <2>4. DiskAges
      BY <2>2, <2>3 DEF DiskAges, Published
    <2> QED  BY <1>3, <1>14, <1>15, <2>4 DEF Publish
  <1>16. CASE PublishSwept(p)
    <2>1. DiskAges
      BY <1>16, KeptAges DEF PublishSwept, disks
    <2> QED  BY <1>3, <1>14, <1>16, <2>1 DEF PublishSwept
  <1>17. CASE WriteFails(p)
    <2>1. DiskAges
      BY <1>17, KeptAges DEF WriteFails
    <2> QED  BY <1>3, <1>14, <1>17, <2>1 DEF WriteFails
  <1> QED
    BY <1>9, <1>10, <1>11, <1>12, <1>13, <1>15, <1>16, <1>17 DEF Store

\* Verbs only delete; edits touch no entry; a day passes only while nobody is
\* over its time; what an outage tears keeps its date, and ends every run.
LEMMA WorldAges ==
    ASSUME TypeInv, TTL > 0, Dated, \A q \in Procs : InTime(q),
           \/ CacheVerbs \/ EditConfig \/ RegenerateSnapshot \/ Tick
           \/ PowerLoss \/ UNCHANGED vars
    PROVE  /\ Dated' /\ \A q \in Procs : InTime(q)'
           /\ \A q \in Procs : pc[q] # "done" => pc'[q] # "done"
  <1>1. ASSUME NEW F, pc' = pc, run' = run, clock' = clock,
               disk' = disk \/ disk' = Without(F)
        PROVE  /\ Dated' /\ \A q \in Procs : InTime(q)'
               /\ \A q \in Procs : pc[q] # "done" => pc'[q] # "done"
    <2>1. \A f \in DOMAIN disk' : f \in DOMAIN disk /\ disk'[f] = disk[f]
      BY <1>1 DEF Without
    <2>2. Dated'
      BY <1>1, <2>1 DEF Dated
    <2>3. ASSUME NEW q \in Procs PROVE InTime(q)'
      <3>1. CurFile(q)' = CurFile(q) /\ InTime(q)
        BY <1>1 DEF CurFile
      <3> QED  BY <1>1, <2>1, <3>1 DEF InTime, Busy
    <2> QED  BY <1>1, <2>2, <2>3
  <1>2. CASE CacheVerbs
    <2>1. pc' = pc /\ run' = run /\ clock' = clock
      BY <1>2 DEF CacheVerbs, EvictCommit, EvictKeys, Prune, Clear,
         RemoveScanned, VerbFails, ScanFor, world
    <2>2. disk' = disk \/ \E F : disk' = Without(F)
      BY <1>2 DEF CacheVerbs, EvictCommit, EvictKeys, Prune, Clear,
         RemoveScanned, VerbFails, ScanFor, disks
    <2> QED  BY <1>1, <2>1, <2>2
  <1>3. CASE EditConfig \/ RegenerateSnapshot \/ UNCHANGED vars
    <2>1. pc' = pc /\ run' = run /\ clock' = clock /\ disk' = disk
      BY <1>3 DEF EditConfig, RegenerateSnapshot, vars, disks
    <2> QED  BY <1>1, <2>1
  <1>4. CASE Tick
    <2>1. /\ pc' = pc /\ run' = run /\ disk' = disk /\ clock' = clock + 1
          /\ \A q \in Procs : Busy(q) => clock < run[q].started + MaxHold
      BY <1>4 DEF Tick, disks
    <2>2. clock \in Nat /\ MaxHold \in Nat /\ \A q \in Procs : run[q].started \in Nat
      BY AgesAreNumbers
    <2>3. Dated'
      <3>1. ASSUME NEW f \in DOMAIN disk
            PROVE  disk[f].mtime <= clock + 1
        BY <2>2, AgesAreNumbers DEF Dated, DatedAt
      <3> QED  BY <2>1, <3>1 DEF Dated, DatedAt
    <2>4. ASSUME NEW q \in Procs PROVE InTime(q)'
      <3>1. CurFile(q)' = CurFile(q) /\ Busy(q)' = Busy(q) /\ InTime(q)
        BY <2>1 DEF CurFile, Busy
      <3>2. Busy(q) => /\ run[q].started <= clock + 1
                       /\ clock + 1 <= run[q].started + MaxHold
        BY <2>1, <2>2, <3>1 DEF InTime
      <3> QED  BY <2>1, <3>1, <3>2 DEF InTime
    <2> QED  BY <2>1, <2>3, <2>4
  <1>5. CASE PowerLoss
    <2>1. PICK lost :
            disk' = [f \in DOMAIN disk |->
                       IF f \in lost THEN [disk[f] EXCEPT !.body = Torn] ELSE disk[f]]
      BY <1>5 DEF PowerLoss
    <2>2. clock' = clock /\ \A q \in Procs : pc'[q] = "off"
      BY <1>5 DEF PowerLoss, world
    <2>3. ASSUME NEW f \in DOMAIN disk'
          PROVE  DatedAt(f, disk'[f], clock)
      <3>1. f \in DOMAIN disk /\ disk[f] \in Entries /\ DatedAt(f, disk[f], clock)
        BY <2>1 DEF Dated, TypeInv, TypeOK
      <3>2. CASE f \in lost
        <4>1. disk'[f] = [disk[f] EXCEPT !.body = Torn]
          BY <2>1, <3>1, <3>2
        <4>2. disk'[f].mtime = disk[f].mtime /\ disk'[f].body = Torn
          BY <3>1, <4>1 DEF Entries
        <4> QED  BY <3>1, <4>2 DEF DatedAt
      <3>3. CASE f \notin lost
        BY <2>1, <3>1, <3>3
      <3> QED  BY <3>2, <3>3
    <2>4. Dated'
      BY <2>2, <2>3 DEF Dated
    <2> QED  BY <2>2, <2>4 DEF InTime, Busy
  <1> QED  BY <1>2, <1>3, <1>4, <1>5

LEMMA AgeInit == Init => AgeInv
  <1> SUFFICES ASSUME Init PROVE AgeInv
    OBVIOUS
  <1>1. DOMAIN disk = {}
    BY DEF Init
  <1>2. \A p \in Procs : pc[p] = "off"
    BY DEF Init
  <1> QED  BY <1>1, <1>2 DEF AgeInv, Dated, InTime, Busy

\* Every step keeps the ages, and whoever answers in it answers in time.
LEMMA AgeStep ==
    ASSUME TypeInv, AgeInv, [Next]_vars, TTL > 0
    PROVE  /\ AgeInv'
           /\ \A q \in Procs : pc[q] # "done" /\ pc'[q] = "done"
                => clock - run'[q].eval.made <= 2 * TTL + 3 * MaxHold
  <1>1. Dated /\ \A q \in Procs : InTime(q)
    BY DEF AgeInv
  <1>2. clock \in Nat /\ TTL \in Nat /\ MaxHold \in Nat
    BY AgesAreNumbers
  <1>3. ASSUME NEW p \in Procs, clock' = clock, DiskAges, InTime(p)',
               \A q \in Procs \ {p} : pc'[q] = pc[q] /\ run'[q] = run[q],
               pc'[p] = "done" /\ pc[p] # "done"
                 => clock - run'[p].eval.made <= 2 * TTL + 3 * MaxHold
        PROVE  /\ AgeInv'
               /\ \A q \in Procs : pc[q] # "done" /\ pc'[q] = "done"
                    => clock - run'[q].eval.made <= 2 * TTL + 3 * MaxHold
    <2>1. Dated' /\ \A q \in Procs : InTime(q)'
      BY <1>1, <1>3, OneStepAges
    <2> QED  BY <1>3, <2>1 DEF AgeInv
  <1>4. ASSUME NEW p \in Procs, Session(p)
        PROVE  /\ AgeInv'
               /\ \A q \in Procs : pc[q] # "done" /\ pc'[q] = "done"
                    => clock - run'[q].eval.made <= 2 * TTL + 3 * MaxHold
    <2>1. /\ InTime(p)' /\ pc'[p] # "done" /\ disk' = disk /\ clock' = clock
          /\ \A q \in Procs \ {p} : pc'[q] = pc[q] /\ run'[q] = run[q]
      BY <1>4, SessionAges
    <2>2. DiskAges
      BY <2>1, KeptAges
    <2> QED  BY <1>3, <2>1, <2>2
  <1>5. ASSUME NEW p \in Procs, Pair(p)
        PROVE  /\ AgeInv'
               /\ \A q \in Procs : pc[q] # "done" /\ pc'[q] = "done"
                    => clock - run'[q].eval.made <= 2 * TTL + 3 * MaxHold
    <2>1. /\ InTime(p)' /\ disk' = disk /\ clock' = clock
          /\ \A q \in Procs \ {p} : pc'[q] = pc[q] /\ run'[q] = run[q]
          /\ pc'[p] = "done" /\ pc[p] # "done" => run'[p].eval.made = clock
      BY <1>1, <1>5, PairAges
    <2>2. DiskAges
      BY <2>1, KeptAges
    <2>3. clock - clock <= 2 * TTL + 3 * MaxHold
      BY <1>2
    <2> QED  BY <1>3, <2>1, <2>2, <2>3
  <1>6. ASSUME NEW p \in Procs, Lookup(p)
        PROVE  /\ AgeInv'
               /\ \A q \in Procs : pc[q] # "done" /\ pc'[q] = "done"
                    => clock - run'[q].eval.made <= 2 * TTL + 3 * MaxHold
    BY <1>1, <1>3, <1>6, LookupAges
  <1>7. ASSUME NEW p \in Procs, Store(p)
        PROVE  /\ AgeInv'
               /\ \A q \in Procs : pc[q] # "done" /\ pc'[q] = "done"
                    => clock - run'[q].eval.made <= 2 * TTL + 3 * MaxHold
    BY <1>1, <1>3, <1>7, StoreAges
  <1>8. ASSUME \/ CacheVerbs \/ EditConfig \/ RegenerateSnapshot \/ Tick
               \/ PowerLoss \/ UNCHANGED vars
        PROVE  /\ AgeInv'
               /\ \A q \in Procs : pc[q] # "done" /\ pc'[q] = "done"
                    => clock - run'[q].eval.made <= 2 * TTL + 3 * MaxHold
    BY <1>1, <1>8, WorldAges DEF AgeInv
  <1> QED  BY <1>4, <1>5, <1>6, <1>7, <1>8 DEF Next

\* Whatever is evicted, expires, is aliased, swept, republished or lost, and
\* however the runs interleave: no process answers with an evaluation older
\* than two lifetimes and the time three runs may hold it.
THEOREM AnswersComeInTime == Spec => AnswersExpire
  <1>1. TypeInv /\ AgeInv /\ [Next]_vars => AgeInv'
    BY AgeStep DEF AgeInv
  <1>2. TypeInv /\ AgeInv /\ [Next]_vars
          => [TTL > 0 => \A p \in Procs :
                pc[p] # "done" /\ pc'[p] = "done" =>
                  clock - run'[p].eval.made <= 2 * TTL + 3 * MaxHold]_vars
    BY AgeStep
  <1> QED  BY AgeInit, <1>1, <1>2, TypeInvariant, PTL DEF Spec, AnswersExpire

-----------------------------------------------------------------------------
(* Renderings.  A hit renders what its evaluation read of a commit, and a     *)
(* run that reports another commit differs from a fresh one where that        *)
(* matters (HitsRenderAsFreshRuns is violated).  What is true instead: the     *)
(* content key leads from a commit to its twins alone, those with its patch   *)
(* and its macros.                                                           *)

\* The commits whose facts a pair of shape s and commit c may be answered with.
Twins(s, c) ==
    IF s = "bisect" THEN {None}
    ELSE {d \in Commits : PatchOf[d] = PatchOf[c] /\ MacroKey(s, d) = MacroKey(s, c)}

\* The same of an entry, by what its name says.
TwinsOf(f) ==
    CASE f.level = "by-input" -> Twins(f.shape, f.commit)
      [] f.level # "by-input" /\ f.shape = "bisect" -> {None}
      [] f.level # "by-input" /\ f.shape # "bisect" ->
           {d \in Commits : PatchOf[d] = f.patch /\ MacroKey(f.shape, d) = f.macros}

EntriesAreOfTwins ==
    \A f \in DOMAIN disk :
        disk[f].body # Torn => disk[f].body.facts \in TwinsOf(f)

TwinAt(a, r) == a \in Holding => r.eval.facts \in Twins(r.shape, r.commit)

ProcsHoldTwins == \A p \in Procs : TwinAt(pc[p], run[p])

TwinInv == EntriesAreOfTwins /\ ProcsHoldTwins

\* Both names of a pair lead to its twins.
LEMMA KeysLeadToTwins ==
    ASSUME TypeInv, NEW p \in Procs, pc[p] \in Keyed
    PROVE  TwinsOf(CurFile(p)) = Twins(run[p].shape, run[p].commit)
  <1>1. /\ run[p].shape \in Shapes /\ run[p].commit \in Commits
        /\ run[p].level \in {"by-input", "by-content"}
    BY DEF TypeInv, Located, LocatedAt, Keyed, Idle
  <1>2. CASE run[p].level = "by-input"
    BY <1>2 DEF CurFile, InputKey, TwinsOf
  <1>3. CASE run[p].level = "by-content"
    BY <1>3 DEF CurFile, ContentKey, TwinsOf, Twins
  <1> QED  BY <1>1, <1>2, <1>3

\* A fresh evaluation is of the commit itself, which is a twin of its own.
LEMMA FreshIsTwin ==
    ASSUME NEW s \in Shapes, NEW c \in Commits
    PROVE  FreshFacts(s, c) \in Twins(s, c)
  BY DEF FreshFacts, Twins

\* A step of one process leaves the others with what they hold.
LEMMA OneTwin ==
    ASSUME TypeInv, TwinInv, NEW p \in Procs, NEW a, NEW r, TwinAt(a, r),
           pc' = [pc EXCEPT ![p] = a], run' = [run EXCEPT ![p] = r]
    PROVE  ProcsHoldTwins'
  BY DEF TypeInv, TypeOK, TwinInv, ProcsHoldTwins

\* A process that keeps its pair and its evaluation, and one that only moves.
LEMMA CarryTwin ==
    ASSUME TwinInv, NEW p \in Procs, NEW a, NEW r,
           a \in Holding => pc[p] \in Holding, r.eval = run[p].eval,
           r.shape = run[p].shape, r.commit = run[p].commit
    PROVE  TwinAt(a, r)
  BY DEF TwinInv, ProcsHoldTwins, TwinAt

LEMMA MoveTwin ==
    ASSUME TypeInv, TwinInv, NEW p \in Procs, NEW a,
           a \in Holding => pc[p] \in Holding,
           pc' = [pc EXCEPT ![p] = a], UNCHANGED run
    PROVE  ProcsHoldTwins'
  <1>1. TwinAt(a, run[p])
    BY CarryTwin
  <1>2. run' = [run EXCEPT ![p] = run[p]]
    BY DEF TypeInv, TypeOK
  <1> QED  BY <1>1, <1>2, OneTwin

\* A process that goes on to another level.
LEMMA LevelTwin ==
    ASSUME TypeInv, TwinInv, NEW p \in Procs,
           \/ pc[p] \in {"remove", "read"} /\ MissStep(p)
           \/ pc[p] = "publish" /\ WrittenStep(p)
    PROVE  ProcsHoldTwins'
  <1>1. run[p] \in Runs
    BY DEF TypeInv, TypeOK
  <1>2. ASSUME NEW a, NEW l, a \in Holding => pc[p] \in Holding,
               pc' = [pc EXCEPT ![p] = a], run' = [run EXCEPT ![p].level = l]
        PROVE  ProcsHoldTwins'
    <2> DEFINE r == [run[p] EXCEPT !.level = l]
    <2>1. TwinAt(a, r)
      BY <1>1, <1>2, CarryTwin DEF Runs
    <2>2. run' = [run EXCEPT ![p] = r]
      BY <1>2, Zenon
    <2> HIDE DEF r
    <2> QED  BY <1>2, <2>1, <2>2, OneTwin
  <1> QED  BY <1>2, MoveTwin DEF MissStep, WrittenStep, Holding

LEMMA SessionTwins ==
    ASSUME TypeInv, TwinInv, NEW p \in Procs, Session(p)
    PROVE  ProcsHoldTwins'
  <1>1. ASSUME NEW a, NEW r, a \notin Holding,
               pc' = [pc EXCEPT ![p] = a], run' = [run EXCEPT ![p] = r]
        PROVE  ProcsHoldTwins'
    BY <1>1, OneTwin DEF TwinAt
  <1>2. CASE LoadConfig(p) \/ Exit(p) \/ Die(p)
    BY <1>1, <1>2, Zenon DEF LoadConfig, Exit, Die, Holding
  <1>3. CASE OpenSession(p)
    <2> DEFINE r == [run[p] EXCEPT !.keyCfg = config]
    <2>1. pc' = [pc EXCEPT ![p] = "ready"] /\ run' = [run EXCEPT ![p] = r]
      BY <1>3, Zenon DEF OpenSession
    <2> HIDE DEF r
    <2> QED  BY <1>1, <2>1 DEF Holding
  <1>4. CASE OpenDisabledSession(p)
    BY <1>4, MoveTwin DEF OpenDisabledSession, Holding
  <1> QED  BY <1>2, <1>3, <1>4 DEF Session

LEMMA PairTwins ==
    ASSUME TypeInv, TwinInv, NEW p \in Procs, Pair(p)
    PROVE  ProcsHoldTwins'
  <1>1. ASSUME NEW a, NEW r, a \notin Holding,
               pc' = [pc EXCEPT ![p] = a], run' = [run EXCEPT ![p] = r]
        PROVE  ProcsHoldTwins'
    BY <1>1, OneTwin DEF TwinAt
  <1>2. ASSUME NEW s \in Shapes, NEW c \in Commits,
               BeginPair(p, s, c) \/ BeginUncached(p, s, c)
        PROVE  ProcsHoldTwins'
    <2> DEFINE q == [run[p] EXCEPT !.shape = s, !.commit = c, !.level = "by-input",
                       !.keySnap = IF @ = None THEN snap ELSE @, !.started = clock]
               r == [run[p] EXCEPT !.shape = s, !.commit = c, !.started = clock]
    <2>1. \/ pc' = [pc EXCEPT ![p] = "stat"] /\ run' = [run EXCEPT ![p] = q]
          \/ pc' = [pc EXCEPT ![p] = "uncached"] /\ run' = [run EXCEPT ![p] = r]
      BY <1>2, Zenon DEF BeginPair, BeginUncached
    <2> HIDE DEF q, r
    <2> QED  BY <1>1, <2>1 DEF Holding
  <1>3. CASE Evaluate(p) \/ EvaluateUncached(p)
    <2> DEFINE e == [verdict |-> FreshVerdict(run[p].shape, run[p].commit, run[p].cfg,
                                    IF run[p].memo = None THEN snap ELSE run[p].memo),
                     facts |-> FreshFacts(run[p].shape, run[p].commit), made |-> clock]
               n == IF run[p].memo = None THEN snap ELSE run[p].memo
               r == [run[p] EXCEPT !.memo = n, !.eval = e]
    <2>1. Evaluated(p) = r
      BY Zenon DEF Evaluated
    <2>2. run[p] \in Runs /\ run[p].shape \in Shapes /\ run[p].commit \in Commits
      BY <1>3 DEF Evaluate, EvaluateUncached, TypeInv, TypeOK, Located, LocatedAt, Idle
    <2>3. e.facts \in Twins(run[p].shape, run[p].commit)
      BY <2>2, FreshIsTwin
    <2> HIDE DEF e, n
    <2>4. r.eval = e /\ r.shape = run[p].shape /\ r.commit = run[p].commit
      BY <2>2 DEF Runs
    <2>5. \A a : TwinAt(a, r)
      BY <2>3, <2>4 DEF TwinAt
    <2>6. /\ \E a : pc' = [pc EXCEPT ![p] = a]
          /\ run' = [run EXCEPT ![p] = r]
      BY <1>3, <2>1 DEF Evaluate, EvaluateUncached
    <2> HIDE DEF r
    <2> QED  BY <2>5, <2>6, OneTwin
  <1>4. CASE FinishPair(p)
    <2> DEFINE r == [run[p] EXCEPT !.shape = None, !.commit = None, !.level = None,
                                   !.eval = None, !.started = 0]
    <2>1. pc' = [pc EXCEPT ![p] = "ready"] /\ run' = [run EXCEPT ![p] = r]
      BY <1>4, Zenon DEF FinishPair
    <2> HIDE DEF r
    <2> QED  BY <1>1, <2>1 DEF Holding
  <1> QED  BY <1>2, <1>3, <1>4 DEF Pair

LEMMA LookupTwins ==
    ASSUME TypeInv, TwinInv, NEW p \in Procs, Lookup(p)
    PROVE  ProcsHoldTwins'
  <1>1. run[p] \in Runs
    BY DEF TypeInv, TypeOK
  <1>2. CASE StatEntry(p) \/ ReadTorn(p)
    BY <1>2, MoveTwin DEF StatEntry, ReadTorn, Holding
  <1>3. CASE RemoveEntry(p) \/ ReadMissing(p)
    BY <1>3, LevelTwin DEF RemoveEntry, ReadMissing
  <1>4. CASE HitInput(p) \/ HitContent(p)
    <2> DEFINE e == disk[CurFile(p)].body
               q == [run[p] EXCEPT !.eval = e]
               r == [run[p] EXCEPT !.eval = e, !.level = "by-input"]
    <2>1. e.facts \in Twins(run[p].shape, run[p].commit)
      <3>1. pc[p] \in Keyed /\ CurFile(p) \in DOMAIN disk /\ e # Torn
        BY <1>4 DEF HitInput, HitContent, Keyed
      <3> QED  BY <3>1, KeysLeadToTwins DEF TwinInv, EntriesAreOfTwins
    <2>2. \/ pc' = [pc EXCEPT ![p] = "done"] /\ run' = [run EXCEPT ![p] = q]
          \/ pc' = [pc EXCEPT ![p] = "write"] /\ run' = [run EXCEPT ![p] = r]
      BY <1>4, Zenon DEF HitInput, HitContent
    <2> HIDE DEF e
    <2>3. TwinAt("done", q) /\ TwinAt("write", r)
      BY <1>1, <2>1 DEF TwinAt, Runs
    <2> HIDE DEF q, r
    <2> QED  BY <2>2, <2>3, OneTwin
  <1> QED  BY <1>2, <1>3, <1>4 DEF Lookup

LEMMA StoreTwins ==
    ASSUME TypeInv, TwinInv, NEW p \in Procs, Store(p)
    PROVE  ProcsHoldTwins'
  <1>1. run[p] \in Runs
    BY DEF TypeInv, TypeOK
  <1>2. CASE SkipSweep(p)
    <2> DEFINE r == [run[p] EXCEPT !.swept = TRUE]
    <2>1. pc' = [pc EXCEPT ![p] = "write"] /\ run' = [run EXCEPT ![p] = r]
      BY <1>2 DEF SkipSweep, TypeInv, TypeOK
    <2>2. TwinAt("write", r)
      BY <1>1, <1>2, CarryTwin DEF SkipSweep, Holding, Runs
    <2> HIDE DEF r
    <2> QED  BY <2>1, <2>2, OneTwin
  <1>3. CASE BeginSweep(p)
    <2> DEFINE V == {f \in DOMAIN disk : Expired(f)} \cup OrphanTmps
               r == [run[p] EXCEPT !.swept = TRUE, !.victims = V]
    <2>1. pc' = [pc EXCEPT ![p] = "sweep"] /\ run' = [run EXCEPT ![p] = r]
      BY <1>3, Zenon DEF BeginSweep
    <2>2. pc[p] = "write" /\ V \in SUBSET (Files \cup Tmps)
      BY <1>3 DEF BeginSweep, TypeInv, TypeOK, OrphanTmps
    <2> HIDE DEF V
    <2>3. r.eval = run[p].eval /\ r.shape = run[p].shape /\ r.commit = run[p].commit
      BY <1>1, <2>2 DEF Runs
    <2> HIDE DEF r
    <2>4. TwinAt("sweep", r)
      BY <2>2, <2>3, CarryTwin DEF Holding
    <2> QED  BY <2>1, <2>4, OneTwin
  <1>4. CASE SweepOne(p)
    <2>1. PICK v : run' = [run EXCEPT ![p].victims = @ \ {v}]
      BY <1>4 DEF SweepOne
    <2> DEFINE W == run[p].victims \ {v}
               r == [run[p] EXCEPT !.victims = W]
    <2>2. run' = [run EXCEPT ![p] = r]
      BY <2>1, Zenon
    <2> HIDE DEF W
    <2>3. TwinAt("sweep", r) /\ pc' = [pc EXCEPT ![p] = "sweep"]
      BY <1>1, <1>4, CarryTwin DEF SweepOne, Holding, Runs, TypeInv, TypeOK
    <2> HIDE DEF r
    <2> QED  BY <2>2, <2>3, OneTwin
  <1>5. CASE EndSweep(p) \/ CreateTmp(p)
    BY <1>5, MoveTwin DEF EndSweep, CreateTmp, Holding
  <1>6. CASE Publish(p) \/ PublishSwept(p) \/ WriteFails(p)
    BY <1>6, LevelTwin DEF Publish, PublishSwept, WriteFails
  <1> QED  BY <1>2, <1>3, <1>4, <1>5, <1>6 DEF Store

\* What is published is what the process holds for the twins of its pair.
LEMMA DiskTwins ==
    ASSUME TypeInv, TwinInv, [Next]_vars
    PROVE  EntriesAreOfTwins'
  <1>1. ASSUME \A f \in DOMAIN disk' :
                 f \in DOMAIN disk /\ (disk'[f].body = disk[f].body \/ disk'[f].body = Torn)
        PROVE  EntriesAreOfTwins'
    BY <1>1 DEF TwinInv, EntriesAreOfTwins
  <1>2. ASSUME NEW p \in Procs, Publish(p)
        PROVE  EntriesAreOfTwins'
    <2> DEFINE e == [body |-> run[p].eval, mtime |-> clock]
    <2>1. run[p].eval.facts \in TwinsOf(CurFile(p))
      BY <1>2, KeysLeadToTwins DEF Publish, Keyed, Holding, TwinInv, ProcsHoldTwins, TwinAt
    <2>2. disk' = Published(CurFile(p), e) /\ e.body = run[p].eval
      BY <1>2 DEF Publish
    <2> HIDE DEF e
    <2>3. ASSUME NEW f \in DOMAIN disk', disk'[f].body # Torn
          PROVE  disk'[f].body.facts \in TwinsOf(f)
      BY <2>1, <2>2, <2>3 DEF Published, TwinInv, EntriesAreOfTwins
    <2> QED  BY <2>3 DEF EntriesAreOfTwins
  <1>3. ASSUME UNCHANGED disk \/ \E F : disk' = Without(F)
        PROVE  EntriesAreOfTwins'
    BY <1>1, <1>3 DEF Without
  <1>4. CASE PowerLoss
    <2>1. PICK lost \in SUBSET {f \in DOMAIN disk : disk[f].mtime = clock} :
            disk' = [f \in DOMAIN disk |->
                       IF f \in lost THEN [disk[f] EXCEPT !.body = Torn] ELSE disk[f]]
      BY <1>4 DEF PowerLoss
    <2>2. \A e \in Entries : [e EXCEPT !.body = Torn].body = Torn
      BY DEF Entries
    <2>3. ASSUME NEW f \in DOMAIN disk'
          PROVE  f \in DOMAIN disk /\ (disk'[f].body = disk[f].body \/ disk'[f].body = Torn)
      <3>1. f \in DOMAIN disk /\ disk[f] \in Entries
        BY <2>1, <2>3 DEF TypeInv, TypeOK
      <3>2. CASE f \in lost
        BY <2>1, <2>2, <3>1, <3>2, Zenon
      <3>3. CASE f \notin lost
        BY <2>1, <3>1, <3>3, Zenon
      <3> QED  BY <3>1, <3>2, <3>3
    <2> QED  BY <1>1, <2>3
  <1>5. ASSUME NEW p \in Procs, Session(p) \/ Pair(p)
        PROVE  UNCHANGED disk
    BY <1>5 DEF Session, Pair, LoadConfig, OpenSession, OpenDisabledSession,
       Exit, Die, BeginPair, BeginUncached, Evaluate, EvaluateUncached,
       FinishPair, disks
  <1>6. ASSUME NEW p \in Procs, Lookup(p) \/ (Store(p) /\ ~Publish(p))
        PROVE  UNCHANGED disk \/ \E F : disk' = Without(F)
    BY <1>6 DEF Lookup, StatEntry, RemoveEntry, ReadMissing, ReadTorn, HitInput,
       HitContent, Store, SkipSweep, BeginSweep, SweepOne, EndSweep, CreateTmp,
       PublishSwept, WriteFails, disks
  <1>7. CacheVerbs => UNCHANGED disk \/ \E F : disk' = Without(F)
    BY DEF CacheVerbs, EvictCommit, EvictKeys, Prune, Clear, RemoveScanned,
       VerbFails, ScanFor, disks
  <1>8. EditConfig \/ RegenerateSnapshot \/ Tick \/ UNCHANGED vars => UNCHANGED disk
    BY DEF EditConfig, RegenerateSnapshot, Tick, disks, vars
  <1> QED  BY <1>2, <1>3, <1>4, <1>5, <1>6, <1>7, <1>8 DEF Next

LEMMA TwinStep ==
    ASSUME TypeInv, TwinInv, [Next]_vars
    PROVE  TwinInv'
  <1>1. ASSUME UNCHANGED <<pc, run>> PROVE ProcsHoldTwins'
    BY <1>1 DEF TwinInv, ProcsHoldTwins
  <1>2. CacheVerbs \/ EditConfig \/ RegenerateSnapshot \/ Tick \/ UNCHANGED vars
          => UNCHANGED <<pc, run>>
    BY DEF CacheVerbs, EvictCommit, EvictKeys, Prune, Clear, RemoveScanned,
       VerbFails, ScanFor, EditConfig, RegenerateSnapshot, Tick, vars
  <1>3. PowerLoss => ProcsHoldTwins'
    BY DEF PowerLoss, ProcsHoldTwins, TwinAt, Holding
  <1>4. ProcsHoldTwins'
    BY <1>1, <1>2, <1>3, SessionTwins, PairTwins, LookupTwins, StoreTwins DEF Next
  <1> QED  BY <1>4, DiskTwins DEF TwinInv

\* Through either level, any number of aliases, sweeps, evictions and edits of
\* the inputs: what a pair is answered with was read at its own commit, or at
\* another with the same patch and, of those the mirror resolver reproduces,
\* the same macro environment.
AnswersAreOfTwins ==
    \A p \in Procs : pc[p] = "done" =>
        run[p].eval.facts \in Twins(run[p].shape, run[p].commit)

THEOREM OnlyTwinsAnswer == Spec => []AnswersAreOfTwins
  <1>1. Init => TwinInv
    BY DEF Init, TwinInv, EntriesAreOfTwins, ProcsHoldTwins, TwinAt, Holding
  <1>2. TypeInv /\ TwinInv /\ [Next]_vars => TwinInv'
    BY TwinStep
  <1>3. TwinInv => AnswersAreOfTwins
    BY DEF TwinInv, ProcsHoldTwins, TwinAt, Holding, AnswersAreOfTwins
  <1> QED  BY <1>1, <1>2, <1>3, TypeInvariant, PTL DEF Spec

\* So a hit renders as a fresh run would wherever no two commits carry one
\* patch in one macro environment: the disagreement with the README is about
\* cherry-picks alone.
THEOREM OnlyPicksMislead ==
    ASSUME \A c, d \in Commits :
             PatchOf[c] = PatchOf[d] /\ MacroKey("check", c) = MacroKey("check", d) => c = d
    PROVE  Spec => []HitsRenderAsFreshRuns
  <1>1. TypeInv /\ AnswersAreOfTwins => HitsRenderAsFreshRuns
    <2> SUFFICES ASSUME TypeInv, AnswersAreOfTwins, NEW p \in Procs, pc[p] = "done"
                 PROVE  run[p].eval.facts = FreshFacts(run[p].shape, run[p].commit)
      BY DEF HitsRenderAsFreshRuns
    <2>1. run[p].shape \in {"check", "bisect"} /\ run[p].commit \in Commits
      BY BoundAssumption DEF TypeInv, Located, LocatedAt, Idle
    <2>2. run[p].eval.facts \in Twins(run[p].shape, run[p].commit)
      BY DEF AnswersAreOfTwins
    <2> QED  BY <2>1, <2>2 DEF Twins, FreshFacts
  <1> QED  BY <1>1, OnlyTwinsAnswer, TypeInvariant, PTL

-----------------------------------------------------------------------------
(* What entries and answers are worth while the inputs do not change within *)
(* a run; and that the cache is invisible then: with it, several processes  *)
(* that share one cache directory behave as the oracle of VerdictOracle     *)
(* does, which has no cache.  Begin asks, the step that ends a lookup or an *)
(* evaluation answers, finishing and dying forget; everything else is a     *)
(* stutter.                                                                 *)

\* How the locals r of a process at program counter a relate to the present
\* configuration g and snapshots n: what it hashed and what it parsed agree
\* with them and hence with each other, and so does what it holds.
SoundAt(a, r, g, n) ==
    /\ a = "off" => r.keyCfg = None /\ r.keySnap = None /\ r.memo = None
    /\ a # "off" => r.cfg = g
    /\ r.keyCfg \in {None, g} /\ r.keySnap \in {None, n} /\ r.memo \in {None, n}
    /\ a \in Holding => r.eval.verdict = FreshVerdict(r.shape, r.commit, g, n)

ProcsSound == \A p \in Procs : SoundAt(pc[p], run[p], config, snap)

SoundInv == TypeInv /\ EntriesDenoteTheirKey /\ ProcsSound

-----------------------------------------------------------------------------
(* Lemmas.                                                                 *)

\* A key of either level stands for the verdict computed from what it hashes.
LEMMA KeysDenote ==
    ASSUME NEW s \in Shapes, NEW c \in Commits,
           NEW g \in Configs, NEW n \in Snaps
    PROVE  /\ Denotes(InputKey(s, c, g, n)) = FreshVerdict(s, c, g, n)
           /\ Denotes(ContentKey(s, c, g, n)) = FreshVerdict(s, c, g, n)
  <1>1. Denotes(InputKey(s, c, g, n)) = FreshVerdict(s, c, g, n)
    BY DEF Denotes, InputKey
  <1>2. CASE MacroKey(s, c).kind = "unused" \/ s = "bisect"
    <2>1. s = "bisect" /\ MacroKey(s, c).kind = "unused"
      BY <1>2 DEF MacroKey
    <2> QED  BY <1>1, <2>1 DEF Denotes, ContentKey, FreshVerdict, EnvRead
  <1>3. CASE s # "bisect" /\ c \in Mirrorable
    <2>1. MacroKey(s, c).kind = "resolved" /\ MacroKey(s, c).of = EnvOf[c]
      BY <1>3 DEF MacroKey
    <2> QED  BY <1>1, <1>3, <2>1 DEF Denotes, ContentKey, FreshVerdict, EnvRead
  <1>4. CASE s # "bisect" /\ c \notin Mirrorable
    <2>1. MacroKey(s, c).kind = "opaque" /\ MacroKey(s, c).of = c
      BY <1>4 DEF MacroKey
    <2> QED  BY <1>1, <1>4, <2>1 DEF Denotes, ContentKey, FreshVerdict, EnvRead
  <1> QED  BY <1>1, <1>2, <1>3, <1>4

\* The file a keyed process works on stands for today's verdict of its pair.
LEMMA CurFileDenotes ==
    ASSUME SoundInv, NEW p \in Procs, pc[p] \in Keyed
    PROVE  Denotes(CurFile(p))
             = FreshVerdict(run[p].shape, run[p].commit, config, snap)
  <1>1. /\ run[p].shape \in Shapes /\ run[p].commit \in Commits
        /\ run[p].keyCfg \in Configs /\ run[p].keySnap \in Snaps
    BY DEF SoundInv, TypeInv, Located, LocatedAt, Keyed, Idle
  <1>2. run[p].keyCfg = config /\ run[p].keySnap = snap
    BY <1>1, NoneAssumption DEF SoundInv, ProcsSound, SoundAt
  <1> QED  BY <1>1, <1>2, KeysDenote DEF CurFile

\* A step of one process that changes no input keeps the others sound.
LEMMA OneSound ==
    ASSUME SoundInv, NEW p \in Procs, NEW a, NEW r,
           SoundAt(a, r, config, snap),
           pc' = [pc EXCEPT ![p] = a], run' = [run EXCEPT ![p] = r],
           UNCHANGED <<config, snap>>
    PROVE  ProcsSound'
  <1>1. pc \in [Procs -> PCs] /\ run \in [Procs -> Runs]
    BY DEF SoundInv, TypeInv, TypeOK
  <1>2. ASSUME NEW q \in Procs
        PROVE  SoundAt(pc'[q], run'[q], config, snap)
    BY <1>1 DEF SoundInv, ProcsSound
  <1> QED  BY <1>2 DEF ProcsSound

\* Deleting names leaves the other entries as they were.
LEMMA WithoutSound ==
    ASSUME EntriesDenoteTheirKey, NEW F, disk' = Without(F)
    PROVE  EntriesDenoteTheirKey'
  BY DEF EntriesDenoteTheirKey, Without, Denotes, FreshVerdict, EnvRead

\* A process that has left is sound whatever the inputs are.
LEMMA NoRunSound ==
    ASSUME NEW g, NEW n
    PROVE  SoundAt("off", NoRun, g, n)
  BY DEF SoundAt, NoRun, Holding

\* Unless the directory changes, its entries stay what they were.
LEMMA SameDiskSound ==
    ASSUME EntriesDenoteTheirKey, UNCHANGED disk
    PROVE  EntriesDenoteTheirKey'
  BY DEF EntriesDenoteTheirKey, Denotes, FreshVerdict, EnvRead

\* What a process holds stays sound when a step touches neither its inputs,
\* nor its pair, nor its evaluation.
LEMMA CarrySound ==
    ASSUME SoundInv, NEW p \in Procs, NEW a, NEW r,
           pc[p] # "off", a # "off", a \in Holding => pc[p] \in Holding,
           r.cfg = run[p].cfg, r.keyCfg = run[p].keyCfg,
           r.keySnap = run[p].keySnap, r.memo = run[p].memo,
           r.shape = run[p].shape, r.commit = run[p].commit,
           r.eval = run[p].eval
    PROVE  SoundAt(a, r, config, snap)
  BY DEF SoundInv, ProcsSound, SoundAt

\* A process that only moves on, its locals unchanged.
LEMMA MoveSound ==
    ASSUME SoundInv, NEW p \in Procs, NEW a,
           pc[p] # "off", a # "off", a \in Holding => pc[p] \in Holding,
           pc' = [pc EXCEPT ![p] = a], UNCHANGED <<run, config, snap>>
    PROVE  ProcsSound'
  <1>1. SoundAt(a, run[p], config, snap)
    BY CarrySound
  <1>2. run' = [run EXCEPT ![p] = run[p]]
    BY DEF SoundInv, TypeInv, TypeOK
  <1>3. pc' = [pc EXCEPT ![p] = a] /\ UNCHANGED <<config, snap>>
    OBVIOUS
  <1> QED  BY <1>1, <1>2, <1>3, OneSound

LEMMA MissSound ==
    ASSUME SoundInv, NEW p \in Procs, pc[p] \in {"remove", "read"},
           MissStep(p), UNCHANGED <<config, snap>>
    PROVE  ProcsSound'
  <1>1. CASE run[p].level = "by-input"
    <2> DEFINE r == [run[p] EXCEPT !.level = "by-content"]
    <2>1. run[p] \in Runs
      BY DEF SoundInv, TypeInv, TypeOK
    <2>2. SoundAt("stat", r, config, snap)
      BY <2>1, CarrySound DEF Holding, Runs
    <2>3. pc' = [pc EXCEPT ![p] = "stat"] /\ run' = [run EXCEPT ![p] = r]
      BY <1>1, Zenon DEF MissStep
    <2> HIDE DEF r
    <2> QED  BY <2>2, <2>3, OneSound
  <1>2. CASE run[p].level # "by-input"
    BY <1>2, MoveSound DEF MissStep, Holding
  <1> QED  BY <1>1, <1>2

LEMMA WrittenSound ==
    ASSUME SoundInv, NEW p \in Procs, pc[p] = "publish",
           WrittenStep(p), UNCHANGED <<config, snap>>
    PROVE  ProcsSound'
  <1>1. CASE run[p].level = "by-content"
    <2> DEFINE r == [run[p] EXCEPT !.level = "by-input"]
    <2>1. run[p] \in Runs
      BY DEF SoundInv, TypeInv, TypeOK
    <2>2. SoundAt("write", r, config, snap)
      BY <2>1, CarrySound DEF Holding, Runs
    <2>3. pc' = [pc EXCEPT ![p] = "write"] /\ run' = [run EXCEPT ![p] = r]
      BY <1>1, Zenon DEF WrittenStep
    <2> HIDE DEF r
    <2> QED  BY <2>2, <2>3, OneSound
  <1>2. CASE run[p].level # "by-content"
    BY <1>2, MoveSound DEF WrittenStep, Holding
  <1> QED  BY <1>1, <1>2

-----------------------------------------------------------------------------
(* The steps.                                                              *)

LEMMA SessionSound ==
    ASSUME SoundInv, NEW p \in Procs, Session(p)
    PROVE  EntriesDenoteTheirKey' /\ ProcsSound'
  <1>1. run[p] \in Runs /\ SoundAt(pc[p], run[p], config, snap)
    BY DEF SoundInv, TypeInv, TypeOK, ProcsSound
  <1>2. EntriesDenoteTheirKey' /\ UNCHANGED <<config, snap>>
    BY SameDiskSound DEF SoundInv, Session, LoadConfig, OpenSession,
       OpenDisabledSession, Exit, Die, world, disks
  <1>3. CASE LoadConfig(p)
    <2> DEFINE r == [NoRun EXCEPT !.cfg = config]
    <2>1. SoundAt("parsed", r, config, snap)
      BY DEF SoundAt, NoRun, Holding
    <2> HIDE DEF r
    <2> QED  BY <1>2, <1>3, <2>1, OneSound DEF LoadConfig, r
  <1>4. CASE OpenSession(p)
    <2> DEFINE r == [run[p] EXCEPT !.keyCfg = config]
    <2>1. pc' = [pc EXCEPT ![p] = "ready"] /\ run' = [run EXCEPT ![p] = r]
      BY <1>4, Zenon DEF OpenSession
    <2>2. pc[p] = "parsed"
      BY <1>4 DEF OpenSession
    <2>3. SoundAt("ready", r, config, snap)
      BY <1>1, <2>2 DEF SoundAt, Runs, Holding
    <2> HIDE DEF r
    <2> QED  BY <1>2, <2>1, <2>3, OneSound
  <1>5. CASE OpenDisabledSession(p)
    BY <1>2, <1>5, MoveSound DEF OpenDisabledSession, Holding
  <1>6. CASE Exit(p)
    BY <1>2, <1>6, NoRunSound, OneSound DEF Exit
  <1>7. CASE Die(p)
    BY <1>2, <1>7, NoRunSound, OneSound DEF Die
  <1> QED  BY <1>2, <1>3, <1>4, <1>5, <1>6, <1>7 DEF Session

LEMMA PairSound ==
    ASSUME SoundInv, NEW p \in Procs, Pair(p)
    PROVE  EntriesDenoteTheirKey' /\ ProcsSound'
  <1>1. /\ run[p] \in Runs /\ SoundAt(pc[p], run[p], config, snap)
        /\ snap \in Snaps /\ config \in Configs
    BY DEF SoundInv, TypeInv, TypeOK, ProcsSound
  <1>2. EntriesDenoteTheirKey' /\ UNCHANGED <<config, snap>>
    BY SameDiskSound DEF SoundInv, Pair, BeginPair, BeginUncached, Evaluate,
       EvaluateUncached, FinishPair, world, disks
  <1>3. ASSUME NEW s \in Shapes, NEW c \in Commits, BeginPair(p, s, c)
        PROVE  ProcsSound'
    <2> DEFINE k == IF run[p].keySnap = None THEN snap ELSE run[p].keySnap
               r == [run[p] EXCEPT !.shape = s, !.commit = c, !.level = "by-input",
                                   !.keySnap = k, !.started = clock]
    <2>1. pc' = [pc EXCEPT ![p] = "stat"] /\ run' = [run EXCEPT ![p] = r]
      BY <1>3, Zenon DEF BeginPair
    <2>2. pc[p] = "ready" /\ k = snap
      BY <1>1, <1>3 DEF BeginPair, SoundAt
    <2> HIDE DEF k
    <2>3. SoundAt("stat", r, config, snap)
      BY <1>1, <2>2 DEF SoundAt, Runs, Holding
    <2> HIDE DEF r
    <2> QED  BY <1>2, <2>1, <2>3, OneSound
  <1>4. ASSUME NEW s \in Shapes, NEW c \in Commits, BeginUncached(p, s, c)
        PROVE  ProcsSound'
    <2> DEFINE r == [run[p] EXCEPT !.shape = s, !.commit = c, !.started = clock]
    <2>1. pc' = [pc EXCEPT ![p] = "uncached"] /\ run' = [run EXCEPT ![p] = r]
      BY <1>4, Zenon DEF BeginUncached
    <2>2. pc[p] = "ready"
      BY <1>4 DEF BeginUncached
    <2>3. SoundAt("uncached", r, config, snap)
      BY <1>1, <2>2 DEF SoundAt, Runs, Holding
    <2> HIDE DEF r
    <2> QED  BY <1>2, <2>1, <2>3, OneSound
  <1>5. ASSUME NEW a \in {"write", "done"}, pc[p] \in {"evaluate", "uncached"},
               pc' = [pc EXCEPT ![p] = a],
               run' = [run EXCEPT ![p] = Evaluated(p)]
        PROVE  ProcsSound'
    <2>1. PICK n \in Snaps, e \in Evaluations :
              /\ n = IF run[p].memo = None THEN snap ELSE run[p].memo
              /\ e.verdict = FreshVerdict(run[p].shape, run[p].commit, run[p].cfg, n)
              /\ Evaluated(p) = [run[p] EXCEPT !.memo = n, !.eval = e]
      BY <1>5, EvaluatedType DEF SoundInv, Idle
    <2>2. n = snap /\ run[p].cfg = config
      BY <1>1, <1>5, <2>1 DEF SoundAt
    <2> DEFINE r == Evaluated(p)
    <2>3. SoundAt(a, r, config, snap)
      BY <1>1, <1>5, <2>1, <2>2 DEF SoundAt, Runs
    <2> HIDE DEF r
    <2> QED  BY <1>2, <1>5, <2>3, OneSound DEF r
  <1>6. CASE Evaluate(p)
    BY <1>2, <1>5, <1>6 DEF Evaluate
  <1>7. CASE EvaluateUncached(p)
    BY <1>2, <1>5, <1>7 DEF EvaluateUncached
  <1>8. CASE FinishPair(p)
    <2> DEFINE r == [run[p] EXCEPT !.shape = None, !.commit = None, !.level = None,
                                   !.eval = None, !.started = 0]
    <2>1. pc' = [pc EXCEPT ![p] = "ready"] /\ run' = [run EXCEPT ![p] = r]
      BY <1>8, Zenon DEF FinishPair
    <2>2. pc[p] = "done"
      BY <1>8 DEF FinishPair
    <2>3. SoundAt("ready", r, config, snap)
      BY <1>1, <2>2 DEF SoundAt, Runs, Holding
    <2> HIDE DEF r
    <2> QED  BY <1>2, <2>1, <2>3, OneSound
  <1> QED  BY <1>2, <1>3, <1>4, <1>6, <1>7, <1>8 DEF Pair

LEMMA LookupSound ==
    ASSUME SoundInv, NEW p \in Procs, Lookup(p)
    PROVE  EntriesDenoteTheirKey' /\ ProcsSound'
  <1>1. run[p] \in Runs /\ SoundAt(pc[p], run[p], config, snap)
    BY DEF SoundInv, TypeInv, TypeOK, ProcsSound
  <1>2. UNCHANGED <<config, snap>>
    BY DEF Lookup, StatEntry, RemoveEntry, ReadMissing, ReadTorn, HitInput,
       HitContent, world
  <1>3. CASE StatEntry(p)
    BY <1>2, <1>3, MoveSound, SameDiskSound
       DEF StatEntry, Holding, SoundInv, disks
  <1>4. CASE RemoveEntry(p)
    BY <1>2, <1>4, MissSound, WithoutSound DEF RemoveEntry, SoundInv
  <1>5. CASE ReadMissing(p)
    BY <1>2, <1>5, MissSound, SameDiskSound DEF ReadMissing, SoundInv, disks
  <1>6. CASE ReadTorn(p)
    BY <1>2, <1>6, MoveSound, SameDiskSound DEF ReadTorn, Holding, SoundInv, disks
  <1>7. ASSUME pc[p] = "read", CurFile(p) \in DOMAIN disk,
               disk[CurFile(p)].body # Torn
        PROVE  disk[CurFile(p)].body.verdict
                 = FreshVerdict(run[p].shape, run[p].commit, config, snap)
    BY <1>7, CurFileDenotes DEF SoundInv, EntriesDenoteTheirKey, Keyed
  <1>8. CASE HitInput(p)
    <2> DEFINE e == disk[CurFile(p)].body
               r == [run[p] EXCEPT !.eval = e]
    <2>1. pc[p] = "read"
          /\ e.verdict = FreshVerdict(run[p].shape, run[p].commit, config, snap)
      BY <1>7, <1>8 DEF HitInput
    <2>2. pc' = [pc EXCEPT ![p] = "done"] /\ run' = [run EXCEPT ![p] = r]
      BY <1>8, Zenon DEF HitInput
    <2> HIDE DEF e
    <2>3. SoundAt("done", r, config, snap)
      BY <1>1, <2>1 DEF SoundAt, Runs, Holding
    <2> HIDE DEF r
    <2>4. ProcsSound'
      BY <1>2, <2>2, <2>3, OneSound
    <2> QED  BY <1>8, <2>4, SameDiskSound DEF HitInput, SoundInv, disks
  <1>9. CASE HitContent(p)
    <2> DEFINE e == disk[CurFile(p)].body
               r == [run[p] EXCEPT !.eval = e, !.level = "by-input"]
    <2>1. pc[p] = "read"
          /\ e.verdict = FreshVerdict(run[p].shape, run[p].commit, config, snap)
      BY <1>7, <1>9 DEF HitContent
    <2>2. pc' = [pc EXCEPT ![p] = "write"] /\ run' = [run EXCEPT ![p] = r]
      BY <1>9, Zenon DEF HitContent
    <2> HIDE DEF e
    <2>3. SoundAt("write", r, config, snap)
      BY <1>1, <2>1 DEF SoundAt, Runs, Holding
    <2> HIDE DEF r
    <2>4. ProcsSound'
      BY <1>2, <2>2, <2>3, OneSound
    <2> QED  BY <1>9, <2>4, SameDiskSound DEF HitContent, SoundInv, disks
  <1> QED
    BY <1>3, <1>4, <1>5, <1>6, <1>8, <1>9 DEF Lookup

LEMMA StoreSound ==
    ASSUME SoundInv, NEW p \in Procs, Store(p)
    PROVE  EntriesDenoteTheirKey' /\ ProcsSound'
  <1>1. run[p] \in Runs /\ SoundAt(pc[p], run[p], config, snap)
    BY DEF SoundInv, TypeInv, TypeOK, ProcsSound
  <1>2. UNCHANGED <<config, snap>>
    BY DEF Store, SkipSweep, BeginSweep, SweepOne, EndSweep, CreateTmp, Publish,
       PublishSwept, WriteFails, world
  <1>3. CASE SkipSweep(p)
    <2> DEFINE r == [run[p] EXCEPT !.swept = TRUE]
    <2>1. run' = [run EXCEPT ![p] = r]
      BY <1>3, Zenon DEF SkipSweep
    <2>2. pc[p] = "write" /\ pc' = [pc EXCEPT ![p] = "write"]
      BY <1>3 DEF SkipSweep, SoundInv, TypeInv, TypeOK
    <2>3. SoundAt("write", r, config, snap)
      BY <1>1, <2>2, CarrySound DEF Runs
    <2> HIDE DEF r
    <2>4. ProcsSound'
      BY <1>2, <2>1, <2>2, <2>3, OneSound
    <2> QED  BY <1>3, <2>4, SameDiskSound DEF SkipSweep, SoundInv, disks
  <1>4. CASE BeginSweep(p)
    <2> DEFINE V == {f \in DOMAIN disk : Expired(f)} \cup OrphanTmps
               r == [run[p] EXCEPT !.swept = TRUE, !.victims = V]
    <2>1. pc' = [pc EXCEPT ![p] = "sweep"] /\ run' = [run EXCEPT ![p] = r]
      BY <1>4, Zenon DEF BeginSweep
    <2>2. pc[p] = "write"
      BY <1>4 DEF BeginSweep
    <2> HIDE DEF V
    <2>3. SoundAt("sweep", r, config, snap)
      BY <1>1, <2>2, CarrySound DEF Runs, Holding
    <2> HIDE DEF r
    <2>4. ProcsSound'
      BY <1>2, <2>1, <2>2, <2>3, OneSound
    <2> QED  BY <1>4, <2>4, SameDiskSound DEF BeginSweep, SoundInv, disks
  <1>5. CASE SweepOne(p)
    <2>1. PICK v \in run[p].victims :
            /\ disk' = Without({v})
            /\ run' = [run EXCEPT ![p].victims = @ \ {v}]
      BY <1>5 DEF SweepOne
    <2> DEFINE W == run[p].victims \ {v}
               r == [run[p] EXCEPT !.victims = W]
    <2>2. run' = [run EXCEPT ![p] = r]
      BY <2>1, Zenon
    <2>3. pc[p] = "sweep" /\ pc' = [pc EXCEPT ![p] = "sweep"]
      BY <1>5 DEF SweepOne, SoundInv, TypeInv, TypeOK
    <2> HIDE DEF W
    <2>4. SoundAt("sweep", r, config, snap)
      BY <1>1, <2>3, CarrySound DEF Runs
    <2> HIDE DEF r
    <2>5. ProcsSound'
      BY <1>2, <2>2, <2>3, <2>4, OneSound
    <2> QED  BY <2>1, <2>5, WithoutSound DEF SoundInv
  <1>6. CASE EndSweep(p)
    BY <1>2, <1>6, MoveSound, SameDiskSound DEF EndSweep, SoundInv, Holding
  <1>7. CASE CreateTmp(p)
    BY <1>2, <1>7, MoveSound, SameDiskSound DEF CreateTmp, SoundInv, Holding
  <1>8. CASE Publish(p)
    <2>1. run[p].eval.verdict = Denotes(CurFile(p))
      BY <1>1, <1>8, CurFileDenotes DEF Publish, Keyed, SoundAt, Holding
    <2>2. disk' = Published(CurFile(p), [body |-> run[p].eval, mtime |-> clock])
      BY <1>8 DEF Publish
    <2> DEFINE e == [body |-> run[p].eval, mtime |-> clock]
    <2>3. e.body = run[p].eval
      OBVIOUS
    <2> HIDE DEF e
    <2>4. ASSUME NEW f \in DOMAIN disk'
          PROVE  disk'[f] = IF f = CurFile(p) THEN e ELSE disk[f]
      BY <2>2, <2>4 DEF Published, e
    <2>5. \A f \in DOMAIN disk' : f # CurFile(p) => f \in DOMAIN disk
      BY <2>2 DEF Published
    <2>6. EntriesDenoteTheirKey'
      BY <2>1, <2>3, <2>4, <2>5
         DEF SoundInv, EntriesDenoteTheirKey, Denotes, FreshVerdict, EnvRead
    <2> QED  BY <1>2, <1>8, <2>6, WrittenSound DEF Publish
  <1>9. CASE PublishSwept(p)
    BY <1>2, <1>9, WrittenSound, SameDiskSound DEF PublishSwept, SoundInv, disks
  <1>10. CASE WriteFails(p)
    BY <1>2, <1>10, WrittenSound, SameDiskSound DEF WriteFails, SoundInv, disks
  <1> QED
    BY <1>3, <1>4, <1>5, <1>6, <1>7, <1>8, <1>9, <1>10 DEF Store

LEMMA VerbsSound ==
    ASSUME SoundInv, CacheVerbs
    PROVE  EntriesDenoteTheirKey' /\ ProcsSound'
  <1>1. UNCHANGED <<config, snap, pc, run>>
    BY DEF CacheVerbs, EvictCommit, EvictKeys, Prune, Clear, RemoveScanned,
       VerbFails, ScanFor, world
  <1>2. ASSUME RemoveScanned PROVE EntriesDenoteTheirKey'
    BY <1>2, WithoutSound DEF RemoveScanned, SoundInv
  <1>3. ASSUME UNCHANGED disk PROVE EntriesDenoteTheirKey'
    BY <1>3, SameDiskSound DEF SoundInv
  <1>4. RemoveScanned \/ UNCHANGED disk
    BY DEF CacheVerbs, EvictCommit, EvictKeys, Prune, Clear, VerbFails, ScanFor, disks
  <1>5. ProcsSound'
    BY <1>1 DEF SoundInv, ProcsSound
  <1> QED  BY <1>2, <1>3, <1>4, <1>5

\* Where the assumption is needed: an input changes only when every process
\* has left, and a process that has left holds nothing.
LEMMA EnvironmentSound ==
    ASSUME ~EditsDuringRuns, SoundInv,
           EditConfig \/ RegenerateSnapshot \/ Tick \/ PowerLoss
    PROVE  EntriesDenoteTheirKey' /\ ProcsSound'
  <1>1. CASE EditConfig \/ RegenerateSnapshot
    <2>1. \A p \in Procs : pc[p] = "off"
      BY <1>1 DEF EditConfig, RegenerateSnapshot, EditsAllowed
    <2>2. UNCHANGED <<pc, run, disk>>
      BY <1>1 DEF EditConfig, RegenerateSnapshot, disks
    <2>3. ProcsSound'
      BY <2>1, <2>2 DEF SoundInv, ProcsSound, SoundAt, Holding
    <2> QED  BY <2>2, <2>3, SameDiskSound DEF SoundInv
  <1>2. CASE Tick
    <2>1. UNCHANGED <<pc, run, disk, config, snap>>
      BY <1>2 DEF Tick, disks
    <2> QED  BY <2>1, SameDiskSound DEF SoundInv, ProcsSound
  <1>3. CASE PowerLoss
    <2>1. ProcsSound'
      BY <1>3, NoRunSound DEF PowerLoss, ProcsSound
    <2>2. PICK lost \in SUBSET {f \in DOMAIN disk : disk[f].mtime = clock} :
            disk' = [f \in DOMAIN disk |->
                       IF f \in lost THEN [disk[f] EXCEPT !.body = Torn] ELSE disk[f]]
      BY <1>3 DEF PowerLoss
    <2>3. ASSUME NEW e \in Entries
          PROVE  [e EXCEPT !.body = Torn].body = Torn
      BY DEF Entries
    <2>4. ASSUME NEW f \in DOMAIN disk', disk'[f].body # Torn
          PROVE  f \in DOMAIN disk /\ disk'[f] = disk[f]
      <3>1. f \in DOMAIN disk /\ disk[f] \in Entries
        BY <2>2, <2>4 DEF SoundInv, TypeInv, TypeOK
      <3>2. CASE f \in lost
        BY <2>2, <2>3, <2>4, <3>1, <3>2, Zenon
      <3>3. CASE f \notin lost
        BY <2>2, <3>1, <3>3, Zenon
      <3> QED  BY <3>2, <3>3
    <2>5. EntriesDenoteTheirKey'
      BY <2>4 DEF SoundInv, EntriesDenoteTheirKey, Denotes, FreshVerdict, EnvRead
    <2> QED  BY <2>1, <2>5
  <1> QED  BY <1>1, <1>2, <1>3

LEMMA SoundInit == Init => SoundInv
  <1> SUFFICES ASSUME Init PROVE SoundInv
    OBVIOUS
  <1>1. EntriesDenoteTheirKey
    BY DEF Init, EntriesDenoteTheirKey
  <1>2. ProcsSound
    BY NoRunSound DEF Init, ProcsSound
  <1> QED  BY <1>1, <1>2, TypeInit DEF SoundInv

LEMMA SoundStep ==
    ASSUME ~EditsDuringRuns
    PROVE  SoundInv /\ [Next]_vars => SoundInv'
  <1> SUFFICES ASSUME SoundInv, [Next]_vars
               PROVE  EntriesDenoteTheirKey' /\ ProcsSound'
    BY TypeStep DEF SoundInv
  <1>1. CASE UNCHANGED vars
    BY <1>1, SameDiskSound DEF vars, SoundInv, ProcsSound
  <1>2. ASSUME NEW p \in Procs, Session(p) \/ Pair(p) \/ Lookup(p) \/ Store(p)
        PROVE  EntriesDenoteTheirKey' /\ ProcsSound'
    BY <1>2, SessionSound, PairSound, LookupSound, StoreSound
  <1> QED  BY <1>1, <1>2, VerbsSound, EnvironmentSound DEF Next

-----------------------------------------------------------------------------
(* The theorems.                                                           *)

\* However many processes look up, alias, store, sweep and evict at once: no
\* entry ever holds anything but the verdict its name stands for.
THEOREM KeysAreSound ==
    ASSUME ~EditsDuringRuns
    PROVE  Spec => []EntriesDenoteTheirKey
  <1>1. SoundInv => EntriesDenoteTheirKey
    BY DEF SoundInv
  <1>2. SoundInv /\ [Next]_vars => SoundInv'
    BY SoundStep
  <1> QED  BY SoundInit, <1>1, <1>2, PTL DEF Spec

\* Every pair is answered as an evaluation from today's inputs would answer it.
THEOREM AnswersAreSound ==
    ASSUME ~EditsDuringRuns
    PROVE  Spec => []AnswersAreFresh
  <1>1. SoundInv => AnswersAreFresh
    BY DEF SoundInv, ProcsSound, SoundAt, Holding, AnswersAreFresh
  <1>2. SoundInv /\ [Next]_vars => SoundInv'
    BY SoundStep
  <1> QED  BY SoundInit, <1>1, <1>2, PTL DEF Spec

-----------------------------------------------------------------------------

\* The mapping, for one process at program counter a with locals r.
AskedAt(a) == a \notin {"off", "parsed", "ready"}

RequestAt(a, r, g, n) ==
    IF AskedAt(a)
    THEN [shape |-> r.shape, commit |-> r.commit, cfg |-> g, snap |-> n]
    ELSE None

ReplyAt(a, r) == IF a = "done" THEN r.eval.verdict ELSE None

Answers == [q \in Requests |-> FreshVerdict(q.shape, q.commit, q.cfg, q.snap)]

requests == [p \in Procs |-> RequestAt(pc[p], run[p], config, snap)]
replies  == [p \in Procs |-> ReplyAt(pc[p], run[p])]

\* The oracle's actions under the mapping, written out.
AskStep(p, q) ==
    /\ requests[p] = None
    /\ requests' = [requests EXCEPT ![p] = q]
    /\ replies' = replies

AnswerStep(p) ==
    /\ requests[p] # None /\ replies[p] = None
    /\ replies' = [replies EXCEPT ![p] = Answers[requests[p]]]
    /\ requests' = requests

ForgetStep(P) ==
    /\ requests' = [p \in Procs |-> IF p \in P THEN None ELSE requests[p]]
    /\ replies' = [p \in Procs |-> IF p \in P THEN None ELSE replies[p]]

OracleStep ==
    \/ \E p \in Procs, q \in Requests : AskStep(p, q)
    \/ \E p \in Procs : AnswerStep(p)
    \/ \E P \in SUBSET Procs : ForgetStep(P)
    \/ UNCHANGED <<requests, replies>>

-----------------------------------------------------------------------------
(* What is written out above is the oracle of CacheIsTransparent.          *)

LEMMA OracleNext == OracleStep => [Oracle!Next]_(Oracle!vars)
  BY DEF OracleStep, AskStep, AnswerStep, ForgetStep, Answers,
     requests, replies, RequestAt, ReplyAt, AskedAt, Asked,
     Oracle!Next, Oracle!vars, Oracle!Ask, Oracle!Answer, Oracle!Forget

LEMMA OracleInit == Init => Oracle!Init
  BY DEF Init, Oracle!Init, Asked

-----------------------------------------------------------------------------
(* How one process moves.                                                  *)

\* p moves to program counter a and locals r.  A pair it was asked about stays
\* the same until it is forgotten, and an answer that was given is final.
Moves(p, a, r) ==
    /\ pc' = [pc EXCEPT ![p] = a]
    /\ run' = [run EXCEPT ![p] = r]
    /\ AskedAt(pc[p]) /\ AskedAt(a) =>
         /\ r.shape = run[p].shape /\ r.commit = run[p].commit
         /\ pc[p] # "done"
    /\ ~AskedAt(pc[p]) => a # "done"

LEMMA SessionMoves ==
    ASSUME TypeInv, NEW p \in Procs, Session(p)
    PROVE  \E a, r : Moves(p, a, r)
  <1>1. CASE LoadConfig(p) \/ Exit(p) \/ Die(p)
    <2>1. PICK a, r : /\ a \in Idle
                      /\ pc' = [pc EXCEPT ![p] = a] /\ run' = [run EXCEPT ![p] = r]
      BY <1>1 DEF LoadConfig, Exit, Die, Idle
    <2> QED  BY <2>1 DEF Moves, AskedAt, Idle
  <1>2. CASE OpenSession(p)
    <2> DEFINE r == [run[p] EXCEPT !.keyCfg = config]
    <2>1. pc' = [pc EXCEPT ![p] = "ready"] /\ run' = [run EXCEPT ![p] = r]
      BY <1>2, Zenon DEF OpenSession
    <2> HIDE DEF r
    <2>2. Moves(p, "ready", r)
      BY <1>2, <2>1 DEF Moves, AskedAt, OpenSession
    <2> QED  BY <2>2
  <1>3. CASE OpenDisabledSession(p)
    <2>1. pc' = [pc EXCEPT ![p] = "ready"] /\ run' = [run EXCEPT ![p] = run[p]]
      BY <1>3 DEF OpenDisabledSession, TypeInv, TypeOK
    <2>2. Moves(p, "ready", run[p])
      BY <1>3, <2>1 DEF Moves, AskedAt, OpenDisabledSession
    <2> QED  BY <2>2
  <1> QED  BY <1>1, <1>2, <1>3 DEF Session

LEMMA PairMoves ==
    ASSUME TypeInv, NEW p \in Procs, Pair(p)
    PROVE  \E a, r : Moves(p, a, r)
  <1>1. run[p] \in Runs
    BY DEF TypeInv, TypeOK
  <1>2. ASSUME NEW s \in Shapes, NEW c \in Commits, BeginPair(p, s, c)
        PROVE  \E a, r : Moves(p, a, r)
    <2> DEFINE r == [run[p] EXCEPT !.shape = s, !.commit = c, !.level = "by-input",
                       !.keySnap = IF @ = None THEN snap ELSE @, !.started = clock]
    <2>1. pc' = [pc EXCEPT ![p] = "stat"] /\ run' = [run EXCEPT ![p] = r]
      BY <1>2, Zenon DEF BeginPair
    <2>2. pc[p] = "ready"
      BY <1>2 DEF BeginPair
    <2> HIDE DEF r
    <2>3. Moves(p, "stat", r)
      BY <2>1, <2>2 DEF Moves, AskedAt
    <2> QED  BY <2>3
  <1>3. ASSUME NEW s \in Shapes, NEW c \in Commits, BeginUncached(p, s, c)
        PROVE  \E a, r : Moves(p, a, r)
    <2> DEFINE r == [run[p] EXCEPT !.shape = s, !.commit = c, !.started = clock]
    <2>1. pc' = [pc EXCEPT ![p] = "uncached"] /\ run' = [run EXCEPT ![p] = r]
      BY <1>3, Zenon DEF BeginUncached
    <2>2. pc[p] = "ready"
      BY <1>3 DEF BeginUncached
    <2> HIDE DEF r
    <2>3. Moves(p, "uncached", r)
      BY <2>1, <2>2 DEF Moves, AskedAt
    <2> QED  BY <2>3
  <1>4. ASSUME pc[p] \in {"evaluate", "uncached"}, NEW a,
               pc' = [pc EXCEPT ![p] = a],
               run' = [run EXCEPT ![p] = Evaluated(p)]
        PROVE  \E b, r : Moves(p, b, r)
    <2>1. PICK n \in Snaps, e \in Evaluations :
              Evaluated(p) = [run[p] EXCEPT !.memo = n, !.eval = e]
      BY <1>4, EvaluatedType DEF Idle
    <2> DEFINE r == Evaluated(p)
    <2>2. r.shape = run[p].shape /\ r.commit = run[p].commit
      BY <1>1, <2>1 DEF Runs
    <2>3. AskedAt(pc[p]) /\ pc[p] # "done"
      BY <1>4 DEF AskedAt
    <2>4. pc' = [pc EXCEPT ![p] = a] /\ run' = [run EXCEPT ![p] = r]
      BY <1>4
    <2> HIDE DEF r
    <2> QED  BY <2>2, <2>3, <2>4 DEF Moves
  <1>5. CASE Evaluate(p)
    BY <1>4, <1>5 DEF Evaluate
  <1>6. CASE EvaluateUncached(p)
    BY <1>4, <1>6 DEF EvaluateUncached
  <1>7. CASE FinishPair(p)
    <2> DEFINE r == [run[p] EXCEPT !.shape = None, !.commit = None, !.level = None,
                                   !.eval = None, !.started = 0]
    <2>1. pc' = [pc EXCEPT ![p] = "ready"] /\ run' = [run EXCEPT ![p] = r]
      BY <1>7, Zenon DEF FinishPair
    <2>2. pc[p] = "done"
      BY <1>7 DEF FinishPair
    <2> HIDE DEF r
    <2> QED  BY <2>1, <2>2 DEF Moves, AskedAt
  <1> QED  BY <1>2, <1>3, <1>5, <1>6, <1>7 DEF Pair

\* Moving to the next level or file.
LEMMA LevelMoves ==
    ASSUME TypeInv, NEW p \in Procs, pc[p] \in {"remove", "read", "publish"},
           MissStep(p) \/ WrittenStep(p)
    PROVE  \E a, r : Moves(p, a, r)
  <1>1. run[p] \in Runs
    BY DEF TypeInv, TypeOK
  <1>2. ASSUME NEW a, NEW l, pc' = [pc EXCEPT ![p] = a],
               run' = [run EXCEPT ![p].level = l]
        PROVE  \E b, r : Moves(p, b, r)
    <2> DEFINE r == [run[p] EXCEPT !.level = l]
    <2>1. r.shape = run[p].shape /\ r.commit = run[p].commit
      BY <1>1 DEF Runs
    <2>2. run' = [run EXCEPT ![p] = r]
      BY <1>2, Zenon
    <2> HIDE DEF r
    <2> QED  BY <1>2, <2>1, <2>2 DEF Moves, AskedAt
  <1>3. ASSUME NEW a, pc' = [pc EXCEPT ![p] = a], UNCHANGED run
        PROVE  \E b, r : Moves(p, b, r)
    <2>1. pc' = [pc EXCEPT ![p] = a] /\ run' = [run EXCEPT ![p] = run[p]]
      BY <1>3 DEF TypeInv, TypeOK
    <2> QED  BY <2>1 DEF Moves, AskedAt
  <1> QED  BY <1>2, <1>3 DEF MissStep, WrittenStep

\* A step that only moves on.
LEMMA PcMoves ==
    ASSUME TypeInv, NEW p \in Procs, NEW a, pc' = [pc EXCEPT ![p] = a],
           UNCHANGED run, AskedAt(pc[p]), pc[p] # "done"
    PROVE  \E b, r : Moves(p, b, r)
  <1>1. pc' = [pc EXCEPT ![p] = a] /\ run' = [run EXCEPT ![p] = run[p]]
    BY DEF TypeInv, TypeOK
  <1> QED  BY <1>1 DEF Moves

LEMMA LookupMoves ==
    ASSUME TypeInv, NEW p \in Procs, Lookup(p)
    PROVE  \E a, r : Moves(p, a, r)
  <1>1. run[p] \in Runs
    BY DEF TypeInv, TypeOK
  <1>2. CASE StatEntry(p) \/ ReadTorn(p)
    BY <1>2, PcMoves DEF StatEntry, ReadTorn, AskedAt
  <1>3. CASE RemoveEntry(p) \/ ReadMissing(p)
    BY <1>3, LevelMoves DEF RemoveEntry, ReadMissing
  <1>4. CASE HitInput(p)
    <2> DEFINE e == disk[CurFile(p)].body
               r == [run[p] EXCEPT !.eval = e]
    <2>1. pc' = [pc EXCEPT ![p] = "done"] /\ run' = [run EXCEPT ![p] = r]
      BY <1>4, Zenon DEF HitInput
    <2> HIDE DEF e
    <2>2. r.shape = run[p].shape /\ r.commit = run[p].commit
      BY <1>1 DEF Runs
    <2>3. pc[p] = "read"
      BY <1>4 DEF HitInput
    <2> HIDE DEF r
    <2> QED  BY <2>1, <2>2, <2>3 DEF Moves, AskedAt
  <1>5. CASE HitContent(p)
    <2> DEFINE e == disk[CurFile(p)].body
               r == [run[p] EXCEPT !.eval = e, !.level = "by-input"]
    <2>1. pc' = [pc EXCEPT ![p] = "write"] /\ run' = [run EXCEPT ![p] = r]
      BY <1>5, Zenon DEF HitContent
    <2> HIDE DEF e
    <2>2. r.shape = run[p].shape /\ r.commit = run[p].commit
      BY <1>1 DEF Runs
    <2>3. pc[p] = "read"
      BY <1>5 DEF HitContent
    <2> HIDE DEF r
    <2> QED  BY <2>1, <2>2, <2>3 DEF Moves, AskedAt
  <1> QED  BY <1>2, <1>3, <1>4, <1>5 DEF Lookup

LEMMA StoreMoves ==
    ASSUME TypeInv, NEW p \in Procs, Store(p)
    PROVE  \E a, r : Moves(p, a, r)
  <1>1. run[p] \in Runs
    BY DEF TypeInv, TypeOK
  <1>2. CASE SkipSweep(p)
    <2> DEFINE r == [run[p] EXCEPT !.swept = TRUE]
    <2>1. pc' = [pc EXCEPT ![p] = "write"] /\ run' = [run EXCEPT ![p] = r]
      BY <1>2 DEF SkipSweep, TypeInv, TypeOK
    <2>2. r.shape = run[p].shape /\ r.commit = run[p].commit
      BY <1>1 DEF Runs
    <2>3. pc[p] = "write"
      BY <1>2 DEF SkipSweep
    <2> HIDE DEF r
    <2> QED  BY <2>1, <2>2, <2>3 DEF Moves, AskedAt
  <1>3. CASE BeginSweep(p)
    <2> DEFINE V == {f \in DOMAIN disk : Expired(f)} \cup OrphanTmps
               r == [run[p] EXCEPT !.swept = TRUE, !.victims = V]
    <2>1. pc' = [pc EXCEPT ![p] = "sweep"] /\ run' = [run EXCEPT ![p] = r]
      BY <1>3, Zenon DEF BeginSweep
    <2> HIDE DEF V
    <2>2. r.shape = run[p].shape /\ r.commit = run[p].commit
      BY <1>1 DEF Runs
    <2>3. pc[p] = "write"
      BY <1>3 DEF BeginSweep
    <2> HIDE DEF r
    <2> QED  BY <2>1, <2>2, <2>3 DEF Moves, AskedAt
  <1>4. CASE SweepOne(p)
    <2>1. PICK v : run' = [run EXCEPT ![p].victims = @ \ {v}]
      BY <1>4 DEF SweepOne
    <2> DEFINE W == run[p].victims \ {v}
               r == [run[p] EXCEPT !.victims = W]
    <2>2. run' = [run EXCEPT ![p] = r]
      BY <2>1, Zenon
    <2> HIDE DEF W
    <2>3. r.shape = run[p].shape /\ r.commit = run[p].commit
      BY <1>1 DEF Runs
    <2>4. pc[p] = "sweep" /\ pc' = [pc EXCEPT ![p] = "sweep"]
      BY <1>4 DEF SweepOne, TypeInv, TypeOK
    <2> HIDE DEF r
    <2> QED  BY <2>2, <2>3, <2>4 DEF Moves, AskedAt
  <1>5. CASE EndSweep(p) \/ CreateTmp(p)
    BY <1>5, PcMoves DEF EndSweep, CreateTmp, AskedAt
  <1>6. CASE Publish(p) \/ PublishSwept(p) \/ WriteFails(p)
    BY <1>6, LevelMoves DEF Publish, PublishSwept, WriteFails
  <1> QED  BY <1>2, <1>3, <1>4, <1>5, <1>6 DEF Store

-----------------------------------------------------------------------------
(* Every step is a step of the oracle, or a stutter.                       *)

LEMMA MoveIsOracleStep ==
    ASSUME SoundInv, SoundInv', UNCHANGED <<config, snap>>,
           NEW p \in Procs, NEW a, NEW r, Moves(p, a, r)
    PROVE  OracleStep
  <1> DEFINE q == RequestAt(a, r, config, snap)
             y == ReplyAt(a, r)
  <1>1. pc \in [Procs -> PCs] /\ run \in [Procs -> Runs]
    BY DEF SoundInv, TypeInv, TypeOK
  <1>2. pc'[p] = a /\ run'[p] = r
    BY <1>1 DEF Moves
  <1>3. /\ requests' = [requests EXCEPT ![p] = q]
        /\ replies' = [replies EXCEPT ![p] = y]
    BY <1>1 DEF Moves, requests, replies
  <1>4. /\ requests[p] = RequestAt(pc[p], run[p], config, snap)
        /\ replies[p] = ReplyAt(pc[p], run[p])
        /\ DOMAIN requests = Procs /\ DOMAIN replies = Procs
    BY DEF requests, replies
  <1>5. ASSUME AskedAt(a)
        PROVE  q \in Requests /\ q # None
    <2>1. r.shape \in Shapes /\ r.commit \in Commits /\ config \in Configs /\ snap \in Snaps
      BY <1>2, <1>5 DEF SoundInv, TypeInv, TypeOK, Located, LocatedAt, Idle, AskedAt
    <2>2. q \in Requests
      BY <1>5, <2>1 DEF RequestAt, Requests
    <2> QED  BY <2>2, NoneAssumption
  <1>6. CASE ~AskedAt(pc[p]) /\ AskedAt(a)
    <2>1. requests[p] = None /\ y = None /\ replies[p] = None
      BY <1>4, <1>6 DEF RequestAt, ReplyAt, Moves, AskedAt
    <2>2. replies' = replies
      BY <1>3, <2>1 DEF replies
    <2> HIDE DEF q
    <2> QED  BY <1>3, <1>5, <1>6, <2>1, <2>2 DEF OracleStep, AskStep
  <1>7. CASE ~AskedAt(a)
    <2>1. q = None /\ y = None
      BY <1>7 DEF RequestAt, ReplyAt, AskedAt
    <2>2. ForgetStep({p})
      BY <1>3, <2>1 DEF ForgetStep, requests, replies
    <2> QED  BY <2>2 DEF OracleStep
  <1>8. CASE AskedAt(pc[p]) /\ AskedAt(a)
    <2>1. q = requests[p] /\ replies[p] = None
      BY <1>4, <1>8 DEF Moves, RequestAt, ReplyAt
    <2>2. requests' = requests
      BY <1>3, <2>1 DEF requests
    <2>3. CASE a = "done"
      <3>1. y = FreshVerdict(r.shape, r.commit, config, snap)
        BY <1>2, <2>3 DEF SoundInv, ProcsSound, SoundAt, Holding, ReplyAt
      <3>2. q.shape = r.shape /\ q.commit = r.commit /\ q.cfg = config /\ q.snap = snap
        BY <1>8 DEF RequestAt
      <3>3. q \in Requests /\ q # None
        BY <1>5, <1>8
      <3> HIDE DEF q, y
      <3>4. y = Answers[q]
        BY <3>1, <3>2, <3>3 DEF Answers
      <3> QED  BY <1>3, <2>1, <2>2, <3>3, <3>4 DEF OracleStep, AnswerStep
    <2>4. CASE a # "done"
      <3>1. y = None
        BY <2>4 DEF ReplyAt
      <3>2. replies' = replies
        BY <1>3, <2>1, <3>1 DEF replies
      <3> QED  BY <2>2, <3>2 DEF OracleStep
    <2> QED  BY <2>3, <2>4
  <1> QED  BY <1>6, <1>7, <1>8

LEMMA StepIsOracleStep ==
    ASSUME ~EditsDuringRuns
    PROVE  SoundInv /\ SoundInv' /\ [Next]_vars => OracleStep
  <1> SUFFICES ASSUME SoundInv, SoundInv', [Next]_vars PROVE OracleStep
    OBVIOUS
  <1>1. CASE UNCHANGED <<pc, run, config, snap>>
    BY <1>1 DEF OracleStep, requests, replies
  <1>2. ASSUME NEW p \in Procs, Session(p) \/ Pair(p) \/ Lookup(p) \/ Store(p)
        PROVE  OracleStep
    <2>1. \E a, r : Moves(p, a, r)
      BY <1>2, SessionMoves, PairMoves, LookupMoves, StoreMoves DEF SoundInv
    <2>2. CASE Session(p)
      BY <2>1, <2>2, MoveIsOracleStep DEF Session, LoadConfig, OpenSession,
         OpenDisabledSession, Exit, Die, world
    <2>3. CASE Pair(p)
      BY <2>1, <2>3, MoveIsOracleStep DEF Pair, BeginPair, BeginUncached,
         Evaluate, EvaluateUncached, FinishPair, world
    <2>4. CASE Lookup(p)
      BY <2>1, <2>4, MoveIsOracleStep DEF Lookup, StatEntry, RemoveEntry,
         ReadMissing, ReadTorn, HitInput, HitContent, world
    <2>5. CASE Store(p)
      BY <2>1, <2>5, MoveIsOracleStep DEF Store, SkipSweep, BeginSweep,
         SweepOne, EndSweep, CreateTmp, Publish, PublishSwept, WriteFails, world
    <2> QED  BY <1>2, <2>2, <2>3, <2>4, <2>5
  <1>3. CASE CacheVerbs
    BY <1>1, <1>3 DEF CacheVerbs, EvictCommit, EvictKeys, Prune, Clear,
       RemoveScanned, VerbFails, ScanFor, world
  <1>4. CASE EditConfig \/ RegenerateSnapshot
    <2>1. UNCHANGED <<pc, run>> /\ \A p \in Procs : pc[p] = "off"
      BY <1>4 DEF EditConfig, RegenerateSnapshot, EditsAllowed
    <2> QED
      BY <2>1 DEF OracleStep, requests, replies, RequestAt, ReplyAt, AskedAt
  <1>5. CASE Tick
    BY <1>1, <1>5 DEF Tick
  <1>6. CASE PowerLoss
    <2>1. ForgetStep(Procs)
      BY <1>6 DEF PowerLoss, ForgetStep, requests, replies, RequestAt, ReplyAt, AskedAt
    <2> QED  BY <2>1 DEF OracleStep
  <1> QED
    BY <1>1, <1>2, <1>3, <1>4, <1>5, <1>6 DEF Next, vars

\* Processes that share a cache directory behave as if there were none: every
\* run implements the oracle, whatever is aliased, swept, evicted or torn.
THEOREM CacheImplementsOracle ==
    ASSUME ~EditsDuringRuns
    PROVE  Spec => CacheIsTransparent
  <1>1. SoundInv /\ [Next]_vars => SoundInv'
    BY SoundStep
  <1>2. SoundInv /\ SoundInv' /\ [Next]_vars => [Oracle!Next]_(Oracle!vars)
    BY StepIsOracleStep, OracleNext
  <1> QED
    BY SoundInit, OracleInit, <1>1, <1>2, PTL DEF Spec, CacheIsTransparent, Oracle!Spec
=============================================================================
