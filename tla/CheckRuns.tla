----------------------------- MODULE CheckRuns -----------------------------
(***************************************************************************)
(* The verbs check commit, check batch and check cascade: the pairs of a   *)
(* commit and a series that a run goes through, the inputs it resolves     *)
(* lazily and shares, the verdict cache it consults, the snapshot store it *)
(* asks after the cache, the rows it reports and its exit code.            *)
(*                                                                         *)
(* The cache is the table that VerdictCache is shown to implement, keyed   *)
(* by what differs here; another process may drop an entry at any time.    *)
(* Patches of different commits differ.  One project has one pin, and the  *)
(* question about a pin is whether a snapshot after it has what is missing *)
(* (later); its next release is that snapshot.                             *)
(***************************************************************************)
EXTENDS Verdicts, Sequences

CONSTANTS Commits, Series, PinsOf, SelfPins,
          Truths,            \* what may be found about each pair
          CommitLists, SeriesLists,   \* what a run may be asked to go through,
          RunOptions,                 \* and with which options
          MaxRuns,           \* bounds how many runs there are
          MaxStoreChanges,   \* bounds how often others change the store
          None

Pairs == Commits \X Series

Pins == UNION {PinsOf[s] : s \in Series}

Verbs == {"commit", "batch", "cascade"}

Options == [verb : Verbs, target : BOOLEAN, cached : BOOLEAN,
            untracked : BOOLEAN, generate : BOOLEAN]

ASSUME ChecksAssumption ==
  /\ IsFiniteSet(Pins)
  /\ Truths \subseteq [Pairs -> Findings(Pins)]
  /\ \A t \in Truths, k \in Pairs :
       DOMAIN t[k].raw = PinsOf[k[2]] /\ DOMAIN t[k].owner = PinsOf[k[2]]
  /\ CommitLists \subseteq Seq(Commits) \ {<<>>}
  /\ SeriesLists \subseteq Seq(Series) \ {<<>>}
  /\ SelfPins \subseteq Pins /\ RunOptions \subseteq Options
  /\ None \notin Commits
  /\ MaxRuns \in Nat /\ MaxStoreChanges \in Nat

VARIABLES
  truth,     \* what is found about each pair
  later,     \* the pins with a snapshot of their next release
  changes,   \* how often others changed the store
  cache,     \* the entries: pair and target to evaluation
  runs,      \* how many runs there were
  run,       \* the options of the present run
  pc,
  legs,      \* the legs left, the present one first
  commits,   \* the commits of this leg left, the present one first
  series,    \* the series left for the present commit
  input,     \* the commit whose patch is resolved, or None
  files,     \* the commit whose source files are loaded, or None
  eval,      \* the evaluation of the present pair
  memo,      \* the answers of the availability probe of this leg
  attempted, \* the pins the generator has tried
  bumps,     \* the status of each pin that is bumped
  rows,      \* the rows of this leg
  done,      \* the legs that are finished, each its rows and its exit code
  worst,     \* the worst exit code of this leg
  seen       \* what the store has said of each pin during this run

pairVars == <<input, files, eval, bumps>>
planVars == <<legs, commits, series>>
legVars  == <<planVars, memo, attempted, rows, done, worst>>
vars == <<truth, later, changes, cache, runs, run, pc, legVars, pairVars, seen>>

NoEval == Evaluation([p \in {} |-> Compatible], NoTarget)

Unknown == "unknown"

(* What a store that holds the next releases of these pins says of one. *)
Saying(held, p) == IF p \in held THEN "held" ELSE "absent"

Init ==
  /\ truth \in Truths
  /\ later \in SUBSET (Pins \ SelfPins)
  /\ changes = 0 /\ runs = 0
  /\ cache = [k \in {} |-> NoEval]
  /\ run = [verb |-> "batch", target |-> FALSE, cached |-> FALSE,
            untracked |-> FALSE, generate |-> FALSE]
  /\ pc = "idle"
  /\ legs = <<>> /\ commits = <<>> /\ series = <<>> /\ rows = <<>> /\ done = <<>> /\ worst = 0
  /\ input = None /\ files = None /\ eval = NoEval
  /\ memo = [p \in Pins |-> Unknown]
  /\ attempted = {}
  /\ bumps = [p \in {} |-> Unknown]
  /\ seen = [p \in Pins |-> {Saying(later, p)}]

-----------------------------------------------------------------------------
(* A run starts with the legs it goes through, all commits resolved.  A      *)
(* check of one commit has its patch before anything else, and may look for  *)
(* modules that no pin covers, which bypasses the cache.                     *)

(* A cascade has a leg for each series, with the target of that series. *)
Plan(verb, commitList, seriesList) ==
  LET LegOf(list) == [commits |-> commitList, series |-> list]
  IN  IF verb = "cascade"
      THEN [i \in DOMAIN seriesList |-> LegOf(<<seriesList[i]>>)]
      ELSE <<LegOf(seriesList)>>

Pair == <<Head(commits), Head(series)>>

Facts == truth[Pair]

Key == <<Pair, run.target>>

Start(o, commitList, seriesList) ==
  /\ pc = "idle" /\ runs < MaxRuns
  /\ o.untracked => o.verb = "commit" /\ ~o.cached
  /\ o.verb = "commit" => Len(commitList) = 1 /\ Len(seriesList) = 1
  /\ o.verb = "cascade" => o.target
  /\ runs' = runs + 1
  /\ run' = o /\ pc' = "lookup"
  /\ legs' = Plan(o.verb, commitList, seriesList)
  /\ commits' = commitList /\ series' = Head(legs').series
  /\ input' = (IF o.verb = "commit" THEN Head(commitList) ELSE None)
  /\ files' = None /\ eval' = NoEval
  /\ memo' = [p \in Pins |-> Unknown]
  /\ attempted' = {} /\ bumps' = [p \in {} |-> Unknown]
  /\ rows' = <<>> /\ done' = <<>> /\ worst' = 0
  /\ seen' = [p \in Pins |-> {Saying(later, p)}]
  /\ UNCHANGED <<truth, later, changes, cache>>

Hit ==
  /\ pc = "lookup" /\ run.cached /\ Key \in DOMAIN cache
  /\ eval' = cache[Key]
  /\ pc' = "availability"
  /\ UNCHANGED <<truth, later, changes, cache, runs, run, legVars, input, files,
                 bumps, seen>>

(* On a miss, and when the cache is bypassed, the patch is resolved unless an *)
(* earlier series of this commit has.                                        *)
Miss ==
  /\ pc = "lookup" /\ ~(run.cached /\ Key \in DOMAIN cache)
  /\ input' = (IF input = None THEN Pair[1] ELSE input)
  /\ pc' = "evaluate"
  /\ UNCHANGED <<truth, later, changes, cache, runs, run, legVars, files, eval,
                 bumps, seen>>

Evaluate ==
  /\ pc = "evaluate"
  /\ files' = (IF files = None THEN input ELSE files)
  /\ LET found == [truth[<<input, Pair[2]>>]
                     EXCEPT !.raw = truth[<<files', Pair[2]>>].raw]
         one   == EvaluateOne(found, SelfPins)
         all   == IF run.untracked THEN ResolveUntracked(one, found) ELSE one
     IN  eval' = IF run.target THEN ApplyTarget(all, found) ELSE all
  /\ pc' = "store"
  /\ UNCHANGED <<truth, later, changes, cache, runs, run, legVars, input, bumps, seen>>

(* The pins the probe is asked about; those of the program itself never are. *)
Asked == {p \in DOMAIN eval.verdicts \ SelfPins : "missing" \in eval.verdicts[p].reasons}

(* Mutation: what the store says now is kept with the evaluation. *)
StoredWithTheAnswers == ApplyAvailability(eval, Asked \cap later)

Stored == eval

Store ==
  /\ pc = "store"
  /\ cache' = (IF run.cached
               THEN [k \in DOMAIN cache \cup {Key} |-> IF k = Key THEN Stored ELSE cache[k]]
               ELSE cache)
  /\ pc' = "availability"
  /\ UNCHANGED <<truth, later, changes, runs, run, legVars, pairVars, seen>>

(* Mutation: the probe asks the store each time. *)
AskEachTime(p, m) == p \in later

Ask(p, m) == IF m[p] = Unknown THEN p \in later ELSE m[p] = "later"

(* After the cache: the probe answers for the missing symbols of pins of     *)
(* other projects, from what it has answered before or from the store.       *)
Availability ==
  /\ pc = "availability"
  /\ memo' = [p \in Pins |-> IF p \notin Asked THEN memo[p]
                           ELSE IF Ask(p, memo) THEN "later" ELSE "nowhere"]
  /\ eval' = ApplyAvailability(eval, {p \in Asked : Ask(p, memo)})
  /\ pc' = IF run.generate THEN "generate" ELSE "assess"
  /\ UNCHANGED <<truth, later, changes, cache, runs, run, planVars, attempted, rows, done,
                 worst, input, files, bumps, seen>>

(* The snapshots of bumped pins are generated, each at most once in a leg; a  *)
(* release that cannot be read is left missing.                              *)
Generate ==
  /\ pc = "generate"
  /\ LET missing == {p \in Facts.bumps : p \notin later /\ p \notin attempted}
     IN  /\ \E ok \in SUBSET missing :
              /\ later' = later \cup ok
              /\ seen' = [p \in Pins |-> IF p \in ok THEN seen[p] \cup {"held"} ELSE seen[p]]
         /\ attempted' = attempted \cup missing
  /\ pc' = "assess"
  /\ UNCHANGED <<truth, changes, cache, runs, run, planVars, memo, rows, done, worst, pairVars>>

Assess ==
  /\ pc = "assess"
  /\ bumps' = [p \in Facts.bumps |-> IF p \in later THEN "present" ELSE "missing"]
  /\ pc' = IF run.verb = "commit" THEN "promote" ELSE "report"
  /\ UNCHANGED <<truth, later, changes, cache, runs, run, legVars, input, files, eval, seen>>

(* Only a check of one commit promotes the missing symbols of the program    *)
(* itself to prerequisites.                                                  *)
PromoteSelf ==
  /\ pc = "promote"
  /\ eval' = PromotePins(eval, SelfPins)
  /\ pc' = "report"
  /\ UNCHANGED <<truth, later, changes, cache, runs, run, legVars, input, files, bumps, seen>>

Row == [pair |-> Pair, eval |-> eval, bumps |-> bumps]

Worst == IF ExitCode(eval) > worst THEN ExitCode(eval) ELSE worst

NextPair ==
  /\ eval' = NoEval
  /\ bumps' = [p \in {} |-> Unknown]
  /\ UNCHANGED <<truth, later, changes, cache, runs, run, seen>>

(* The row is reported, and the next series has the same patch and files. *)
NextSeries ==
  /\ pc = "report" /\ Tail(series) # <<>>
  /\ rows' = Append(rows, Row) /\ worst' = Worst
  /\ series' = Tail(series)
  /\ pc' = "lookup"
  /\ NextPair
  /\ UNCHANGED <<legs, commits, input, files, memo, attempted, done>>

(* Mutation: what was resolved for a commit is kept for the next. *)
KeptForTheNext(resolved) == resolved

AtTheNextCommit(resolved) == None

NextCommit ==
  /\ pc = "report" /\ Tail(series) = <<>> /\ Tail(commits) # <<>>
  /\ rows' = Append(rows, Row) /\ worst' = Worst
  /\ commits' = Tail(commits) /\ series' = Head(legs).series
  /\ input' = AtTheNextCommit(input) /\ files' = AtTheNextCommit(files)
  /\ pc' = "lookup"
  /\ NextPair
  /\ UNCHANGED <<legs, memo, attempted, done>>

(* The leg is done; the next one starts with probes and inputs of its own. *)
EndLeg ==
  /\ pc = "report" /\ Tail(series) = <<>> /\ Tail(commits) = <<>>
  /\ done' = Append(done, [rows |-> Append(rows, Row), exit |-> Worst])
  /\ rows' = <<>> /\ worst' = 0
  /\ memo' = [p \in Pins |-> Unknown] /\ attempted' = {}
  /\ input' = None /\ files' = None
  /\ legs' = Tail(legs)
  /\ IF Tail(legs) # <<>>
     THEN /\ commits' = Head(Tail(legs)).commits /\ series' = Head(Tail(legs)).series
          /\ pc' = "lookup"
     ELSE /\ commits' = <<>> /\ series' = <<>> /\ pc' = "idle"
  /\ NextPair

(* An error of git, of a snapshot or of the target ends the run; nothing is  *)
(* reported, and what is stored stays.                                       *)
Fail ==
  /\ pc \in {"lookup", "evaluate"}
  /\ pc' = "idle"
  /\ legs' = <<>> /\ commits' = <<>> /\ series' = <<>>
  /\ rows' = <<>> /\ done' = <<>> /\ worst' = 0
  /\ memo' = [p \in Pins |-> Unknown] /\ attempted' = {}
  /\ input' = None /\ files' = None
  /\ NextPair

-----------------------------------------------------------------------------
(* Others generate and delete snapshots, and drop entries of the cache.      *)

ChangeStore(p) ==
  /\ changes < MaxStoreChanges
  /\ p \notin SelfPins
  /\ changes' = changes + 1
  /\ later' = IF p \in later THEN later \ {p} ELSE later \cup {p}
  /\ seen' = [seen EXCEPT ![p] = @ \cup {Saying(later', p)}]
  /\ UNCHANGED <<truth, cache, runs, run, pc, legVars, pairVars>>

Evict(k) ==
  /\ pc \in {"idle", "lookup"}   \* only a lookup can tell
  /\ cache' = [j \in DOMAIN cache \ {k} |-> cache[j]]
  /\ UNCHANGED <<truth, later, changes, runs, run, pc, legVars, pairVars, seen>>

Next ==
  \/ \E o \in RunOptions, commitList \in CommitLists, seriesList \in SeriesLists :
       Start(o, commitList, seriesList)
  \/ Hit \/ Miss \/ Evaluate \/ Store \/ Availability \/ Generate \/ Assess
  \/ PromoteSelf \/ NextSeries \/ NextCommit \/ EndLeg \/ Fail
  \/ \E p \in Pins : ChangeStore(p)
  \/ \E k \in DOMAIN cache : Evict(k)

Spec == Init /\ [][Next]_vars

-----------------------------------------------------------------------------
AllRows == {rows[i] : i \in DOMAIN rows}
             \cup UNION {{done[l].rows[i] : i \in DOMAIN done[l].rows} : l \in DOMAIN done}

RowsOfLegs == {rows} \cup {done[l].rows : l \in DOMAIN done}

(* The shapes of the state, and of every verdict: it has reasons unless it is *)
(* compatible or inapplicable, whatever was merged into it, and the summary   *)
(* is counted from the verdicts after every step that changes one.            *)
WellFormed(e) ==
  /\ \A p \in DOMAIN e.verdicts :
       /\ e.verdicts[p] \in Verdict
       /\ e.verdicts[p].reasons = {} <=> e.verdicts[p].kind \in {"compatible", "inapplicable"}
  /\ e.summary = SummaryOf(e.verdicts)

TypeOK ==
  /\ later \subseteq Pins /\ changes \in 0..MaxStoreChanges
  /\ runs \in 0..MaxRuns /\ run \in Options
  /\ pc \in {"idle", "lookup", "evaluate", "store", "availability", "generate",
             "assess", "promote", "report"}
  /\ input \in Commits \cup {None} /\ files \in {input, None}
  /\ memo \in [Pins -> {Unknown, "later", "nowhere"}]
  /\ attempted \subseteq Pins /\ worst \in {0, 3}
  /\ WellFormed(eval)
  /\ \A k \in DOMAIN cache : WellFormed(cache[k])
  /\ \A row \in AllRows : row.pair \in Pairs /\ WellFormed(row.eval)

(* What must, and what can, make a pin incompatible, by what is true of the   *)
(* pair and what the store said during the run, whatever path the row took.   *)
MustBlock(f, p) ==
  \/ "api" \in f.raw[p]
  \/ "file" \in f.raw[p] /\ f.owner[p] # "elsewhere"
  \/ "missing" \in f.raw[p] /\ (p \in SelfPins \/ "held" \notin seen[p])
  \/ run.untracked /\ f.untracked

MayBlock(f, p) ==
  \/ MustBlock(f, p)
  \/ "missing" \in f.raw[p] /\ "absent" \in seen[p]
  \/ f.feature

(* Every row reports for each pin what was found about its own commit and     *)
(* series: no lookup, no input shared with another pair, no merge and no      *)
(* reclassification loses a finding that blocks, or lets one of another pair  *)
(* in.                                                                        *)
RowsFollowTheEvidence ==
  \A row \in AllRows : \A p \in PinsOf[row.pair[2]] :
    LET f    == truth[row.pair]
        kind == row.eval.verdicts[p].kind
    IN  /\ MustBlock(f, p) => kind = "incompatible"
        /\ kind = "incompatible" => MayBlock(f, p)

(* A leg that exits with 0 stands for rows about which nothing was found that *)
(* needs a look: nothing about the interface of a pin, nothing about a file   *)
(* the pin owns, and, with a target, no renamed path, no finding of the       *)
(* symbol axis and no conflict, however the pins were clear of it.  What is   *)
(* kept in the verdicts alone is lost on a series without pins.               *)
SilenceIsEarned ==
  \A l \in DOMAIN done : done[l].exit = 0 =>
    \A i \in DOMAIN done[l].rows :
      LET pair == done[l].rows[i].pair
          f    == truth[pair]
      IN  /\ \A p \in PinsOf[pair[2]] :
               f.raw[p] \subseteq (IF f.owner[p] = "elsewhere" THEN PathScoped ELSE {})
          /\ PinsOf[pair[2]] # {} => /\ ~f.feature
                                     /\ run.untracked => ~f.untracked
                                     /\ run.target => ~f.paths.renamed
          /\ run.target => /\ ~f.symbol /\ ~f.suite
                           /\ f.apply \cap {"conflict", "gone"} = {}

(* The clearance, derived from the rows that were reported, has the exit code *)
(* of the leg, which was derived while they were evaluated; a round is zero   *)
(* domain only if no pin of it had anything to say.                           *)
ClearanceAgrees ==
  run.verb # "commit" =>
    \A l \in DOMAIN done :
      LET evals == [i \in DOMAIN done[l].rows |-> done[l].rows[i].eval]
      IN  /\ ClearanceExit(evals) = done[l].exit
          /\ Clearance(evals, FALSE, FALSE) = "zero_domain" =>
               \A i \in DOMAIN evals : \A p \in DOMAIN evals[i].verdicts :
                 evals[i].verdicts[p].kind = "inapplicable"

(* The rows of a leg agree on a missing symbol: it is not called missing in   *)
(* one and available later in another, though others change the store and the *)
(* generator runs between them.                                               *)
OneAnswerPerLeg ==
  \A leg \in RowsOfLegs : \A i, j \in DOMAIN leg : \A p \in Pins \ SelfPins :
    ~(/\ p \in DOMAIN leg[i].eval.verdicts /\ p \in DOMAIN leg[j].eval.verdicts
      /\ "later" \in leg[i].eval.verdicts[p].reasons
      /\ "missing" \in leg[j].eval.verdicts[p].reasons)

(* What a row says of the store, the store said during the run: neither a     *)
(* cached evaluation nor a memo of an earlier leg or run brings in an older   *)
(* answer.                                                                    *)
RowsReflectTheStore ==
  \A row \in AllRows :
    /\ \A p \in DOMAIN row.eval.verdicts \ SelfPins :
         /\ "later" \in row.eval.verdicts[p].reasons => "held" \in seen[p]
         /\ "missing" \in row.eval.verdicts[p].reasons => "absent" \in seen[p]
    /\ \A p \in DOMAIN row.bumps :
         IF row.bumps[p] = "present" THEN "held" \in seen[p] ELSE "absent" \in seen[p]

(* Promoting the missing symbols of the program to prerequisites, which only  *)
(* check commit does, changes no verdict and no exit code: the verbs agree on *)
(* a pair.                                                                    *)
PromotionKeepsTheVerdict ==
  [][PromoteSelf => /\ ExitCode(eval') = ExitCode(eval)
                    /\ \A p \in DOMAIN eval.verdicts :
                         eval'.verdicts[p].kind = eval.verdicts[p].kind]_vars

(* The documentation of the verdicts: requires_adaptation has only reasons    *)
(* that do not block, and incompatible has one that does.                     *)
VerdictsMatchReasons ==
  \A row \in AllRows : \A p \in DOMAIN row.eval.verdicts :
    LET v == row.eval.verdicts[p]
    IN  v.kind # "inapplicable" => v = FromReasons(v.reasons)
=============================================================================
