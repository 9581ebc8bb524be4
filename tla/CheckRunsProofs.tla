-------------------------- MODULE CheckRunsProofs --------------------------
(***************************************************************************)
(* What holds of the check verbs for any commits, series, pins, findings   *)
(* and rounds.  The first half follows one evaluation: what is cached has  *)
(* no answer of the store in it, what is reported has the probe's, and the *)
(* probe's answers are the store's.  The second half follows the findings: *)
(* what a verdict owes to what was found about its pair survives every     *)
(* merge, the cache, the probe and the promotion, and a row carries it to  *)
(* the exit code of its leg.                                               *)
(***************************************************************************)
EXTENDS CheckRuns, FiniteSetTheorems, TLAPS

\* A verdict of the right shape; a missing symbol makes it incompatible.
Good(v) ==
    /\ v \in Verdict
    /\ v.reasons = {} <=> v.kind \in {"compatible", "inapplicable"}
    /\ "missing" \in v.reasons => v.kind = "incompatible"

\* One that has not been through the probe.
Fresh(v) == Good(v) /\ "later" \notin v.reasons

\* What is merged into the verdicts is neither of the reasons the probe is about.
Merged == Reasons \ {"missing", "later"}

LEMMA FromReasonsIsGood ==
    ASSUME NEW R \in SUBSET Reasons
    PROVE  Good(FromReasons(R)) /\ FromReasons(R).reasons = R
BY DEF Good, FromReasons, Verdict, Kinds, Blocking

LEMMA FromReasonsIsFresh ==
    ASSUME NEW R \in SUBSET Reasons, "later" \notin R
    PROVE  Fresh(FromReasons(R))
BY FromReasonsIsGood DEF Fresh

LEMMA InapplicableIsFresh == Fresh(Inapplicable) /\ Fresh(Compatible)
BY DEF Fresh, Good, Inapplicable, Compatible, Verdict, Kinds

LEMMA RouteIsFresh ==
    ASSUME NEW v, Fresh(v), NEW tracked, NEW owner
    PROVE  Fresh(Route(v, tracked, owner))
<1>1. Fresh(FromReasons(v.reasons \ PathScoped))
  BY FromReasonsIsFresh DEF Fresh, Good, Verdict
<1> QED
  BY <1>1, InapplicableIsFresh DEF Route

LEMMA PromoteIsFresh ==
    ASSUME NEW v, Fresh(v), NEW tracked, NEW nothing
    PROVE  Fresh(Promote(v, tracked, nothing))
BY InapplicableIsFresh DEF Promote

LEMMA MergeIsFresh ==
    ASSUME NEW v, Fresh(v), NEW R \in SUBSET Merged, NEW override \in BOOLEAN
    PROVE  Fresh(Merge(v, R, override))
<1>1. Fresh(FromReasons(R))
  BY FromReasonsIsFresh DEF Merged
<1>2. CASE v.kind \in {"adapt", "incompatible"} /\ R # {}
  <2>1. Merge(v, R, override) = [v EXCEPT !.reasons = @ \cup R]
    BY <1>2 DEF Merge
  <2>2. [v EXCEPT !.reasons = @ \cup R] \in Verdict
    BY DEF Fresh, Good, Verdict, Merged
  <2>3. /\ Merge(v, R, override).kind = v.kind
        /\ Merge(v, R, override).reasons = v.reasons \cup R
    BY <2>1 DEF Fresh, Good, Verdict
  <2> QED
    BY <1>2, <2>1, <2>2, <2>3 DEF Fresh, Good, Merged
<1>3. CASE ~(v.kind \in {"adapt", "incompatible"} /\ R # {})
  <2>1. v.kind \in Kinds
    BY DEF Fresh, Good, Verdict
  <2> QED
    BY <1>1, <1>3, <2>1 DEF Merge, Kinds
<1> QED
  BY <1>2, <1>3

LEMMA MergePathsIsFresh ==
    ASSUME NEW v, Fresh(v), NEW paths
    PROVE  Fresh(MergePaths(v, paths))
<1>1. (IF paths.renamed THEN {"rename"} ELSE {}) \in SUBSET Merged
  BY DEF Merged, Reasons, PathScoped
<1>2. Fresh(Merge(v, IF paths.renamed THEN {"rename"} ELSE {}, TRUE))
  BY <1>1, MergeIsFresh
<1> QED
  BY <1>2, InapplicableIsFresh DEF MergePaths

LEMMA ReclassifyIsGood ==
    ASSUME NEW v, Good(v)
    PROVE  /\ Good(Reclassify(v))
           /\ Reclassify(v).reasons = (v.reasons \ {"missing"}) \cup {"later"}
<1>1. (v.reasons \ {"missing"}) \cup {"later"} \in SUBSET Reasons
  BY DEF Good, Verdict, Reasons
<1> QED
  BY <1>1, FromReasonsIsGood DEF Reclassify

\* The promotion keeps the verdict, for a missing symbol and a prerequisite
\* both block.
LEMMA PromotePrereqKeepsTheKind ==
    ASSUME NEW v, Good(v)
    PROVE  /\ Good(PromotePrereq(v))
           /\ PromotePrereq(v).kind = v.kind
           /\ "later" \in PromotePrereq(v).reasons => "later" \in v.reasons
           /\ "missing" \notin PromotePrereq(v).reasons
<1> DEFINE R == (v.reasons \ {"missing"}) \cup {"prereq"}
<1>1. R \in SUBSET Reasons
  BY DEF Good, Verdict, Reasons, Blocking
<1>2. Good(FromReasons(R)) /\ FromReasons(R).reasons = R
  BY <1>1, FromReasonsIsGood
<1>3. FromReasons(R).kind = "incompatible"
  BY DEF FromReasons, Blocking
<1> QED
  BY <1>2, <1>3 DEF PromotePrereq, Good

-----------------------------------------------------------------------------
(* Evaluations. *)

Targets == [given : BOOLEAN, conflict : BOOLEAN, findings : SUBSET Reasons]

Tables == UNION {[P -> Verdict] : P \in SUBSET Pins}

Evaluations ==
    {Evaluation(verdicts, target) : verdicts \in Tables, target \in Targets}

\* What the evaluation of a pair returns, and what is cached.
IsFresh(e) == e \in Evaluations /\ \A p \in DOMAIN e.verdicts : Fresh(e.verdicts[p])

IsGood(e) == e \in Evaluations /\ \A p \in DOMAIN e.verdicts : Good(e.verdicts[p])

LEMMA EvaluationFields ==
    ASSUME NEW e \in Evaluations
    PROVE  /\ e.verdicts \in Tables /\ e.target \in Targets
           /\ e.summary = SummaryOf(e.verdicts)
           /\ DOMAIN e.verdicts \subseteq Pins
<1>1. PICK verdicts \in Tables, target \in Targets : e = Evaluation(verdicts, target)
  BY DEF Evaluations
<1>2. e.verdicts = verdicts /\ e.target = target /\ e.summary = SummaryOf(verdicts)
  BY <1>1 DEF Evaluation
<1> QED
  BY <1>1, <1>2 DEF Tables

LEMMA FreshIsGood == \A e : IsFresh(e) => IsGood(e)
BY DEF IsFresh, IsGood, Fresh

LEMMA EvaluationIsGood ==
    ASSUME NEW V, NEW P \in SUBSET Pins, V = [p \in P |-> V[p]], NEW target \in Targets,
           \A p \in P : Good(V[p])
    PROVE  /\ IsGood(Evaluation(V, target))
           /\ Evaluation(V, target).verdicts = V
           /\ Evaluation(V, target).target = target
<1>1. V \in [P -> Verdict]
  BY DEF Good
<1>2. V \in Tables
  BY <1>1 DEF Tables
<1>3. Evaluation(V, target) \in Evaluations
  BY <1>2 DEF Evaluations
<1>4. Evaluation(V, target).verdicts = V /\ Evaluation(V, target).target = target
  BY DEF Evaluation
<1> QED
  BY <1>1, <1>3, <1>4 DEF IsGood

LEMMA EvaluationIsFresh ==
    ASSUME NEW V, NEW P \in SUBSET Pins, V = [p \in P |-> V[p]], NEW target \in Targets,
           \A p \in P : Fresh(V[p])
    PROVE  IsFresh(Evaluation(V, target))
<1>1. \A p \in P : Good(V[p])
  BY DEF Fresh
<1>2. IsGood(Evaluation(V, target)) /\ Evaluation(V, target).verdicts = V
  BY <1>1, EvaluationIsGood
<1> QED
  BY <1>2 DEF IsGood, IsFresh

LEMMA EvaluateOneIsFresh ==
    ASSUME NEW f \in Findings(Pins)
    PROVE  IsFresh(EvaluateOne(f, SelfPins))
<1> DEFINE Routed(p) == Route(FromReasons(f.raw[p]), p \in f.tracked, f.owner[p])
           Promoted(p) == Promote(Routed(p), p \in f.tracked, NothingToCheck(f, SelfPins))
           V == [p \in DOMAIN f.raw |-> Merge(Promoted(p), If(f.feature, "feature"), TRUE)]
<1>1. DOMAIN f.raw \in SUBSET Pins /\ \A p \in DOMAIN f.raw : f.raw[p] \in SUBSET Raw
  <2>1. PICK P \in SUBSET Pins : f.raw \in [P -> SUBSET Raw]
    BY DEF Findings
  <2> QED
    BY <2>1
<1>2. If(f.feature, "feature") \in SUBSET Merged
  BY DEF If, Merged, Reasons, Blocking
<1>3. NoTarget \in Targets
  BY DEF NoTarget, Targets
<1>4. ASSUME NEW p \in DOMAIN f.raw
      PROVE  Fresh(V[p])
  <2>1. f.raw[p] \in SUBSET Reasons /\ "later" \notin f.raw[p]
    BY <1>1 DEF Raw, Reasons, Blocking, PathScoped
  <2>2. Fresh(FromReasons(f.raw[p]))
    BY <2>1, FromReasonsIsFresh
  <2>3. Fresh(Routed(p))
    BY <2>2, RouteIsFresh, Zenon
  <2>4. Fresh(Promoted(p))
    <3> HIDE DEF Routed
    <3> QED
      BY <2>3, PromoteIsFresh, Zenon
  <2> QED
    <3> HIDE DEF Promoted
    <3> QED
      BY <1>2, <2>4, MergeIsFresh
<1>5. V = [p \in DOMAIN f.raw |-> V[p]]
  OBVIOUS
<1>6. IsFresh(Evaluation(V, NoTarget))
  <2> HIDE DEF V
  <2> QED
    BY <1>1, <1>3, <1>4, <1>5, EvaluationIsFresh
<1> QED
  BY <1>6 DEF EvaluateOne

LEMMA ResolveUntrackedIsFresh ==
    ASSUME NEW e, IsFresh(e), NEW f
    PROVE  IsFresh(ResolveUntracked(e, f))
<1> DEFINE V == [p \in DOMAIN e.verdicts |->
                   FromReasons(e.verdicts[p].reasons \cup {"untracked"})]
<1>1. /\ DOMAIN e.verdicts \in SUBSET Pins /\ e.target \in Targets
      /\ \A p \in DOMAIN e.verdicts : Fresh(e.verdicts[p])
  BY EvaluationFields DEF IsFresh
<1>2. ASSUME NEW p \in DOMAIN e.verdicts
      PROVE  Fresh(V[p])
  <2>1. /\ e.verdicts[p].reasons \cup {"untracked"} \in SUBSET Reasons
        /\ "later" \notin e.verdicts[p].reasons \cup {"untracked"}
    BY <1>1 DEF Fresh, Good, Verdict, Reasons, Blocking
  <2> QED
    BY <2>1, FromReasonsIsFresh
<1>3. V = [p \in DOMAIN e.verdicts |-> V[p]]
  OBVIOUS
<1>4. IsFresh(Evaluation(V, e.target))
  <2> HIDE DEF V
  <2> QED
    BY <1>1, <1>2, <1>3, EvaluationIsFresh
<1> QED
  BY <1>4 DEF ResolveUntracked, WithVerdicts

LEMMA ApplyTargetIsFresh ==
    ASSUME NEW e, IsFresh(e), NEW f
    PROVE  IsFresh(ApplyTarget(e, f))
<1> DEFINE Placed(v) == Merge(MergePaths(v, f.paths), PartlyAbsent(f.paths), FALSE)
           Added(v) == Merge(Placed(v), If(f.added, "added"), FALSE)
           Symbols(v) == Merge(Added(v), If(f.symbol, "symbol"), FALSE)
           Suites(v) == Merge(Symbols(v), If(f.suite, "suite"), TRUE)
           Joined(v) == Merge(Suites(v), If(f.apply \cap {"drifted", "conflict"} # {}, "apply"), FALSE)
           V == [p \in DOMAIN e.verdicts |-> Joined(e.verdicts[p])]
           T == [given |-> TRUE, conflict |-> f.apply \cap {"conflict", "gone"} # {},
                 findings |-> If(f.symbol, "symbol") \cup If(f.suite, "suite")]
<1>1. /\ DOMAIN e.verdicts \in SUBSET Pins
      /\ \A p \in DOMAIN e.verdicts : Fresh(e.verdicts[p])
  BY EvaluationFields DEF IsFresh
<1>2. /\ PartlyAbsent(f.paths) \in SUBSET Merged
      /\ If(f.added, "added") \in SUBSET Merged
      /\ If(f.symbol, "symbol") \in SUBSET Merged
      /\ If(f.suite, "suite") \in SUBSET Merged
      /\ If(f.apply \cap {"drifted", "conflict"} # {}, "apply") \in SUBSET Merged
  BY DEF PartlyAbsent, If, Merged, Reasons, PathScoped
<1>3. T \in Targets
  BY DEF Targets, If, Reasons
<1>4. ASSUME NEW v, Fresh(v) PROVE Fresh(Joined(v))
  <2>1. Fresh(Placed(v))
    BY <1>2, <1>4, MergePathsIsFresh, MergeIsFresh
  <2>2. Fresh(Added(v))
    BY <1>2, <2>1, MergeIsFresh
  <2>3. Fresh(Symbols(v))
    BY <1>2, <2>2, MergeIsFresh
  <2>4. Fresh(Suites(v))
    BY <1>2, <2>3, MergeIsFresh
  <2> QED
    BY <1>2, <2>4, MergeIsFresh
<1>5. \A p \in DOMAIN e.verdicts : Fresh(V[p])
  <2> HIDE DEF Joined
  <2> QED
    BY <1>1, <1>4
<1>6. V = [p \in DOMAIN e.verdicts |-> V[p]]
  OBVIOUS
<1>7. IsFresh(Evaluation(V, T))
  <2> HIDE DEF V, T
  <2> QED
    BY <1>1, <1>3, <1>5, <1>6, EvaluationIsFresh
<1> QED
  BY <1>7 DEF ApplyTarget

LEMMA AvailabilityIsGood ==
    ASSUME NEW e, IsFresh(e), NEW pins, NEW r, r = ApplyAvailability(e, pins)
    PROVE  /\ IsGood(r) /\ DOMAIN r.verdicts = DOMAIN e.verdicts
           /\ \A p \in DOMAIN r.verdicts :
                /\ "later" \in r.verdicts[p].reasons => p \in pins
                /\ "missing" \in r.verdicts[p].reasons =>
                     p \notin pins /\ "missing" \in e.verdicts[p].reasons
<1> DEFINE V == [p \in DOMAIN e.verdicts |->
                   IF p \in pins THEN Reclassify(e.verdicts[p]) ELSE e.verdicts[p]]
<1>1. /\ DOMAIN e.verdicts \in SUBSET Pins /\ e.target \in Targets
      /\ \A p \in DOMAIN e.verdicts : Fresh(e.verdicts[p])
  BY EvaluationFields DEF IsFresh
<1>2. ASSUME NEW p \in DOMAIN e.verdicts
      PROVE  /\ Good(V[p])
             /\ "later" \in V[p].reasons => p \in pins
             /\ "missing" \in V[p].reasons =>
                  p \notin pins /\ "missing" \in e.verdicts[p].reasons
  <2>1. Good(e.verdicts[p]) /\ "later" \notin e.verdicts[p].reasons
    BY <1>1 DEF Fresh
  <2> QED
    BY <2>1, ReclassifyIsGood
<1>3. V = [p \in DOMAIN e.verdicts |-> V[p]]
  OBVIOUS
<1>4. IsGood(Evaluation(V, e.target)) /\ Evaluation(V, e.target).verdicts = V
  <2> HIDE DEF V
  <2> QED
    BY <1>1, <1>2, <1>3, EvaluationIsGood
<1>5. ApplyAvailability(e, pins) = Evaluation(V, e.target)
  BY DEF ApplyAvailability, WithVerdicts
<1> HIDE DEF V
<1> QED
  BY <1>2, <1>3, <1>4, <1>5

LEMMA SummaryIsOfKinds ==
    ASSUME NEW U, NEW V, DOMAIN U = DOMAIN V, \A p \in DOMAIN U : U[p].kind = V[p].kind
    PROVE  SummaryOf(U) = SummaryOf(V)
<1>1. \A k : {p \in DOMAIN U : U[p].kind = k} = {p \in DOMAIN V : V[p].kind = k}
  OBVIOUS
<1>2. \A k : Count(U, k) = Count(V, k)
  BY <1>1 DEF Count
<1> QED
  BY <1>2 DEF SummaryOf

LEMMA PromotionIsGood ==
    ASSUME NEW e, IsGood(e), NEW r, r = PromotePins(e, SelfPins)
    PROVE  /\ IsGood(r) /\ DOMAIN r.verdicts = DOMAIN e.verdicts
           /\ ExitCode(r) = ExitCode(e)
           /\ \A p \in DOMAIN r.verdicts :
                /\ r.verdicts[p].kind = e.verdicts[p].kind
                /\ "later" \in r.verdicts[p].reasons => "later" \in e.verdicts[p].reasons
                /\ "missing" \in r.verdicts[p].reasons => "missing" \in e.verdicts[p].reasons
<1> DEFINE V == [p \in DOMAIN e.verdicts |->
                   IF p \in SelfPins THEN PromotePrereq(e.verdicts[p]) ELSE e.verdicts[p]]
<1>1. /\ DOMAIN e.verdicts \in SUBSET Pins /\ e.target \in Targets
      /\ e.summary = SummaryOf(e.verdicts)
      /\ \A p \in DOMAIN e.verdicts : Good(e.verdicts[p])
  BY EvaluationFields DEF IsGood
<1>2. ASSUME NEW p \in DOMAIN e.verdicts
      PROVE  /\ Good(V[p])
             /\ V[p].kind = e.verdicts[p].kind
             /\ "later" \in V[p].reasons => "later" \in e.verdicts[p].reasons
             /\ "missing" \in V[p].reasons => "missing" \in e.verdicts[p].reasons
  BY <1>1, PromotePrereqKeepsTheKind
<1>3. V = [p \in DOMAIN e.verdicts |-> V[p]]
  OBVIOUS
<1> HIDE DEF V
<1>4. /\ IsGood(Evaluation(V, e.target)) /\ Evaluation(V, e.target).verdicts = V
      /\ Evaluation(V, e.target).target = e.target
  BY <1>1, <1>2, <1>3, EvaluationIsGood
<1>5. PromotePins(e, SelfPins) = Evaluation(V, e.target)
  BY DEF PromotePins, WithVerdicts, V
<1>6. DOMAIN V = DOMAIN e.verdicts
  BY <1>3
<1>7. SummaryOf(V) = e.summary
  BY <1>1, <1>2, <1>6, SummaryIsOfKinds
<1>8. Evaluation(V, e.target).summary = e.summary
  BY <1>7 DEF Evaluation
<1>9. ExitCode(Evaluation(V, e.target)) = ExitCode(e)
  BY <1>4, <1>8 DEF ExitCode
<1> QED
  BY <1>2, <1>4, <1>5, <1>6, <1>9

-----------------------------------------------------------------------------
(* The inductive invariant. *)

Legs == [commits : Seq(Commits) \ {<<>>}, series : Seq(Series) \ {<<>>}]

Bumps == UNION {[P -> {"present", "missing"}] : P \in SUBSET Pins}

Rows == [pair : Pairs, eval : {e \in Evaluations : IsGood(e)}, bumps : Bumps]

FinishedLegs == [rows : Seq(Rows), exit : {0, 3}]

RoundIsTyped ==
    /\ legs \in Seq(Legs) /\ commits \in Seq(Commits) /\ series \in Seq(Series)
    /\ pc # "idle" => legs # <<>> /\ commits # <<>> /\ series # <<>>
    /\ rows \in Seq(Rows) /\ done \in Seq(FinishedLegs)
    /\ bumps \in Bumps

StateIsTyped ==
    /\ truth \in Truths /\ later \subseteq Pins /\ changes \in 0..MaxStoreChanges
    /\ runs \in 0..MaxRuns /\ run \in Options
    /\ pc \in {"idle", "lookup", "evaluate", "store", "availability", "generate",
               "assess", "promote", "report"}
    /\ input \in Commits \cup {None} /\ files \in {input, None}
    /\ pc = "evaluate" => input \in Commits
    /\ memo \in [Pins -> {Unknown, "later", "nowhere"}]
    /\ attempted \subseteq Pins /\ worst \in {0, 3}
    /\ seen \in [Pins -> SUBSET {"held", "absent"}]

\* The store has said of every pin what is so now.
SeenIsUpToDate ==
    \A p \in Pins : /\ p \in later => "held" \in seen[p]
                    /\ p \notin later => "absent" \in seen[p]

\* The probe remembers only what the store has said.
MemoIsOfTheStore ==
    \A p \in Pins : /\ memo[p] = "later" => "held" \in seen[p]
                    /\ memo[p] = "nowhere" => "absent" \in seen[p]

\* An evaluation that has been through the probe has its answers.
Answered(e) ==
    \A p \in DOMAIN e.verdicts \ SelfPins :
        /\ "later" \in e.verdicts[p].reasons => memo[p] = "later"
        /\ "missing" \in e.verdicts[p].reasons => memo[p] = "nowhere"

BumpsAreOfTheStore(b) ==
    \A p \in DOMAIN b : IF b[p] = "present" THEN "held" \in seen[p] ELSE "absent" \in seen[p]

\* Nothing is cached, or about to be, that has an answer of the store in it.
CacheIsFresh ==
    /\ \A k \in DOMAIN cache : IsFresh(cache[k])
    /\ pc \in {"store", "availability"} => IsFresh(eval)

EvalIsGood ==
    /\ IsGood(eval)
    /\ pc \in {"generate", "assess", "promote", "report"} => Answered(eval)
    /\ BumpsAreOfTheStore(bumps)

\* A row of the present leg has the answers of its probe.
RowsAreAnswered == \A i \in DOMAIN rows : Answered(rows[i].eval)

\* The parts of the properties about one row and about one leg.
RowReflectsTheStore(row) ==
    /\ \A p \in DOMAIN row.eval.verdicts \ SelfPins :
         /\ "later" \in row.eval.verdicts[p].reasons => "held" \in seen[p]
         /\ "missing" \in row.eval.verdicts[p].reasons => "absent" \in seen[p]
    /\ BumpsAreOfTheStore(row.bumps)

OneAnswer(leg) ==
    \A i, j \in DOMAIN leg : \A p \in Pins \ SelfPins :
      ~(/\ p \in DOMAIN leg[i].eval.verdicts /\ p \in DOMAIN leg[j].eval.verdicts
        /\ "later" \in leg[i].eval.verdicts[p].reasons
        /\ "missing" \in leg[j].eval.verdicts[p].reasons)

ReportsAreTrue ==
    /\ \A i \in DOMAIN rows : RowReflectsTheStore(rows[i])
    /\ \A l \in DOMAIN done : /\ OneAnswer(done[l].rows)
                             /\ \A i \in DOMAIN done[l].rows : RowReflectsTheStore(done[l].rows[i])

IInv ==
    /\ StateIsTyped /\ RoundIsTyped /\ SeenIsUpToDate /\ MemoIsOfTheStore
    /\ CacheIsFresh /\ EvalIsGood /\ RowsAreAnswered /\ ReportsAreTrue

LEMMA NoEvalIsGood == IsGood(NoEval) /\ NoEval.verdicts = [p \in {} |-> Compatible]
<1> DEFINE V == [p \in {} |-> Compatible]
<1>1. NoTarget \in Targets
  BY DEF NoTarget, Targets
<1>2. V = [p \in {} |-> V[p]]
  OBVIOUS
<1>3. IsGood(Evaluation(V, NoTarget)) /\ Evaluation(V, NoTarget).verdicts = V
  <2> HIDE DEF V
  <2> QED
    BY <1>1, <1>2, EvaluationIsGood
<1> QED
  BY <1>3 DEF NoEval

LEMMA NoBumps == [p \in {} |-> Unknown] \in Bumps /\ BumpsAreOfTheStore([p \in {} |-> Unknown])
BY DEF Bumps, BumpsAreOfTheStore

LEMMA InitHolds == ASSUME Init PROVE IInv
<1> USE ChecksAssumption DEF Init
<1>1. StateIsTyped
  <2>1. seen \in [Pins -> SUBSET {"held", "absent"}]
    BY DEF Saying
  <2>2. run \in Options
    BY DEF Options, Verbs
  <2> QED
    BY <2>1, <2>2 DEF StateIsTyped
<1>2. RoundIsTyped
  BY NoBumps DEF RoundIsTyped
<1>3. SeenIsUpToDate
  BY DEF SeenIsUpToDate, Saying
<1>4. MemoIsOfTheStore /\ RowsAreAnswered /\ ReportsAreTrue
  BY DEF MemoIsOfTheStore, RowsAreAnswered, ReportsAreTrue, Unknown
<1>5. CacheIsFresh /\ EvalIsGood
  BY NoEvalIsGood, NoBumps DEF CacheIsFresh, EvalIsGood
<1> QED
  BY <1>1, <1>2, <1>3, <1>4, <1>5 DEF IInv

-----------------------------------------------------------------------------
(* Every step preserves it. *)

LEMMA PairIsTyped ==
    ASSUME IInv, pc # "idle"
    PROVE  /\ Pair \in Pairs /\ Pair[2] \in Series /\ Pair[1] \in Commits
           /\ Facts \in Findings(Pins) /\ Facts.bumps \subseteq Pins
<1>1. commits \in Seq(Commits) /\ commits # <<>> /\ series \in Seq(Series) /\ series # <<>>
  BY DEF IInv, RoundIsTyped
<1>2. Head(commits) \in Commits /\ Head(series) \in Series
  BY <1>1
<1>3. truth \in [Pairs -> Findings(Pins)]
  BY ChecksAssumption DEF IInv, StateIsTyped
<1>4. Facts \in Findings(Pins)
  BY <1>2, <1>3 DEF Facts, Pair, Pairs
<1>5. Facts.bumps \subseteq Pins
  BY <1>4 DEF Findings
<1> QED
  BY <1>2, <1>4, <1>5 DEF Pair, Pairs

\* The reports are as true as they were unless they, the memo or the store change.
LEMMA ReportsStay ==
    ASSUME IInv, UNCHANGED <<rows, done, memo, seen, later>>
    PROVE  SeenIsUpToDate' /\ MemoIsOfTheStore' /\ RowsAreAnswered' /\ ReportsAreTrue'
BY DEF IInv, SeenIsUpToDate, MemoIsOfTheStore, RowsAreAnswered, ReportsAreTrue, Answered,
       RowReflectsTheStore, BumpsAreOfTheStore, OneAnswer

LEMMA HitHolds == ASSUME IInv, Hit PROVE IInv'
<1> USE DEF Hit
<1>1. StateIsTyped'
  BY DEF IInv, StateIsTyped, legVars
<1>2. RoundIsTyped'
  BY DEF IInv, RoundIsTyped, legVars, planVars
<1>3. IsFresh(cache[Key])
  BY DEF IInv, CacheIsFresh
<1>4. IsGood(cache[Key])
  BY <1>3 DEF IsFresh, IsGood, Fresh
<1>5. CacheIsFresh' /\ EvalIsGood'
  BY <1>3, <1>4 DEF IInv, CacheIsFresh, EvalIsGood, BumpsAreOfTheStore
<1> QED
  BY <1>1, <1>2, <1>5, ReportsStay DEF IInv, legVars

LEMMA MissHolds == ASSUME IInv, Miss PROVE IInv'
<1> USE DEF Miss
<1>1. StateIsTyped'
  BY PairIsTyped, ChecksAssumption DEF IInv, StateIsTyped, legVars
<1>2. RoundIsTyped'
  BY DEF IInv, RoundIsTyped, legVars, planVars
<1>3. CacheIsFresh' /\ EvalIsGood'
  BY DEF IInv, CacheIsFresh, EvalIsGood, BumpsAreOfTheStore
<1> QED
  BY <1>1, <1>2, <1>3, ReportsStay DEF IInv, legVars

LEMMA EvaluateHolds == ASSUME IInv, Evaluate PROVE IInv'
<1> USE DEF Evaluate
<1>1. StateIsTyped'
  BY DEF IInv, StateIsTyped, legVars
<1>2. RoundIsTyped'
  BY DEF IInv, RoundIsTyped, legVars, planVars
<1> DEFINE found == [truth[<<input, Pair[2]>>] EXCEPT !.raw = truth[<<files', Pair[2]>>].raw]
           one == EvaluateOne(found, SelfPins)
           all == IF run.untracked THEN ResolveUntracked(one, found) ELSE one
<1>3. found \in Findings(Pins)
  <2>1. input \in Commits /\ files' \in Commits
    BY ChecksAssumption DEF IInv, StateIsTyped
  <2>2. <<input, Pair[2]>> \in Pairs /\ <<files', Pair[2]>> \in Pairs
    BY <2>1, PairIsTyped DEF Pairs
  <2>3. truth \in [Pairs -> Findings(Pins)]
    BY ChecksAssumption DEF IInv, StateIsTyped
  <2>4. truth[<<input, Pair[2]>>] \in Findings(Pins) /\ truth[<<files', Pair[2]>>] \in Findings(Pins)
    BY <2>2, <2>3
  <2> QED
    BY <2>4 DEF Findings
<1>4. IsFresh(eval')
  <2>1. IsFresh(one)
    BY <1>3, EvaluateOneIsFresh
  <2>2. IsFresh(all)
    BY <2>1, ResolveUntrackedIsFresh
  <2>3. eval' = IF run.target THEN ApplyTarget(all, found) ELSE all
    OBVIOUS
  <2> HIDE DEF all
  <2> QED
    BY <2>2, <2>3, ApplyTargetIsFresh
<1>5. IsGood(eval')
  BY <1>4, FreshIsGood
<1>6. CacheIsFresh' /\ EvalIsGood'
  BY <1>4, <1>5 DEF IInv, CacheIsFresh, EvalIsGood, BumpsAreOfTheStore
<1> QED
  BY <1>1, <1>2, <1>6, ReportsStay DEF IInv, legVars

LEMMA StoreHolds == ASSUME IInv, Store PROVE IInv'
<1> USE DEF Store, pairVars
<1>1. StateIsTyped'
  BY DEF IInv, StateIsTyped, legVars
<1>2. RoundIsTyped'
  BY DEF IInv, RoundIsTyped, legVars, planVars
<1>3. CacheIsFresh' /\ EvalIsGood'
  BY DEF IInv, CacheIsFresh, EvalIsGood, BumpsAreOfTheStore, Stored
<1> QED
  BY <1>1, <1>2, <1>3, ReportsStay DEF IInv, legVars

LEMMA AssessHolds == ASSUME IInv, Assess PROVE IInv'
<1> USE DEF Assess
<1>1. StateIsTyped'
  BY DEF IInv, StateIsTyped, legVars
<1>2. bumps' \in Bumps
  BY PairIsTyped DEF Bumps
<1>3. RoundIsTyped'
  BY <1>2 DEF IInv, RoundIsTyped, legVars, planVars
<1>4. BumpsAreOfTheStore(bumps')
  BY PairIsTyped DEF IInv, SeenIsUpToDate, BumpsAreOfTheStore
<1>5. CacheIsFresh' /\ EvalIsGood'
  BY <1>4 DEF IInv, CacheIsFresh, EvalIsGood, BumpsAreOfTheStore, Answered, legVars
<1> QED
  BY <1>1, <1>3, <1>5, ReportsStay DEF IInv, legVars

LEMMA PromoteSelfHolds == ASSUME IInv, PromoteSelf PROVE IInv'
<1> USE DEF PromoteSelf
<1>1. StateIsTyped'
  BY DEF IInv, StateIsTyped, legVars
<1>2. RoundIsTyped'
  BY DEF IInv, RoundIsTyped, legVars, planVars
<1>3. IsGood(eval) /\ Answered(eval)
  BY DEF IInv, EvalIsGood
<1>4. IsGood(eval')
  BY <1>3, PromotionIsGood
<1>5. Answered(eval)'
  BY <1>3, PromotionIsGood DEF Answered, legVars
<1>6. CacheIsFresh' /\ EvalIsGood'
  BY <1>4, <1>5 DEF IInv, CacheIsFresh, EvalIsGood, BumpsAreOfTheStore
<1> QED
  BY <1>1, <1>2, <1>6, ReportsStay DEF IInv, legVars

LEMMA EvictHolds == ASSUME IInv, NEW k, Evict(k) PROVE IInv'
<1> USE DEF Evict, pairVars
<1>1. StateIsTyped'
  BY DEF IInv, StateIsTyped, legVars
<1>2. RoundIsTyped'
  BY DEF IInv, RoundIsTyped, legVars, planVars
<1>3. CacheIsFresh' /\ EvalIsGood'
  BY DEF IInv, CacheIsFresh, EvalIsGood, BumpsAreOfTheStore, Answered, legVars
<1> QED
  BY <1>1, <1>2, <1>3, ReportsStay DEF IInv, legVars

\* The probe answers what it does not remember by the store, and never
\* changes an answer.
LEMMA AvailabilityHolds == ASSUME IInv, Availability PROVE IInv'
<1> USE DEF Availability
<1>1. StateIsTyped'
  BY DEF IInv, StateIsTyped
<1>2. RoundIsTyped'
  BY DEF IInv, RoundIsTyped, planVars
<1>3. IsFresh(eval)
  BY DEF IInv, CacheIsFresh
<1> DEFINE pins == {p \in Asked : Ask(p, memo)}
<1>4. Asked \subseteq Pins
  BY <1>3, EvaluationFields DEF IsFresh, Asked
<1>5. \A p \in Pins : memo[p] \in {"later", "nowhere"} => memo'[p] = memo[p]
  BY DEF IInv, StateIsTyped, Ask, Unknown
<1>6. \A p \in Asked : memo'[p] = IF p \in pins THEN "later" ELSE "nowhere"
  BY <1>4
<1>7. MemoIsOfTheStore'
  <2>1. ASSUME NEW p \in Pins, p \in Asked
        PROVE  /\ p \in pins => "held" \in seen[p]
               /\ p \notin pins => "absent" \in seen[p]
    <3>1. memo[p] \in {Unknown, "later", "nowhere"}
      BY DEF IInv, StateIsTyped
    <3> QED
      BY <2>1, <3>1 DEF IInv, Ask, SeenIsUpToDate, MemoIsOfTheStore
  <2>2. ASSUME NEW p \in Pins, p \notin Asked PROVE memo'[p] = memo[p]
    BY <2>2
  <2> HIDE DEF pins
  <2> QED
    BY <1>6, <2>1, <2>2 DEF IInv, MemoIsOfTheStore
<1>8. RowsAreAnswered'
  <2>1. ASSUME NEW i \in DOMAIN rows PROVE DOMAIN rows[i].eval.verdicts \subseteq Pins
    <3>1. rows[i] \in Rows
      BY DEF IInv, RoundIsTyped
    <3> QED
      BY <3>1, EvaluationFields DEF Rows
  <2> QED
    BY <1>5, <2>1 DEF IInv, RowsAreAnswered, Answered
<1>9. /\ IsGood(eval') /\ DOMAIN eval'.verdicts = DOMAIN eval.verdicts
      /\ \A p \in DOMAIN eval'.verdicts :
           /\ "later" \in eval'.verdicts[p].reasons => p \in pins
           /\ "missing" \in eval'.verdicts[p].reasons =>
                p \notin pins /\ "missing" \in eval.verdicts[p].reasons
  <2>1. eval' = ApplyAvailability(eval, pins)
    OBVIOUS
  <2> HIDE DEF pins
  <2> QED
    BY <1>3, <2>1, AvailabilityIsGood
<1>10. Answered(eval)'
  <2>1. pins \subseteq Asked
    OBVIOUS
  <2>2. \A p \in DOMAIN eval.verdicts \ SelfPins :
          "missing" \in eval.verdicts[p].reasons => p \in Asked
    BY DEF Asked
  <2> HIDE DEF pins
  <2> QED
    BY <1>6, <1>9, <2>1, <2>2 DEF Answered
<1>11. CacheIsFresh' /\ EvalIsGood'
  BY <1>9, <1>10 DEF IInv, CacheIsFresh, EvalIsGood, BumpsAreOfTheStore
<1>12. SeenIsUpToDate' /\ ReportsAreTrue'
  BY DEF IInv, SeenIsUpToDate, ReportsAreTrue, RowReflectsTheStore, BumpsAreOfTheStore, OneAnswer
<1> QED
  BY <1>1, <1>2, <1>7, <1>8, <1>11, <1>12 DEF IInv

\* What was said stays said when the store says more.
LEMMA MoreIsSaid ==
    ASSUME IInv, UNCHANGED <<rows, done, memo, eval, bumps, cache>>,
           pc' = pc \/ (pc = "generate" /\ pc' = "assess"),
           \A p \in Pins : seen[p] \subseteq seen'[p]
    PROVE  /\ MemoIsOfTheStore' /\ RowsAreAnswered' /\ ReportsAreTrue'
           /\ CacheIsFresh' /\ EvalIsGood'
<1>1. ASSUME NEW b \in Bumps, BumpsAreOfTheStore(b) PROVE BumpsAreOfTheStore(b)'
  BY <1>1 DEF BumpsAreOfTheStore, Bumps
<1>2. ASSUME NEW row \in Rows, RowReflectsTheStore(row) PROVE RowReflectsTheStore(row)'
  <2>1. DOMAIN row.eval.verdicts \subseteq Pins /\ row.bumps \in Bumps
    BY EvaluationFields DEF Rows
  <2> QED
    BY <1>1, <1>2, <2>1 DEF RowReflectsTheStore
<1>3. \A i \in DOMAIN rows : rows[i] \in Rows
  BY DEF IInv, RoundIsTyped
<1>4. \A l \in DOMAIN done : \A i \in DOMAIN done[l].rows : done[l].rows[i] \in Rows
  <2>1. \A l \in DOMAIN done : done[l] \in FinishedLegs
    BY DEF IInv, RoundIsTyped
  <2>2. \A l \in DOMAIN done : done[l].rows \in Seq(Rows)
    BY <2>1 DEF FinishedLegs
  <2> QED
    BY <2>2
<1>5. ReportsAreTrue'
  BY <1>2, <1>3, <1>4 DEF IInv, ReportsAreTrue, OneAnswer
<1>6. MemoIsOfTheStore' /\ RowsAreAnswered'
  BY DEF IInv, MemoIsOfTheStore, RowsAreAnswered, Answered
<1>7. BumpsAreOfTheStore(bumps)'
  BY <1>1 DEF IInv, RoundIsTyped, EvalIsGood
<1>8. CacheIsFresh' /\ EvalIsGood'
  BY <1>7 DEF IInv, CacheIsFresh, EvalIsGood, Answered
<1> QED
  BY <1>5, <1>6, <1>8

LEMMA GenerateHolds == ASSUME IInv, Generate PROVE IInv'
<1> USE DEF Generate, pairVars
<1>1. PICK ok \in SUBSET {p \in Facts.bumps : p \notin later /\ p \notin attempted} :
        /\ later' = later \cup ok
        /\ seen' = [p \in Pins |-> IF p \in ok THEN seen[p] \cup {"held"} ELSE seen[p]]
  OBVIOUS
<1>2. ok \subseteq Pins /\ attempted' \subseteq Pins
  BY PairIsTyped DEF IInv, StateIsTyped
<1>3. StateIsTyped'
  BY <1>1, <1>2 DEF IInv, StateIsTyped
<1>4. RoundIsTyped'
  BY DEF IInv, RoundIsTyped, planVars
<1>5. SeenIsUpToDate'
  BY <1>1, <1>2 DEF IInv, SeenIsUpToDate
<1>6. \A p \in Pins : seen[p] \subseteq seen'[p]
  BY <1>1
<1> QED
  BY <1>3, <1>4, <1>5, <1>6, MoreIsSaid DEF IInv

LEMMA ChangeStoreHolds == ASSUME IInv, NEW p \in Pins, ChangeStore(p) PROVE IInv'
<1> USE DEF ChangeStore, pairVars, legVars
<1>1. Saying(later', p) \in {"held", "absent"}
  BY DEF Saying
<1>2. StateIsTyped'
  BY <1>1, ChecksAssumption DEF IInv, StateIsTyped
<1>3. RoundIsTyped'
  BY DEF IInv, RoundIsTyped, planVars
<1>4. seen' = [seen EXCEPT ![p] = @ \cup {Saying(later', p)}] /\ seen \in [Pins -> SUBSET {"held", "absent"}]
  BY DEF IInv, StateIsTyped
<1>5. SeenIsUpToDate'
  BY <1>4 DEF IInv, SeenIsUpToDate, Saying
<1>6. \A q \in Pins : seen[q] \subseteq seen'[q]
  BY <1>4
<1> QED
  BY <1>2, <1>3, <1>5, <1>6, MoreIsSaid DEF IInv

LEMMA AppendedElements ==
    ASSUME NEW S, NEW s \in Seq(S), NEW e \in S
    PROVE  /\ Append(s, e) \in Seq(S)
           /\ \A i \in DOMAIN Append(s, e) :
                (i \in DOMAIN s /\ Append(s, e)[i] = s[i]) \/ Append(s, e)[i] = e
OBVIOUS

LEMMA TailIsTyped ==
    ASSUME NEW S, NEW s \in Seq(S), s # <<>>
    PROVE  Tail(s) \in Seq(S) /\ Head(s) \in S
OBVIOUS

\* What is reported of a pair: a typed row, with the answers of the probe.
LEMMA RowIsTrue ==
    ASSUME IInv, pc = "report"
    PROVE  /\ Row \in Rows /\ Answered(Row.eval) /\ RowReflectsTheStore(Row)
           /\ Worst \in {0, 3}
<1>1. Row.pair = Pair /\ Row.eval = eval /\ Row.bumps = bumps
  BY DEF Row
<1>2. eval \in Evaluations /\ IsGood(eval) /\ bumps \in Bumps /\ Pair \in Pairs
  BY PairIsTyped DEF IInv, EvalIsGood, IsGood, RoundIsTyped
<1>3. Row \in Rows
  BY <1>2 DEF Row, Rows
<1>4. Answered(eval) /\ BumpsAreOfTheStore(bumps)
  BY DEF IInv, EvalIsGood
<1>5. DOMAIN eval.verdicts \subseteq Pins
  BY <1>2, EvaluationFields
<1>6. RowReflectsTheStore(Row)
  BY <1>1, <1>4, <1>5 DEF RowReflectsTheStore, Answered, IInv, MemoIsOfTheStore
<1>7. Worst \in {0, 3}
  BY DEF Worst, ExitCode, IInv, StateIsTyped
<1> QED
  BY <1>1, <1>3, <1>4, <1>6, <1>7

\* The rows of the leg, with this one, are as true.
LEMMA LegIsTrue ==
    ASSUME IInv, pc = "report"
    PROVE  /\ Append(rows, Row) \in Seq(Rows)
           /\ \A i \in DOMAIN Append(rows, Row) :
                /\ Answered(Append(rows, Row)[i].eval)
                /\ RowReflectsTheStore(Append(rows, Row)[i])
           /\ OneAnswer(Append(rows, Row))
<1>1. rows \in Seq(Rows)
  BY DEF IInv, RoundIsTyped
<1> DEFINE leg == Append(rows, Row)
<1>2. /\ leg \in Seq(Rows)
      /\ \A i \in DOMAIN leg : (i \in DOMAIN rows /\ leg[i] = rows[i]) \/ leg[i] = Row
  BY <1>1, RowIsTrue, AppendedElements
<1> HIDE DEF leg
<1>3. \A i \in DOMAIN leg : Answered(leg[i].eval) /\ RowReflectsTheStore(leg[i])
  BY <1>2, RowIsTrue DEF IInv, RowsAreAnswered, ReportsAreTrue
<1>4. OneAnswer(leg)
  BY <1>3 DEF OneAnswer, Answered
<1> QED
  BY <1>2, <1>3, <1>4 DEF leg

LEMMA NextPairIsGood ==
    ASSUME IInv, NextPair, pc' \in {"idle", "lookup"}
    PROVE  CacheIsFresh' /\ EvalIsGood' /\ SeenIsUpToDate' /\ bumps' \in Bumps
<1> USE DEF NextPair
<1>1. IsGood(eval') /\ bumps' \in Bumps
  BY NoEvalIsGood, NoBumps
<1>2. BumpsAreOfTheStore(bumps)'
  BY DEF BumpsAreOfTheStore
<1> QED
  BY <1>1, <1>2 DEF IInv, CacheIsFresh, EvalIsGood, SeenIsUpToDate

\* A row more, and the memo and the store as they were.
LEMMA OneMoreRow ==
    ASSUME IInv, pc = "report", rows' = Append(rows, Row), UNCHANGED <<done, memo, seen>>
    PROVE  MemoIsOfTheStore' /\ RowsAreAnswered' /\ ReportsAreTrue'
<1>1. /\ \A i \in DOMAIN rows' : Answered(rows'[i].eval) /\ RowReflectsTheStore(rows'[i])
  BY LegIsTrue
<1> QED
  BY <1>1 DEF IInv, MemoIsOfTheStore, RowsAreAnswered, ReportsAreTrue, Answered,
              RowReflectsTheStore, BumpsAreOfTheStore, OneAnswer

LEMMA NextSeriesHolds == ASSUME IInv, NextSeries PROVE IInv'
<1> USE DEF NextSeries
<1>1. StateIsTyped'
  BY RowIsTrue DEF IInv, StateIsTyped, NextPair
<1>2. RoundIsTyped'
  BY LegIsTrue, NextPairIsGood, TailIsTyped DEF IInv, RoundIsTyped
<1> QED
  BY <1>1, <1>2, OneMoreRow, NextPairIsGood DEF IInv, NextPair

LEMMA NextCommitHolds == ASSUME IInv, NextCommit PROVE IInv'
<1> USE DEF NextCommit
<1>1. StateIsTyped'
  BY RowIsTrue DEF IInv, StateIsTyped, NextPair, AtTheNextCommit
<1>2. Head(legs) \in Legs
  BY TailIsTyped DEF IInv, RoundIsTyped
<1>3. series' \in Seq(Series) /\ series' # <<>>
  BY <1>2 DEF Legs
<1>4. RoundIsTyped'
  BY <1>3, LegIsTrue, NextPairIsGood, TailIsTyped DEF IInv, RoundIsTyped
<1> QED
  BY <1>1, <1>4, OneMoreRow, NextPairIsGood DEF IInv, NextPair

LEMMA EndLegHolds == ASSUME IInv, EndLeg PROVE IInv'
<1> USE DEF EndLeg
<1> DEFINE finished == [rows |-> Append(rows, Row), exit |-> Worst]
<1>1. pc' \in {"idle", "lookup"}
  OBVIOUS
<1>2. StateIsTyped'
  BY <1>1 DEF IInv, StateIsTyped, NextPair, Unknown
<1>3. finished \in FinishedLegs /\ finished.rows = Append(rows, Row)
  BY RowIsTrue, LegIsTrue DEF FinishedLegs
<1>4. /\ done' \in Seq(FinishedLegs)
      /\ \A l \in DOMAIN done' : (l \in DOMAIN done /\ done'[l] = done[l]) \/ done'[l] = finished
  <2>1. done' = Append(done, finished) /\ done \in Seq(FinishedLegs)
    BY DEF IInv, RoundIsTyped
  <2> HIDE DEF finished
  <2> QED
    BY <1>3, <2>1, AppendedElements
<1>5. RoundIsTyped'
  <2>1. Tail(legs) \in Seq(Legs)
    BY TailIsTyped DEF IInv, RoundIsTyped
  <2>2. Tail(legs) # <<>> => Head(Tail(legs)) \in Legs
    BY <2>1, TailIsTyped
  <2>3. /\ commits' \in Seq(Commits) /\ series' \in Seq(Series)
        /\ pc' # "idle" => legs' # <<>> /\ commits' # <<>> /\ series' # <<>>
    <3>1. CASE Tail(legs) # <<>>
      <4>1. /\ Head(Tail(legs)).commits \in Seq(Commits) \ {<<>>}
            /\ Head(Tail(legs)).series \in Seq(Series) \ {<<>>}
        BY <2>2, <3>1 DEF Legs
      <4>2. /\ commits' = Head(Tail(legs)).commits /\ series' = Head(Tail(legs)).series
            /\ legs' = Tail(legs)
        BY <3>1
      <4> QED
        BY <3>1, <4>1, <4>2, Zenon
    <3>2. CASE Tail(legs) = <<>>
      <4>1. commits' = <<>> /\ series' = <<>> /\ pc' = "idle"
        BY <3>2
      <4> HIDE DEF EndLeg
      <4> QED
        BY <4>1
    <3> QED
      BY <3>1, <3>2
  <2> QED
    BY <1>1, <1>4, <2>1, <2>3, NextPairIsGood DEF RoundIsTyped
<1>6. MemoIsOfTheStore' /\ RowsAreAnswered'
  BY DEF MemoIsOfTheStore, RowsAreAnswered, Unknown
<1>7. \A l \in DOMAIN done' :
        /\ OneAnswer(done'[l].rows)
        /\ \A i \in DOMAIN done'[l].rows : RowReflectsTheStore(done'[l].rows[i])
  <2> HIDE DEF finished
  <2> QED
    BY <1>3, <1>4, LegIsTrue DEF IInv, ReportsAreTrue
<1>8. ReportsAreTrue'
  <2>1. \A l \in DOMAIN done' :
          /\ OneAnswer(done[l].rows)'
          /\ \A i \in DOMAIN done'[l].rows : RowReflectsTheStore(done[l].rows[i])'
    <3>1. seen' = seen
      BY DEF NextPair
    <3> HIDE DEF EndLeg, finished
    <3> QED
      BY <1>7, <3>1 DEF OneAnswer, RowReflectsTheStore, BumpsAreOfTheStore
  <2>2. \A i \in DOMAIN rows' : RowReflectsTheStore(rows[i])'
    <3>1. DOMAIN rows' = {}
      OBVIOUS
    <3> QED
      BY <3>1
  <2> QED
    BY <2>1, <2>2 DEF ReportsAreTrue
<1> QED
  BY <1>1, <1>2, <1>5, <1>6, <1>8, NextPairIsGood DEF IInv

LEMMA FailHolds == ASSUME IInv, Fail PROVE IInv'
<1> USE DEF Fail
<1>1. StateIsTyped'
  BY DEF IInv, StateIsTyped, NextPair, Unknown
<1>2. RoundIsTyped'
  BY NextPairIsGood DEF RoundIsTyped
<1>3. MemoIsOfTheStore' /\ RowsAreAnswered' /\ ReportsAreTrue'
  BY DEF MemoIsOfTheStore, RowsAreAnswered, ReportsAreTrue, Unknown
<1> QED
  BY <1>1, <1>2, <1>3, NextPairIsGood DEF IInv

LEMMA StartHolds ==
    ASSUME IInv, NEW o \in RunOptions, NEW cs \in CommitLists, NEW ss \in SeriesLists,
           Start(o, cs, ss)
    PROVE  IInv'
<1> USE ChecksAssumption DEF Start
<1>1. cs \in Seq(Commits) \ {<<>>} /\ ss \in Seq(Series) \ {<<>>}
  OBVIOUS
<1>2. legs' \in Seq(Legs) /\ legs' # <<>>
  <2>1. [commits |-> cs, series |-> ss] \in Legs
    BY <1>1 DEF Legs
  <2>2. \A i \in DOMAIN ss : [commits |-> cs, series |-> <<ss[i]>>] \in Legs
    BY <1>1 DEF Legs
  <2>3. CASE o.verb = "cascade"
    <3>1. legs' = [i \in DOMAIN ss |-> [commits |-> cs, series |-> <<ss[i]>>]]
      BY <2>3 DEF Plan
    <3>2. DOMAIN ss = 1..Len(ss) /\ Len(ss) \in Nat /\ Len(ss) # 0
      BY <1>1
    <3> QED
      BY <2>2, <3>1, <3>2
  <2>4. CASE o.verb # "cascade"
    BY <2>1, <2>4 DEF Plan
  <2> QED
    BY <2>3, <2>4
<1>3. series' \in Seq(Series) /\ series' # <<>>
  <2>1. Head(legs') \in Legs
    BY <1>2, TailIsTyped
  <2> QED
    BY <2>1 DEF Legs
<1>4. Head(cs) \in Commits
  BY <1>1
<1>5. StateIsTyped'
  <2>1. seen' \in [Pins -> SUBSET {"held", "absent"}]
    BY DEF Saying
  <2> QED
    BY <1>4, <2>1 DEF IInv, StateIsTyped, Unknown
<1>6. RoundIsTyped'
  BY <1>1, <1>2, <1>3, NoBumps DEF RoundIsTyped
<1>7. SeenIsUpToDate'
  BY DEF SeenIsUpToDate, Saying
<1>8. MemoIsOfTheStore' /\ RowsAreAnswered' /\ ReportsAreTrue'
  BY DEF MemoIsOfTheStore, RowsAreAnswered, ReportsAreTrue, Unknown
<1>9. CacheIsFresh' /\ EvalIsGood'
  BY NoEvalIsGood DEF IInv, CacheIsFresh, EvalIsGood, BumpsAreOfTheStore
<1> QED
  BY <1>5, <1>6, <1>7, <1>8, <1>9 DEF IInv

LEMMA NextHolds == ASSUME IInv, [Next]_vars PROVE IInv'
<1>1. CASE UNCHANGED vars
  <2> USE <1>1 DEF vars, legVars, planVars, pairVars
  <2>1. StateIsTyped' /\ RoundIsTyped'
    BY DEF IInv, StateIsTyped, RoundIsTyped
  <2>2. CacheIsFresh' /\ EvalIsGood'
    BY DEF IInv, CacheIsFresh, EvalIsGood, BumpsAreOfTheStore, Answered
  <2> QED
    BY <2>1, <2>2, ReportsStay DEF IInv
<1>2. CASE \E o \in RunOptions, cs \in CommitLists, ss \in SeriesLists : Start(o, cs, ss)
  BY <1>2, StartHolds
<1>3. CASE \E p \in Pins : ChangeStore(p)
  BY <1>3, ChangeStoreHolds
<1>4. CASE \E k \in DOMAIN cache : Evict(k)
  BY <1>4, EvictHolds
<1>5. CASE Hit \/ Miss \/ Evaluate \/ Store \/ Availability
  BY <1>5, HitHolds, MissHolds, EvaluateHolds, StoreHolds, AvailabilityHolds
<1>6. CASE Generate \/ Assess \/ PromoteSelf
  BY <1>6, GenerateHolds, AssessHolds, PromoteSelfHolds
<1>7. CASE NextSeries \/ NextCommit \/ EndLeg \/ Fail
  BY <1>7, NextSeriesHolds, NextCommitHolds, EndLegHolds, FailHolds
<1> QED
  BY <1>1, <1>2, <1>3, <1>4, <1>5, <1>6, <1>7 DEF Next

LEMMA Invariance == Spec => []IInv
<1>1. Init => IInv
  BY InitHolds
<1>2. IInv /\ [Next]_vars => IInv'
  BY NextHolds
<1> QED
  BY <1>1, <1>2, PTL DEF Spec

LEMMA RowsOfLegsAreTyped ==
    ASSUME IInv
    PROVE  /\ \A i \in DOMAIN rows : rows[i] \in Rows
           /\ \A l \in DOMAIN done : \A i \in DOMAIN done[l].rows : done[l].rows[i] \in Rows
<1>1. rows \in Seq(Rows) /\ done \in Seq(FinishedLegs)
  BY DEF IInv, RoundIsTyped
<1>2. \A l \in DOMAIN done : done[l] \in FinishedLegs
  BY <1>1
<1>3. \A l \in DOMAIN done : done[l].rows \in Seq(Rows)
  BY <1>2 DEF FinishedLegs
<1> QED
  BY <1>1, <1>3

-----------------------------------------------------------------------------
(* The theorems. *)

LEMMA GoodIsWellFormed == ASSUME NEW e, IsGood(e) PROVE WellFormed(e)
BY EvaluationFields DEF IsGood, Good, WellFormed

\* Type correctness of the check verbs.  Its substance is WellFormed: whatever
\* check.rs merges into a verdict or reclassifies, of the pair at hand, in the
\* cache and in every row, the reasons fit the verdict and the summary was
\* counted again.
THEOREM TypeCorrect == Spec => []TypeOK
<1>1. ASSUME IInv PROVE TypeOK
  <2>1. StateIsTyped /\ WellFormed(eval)
    BY <1>1, GoodIsWellFormed DEF IInv, EvalIsGood
  <2>2. \A k \in DOMAIN cache : WellFormed(cache[k])
    <3>1. \A k \in DOMAIN cache : IsGood(cache[k])
      BY <1>1 DEF IInv, CacheIsFresh, IsFresh, IsGood, Fresh
    <3> QED
      BY <3>1, GoodIsWellFormed
  <2>3. \A row \in AllRows : row \in Rows
    BY <1>1, RowsOfLegsAreTyped DEF AllRows
  <2>4. \A row \in AllRows : row.pair \in Pairs /\ WellFormed(row.eval)
    BY <2>3, GoodIsWellFormed DEF Rows
  <2> QED
    BY <2>1, <2>2, <2>4 DEF TypeOK, StateIsTyped
<1> QED
  BY <1>1, Invariance, PTL

\* What a row of a round says of the snapshot store, about a missing symbol
\* or a bump, the store said during that round: the verdict cache holds no
\* answer of an earlier one (check.rs stores an evaluation before the
\* availability probe is asked), and the probe's memo dies with the leg.
THEOREM RowsAreOfTheStore == Spec => []RowsReflectTheStore
<1>1. ASSUME IInv PROVE RowsReflectTheStore
  <2>1. \A row \in AllRows : RowReflectsTheStore(row)
    BY <1>1 DEF IInv, ReportsAreTrue, AllRows
  <2> QED
    BY <2>1 DEF RowsReflectTheStore, RowReflectsTheStore, BumpsAreOfTheStore
<1> QED
  BY <1>1, Invariance, PTL

\* No two rows of a leg disagree on whether a missing symbol comes later,
\* though snapshots are generated and deleted between them: all of them have
\* the answer of the one AvailabilityProbe.
THEOREM LegsHaveOneAnswer == Spec => []OneAnswerPerLeg
<1>1. ASSUME IInv PROVE OneAnswerPerLeg
  <2>1. OneAnswer(rows)
    BY <1>1 DEF IInv, RowsAreAnswered, Answered, OneAnswer
  <2>2. \A l \in DOMAIN done : OneAnswer(done[l].rows)
    BY <1>1 DEF IInv, ReportsAreTrue
  <2>3. \A leg \in RowsOfLegs : OneAnswer(leg)
    BY <2>1, <2>2 DEF RowsOfLegs
  <2> QED
    BY <2>3 DEF OneAnswerPerLeg, OneAnswer
<1> QED
  BY <1>1, Invariance, PTL

\* The promotion that only check commit makes of the program's own missing
\* symbols (promote_self_pin_prereqs) changes no verdict and no exit code,
\* whatever findings it meets.
THEOREM PromotionIsNeutral == Spec => PromotionKeepsTheVerdict
<1> DEFINE Kept == /\ ExitCode(eval') = ExitCode(eval)
                   /\ \A p \in DOMAIN eval.verdicts :
                        eval'.verdicts[p].kind = eval.verdicts[p].kind
<1>1. ASSUME IInv, PromoteSelf PROVE Kept
  <2>1. IsGood(eval) /\ eval' = PromotePins(eval, SelfPins)
    BY <1>1 DEF IInv, EvalIsGood, PromoteSelf
  <2> QED
    BY <2>1, PromotionIsGood
<1>2. IInv /\ [Next]_vars => [PromoteSelf => Kept]_vars
  BY <1>1
<1> QED
  BY <1>2, Invariance, PTL DEF Spec, PromotionKeepsTheVerdict

-----------------------------------------------------------------------------
(* The rows follow the evidence.                                           *)


\* The reasons that only the target branch adds to a verdict.
OfTheTarget == {"rename", "absent", "added", "symbol", "suite", "apply"}

\* What the evaluation of a pin found and its routing kept.
Kept(f, p) == IF f.owner[p] = "elsewhere" THEN f.raw[p] \ PathScoped ELSE f.raw[p]

\* The reasons that stand in a verdict as they were found.
Standing == {"api", "advice", "file", "drift", "untracked"}

\* What a verdict about pin p owes to the findings f of its pair: the reasons
\* that were found, a missing symbol as such, as later or as a prerequisite,
\* and a kind that blocks when one of them does.
Follows(v, f, p, untracked) ==
    /\ v.reasons \cap Standing =
         (Kept(f, p) \ {"missing"}) \cup If(untracked /\ f.untracked, "untracked")
    /\ "missing" \in f.raw[p] <=> v.reasons \cap {"missing", "later", "prereq"} # {}
    /\ "later" \in v.reasons => p \notin SelfPins
    /\ "prereq" \in v.reasons => p \in SelfPins
    /\ "feature" \in v.reasons <=> f.feature
    /\ v.reasons \cap (Blocking \ {"feature"}) # {} => v.kind = "incompatible"
    /\ v.kind = "incompatible" => v.reasons \cap Blocking # {}

\* What the record of the target says in an evaluation.
TargetOf(f) == [given    |-> TRUE,
                conflict |-> f.apply \cap {"conflict", "gone"} # {},
                findings |-> If(f.symbol, "symbol") \cup If(f.suite, "suite")]

\* The same of an evaluation of a pair, with the target or without.
EvaluationFollows(e, pair, target, untracked) ==
    /\ DOMAIN e.verdicts = PinsOf[pair[2]]
    /\ \A p \in DOMAIN e.verdicts :
         /\ Follows(e.verdicts[p], truth[pair], p, untracked)
         /\ target /\ truth[pair].paths.renamed => "rename" \in e.verdicts[p].reasons
    /\ target => e.target = TargetOf(truth[pair])

-----------------------------------------------------------------------------
(* The inductive invariant, beside that of CheckRunsProofs. *)

\* Only a run that bypasses the cache looks for untracked modules.
CacheIsOfTracked == run.untracked => ~run.cached

\* What was resolved was resolved for the present commit.
InputIsOfTheCommit == (pc # "idle" /\ input # None) => input = Head(commits)

CacheFollows ==
    \A k \in DOMAIN cache :
        /\ k \in Pairs \X BOOLEAN
        /\ EvaluationFollows(cache[k], k[1], k[2], FALSE)

EvalFollows ==
    pc \in {"store", "availability", "generate", "assess", "promote", "report"} =>
        EvaluationFollows(eval, Pair, run.target, run.untracked)

LegFollows(leg) ==
    \A i \in DOMAIN leg :
        EvaluationFollows(leg[i].eval, leg[i].pair, run.target, run.untracked)

ExitOf(leg) == IF \E i \in DOMAIN leg : ExitCode(leg[i].eval) = 3 THEN 3 ELSE 0

ReportsFollow ==
    /\ LegFollows(rows) /\ worst = ExitOf(rows)
    /\ \A l \in DOMAIN done :
         LegFollows(done[l].rows) /\ done[l].exit = ExitOf(done[l].rows)

EInv ==
    /\ CacheIsOfTracked /\ InputIsOfTheCommit
    /\ CacheFollows /\ EvalFollows /\ ReportsFollow

-----------------------------------------------------------------------------
(* Verdicts. *)

\* What merging a reason of the target does to a verdict: the reasons found
\* about the pin stay, and so does whether it blocks.
SameEvidence(v, w) ==
    /\ w.reasons \ OfTheTarget = v.reasons \ OfTheTarget
    /\ v.reasons \subseteq w.reasons
    /\ w.kind = "incompatible" <=> v.kind = "incompatible"

LEMMA SameIsTransitive ==
    ASSUME NEW u, NEW v, NEW w, SameEvidence(u, v), SameEvidence(v, w)
    PROVE  SameEvidence(u, w)
BY DEF SameEvidence

LEMMA MergeKeepsEvidence ==
    ASSUME NEW v, Fresh(v), NEW R \in SUBSET OfTheTarget, NEW override \in BOOLEAN
    PROVE  /\ Fresh(Merge(v, R, override)) /\ SameEvidence(v, Merge(v, R, override))
           /\ override => R \subseteq Merge(v, R, override).reasons
<1>1. R \in SUBSET Merged
  BY DEF OfTheTarget, Merged, Reasons, PathScoped
<1>2. Fresh(Merge(v, R, override))
  BY <1>1, MergeIsFresh
<1>3. /\ v \in Verdict /\ v.kind \in Kinds /\ v.reasons \subseteq Reasons
      /\ v.reasons = {} <=> v.kind \in {"compatible", "inapplicable"}
  BY DEF Fresh, Good, Verdict
<1>4. CASE R = {} \/ (v.kind = "inapplicable" /\ ~override)
  BY <1>2, <1>3, <1>4 DEF Merge, SameEvidence
<1>5. CASE ~(R = {} \/ (v.kind = "inapplicable" /\ ~override)) /\ v.kind \in {"compatible", "inapplicable"}
  <2>1. Merge(v, R, override) = FromReasons(R) /\ R # {}
    BY <1>5 DEF Merge
  <2>2. FromReasons(R).reasons = R /\ FromReasons(R).kind # "incompatible"
    BY DEF FromReasons, OfTheTarget, Blocking
  <2> QED
    BY <1>2, <1>3, <1>5, <2>1, <2>2 DEF SameEvidence
<1>6. CASE R # {} /\ v.kind \notin {"compatible", "inapplicable"}
  <2>1. Merge(v, R, override) = [v EXCEPT !.reasons = @ \cup R]
    BY <1>6 DEF Merge
  <2>2. /\ Merge(v, R, override).kind = v.kind
        /\ Merge(v, R, override).reasons = v.reasons \cup R
    BY <1>3, <2>1 DEF Verdict
  <2> QED
    BY <1>2, <2>2 DEF SameEvidence
<1> QED
  BY <1>4, <1>5, <1>6

LEMMA PathsKeepEvidence ==
    ASSUME NEW v, Fresh(v), NEW paths
    PROVE  /\ Fresh(MergePaths(v, paths)) /\ SameEvidence(v, MergePaths(v, paths))
           /\ paths.renamed => "rename" \in MergePaths(v, paths).reasons
<1> DEFINE R == IF paths.renamed THEN {"rename"} ELSE {}
<1>1. R \in SUBSET OfTheTarget
  BY DEF OfTheTarget
<1>2. /\ Fresh(Merge(v, R, TRUE)) /\ SameEvidence(v, Merge(v, R, TRUE))
      /\ R \subseteq Merge(v, R, TRUE).reasons
  <2> HIDE DEF R
  <2> QED
    BY <1>1, MergeKeepsEvidence
<1>3. v.kind = "compatible" => v.reasons = {}
  BY DEF Fresh, Good
<1>4. v.kind = "compatible" => SameEvidence(v, Inapplicable)
  BY <1>3 DEF SameEvidence, Inapplicable
<1>5. MergePaths(v, paths) = IF v.kind = "compatible" /\ R = {} /\ paths.missing /\ ~paths.present
                             THEN Inapplicable ELSE Merge(v, R, TRUE)
  BY DEF MergePaths
<1>6. paths.renamed => R = {"rename"}
  OBVIOUS
<1> HIDE DEF R
<1> QED
  BY <1>2, <1>4, <1>5, <1>6, InapplicableIsFresh

LEMMA EvidenceIsFollowed ==
    ASSUME NEW v, NEW w, NEW f, NEW p, NEW untracked,
           SameEvidence(v, w), Follows(v, f, p, untracked),
           v.kind = "incompatible" => v.reasons \cap Blocking # {}
    PROVE  Follows(w, f, p, untracked)
<1>1. \A r : r \notin OfTheTarget => (r \in v.reasons <=> r \in w.reasons)
  BY DEF SameEvidence
<1>2. /\ Standing \cap OfTheTarget = {}
      /\ Blocking \cap OfTheTarget = {}
      /\ {"missing", "later", "prereq", "feature"} \cap OfTheTarget = {}
  BY DEF Standing, Blocking, OfTheTarget
<1>3. w.reasons \cap Standing = v.reasons \cap Standing
  BY <1>1, <1>2
<1>4. w.reasons \cap {"missing", "later", "prereq"} = v.reasons \cap {"missing", "later", "prereq"}
  BY <1>1, <1>2
<1>5. w.reasons \cap Blocking = v.reasons \cap Blocking
  BY <1>1, <1>2
<1>6. w.reasons \cap (Blocking \ {"feature"}) = v.reasons \cap (Blocking \ {"feature"})
  BY <1>5
<1>7. \A r \in {"later", "prereq", "feature"} : r \in v.reasons <=> r \in w.reasons
  BY <1>1, <1>2
<1>8. w.kind = "incompatible" <=> v.kind = "incompatible"
  BY DEF SameEvidence
<1> QED
  BY <1>3, <1>4, <1>5, <1>6, <1>7, <1>8 DEF Follows

\* The routing drops only what is about a path of someone else.
LEMMA RouteKeeps ==
    ASSUME NEW f, NEW p, f.raw[p] \subseteq Reasons, "later" \notin f.raw[p], NEW tracked
    PROVE  LET v == Route(FromReasons(f.raw[p]), tracked, f.owner[p])
           IN  /\ Fresh(v) /\ v.reasons = Kept(f, p)
               /\ v.kind = "incompatible" <=> v.reasons \cap Blocking # {}
<1> DEFINE R == f.raw[p]
           w == FromReasons(R)
           kept == R \ PathScoped
<1>1. Fresh(w) /\ w.reasons = R
  BY FromReasonsIsFresh, FromReasonsIsGood
<1>2. w.kind = "incompatible" <=> R \cap Blocking # {}
  BY DEF FromReasons, Blocking
<1>3. w.kind # "inapplicable"
  BY DEF FromReasons
<1>4. /\ FromReasons(kept).reasons = kept
      /\ FromReasons(kept).kind = "incompatible" <=> kept \cap Blocking # {}
  BY DEF FromReasons, Blocking
<1>5. Inapplicable.reasons = {} /\ Inapplicable.kind # "incompatible"
  BY DEF Inapplicable
<1>6. Route(w, tracked, f.owner[p]) =
        IF f.owner[p] # "elsewhere" THEN w
        ELSE IF kept = {} /\ ~tracked THEN Inapplicable ELSE FromReasons(kept)
  BY <1>1, <1>3 DEF Route
<1>7. Fresh(Route(w, tracked, f.owner[p]))
  BY <1>1, RouteIsFresh
<1>8. Kept(f, p) = IF f.owner[p] = "elsewhere" THEN kept ELSE R
  BY DEF Kept
<1> HIDE DEF R, kept, w
<1>9. LET v == Route(w, tracked, f.owner[p])
      IN  /\ Fresh(v) /\ v.reasons = Kept(f, p)
          /\ v.kind = "incompatible" <=> v.reasons \cap Blocking # {}
  BY <1>1, <1>2, <1>4, <1>5, <1>6, <1>7, <1>8
<1> QED
  BY <1>9 DEF w, R

LEMMA PromoteKeeps ==
    ASSUME NEW v, Fresh(v), NEW tracked, NEW nothing
    PROVE  LET w == Promote(v, tracked, nothing)
           IN  Fresh(w) /\ w.reasons = v.reasons /\ (w.kind = "incompatible" <=> v.kind = "incompatible")
<1>1. v.kind = "compatible" => v.reasons = {}
  BY DEF Fresh, Good
<1> QED
  BY <1>1, PromoteIsFresh DEF Promote, Inapplicable

\* A feature that the pinned schema lacks is heard everywhere; it blocks only
\* where it is heard first.
LEMMA FeatureIsHeard ==
    ASSUME NEW v, Fresh(v), "feature" \notin v.reasons, NEW feature \in BOOLEAN,
           v.kind = "incompatible" <=> v.reasons \cap Blocking # {}
    PROVE  LET w == Merge(v, If(feature, "feature"), TRUE)
           IN  /\ Fresh(w) /\ w.reasons = v.reasons \cup If(feature, "feature")
               /\ v.reasons \cap Blocking # {} => w.kind = "incompatible"
               /\ w.kind = "incompatible" => w.reasons \cap Blocking # {}
<1> DEFINE R == If(feature, "feature")
           w == Merge(v, R, TRUE)
<1>1. R \in SUBSET Merged
  BY DEF If, Merged, Reasons, Blocking
<1>2. Fresh(w)
  BY <1>1, MergeIsFresh
<1>3. /\ v \in Verdict /\ v.kind \in Kinds
      /\ v.reasons = {} <=> v.kind \in {"compatible", "inapplicable"}
  BY DEF Fresh, Good, Verdict
<1>4. CASE R = {}
  BY <1>2, <1>4 DEF Merge
<1>5. CASE R # {} /\ v.kind \in {"compatible", "inapplicable"}
  <2>1. w = FromReasons(R) /\ FromReasons(R).reasons = R /\ R = {"feature"}
    BY <1>5 DEF Merge, FromReasons, If
  <2> QED
    BY <1>2, <1>3, <1>5, <2>1 DEF Blocking
<1>6. CASE R # {} /\ v.kind \notin {"compatible", "inapplicable"}
  <2>1. w = [v EXCEPT !.reasons = @ \cup R]
    BY <1>6 DEF Merge
  <2>2. w.kind = v.kind /\ w.reasons = v.reasons \cup R
    BY <1>3, <2>1 DEF Verdict
  <2> QED
    BY <1>2, <2>2
<1> QED
  BY <1>4, <1>5, <1>6

-----------------------------------------------------------------------------
(* Evaluations. *)

\* What is found is of the pins of the series, and is nothing but raw reasons.
LEMMA FoundAreTyped ==
    ASSUME IInv, NEW pair \in Pairs
    PROVE  /\ truth[pair] \in Findings(Pins)
           /\ DOMAIN truth[pair].raw = PinsOf[pair[2]] /\ PinsOf[pair[2]] \subseteq Pins
           /\ \A p \in PinsOf[pair[2]] : truth[pair].raw[p] \subseteq Raw
<1>1. truth \in Truths
  BY DEF IInv, StateIsTyped
<1>2. truth[pair] \in Findings(Pins)
  BY <1>1, ChecksAssumption
<1>3. PICK P \in SUBSET Pins : truth[pair].raw \in [P -> SUBSET Raw]
  BY <1>2 DEF Findings
<1>4. DOMAIN truth[pair].raw = PinsOf[pair[2]]
  BY <1>1, ChecksAssumption
<1> QED
  BY <1>2, <1>3, <1>4

LEMMA EvaluateOneFollows ==
    ASSUME NEW f \in Findings(Pins), NEW p \in DOMAIN f.raw, f.raw[p] \subseteq Raw
    PROVE  Follows(EvaluateOne(f, SelfPins).verdicts[p], f, p, FALSE)
<1> DEFINE routed == Route(FromReasons(f.raw[p]), p \in f.tracked, f.owner[p])
           promoted == Promote(routed, p \in f.tracked, NothingToCheck(f, SelfPins))
           v == Merge(promoted, If(f.feature, "feature"), TRUE)
<1>1. f.feature \in BOOLEAN
  BY DEF Findings
<1>2. f.raw[p] \in SUBSET Reasons /\ "later" \notin f.raw[p]
  BY DEF Raw, Reasons, Blocking, PathScoped
<1>3. /\ Fresh(routed) /\ routed.reasons = Kept(f, p)
      /\ routed.kind = "incompatible" <=> routed.reasons \cap Blocking # {}
  BY <1>2, RouteKeeps, Zenon
<1>4. /\ Fresh(promoted) /\ promoted.reasons = Kept(f, p)
      /\ promoted.kind = "incompatible" <=> promoted.reasons \cap Blocking # {}
  <2> HIDE DEF routed
  <2> QED
    BY <1>3, PromoteKeeps
<1>5. Kept(f, p) \subseteq Raw
  BY DEF Kept
<1>6. /\ Fresh(v) /\ v.reasons = Kept(f, p) \cup If(f.feature, "feature")
      /\ Kept(f, p) \cap Blocking # {} => v.kind = "incompatible"
      /\ v.kind = "incompatible" => v.reasons \cap Blocking # {}
  <2>1. "feature" \notin promoted.reasons
    BY <1>4, <1>5 DEF Raw
  <2> HIDE DEF promoted
  <2> QED
    BY <1>1, <1>4, <2>1, FeatureIsHeard
<1>7. EvaluateOne(f, SelfPins).verdicts[p] = v
  BY DEF EvaluateOne, Evaluation
<1> HIDE DEF v
<1>8. v.reasons \cap Standing = Kept(f, p) \ {"missing"}
  BY <1>5, <1>6 DEF Raw, Standing, If
<1>9. "missing" \in f.raw[p] <=> v.reasons \cap {"missing", "later", "prereq"} # {}
  BY <1>5, <1>6 DEF Kept, If, PathScoped, Raw
<1>10. "later" \notin v.reasons /\ "prereq" \notin v.reasons /\ ("feature" \in v.reasons <=> f.feature)
  BY <1>1, <1>5, <1>6 DEF Raw, If
<1>11. v.reasons \cap (Blocking \ {"feature"}) # {} => v.kind = "incompatible"
  BY <1>6 DEF If
<1>12. If(FALSE /\ f.untracked, "untracked") = {}
  BY DEF If
<1> QED
  BY <1>6, <1>7, <1>8, <1>9, <1>10, <1>11, <1>12 DEF Follows

LEMMA UntrackedFollow ==
    ASSUME NEW v, NEW f, NEW p, Follows(v, f, p, FALSE),
           NEW w, w = IF f.untracked THEN FromReasons(v.reasons \cup {"untracked"}) ELSE v
    PROVE  Follows(w, f, p, TRUE)
<1>1. /\ v.reasons \cap Standing = Kept(f, p) \ {"missing"}
      /\ "missing" \in f.raw[p] <=> v.reasons \cap {"missing", "later", "prereq"} # {}
      /\ "later" \in v.reasons => p \notin SelfPins
      /\ "prereq" \in v.reasons => p \in SelfPins
      /\ "feature" \in v.reasons <=> f.feature
  BY DEF Follows, If
<1>2. CASE f.untracked
  <2> DEFINE R == v.reasons \cup {"untracked"}
  <2>1. w.reasons = R /\ w.kind = "incompatible"
    BY <1>2 DEF FromReasons, Blocking
  <2>2. If(TRUE /\ f.untracked, "untracked") = {"untracked"}
    BY <1>2 DEF If
  <2>3. w.reasons \cap Standing = (Kept(f, p) \ {"missing"}) \cup {"untracked"}
    BY <1>1, <2>1 DEF Standing
  <2>4. "missing" \in f.raw[p] <=> w.reasons \cap {"missing", "later", "prereq"} # {}
    BY <1>1, <2>1
  <2>5. \A r \in {"later", "prereq", "feature"} : r \in w.reasons <=> r \in v.reasons
    BY <2>1
  <2>6. w.reasons \cap Blocking # {}
    BY <2>1 DEF Blocking
  <2> HIDE DEF R
  <2> QED
    BY <1>1, <2>1, <2>2, <2>3, <2>4, <2>5, <2>6 DEF Follows
<1>3. CASE ~f.untracked
  <2>1. If(TRUE /\ f.untracked, "untracked") = {} /\ If(FALSE /\ f.untracked, "untracked") = {}
    BY <1>3 DEF If
  <2> QED
    BY <1>3, <2>1 DEF Follows
<1> QED
  BY <1>2, <1>3

LEMMA TargetFollows ==
    ASSUME NEW e, IsFresh(e), NEW f, NEW untracked,
           \A p \in DOMAIN e.verdicts : Follows(e.verdicts[p], f, p, untracked)
    PROVE  LET r == ApplyTarget(e, f)
           IN  /\ DOMAIN r.verdicts = DOMAIN e.verdicts /\ r.target = TargetOf(f)
               /\ \A p \in DOMAIN r.verdicts :
                    /\ Follows(r.verdicts[p], f, p, untracked)
                    /\ f.paths.renamed => "rename" \in r.verdicts[p].reasons
<1> DEFINE Paths(v) == MergePaths(v, f.paths)
           Placed(v) == Merge(Paths(v), PartlyAbsent(f.paths), FALSE)
           Added(v) == Merge(Placed(v), If(f.added, "added"), FALSE)
           Symbols(v) == Merge(Added(v), If(f.symbol, "symbol"), FALSE)
           Suites(v) == Merge(Symbols(v), If(f.suite, "suite"), TRUE)
           Joined(v) == Merge(Suites(v), If(f.apply \cap {"drifted", "conflict"} # {}, "apply"), FALSE)
           V == [p \in DOMAIN e.verdicts |-> Joined(e.verdicts[p])]
<1>1. ApplyTarget(e, f) = Evaluation(V, TargetOf(f))
  BY DEF ApplyTarget, TargetOf
<1>2. ApplyTarget(e, f).verdicts = V /\ ApplyTarget(e, f).target = TargetOf(f)
  BY <1>1 DEF Evaluation
<1>3. /\ PartlyAbsent(f.paths) \in SUBSET OfTheTarget
      /\ If(f.added, "added") \in SUBSET OfTheTarget
      /\ If(f.symbol, "symbol") \in SUBSET OfTheTarget
      /\ If(f.suite, "suite") \in SUBSET OfTheTarget
      /\ If(f.apply \cap {"drifted", "conflict"} # {}, "apply") \in SUBSET OfTheTarget
  BY DEF PartlyAbsent, If, OfTheTarget
<1>4. ASSUME NEW v, Fresh(v)
      PROVE  /\ SameEvidence(v, Joined(v))
             /\ f.paths.renamed => "rename" \in Joined(v).reasons
  <2>1. /\ Fresh(Paths(v)) /\ SameEvidence(v, Paths(v))
        /\ f.paths.renamed => "rename" \in Paths(v).reasons
    BY <1>4, PathsKeepEvidence
  <2>2. Fresh(Placed(v)) /\ SameEvidence(Paths(v), Placed(v))
    <3> HIDE DEF Paths
    <3> QED
      BY <1>3, <2>1, MergeKeepsEvidence
  <2>3. Fresh(Added(v)) /\ SameEvidence(Placed(v), Added(v))
    <3> HIDE DEF Placed
    <3> QED
      BY <1>3, <2>2, MergeKeepsEvidence
  <2>4. Fresh(Symbols(v)) /\ SameEvidence(Added(v), Symbols(v))
    <3> HIDE DEF Added
    <3> QED
      BY <1>3, <2>3, MergeKeepsEvidence
  <2>5. Fresh(Suites(v)) /\ SameEvidence(Symbols(v), Suites(v))
    <3> HIDE DEF Symbols
    <3> QED
      BY <1>3, <2>4, MergeKeepsEvidence
  <2>6. SameEvidence(Suites(v), Joined(v))
    <3> HIDE DEF Suites
    <3> QED
      BY <1>3, <2>5, MergeKeepsEvidence
  <2> HIDE DEF Paths, Placed, Added, Symbols, Suites, Joined
  <2>7. SameEvidence(Paths(v), Joined(v))
    BY <2>2, <2>3, <2>4, <2>5, <2>6, SameIsTransitive
  <2>8. SameEvidence(v, Joined(v))
    BY <2>1, <2>7, SameIsTransitive
  <2> QED
    BY <2>1, <2>7, <2>8 DEF SameEvidence
<1>5. \A p \in DOMAIN e.verdicts : Fresh(e.verdicts[p])
  BY DEF IsFresh
<1>6. ASSUME NEW p \in DOMAIN e.verdicts
      PROVE  /\ Follows(V[p], f, p, untracked)
             /\ f.paths.renamed => "rename" \in V[p].reasons
  <2>1. V[p] = Joined(e.verdicts[p])
    OBVIOUS
  <2>2. e.verdicts[p].kind = "incompatible" => e.verdicts[p].reasons \cap Blocking # {}
    BY DEF Follows
  <2> HIDE DEF Joined, V
  <2> QED
    BY <1>4, <1>5, <2>1, <2>2, EvidenceIsFollowed
<1>7. DOMAIN V = DOMAIN e.verdicts
  OBVIOUS
<1> HIDE DEF V
<1> QED
  BY <1>2, <1>6, <1>7

\* The evaluation of a pair follows what was found about it.
LEMMA EvaluationOfPairFollows ==
    ASSUME IInv, NEW pair \in Pairs, NEW target \in BOOLEAN, NEW untracked \in BOOLEAN, NEW one, NEW all, NEW e,
           one = EvaluateOne(truth[pair], SelfPins),
           all = IF untracked THEN ResolveUntracked(one, truth[pair]) ELSE one,
           e = IF target THEN ApplyTarget(all, truth[pair]) ELSE all
    PROVE  EvaluationFollows(e, pair, target, untracked)
<1> DEFINE f == truth[pair]
<1>1. /\ f \in Findings(Pins) /\ DOMAIN f.raw = PinsOf[pair[2]]
      /\ \A p \in PinsOf[pair[2]] : f.raw[p] \subseteq Raw
  BY FoundAreTyped
<1>2. IsFresh(one) /\ DOMAIN one.verdicts = PinsOf[pair[2]]
  <2>1. DOMAIN EvaluateOne(f, SelfPins).verdicts = DOMAIN f.raw
    BY DEF EvaluateOne, Evaluation
  <2> QED
    BY <1>1, <2>1, EvaluateOneIsFresh
<1>3. \A p \in PinsOf[pair[2]] : Follows(one.verdicts[p], f, p, FALSE)
  <2> HIDE DEF f
  <2> QED
    BY <1>1, EvaluateOneFollows DEF f
<1>4. /\ IsFresh(all) /\ DOMAIN all.verdicts = PinsOf[pair[2]]
      /\ \A p \in PinsOf[pair[2]] : Follows(all.verdicts[p], f, p, untracked)
  <2>1. CASE ~untracked
    BY <1>2, <1>3, <2>1
  <2>2. CASE untracked
    <3>1. IsFresh(all)
      BY <1>2, <2>2, ResolveUntrackedIsFresh
    <3>2. /\ DOMAIN all.verdicts = PinsOf[pair[2]]
          /\ \A p \in PinsOf[pair[2]] :
               all.verdicts[p] = IF f.untracked
                                 THEN FromReasons(one.verdicts[p].reasons \cup {"untracked"})
                                 ELSE one.verdicts[p]
      BY <1>2, <2>2 DEF ResolveUntracked, WithVerdicts, Evaluation
    <3> HIDE DEF f
    <3>3. ASSUME NEW p \in PinsOf[pair[2]]
          PROVE  Follows(all.verdicts[p], f, p, TRUE)
      BY <1>3, <3>2, UntrackedFollow
    <3> QED
      BY <2>2, <3>1, <3>2, <3>3
  <2> QED
    BY <2>1, <2>2
<1>5. CASE target
  <2> HIDE DEF f
  <2>1. e = ApplyTarget(all, f)
    BY <1>5 DEF f
  <2>2. /\ DOMAIN e.verdicts = DOMAIN all.verdicts /\ e.target = TargetOf(f)
        /\ \A p \in DOMAIN e.verdicts :
             /\ Follows(e.verdicts[p], f, p, untracked)
             /\ f.paths.renamed => "rename" \in e.verdicts[p].reasons
    BY <1>4, <2>1, TargetFollows
  <2> QED
    BY <1>4, <1>5, <2>2 DEF EvaluationFollows, f
<1>6. CASE ~target
  BY <1>4, <1>6 DEF EvaluationFollows
<1> QED
  BY <1>5, <1>6

\* A missing symbol that comes later no longer blocks; the rest still does.
LEMMA ReclassifyFollows ==
    ASSUME NEW v, Good(v), NEW f, NEW p, NEW untracked, Follows(v, f, p, untracked),
           "missing" \in v.reasons, p \notin SelfPins
    PROVE  Follows(Reclassify(v), f, p, untracked)
<1> DEFINE R == (v.reasons \ {"missing"}) \cup {"later"}
           w == Reclassify(v)
<1>1. w.reasons = R /\ (w.kind = "incompatible" <=> R \cap Blocking # {})
  BY DEF Reclassify, FromReasons
<1>2. R \cap Standing = v.reasons \cap Standing
  BY DEF Standing
<1>3. "missing" \in f.raw[p]
  BY DEF Follows
<1>4. "later" \in R /\ ("prereq" \in R <=> "prereq" \in v.reasons) /\ ("feature" \in R <=> "feature" \in v.reasons)
  OBVIOUS
<1> HIDE DEF R, w
<1>5. R \cap {"missing", "later", "prereq"} # {}
  BY <1>4
<1>6. R \cap (Blocking \ {"feature"}) # {} => R \cap Blocking # {}
  OBVIOUS
<1>7. Follows(w, f, p, untracked)
  BY <1>1, <1>2, <1>3, <1>4, <1>5, <1>6 DEF Follows
<1> QED
  BY <1>7 DEF w

LEMMA PromoteFollows ==
    ASSUME NEW v, Good(v), NEW f, NEW p, NEW untracked, Follows(v, f, p, untracked), p \in SelfPins
    PROVE  Follows(PromotePrereq(v), f, p, untracked)
<1>1. CASE "missing" \notin v.reasons
  BY <1>1 DEF PromotePrereq
<1>2. CASE "missing" \in v.reasons
  <2> DEFINE R == (v.reasons \ {"missing"}) \cup {"prereq"}
             w == PromotePrereq(v)
  <2>1. w = FromReasons(R) /\ w.reasons = R /\ w.kind = "incompatible"
    BY <1>2 DEF PromotePrereq, FromReasons, Blocking
  <2>2. R \cap Standing = v.reasons \cap Standing
    BY DEF Standing
  <2>3. "missing" \in f.raw[p]
    BY <1>2 DEF Follows
  <2>4. "prereq" \in R /\ ("later" \in R <=> "later" \in v.reasons) /\ ("feature" \in R <=> "feature" \in v.reasons)
    OBVIOUS
  <2> HIDE DEF R, w
  <2>5. R \cap {"missing", "later", "prereq"} # {} /\ R \cap Blocking # {}
    BY <2>4 DEF Blocking
  <2>6. Follows(w, f, p, untracked)
    BY <2>1, <2>2, <2>3, <2>4, <2>5 DEF Follows
  <2> QED
    BY <2>6 DEF w
<1> QED
  BY <1>1, <1>2

LEMMA AvailabilityFollows ==
    ASSUME NEW e, IsGood(e), NEW pair, NEW target, NEW untracked,
           EvaluationFollows(e, pair, target, untracked),
           NEW pins, \A p \in pins : p \notin SelfPins /\ "missing" \in e.verdicts[p].reasons
    PROVE  EvaluationFollows(ApplyAvailability(e, pins), pair, target, untracked)
<1> DEFINE r == ApplyAvailability(e, pins)
<1>1. /\ r.target = e.target
      /\ r.verdicts = [p \in DOMAIN e.verdicts |->
                         IF p \in pins THEN Reclassify(e.verdicts[p]) ELSE e.verdicts[p]]
  BY DEF ApplyAvailability, WithVerdicts, Evaluation
<1>2. \A p \in DOMAIN e.verdicts : Good(e.verdicts[p])
  BY DEF IsGood
<1> HIDE DEF r
<1>3. ASSUME NEW p \in DOMAIN e.verdicts
      PROVE  /\ Follows(r.verdicts[p], truth[pair], p, untracked)
             /\ "rename" \in e.verdicts[p].reasons => "rename" \in r.verdicts[p].reasons
  <2>1. Follows(e.verdicts[p], truth[pair], p, untracked)
    BY DEF EvaluationFollows
  <2>2. CASE p \in pins
    <3>1. Follows(Reclassify(e.verdicts[p]), truth[pair], p, untracked)
      BY <1>2, <2>1, <2>2, ReclassifyFollows
    <3>2. "rename" \in e.verdicts[p].reasons => "rename" \in Reclassify(e.verdicts[p]).reasons
      BY DEF Reclassify, FromReasons
    <3> QED
      BY <1>1, <2>2, <3>1, <3>2
  <2>3. CASE p \notin pins
    BY <1>1, <2>1, <2>3
  <2> QED
    BY <2>2, <2>3
<1>4. DOMAIN r.verdicts = DOMAIN e.verdicts
  BY <1>1
<1>5. EvaluationFollows(r, pair, target, untracked)
  BY <1>1, <1>3, <1>4 DEF EvaluationFollows
<1> QED
  BY <1>5 DEF r

LEMMA PromotionFollows ==
    ASSUME NEW e, IsGood(e), NEW pair, NEW target, NEW untracked,
           EvaluationFollows(e, pair, target, untracked)
    PROVE  EvaluationFollows(PromotePins(e, SelfPins), pair, target, untracked)
<1> DEFINE r == PromotePins(e, SelfPins)
<1>1. /\ r.target = e.target
      /\ r.verdicts = [p \in DOMAIN e.verdicts |->
                         IF p \in SelfPins THEN PromotePrereq(e.verdicts[p]) ELSE e.verdicts[p]]
  BY DEF PromotePins, WithVerdicts, Evaluation
<1>2. \A p \in DOMAIN e.verdicts : Good(e.verdicts[p])
  BY DEF IsGood
<1> HIDE DEF r
<1>3. ASSUME NEW p \in DOMAIN e.verdicts
      PROVE  /\ Follows(r.verdicts[p], truth[pair], p, untracked)
             /\ "rename" \in e.verdicts[p].reasons => "rename" \in r.verdicts[p].reasons
  <2>1. Follows(e.verdicts[p], truth[pair], p, untracked)
    BY DEF EvaluationFollows
  <2>2. CASE p \in SelfPins
    <3>1. Follows(PromotePrereq(e.verdicts[p]), truth[pair], p, untracked)
      BY <1>2, <2>1, <2>2, PromoteFollows
    <3>2. "rename" \in e.verdicts[p].reasons => "rename" \in PromotePrereq(e.verdicts[p]).reasons
      BY DEF PromotePrereq, FromReasons
    <3> QED
      BY <1>1, <2>2, <3>1, <3>2
  <2>3. CASE p \notin SelfPins
    BY <1>1, <2>1, <2>3
  <2> QED
    BY <2>2, <2>3
<1>4. DOMAIN r.verdicts = DOMAIN e.verdicts
  BY <1>1
<1>5. EvaluationFollows(r, pair, target, untracked)
  BY <1>1, <1>3, <1>4 DEF EvaluationFollows
<1> QED
  BY <1>5 DEF r

-----------------------------------------------------------------------------
(* Every step preserves the invariant. *)

LEMMA InitFollows == ASSUME Init PROVE EInv
BY DEF Init, EInv, CacheIsOfTracked, InputIsOfTheCommit, CacheFollows, EvalFollows,
       ReportsFollow, LegFollows, ExitOf

LEMMA ReportsStayTrue ==
    ASSUME EInv, UNCHANGED <<truth, run, rows, done, worst>>
    PROVE  ReportsFollow' /\ CacheIsOfTracked'
BY DEF EInv, CacheIsOfTracked, ReportsFollow, LegFollows, ExitOf, EvaluationFollows

LEMMA CacheStaysTrue ==
    ASSUME EInv, UNCHANGED <<truth, cache>>
    PROVE  CacheFollows'
BY DEF EInv, CacheFollows, EvaluationFollows

LEMMA EvalStaysTrue ==
    ASSUME EInv, UNCHANGED <<truth, run, eval, commits, series>>,
           pc' \in {"idle", "lookup", "evaluate"} \/ pc' = pc
             \/ pc \in {"store", "availability", "generate", "assess", "promote", "report"}
    PROVE  EvalFollows'
BY DEF EInv, EvalFollows, EvaluationFollows, Pair

LEMMA HitFollows == ASSUME IInv, EInv, Hit PROVE EInv'
<1> USE DEF Hit, legVars, planVars
<1>1. InputIsOfTheCommit'
  BY DEF EInv, InputIsOfTheCommit
<1>2. run.untracked = FALSE
  BY DEF EInv, CacheIsOfTracked, IInv, StateIsTyped, Options
<1>3. EvaluationFollows(cache[Key], Pair, run.target, run.untracked)
  BY <1>2 DEF EInv, CacheFollows, Key
<1>4. EvalFollows'
  BY <1>3 DEF EvalFollows, EvaluationFollows, Pair
<1> QED
  BY <1>1, <1>4, ReportsStayTrue, CacheStaysTrue DEF EInv

LEMMA MissFollows == ASSUME IInv, EInv, Miss PROVE EInv'
<1> USE DEF Miss, legVars, planVars
<1>1. InputIsOfTheCommit'
  BY DEF EInv, InputIsOfTheCommit, Pair
<1>2. EvalFollows'
  BY EvalStaysTrue
<1> QED
  BY <1>1, <1>2, ReportsStayTrue, CacheStaysTrue DEF EInv

\* The evaluation is made of what belongs to the present commit: its patch and
\* its source files were resolved for it.
LEMMA EvaluateFollows == ASSUME IInv, EInv, Evaluate PROVE EInv'
<1> USE DEF Evaluate, legVars, planVars
<1>1. Pair \in Pairs /\ Pair = <<Head(commits), Head(series)>>
  BY PairIsTyped DEF Pair
<1>2. input = Head(commits) /\ files' = Head(commits)
  BY ChecksAssumption DEF EInv, InputIsOfTheCommit, IInv, StateIsTyped
<1>3. <<input, Pair[2]>> = Pair /\ <<files', Pair[2]>> = Pair
  BY <1>1, <1>2
<1>4. truth[Pair] \in Findings(Pins)
  BY <1>1, FoundAreTyped
<1>5. [truth[Pair] EXCEPT !.raw = truth[Pair].raw] = truth[Pair]
  BY <1>4 DEF Findings
<1>6. run.target \in BOOLEAN /\ run.untracked \in BOOLEAN
  BY DEF IInv, StateIsTyped, Options
<1> DEFINE one == EvaluateOne(truth[Pair], SelfPins)
           all == IF run.untracked THEN ResolveUntracked(one, truth[Pair]) ELSE one
<1>7. eval' = IF run.target THEN ApplyTarget(all, truth[Pair]) ELSE all
  BY <1>3, <1>5
<1>8. EvaluationFollows(eval', Pair, run.target, run.untracked)
  BY <1>1, <1>6, <1>7, EvaluationOfPairFollows
<1>9. EvalFollows'
  <2>1. UNCHANGED <<truth, run, commits, series>>
    OBVIOUS
  <2> HIDE DEF Evaluate
  <2> QED
    BY <1>8, <2>1 DEF EvalFollows, EvaluationFollows, Pair
<1>10. InputIsOfTheCommit'
  BY DEF EInv, InputIsOfTheCommit
<1> QED
  BY <1>9, <1>10, ReportsStayTrue, CacheStaysTrue DEF EInv

LEMMA StoreFollows == ASSUME IInv, EInv, Store PROVE EInv'
<1> USE DEF Store, legVars, planVars, pairVars, Stored
<1>1. InputIsOfTheCommit' /\ EvalFollows'
  BY EvalStaysTrue DEF EInv, InputIsOfTheCommit
<1>2. EvaluationFollows(eval, Pair, run.target, run.untracked)
  BY DEF EInv, EvalFollows
<1>3. Key \in Pairs \X BOOLEAN /\ Key[1] = Pair /\ Key[2] = run.target
  BY PairIsTyped DEF Key, IInv, StateIsTyped, Options
<1>4. run.cached => run.untracked = FALSE
  BY DEF EInv, CacheIsOfTracked, IInv, StateIsTyped, Options
<1>5. \A k \in DOMAIN cache' :
        /\ k \in Pairs \X BOOLEAN
        /\ EvaluationFollows(cache'[k], k[1], k[2], FALSE)
  <2>1. CASE run.cached
    <3>1. ASSUME NEW k \in DOMAIN cache', k = Key
          PROVE  k \in Pairs \X BOOLEAN /\ EvaluationFollows(cache'[k], k[1], k[2], FALSE)
      BY <1>2, <1>3, <1>4, <2>1, <3>1
    <3>2. ASSUME NEW k \in DOMAIN cache', k # Key
          PROVE  k \in Pairs \X BOOLEAN /\ EvaluationFollows(cache'[k], k[1], k[2], FALSE)
      <4>1. k \in DOMAIN cache /\ cache'[k] = cache[k]
        BY <2>1, <3>2
      <4> QED
        BY <4>1 DEF EInv, CacheFollows
    <3> QED
      BY <3>1, <3>2
  <2>2. CASE ~run.cached
    BY <2>2 DEF EInv, CacheFollows
  <2> QED
    BY <2>1, <2>2
<1>6. CacheFollows'
  <2>1. truth' = truth
    OBVIOUS
  <2> HIDE DEF Store
  <2> QED
    BY <1>5, <2>1 DEF CacheFollows, EvaluationFollows
<1> QED
  BY <1>1, <1>6, ReportsStayTrue DEF EInv

LEMMA AvailabilityStepFollows == ASSUME IInv, EInv, Availability PROVE EInv'
<1> USE DEF Availability, planVars
<1> DEFINE pins == {p \in Asked : Ask(p, memo)}
<1>1. IsGood(eval) /\ EvaluationFollows(eval, Pair, run.target, run.untracked)
  BY DEF IInv, EvalIsGood, EInv, EvalFollows
<1>2. \A p \in pins : p \notin SelfPins /\ "missing" \in eval.verdicts[p].reasons
  BY DEF Asked
<1>3. EvaluationFollows(ApplyAvailability(eval, pins), Pair, run.target, run.untracked)
  <2> HIDE DEF pins
  <2> QED
    BY <1>1, <1>2, AvailabilityFollows
<1>4. EvalFollows'
  BY <1>3 DEF EvalFollows, EvaluationFollows, Pair
<1>5. InputIsOfTheCommit'
  BY DEF EInv, InputIsOfTheCommit
<1> QED
  BY <1>4, <1>5, ReportsStayTrue, CacheStaysTrue DEF EInv

LEMMA PromoteSelfFollows == ASSUME IInv, EInv, PromoteSelf PROVE EInv'
<1> USE DEF PromoteSelf, legVars, planVars
<1>1. IsGood(eval) /\ EvaluationFollows(eval, Pair, run.target, run.untracked)
  BY DEF IInv, EvalIsGood, EInv, EvalFollows
<1>2. EvaluationFollows(PromotePins(eval, SelfPins), Pair, run.target, run.untracked)
  BY <1>1, PromotionFollows
<1>3. EvalFollows'
  BY <1>2 DEF EvalFollows, EvaluationFollows, Pair
<1>4. InputIsOfTheCommit'
  BY DEF EInv, InputIsOfTheCommit
<1> QED
  BY <1>3, <1>4, ReportsStayTrue, CacheStaysTrue DEF EInv

\* The steps that are about the store, and the ones of others.
LEMMA StoreStepsFollow ==
    ASSUME EInv, Generate \/ Assess \/ (\E p \in Pins : ChangeStore(p))
    PROVE  EInv'
<1> USE DEF Generate, Assess, ChangeStore, legVars, planVars, pairVars
<1>1. InputIsOfTheCommit' /\ EvalFollows'
  BY EvalStaysTrue DEF EInv, InputIsOfTheCommit
<1> QED
  BY <1>1, ReportsStayTrue, CacheStaysTrue DEF EInv

LEMMA EvictFollows == ASSUME EInv, NEW k, Evict(k) PROVE EInv'
<1> USE DEF Evict, legVars, planVars, pairVars
<1>1. InputIsOfTheCommit' /\ EvalFollows'
  BY EvalStaysTrue DEF EInv, InputIsOfTheCommit
<1>2. CacheFollows'
  BY DEF EInv, CacheFollows, EvaluationFollows
<1> QED
  BY <1>1, <1>2, ReportsStayTrue DEF EInv

\* A reported row follows its pair, and the exit code of the leg follows the row.
LEMMA LegIsFollowed ==
    ASSUME IInv, EInv, pc = "report"
    PROVE  LegFollows(Append(rows, Row)) /\ Worst = ExitOf(Append(rows, Row))
<1> DEFINE leg == Append(rows, Row)
<1>1. rows \in Seq(Rows) /\ Row \in Rows
  BY RowIsTrue DEF IInv, RoundIsTyped
<1>2. /\ DOMAIN rows \subseteq DOMAIN leg /\ \A i \in DOMAIN rows : leg[i] = rows[i]
      /\ Len(rows) + 1 \in DOMAIN leg /\ leg[Len(rows) + 1] = Row
      /\ \A i \in DOMAIN leg : (i \in DOMAIN rows /\ leg[i] = rows[i]) \/ leg[i] = Row
  BY <1>1
<1>3. Row.pair = Pair /\ Row.eval = eval
  BY DEF Row
<1> HIDE DEF leg
<1>4. EvaluationFollows(Row.eval, Row.pair, run.target, run.untracked)
  BY <1>3 DEF EInv, EvalFollows
<1>5. LegFollows(leg)
  BY <1>2, <1>4 DEF EInv, ReportsFollow, LegFollows
<1>6. ExitCode(eval) \in {0, 3} /\ (worst = ExitOf(rows))
  BY DEF ExitCode, EInv, ReportsFollow
<1>7. Worst = ExitOf(leg)
  BY <1>2, <1>3, <1>6 DEF Worst, ExitOf
<1> QED
  BY <1>5, <1>7 DEF leg

\* So do the reports, when the row is added and others have not changed.
LEMMA RowIsFollowed ==
    ASSUME IInv, EInv, pc = "report", rows' = Append(rows, Row), worst' = Worst,
           UNCHANGED <<done, run, truth>>
    PROVE  ReportsFollow'
<1>1. LegFollows(Append(rows, Row)) /\ Worst = ExitOf(Append(rows, Row))
  BY LegIsFollowed
<1>2. LegFollows(rows)'
  BY <1>1 DEF LegFollows, EvaluationFollows
<1>3. worst' = ExitOf(rows)'
  BY <1>1 DEF ExitOf
<1>4. \A l \in DOMAIN done : LegFollows(done[l].rows)' /\ done[l].exit = ExitOf(done[l].rows)
  BY DEF EInv, ReportsFollow, LegFollows, EvaluationFollows
<1> QED
  BY <1>2, <1>3, <1>4 DEF ReportsFollow, LegFollows, ExitOf

LEMMA NextSeriesFollows == ASSUME IInv, EInv, NextSeries PROVE EInv'
<1> USE DEF NextSeries, NextPair
<1>1. ReportsFollow'
  BY RowIsFollowed
<1>2. InputIsOfTheCommit' /\ EvalFollows' /\ CacheIsOfTracked'
  BY DEF EInv, InputIsOfTheCommit, EvalFollows, CacheIsOfTracked
<1> QED
  BY <1>1, <1>2, CacheStaysTrue DEF EInv

LEMMA NextCommitFollows == ASSUME IInv, EInv, NextCommit PROVE EInv'
<1> USE DEF NextCommit, NextPair
<1>1. ReportsFollow'
  BY RowIsFollowed
<1>2. InputIsOfTheCommit' /\ EvalFollows' /\ CacheIsOfTracked'
  BY DEF EInv, InputIsOfTheCommit, EvalFollows, CacheIsOfTracked, AtTheNextCommit
<1> QED
  BY <1>1, <1>2, CacheStaysTrue DEF EInv

LEMMA EndLegFollows == ASSUME IInv, EInv, EndLeg PROVE EInv'
<1> USE DEF EndLeg, NextPair
<1> DEFINE finished == [rows |-> Append(rows, Row), exit |-> Worst]
<1>1. \A l \in DOMAIN done' : (l \in DOMAIN done /\ done'[l] = done[l]) \/ done'[l] = finished
  <2>1. done' = Append(done, finished) /\ done \in Seq(FinishedLegs)
    BY DEF IInv, RoundIsTyped
  <2>2. finished \in FinishedLegs
    BY RowIsTrue, LegIsTrue DEF FinishedLegs
  <2> HIDE DEF finished
  <2> QED
    BY <2>1, <2>2, AppendedElements
<1>2. LegFollows(finished.rows) /\ finished.exit = ExitOf(finished.rows)
  BY LegIsFollowed
<1>3. \A l \in DOMAIN done' : LegFollows(done'[l].rows) /\ done'[l].exit = ExitOf(done'[l].rows)
  <2> HIDE DEF finished
  <2> QED
    BY <1>1, <1>2 DEF EInv, ReportsFollow
<1>4. DOMAIN rows' = {} /\ worst' = 0
  OBVIOUS
<1>5. UNCHANGED <<truth, run>>
  OBVIOUS
<1>6. ReportsFollow'
  <2> HIDE DEF EndLeg, NextPair, finished
  <2> QED
    BY <1>3, <1>4, <1>5 DEF ReportsFollow, LegFollows, ExitOf, EvaluationFollows
<1>7. InputIsOfTheCommit' /\ EvalFollows' /\ CacheIsOfTracked'
  BY DEF EInv, InputIsOfTheCommit, EvalFollows, CacheIsOfTracked
<1> QED
  BY <1>6, <1>7, CacheStaysTrue DEF EInv

LEMMA FailFollows == ASSUME EInv, Fail PROVE EInv'
<1> USE DEF Fail, NextPair
<1>1. ReportsFollow'
  BY DEF ReportsFollow, LegFollows, ExitOf
<1>2. InputIsOfTheCommit' /\ EvalFollows' /\ CacheIsOfTracked'
  BY DEF EInv, InputIsOfTheCommit, EvalFollows, CacheIsOfTracked
<1> QED
  BY <1>1, <1>2, CacheStaysTrue DEF EInv

LEMMA StartFollows ==
    ASSUME EInv, NEW o \in RunOptions, NEW cs, NEW ss, Start(o, cs, ss)
    PROVE  EInv'
<1> USE DEF Start
<1>1. ReportsFollow'
  BY DEF ReportsFollow, LegFollows, ExitOf
<1>2. InputIsOfTheCommit' /\ EvalFollows' /\ CacheIsOfTracked'
  BY DEF InputIsOfTheCommit, EvalFollows, CacheIsOfTracked
<1> QED
  BY <1>1, <1>2, CacheStaysTrue DEF EInv

LEMMA NextFollows == ASSUME IInv, EInv, [Next]_vars PROVE EInv'
<1>1. CASE UNCHANGED vars
  <2> USE <1>1 DEF vars, legVars, planVars, pairVars
  <2>1. InputIsOfTheCommit' /\ EvalFollows'
    BY EvalStaysTrue DEF EInv, InputIsOfTheCommit
  <2> QED
    BY <2>1, ReportsStayTrue, CacheStaysTrue DEF EInv
<1>2. CASE \E o \in RunOptions, cs \in CommitLists, ss \in SeriesLists : Start(o, cs, ss)
  BY <1>2, StartFollows
<1>3. CASE \E p \in Pins : ChangeStore(p)
  BY <1>3, StoreStepsFollow
<1>4. CASE \E k \in DOMAIN cache : Evict(k)
  BY <1>4, EvictFollows
<1>5. CASE Hit \/ Miss \/ Evaluate \/ Store \/ Availability
  BY <1>5, HitFollows, MissFollows, EvaluateFollows, StoreFollows, AvailabilityStepFollows
<1>6. CASE Generate \/ Assess \/ PromoteSelf
  BY <1>6, StoreStepsFollow, PromoteSelfFollows
<1>7. CASE NextSeries \/ NextCommit \/ EndLeg \/ Fail
  BY <1>7, NextSeriesFollows, NextCommitFollows, EndLegFollows, FailFollows
<1> QED
  BY <1>1, <1>2, <1>3, <1>4, <1>5, <1>6, <1>7 DEF Next

LEMMA EvidenceInvariance == Spec => [](IInv /\ EInv)
<1>1. Init => EInv
  BY InitFollows
<1>2. IInv /\ EInv /\ [Next]_vars => EInv'
  BY NextFollows
<1> QED
  BY <1>1, <1>2, Invariance, PTL DEF Spec

-----------------------------------------------------------------------------
(* What a summary counts. *)

LEMMA NoneIsCounted ==
    ASSUME NEW V, IsFiniteSet(DOMAIN V), NEW k
    PROVE  /\ Count(V, k) \in Nat
           /\ Count(V, k) = 0 <=> \A p \in DOMAIN V : V[p].kind # k
<1> DEFINE S == {p \in DOMAIN V : V[p].kind = k}
<1>1. IsFiniteSet(S)
  BY FS_Subset
<1>2. Cardinality(S) \in Nat /\ (Cardinality(S) = 0 <=> S = {})
  BY <1>1, FS_CardinalityType, FS_EmptySet
<1>3. Count(V, k) = Cardinality(S)
  BY DEF Count
<1> QED
  BY <1>2, <1>3

\* The summary of an evaluation has a kind exactly when a verdict of it has.
LEMMA SummaryTells ==
    ASSUME NEW e, IsGood(e), NEW k \in Kinds
    PROVE  e.summary[k] > 0 <=> \E p \in DOMAIN e.verdicts : e.verdicts[p].kind = k
<1>1. e.summary = SummaryOf(e.verdicts) /\ DOMAIN e.verdicts \subseteq Pins
  BY EvaluationFields DEF IsGood
<1>2. IsFiniteSet(DOMAIN e.verdicts)
  BY <1>1, ChecksAssumption, FS_Subset
<1>3. e.summary[k] = Count(e.verdicts, k)
  BY <1>1 DEF SummaryOf
<1> QED
  BY <1>2, <1>3, NoneIsCounted

\* An exit code of 0: no verdict has a reason, and the target record is clean.
LEMMA ExitCodeTells ==
    ASSUME NEW e, IsGood(e), ExitCode(e) # 3
    PROVE  /\ \A p \in DOMAIN e.verdicts : e.verdicts[p].reasons = {}
           /\ e.target.given => ~e.target.conflict /\ e.target.findings = {}
<1>1. ~NeedsAttention(e.summary)
  BY DEF ExitCode
<1>2. \A p \in DOMAIN e.verdicts : e.verdicts[p].kind \notin {"incompatible", "adapt"}
  BY <1>1, SummaryTells DEF NeedsAttention, Kinds
<1>3. \A p \in DOMAIN e.verdicts : Good(e.verdicts[p])
  BY DEF IsGood
<1>4. \A p \in DOMAIN e.verdicts : e.verdicts[p].kind \in Kinds
  BY <1>3 DEF Good, Verdict
<1> QED
  BY <1>2, <1>3, <1>4 DEF Kinds, Good, ExitCode

-----------------------------------------------------------------------------
(* The theorems. *)

\* A verdict of a row that follows its pair, and reflects the store, blocks
\* where it must and only where it may.
LEMMA VerdictIsJustified ==
    ASSUME NEW v, NEW f, NEW p, f.raw[p] \subseteq Raw, Follows(v, f, p, run.untracked),
           p \notin SelfPins => /\ "later" \in v.reasons => "held" \in seen[p]
                                /\ "missing" \in v.reasons => "absent" \in seen[p]
    PROVE  /\ MustBlock(f, p) => v.kind = "incompatible"
           /\ v.kind = "incompatible" => MayBlock(f, p)
<1> DEFINE U == If(run.untracked /\ f.untracked, "untracked")
<1>1. /\ v.reasons \cap Standing = (Kept(f, p) \ {"missing"}) \cup U
      /\ "missing" \in f.raw[p] <=> v.reasons \cap {"missing", "later", "prereq"} # {}
      /\ "later" \in v.reasons => p \notin SelfPins
      /\ "prereq" \in v.reasons => p \in SelfPins
      /\ "feature" \in v.reasons <=> f.feature
      /\ v.reasons \cap (Blocking \ {"feature"}) # {} => v.kind = "incompatible"
      /\ v.kind = "incompatible" => v.reasons \cap Blocking # {}
  BY DEF Follows
<1>2. /\ "api" \in f.raw[p] => "api" \in Kept(f, p)
      /\ "file" \in f.raw[p] /\ f.owner[p] # "elsewhere" => "file" \in Kept(f, p)
      /\ "api" \in Kept(f, p) => "api" \in f.raw[p]
      /\ "file" \in Kept(f, p) => "file" \in f.raw[p] /\ f.owner[p] # "elsewhere"
  BY DEF Kept, PathScoped
<1>3. "untracked" \in U <=> run.untracked /\ f.untracked
  BY DEF If
<1>4. U \subseteq {"untracked"}
  BY DEF If
<1> HIDE DEF U
<1>5. /\ "api" \in v.reasons <=> "api" \in Kept(f, p)
      /\ "file" \in v.reasons <=> "file" \in Kept(f, p)
      /\ run.untracked /\ f.untracked => "untracked" \in v.reasons
  BY <1>1, <1>3, <1>4 DEF Standing
<1>6. ASSUME MustBlock(f, p) PROVE v.kind = "incompatible"
  <2>1. CASE "api" \in f.raw[p] \/ ("file" \in f.raw[p] /\ f.owner[p] # "elsewhere") \/ (run.untracked /\ f.untracked)
    <3>1. v.reasons \cap {"api", "file", "untracked"} # {}
      BY <1>2, <1>5, <2>1
    <3>2. v.reasons \cap (Blocking \ {"feature"}) # {}
      BY <3>1 DEF Blocking
    <3> QED
      BY <1>1, <3>2
  <2>2. CASE "missing" \in f.raw[p] /\ (p \in SelfPins \/ "held" \notin seen[p])
    <3>1. "later" \notin v.reasons
      BY <1>1, <2>2
    <3>2. v.reasons \cap {"missing", "prereq"} # {}
      BY <1>1, <2>2, <3>1
    <3>3. v.reasons \cap (Blocking \ {"feature"}) # {}
      BY <3>2 DEF Blocking
    <3> QED
      BY <1>1, <3>3
  <2> QED
    BY <1>6, <2>1, <2>2 DEF MustBlock
<1>7. ASSUME v.kind = "incompatible" PROVE MayBlock(f, p)
  <2>1. PICK r \in v.reasons : r \in Blocking
    BY <1>1, <1>7
  <2>2. CASE r \in {"missing", "prereq"}
    <3>1. "missing" \in f.raw[p]
      BY <1>1, <2>1, <2>2
    <3>2. p \in SelfPins \/ "absent" \in seen[p]
      BY <1>1, <2>1, <2>2
    <3> QED
      BY <3>1, <3>2 DEF MayBlock, MustBlock
  <2>3. CASE r \in {"api", "file"}
    <3>1. "api" \in f.raw[p] \/ ("file" \in f.raw[p] /\ f.owner[p] # "elsewhere")
      BY <1>2, <1>5, <2>1, <2>3
    <3> QED
      BY <3>1 DEF MayBlock, MustBlock
  <2>4. CASE r = "feature"
    BY <1>1, <2>1, <2>4 DEF MayBlock
  <2>5. CASE r = "untracked"
    <3>1. r \in (Kept(f, p) \ {"missing"}) \cup U
      BY <1>1, <2>1, <2>5 DEF Standing
    <3>2. "untracked" \in U
      BY <2>5, <3>1 DEF Kept, Raw
    <3> QED
      BY <1>3, <3>2 DEF MayBlock, MustBlock
  <2> QED
    BY <2>1, <2>2, <2>3, <2>4, <2>5 DEF Blocking
<1> QED
  BY <1>6, <1>7

LEMMA ReportsAreFollowed ==
    ASSUME IInv, EInv, NEW row \in AllRows
    PROVE  /\ row \in Rows /\ row.pair \in Pairs /\ IsGood(row.eval)
           /\ EvaluationFollows(row.eval, row.pair, run.target, run.untracked)
           /\ RowReflectsTheStore(row)
<1>1. row \in Rows
  BY RowsOfLegsAreTyped DEF AllRows
<1>2. RowReflectsTheStore(row)
  BY DEF AllRows, IInv, ReportsAreTrue
<1>3. EvaluationFollows(row.eval, row.pair, run.target, run.untracked)
  BY DEF AllRows, EInv, ReportsFollow, LegFollows
<1> QED
  BY <1>1, <1>2, <1>3 DEF Rows

\* No path of check.rs to a row loses a finding that blocks, or lets in one of
\* another pair: not the inputs that the series of a commit share, not the
\* verdict cache, not the merges of the target branch, not the availability
\* probe, not the promotion of the program's own symbols.
THEOREM EvidenceIsReported == Spec => []RowsFollowTheEvidence
<1>1. ASSUME IInv, EInv PROVE RowsFollowTheEvidence
  <2>1. ASSUME NEW row \in AllRows, NEW p \in PinsOf[row.pair[2]]
        PROVE  /\ MustBlock(truth[row.pair], p) => row.eval.verdicts[p].kind = "incompatible"
               /\ row.eval.verdicts[p].kind = "incompatible" => MayBlock(truth[row.pair], p)
    <3>1. /\ row.pair \in Pairs /\ RowReflectsTheStore(row)
          /\ EvaluationFollows(row.eval, row.pair, run.target, run.untracked)
      BY <1>1, ReportsAreFollowed
    <3>2. p \in DOMAIN row.eval.verdicts /\ Follows(row.eval.verdicts[p], truth[row.pair], p, run.untracked)
      BY <3>1 DEF EvaluationFollows
    <3>3. p \notin SelfPins => /\ "later" \in row.eval.verdicts[p].reasons => "held" \in seen[p]
                               /\ "missing" \in row.eval.verdicts[p].reasons => "absent" \in seen[p]
      BY <3>1, <3>2 DEF RowReflectsTheStore
    <3>4. truth[row.pair].raw[p] \subseteq Raw
      BY <1>1, <3>1, FoundAreTyped
    <3> QED
      BY <3>2, <3>3, <3>4, VerdictIsJustified
  <2> QED
    BY <2>1 DEF RowsFollowTheEvidence
<1> QED
  BY <1>1, EvidenceInvariance, PTL

\* What VerdictsMatchReasons says of every row holds of those about which no schema feature
\* was found: of all that is merged into a verdict, only merge_reasons of the schema features
\* leaves a kind that does not fit the reasons (evaluate_one of check.rs).
VerdictFits(v) == v.kind # "inapplicable" => v = FromReasons(v.reasons)
FeaturelessRowsFit ==
    \A row \in AllRows : ~truth[row.pair].feature =>
        \A p \in DOMAIN row.eval.verdicts : VerdictFits(row.eval.verdicts[p])

\* The documented meaning of a verdict is broken by schema features alone.
THEOREM OnlyFeaturesMislead == Spec => []FeaturelessRowsFit
<1>1. ASSUME IInv, EInv, NEW row \in AllRows, ~truth[row.pair].feature, NEW p \in DOMAIN row.eval.verdicts
      PROVE  VerdictFits(row.eval.verdicts[p])
  <2> DEFINE v == row.eval.verdicts[p]
  <2>1. /\ v \in Verdict
        /\ v.reasons = {} <=> v.kind \in {"compatible", "inapplicable"}
    BY <1>1, ReportsAreFollowed DEF IsGood, Good
  <2>2. /\ "feature" \notin v.reasons
        /\ v.kind = "incompatible" <=> v.reasons \cap Blocking # {}
    <3>1. Follows(v, truth[row.pair], p, run.untracked)
      BY <1>1, ReportsAreFollowed DEF EvaluationFollows
    <3> HIDE DEF v
    <3> QED
      BY <1>1, <3>1 DEF Follows
  <2> HIDE DEF v
  <2>3. v = [kind |-> v.kind, reasons |-> v.reasons] /\ v.kind \in Kinds
    BY <2>1 DEF Verdict
  <2>4. v.kind # "inapplicable" => v = FromReasons(v.reasons)
    BY <2>1, <2>2, <2>3 DEF FromReasons, Kinds
  <2> QED
    BY <2>4 DEF VerdictFits, v
<1>2. IInv /\ EInv => FeaturelessRowsFit
  BY <1>1 DEF FeaturelessRowsFit
<1> QED
  BY <1>2, EvidenceInvariance, PTL

\* An exit code of 0 stands for rows about which nothing was found that needs
\* a look, though it is folded from summaries that were counted again after
\* each merge, and with a target from a record beside the verdicts.
THEOREM SilenceMeansNothingFound == Spec => []SilenceIsEarned
<1>1. ASSUME IInv, EInv, NEW l \in DOMAIN done, done[l].exit = 0, NEW i \in DOMAIN done[l].rows
      PROVE  LET pair == done[l].rows[i].pair
                 f    == truth[pair]
             IN  /\ \A p \in PinsOf[pair[2]] :
                      f.raw[p] \subseteq (IF f.owner[p] = "elsewhere" THEN PathScoped ELSE {})
                 /\ PinsOf[pair[2]] # {} => /\ ~f.feature
                                            /\ run.untracked => ~f.untracked
                                            /\ run.target => ~f.paths.renamed
                 /\ run.target => /\ ~f.symbol /\ ~f.suite
                                  /\ f.apply \cap {"conflict", "gone"} = {}
  <2> DEFINE row == done[l].rows[i]
             pair == row.pair
             e == row.eval
             f == truth[pair]
  <2>1. row \in AllRows
    BY DEF AllRows
  <2>2. /\ pair \in Pairs /\ IsGood(e)
        /\ EvaluationFollows(e, pair, run.target, run.untracked)
    <3> HIDE DEF row
    <3> QED
      BY <1>1, <2>1, ReportsAreFollowed
  <2>3. done[l].exit = ExitOf(done[l].rows)
    BY <1>1 DEF EInv, ReportsFollow
  <2>4. ExitCode(e) # 3
    BY <1>1, <2>3 DEF ExitOf
  <2> HIDE DEF row, e
  <2>5. /\ \A p \in DOMAIN e.verdicts : e.verdicts[p].reasons = {}
        /\ e.target.given => ~e.target.conflict /\ e.target.findings = {}
    BY <2>2, <2>4, ExitCodeTells
  <2>6. DOMAIN e.verdicts = PinsOf[pair[2]]
    BY <2>2 DEF EvaluationFollows
  <2>7. ASSUME NEW p \in PinsOf[pair[2]]
        PROVE  /\ f.raw[p] \subseteq (IF f.owner[p] = "elsewhere" THEN PathScoped ELSE {})
               /\ ~f.feature /\ (run.untracked => ~f.untracked) /\ (run.target => ~f.paths.renamed)
    <3>1. e.verdicts[p].reasons = {}
      BY <2>5, <2>6
    <3>2. /\ Follows(e.verdicts[p], f, p, run.untracked)
          /\ run.target => ~f.paths.renamed
      BY <2>2, <2>6, <3>1 DEF EvaluationFollows
    <3>3. /\ (Kept(f, p) \ {"missing"}) \cup If(run.untracked /\ f.untracked, "untracked") = {}
          /\ "missing" \notin f.raw[p] /\ ~f.feature
      BY <3>1, <3>2 DEF Follows
    <3>4. Kept(f, p) = {}
      BY <3>3 DEF Kept
    <3>5. run.untracked => ~f.untracked
      BY <3>3 DEF If
    <3>6. f.raw[p] \subseteq (IF f.owner[p] = "elsewhere" THEN PathScoped ELSE {})
      BY <3>4 DEF Kept
    <3> QED
      BY <3>2, <3>3, <3>5, <3>6
  <2>8. ASSUME run.target
        PROVE  ~f.symbol /\ ~f.suite /\ f.apply \cap {"conflict", "gone"} = {}
    <3>1. e.target = TargetOf(f)
      BY <2>2, <2>8 DEF EvaluationFollows
    <3> HIDE DEF f
    <3>2. /\ e.target.given = TRUE
          /\ e.target.findings = If(f.symbol, "symbol") \cup If(f.suite, "suite")
          /\ e.target.conflict = (f.apply \cap {"conflict", "gone"} # {})
      BY <3>1 DEF TargetOf
    <3>3. ~e.target.conflict /\ e.target.findings = {}
      BY <2>5, <3>2
    <3>4. f.apply \cap {"conflict", "gone"} = {}
      BY <3>2, <3>3
    <3> QED
      BY <3>2, <3>3, <3>4 DEF If
  <2> QED
    BY <2>7, <2>8 DEF row
<1>2. ASSUME IInv, EInv PROVE SilenceIsEarned
  BY <1>1, <1>2 DEF SilenceIsEarned
<1> QED
  BY <1>2, EvidenceInvariance, PTL

\* The clearance that clearance.rs derives from the rows agrees with the exit
\* code that check.rs folded while it evaluated them, and "zero domain" is
\* said only of a round in which no pin had a say.
THEOREM ClearanceFollows == Spec => []ClearanceAgrees
<1>1. ASSUME IInv, EInv, NEW l \in DOMAIN done
      PROVE  LET evals == [i \in DOMAIN done[l].rows |-> done[l].rows[i].eval]
             IN  /\ ClearanceExit(evals) = done[l].exit
                 /\ Clearance(evals, FALSE, FALSE) = "zero_domain" =>
                      \A i \in DOMAIN evals : \A p \in DOMAIN evals[i].verdicts :
                        evals[i].verdicts[p].kind = "inapplicable"
  <2> DEFINE leg == done[l].rows
             evals == [i \in DOMAIN leg |-> leg[i].eval]
  <2>1. done[l].exit = ExitOf(leg)
    BY <1>1 DEF EInv, ReportsFollow
  <2>2. \A i \in DOMAIN evals : IsGood(evals[i]) /\ evals[i] = leg[i].eval
    <3>1. \A i \in DOMAIN leg : leg[i] \in Rows
      BY <1>1, RowsOfLegsAreTyped
    <3> QED
      BY <3>1 DEF Rows
  <2>3. DOMAIN evals = DOMAIN leg
    OBVIOUS
  <2> HIDE DEF leg, evals
  <2>4. ClearanceExit(evals) = 3 <=> \E i \in DOMAIN evals : ExitCode(evals[i]) = 3
    BY DEF ClearanceExit, Any, ExitCode, NeedsAttention
  <2>5. ClearanceExit(evals) \in {0, 3}
    BY DEF ClearanceExit
  <2>6. ClearanceExit(evals) = done[l].exit
    BY <2>1, <2>2, <2>3, <2>4, <2>5 DEF ExitOf
  <2>7. ASSUME Clearance(evals, FALSE, FALSE) = "zero_domain",
               NEW i \in DOMAIN evals, NEW p \in DOMAIN evals[i].verdicts
        PROVE  evals[i].verdicts[p].kind = "inapplicable"
    <3>1. ClearanceExit(evals) # 3 /\ ~Any(evals, "compatible")
      BY <2>7 DEF Clearance
    <3>2. \A k \in {"compatible", "adapt", "incompatible"} : ~(evals[i].summary[k] > 0)
      BY <3>1 DEF ClearanceExit, Any
    <3>3. IsGood(evals[i])
      BY <2>2
    <3>4. \A k \in {"compatible", "adapt", "incompatible"} : evals[i].verdicts[p].kind # k
      BY <3>2, <3>3, SummaryTells DEF Kinds
    <3>5. evals[i].verdicts[p].kind \in Kinds
      BY <3>3 DEF IsGood, Good, Verdict
    <3> QED
      BY <3>4, <3>5 DEF Kinds
  <2> QED
    BY <2>6, <2>7 DEF leg, evals
<1>2. ASSUME IInv, EInv PROVE ClearanceAgrees
  BY <1>1, <1>2 DEF ClearanceAgrees
<1> QED
  BY <1>2, EvidenceInvariance, PTL
=============================================================================
