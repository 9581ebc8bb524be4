------------------------------ MODULE Verdicts ------------------------------
(***************************************************************************)
(* How the findings about a patch become the verdicts of a series: what    *)
(* the evaluation of each pin found is routed, promoted, joined by the     *)
(* findings about the target branch and reclassified by what the snapshot  *)
(* store knows, in the order of evaluate_one, apply_target_context and     *)
(* their callers.                                                          *)
(*                                                                         *)
(* A reason is the class of reasons that the pipeline treats alike:        *)
(*   missing    a symbol the pin does not have, of a kind whose later       *)
(*              appearance is looked for (an arity that changed is treated  *)
(*              alike, but for the promotion to prereq)                     *)
(*   later      the same, known to be in a snapshot after the pin          *)
(*   prereq     a missing symbol of the program itself, a prerequisite     *)
(*   api        any other blocking reason about the interface of the pin   *)
(*   advice     a reason about the interface that does not block           *)
(*   file       a blocking reason about a file                             *)
(*   drift      a reason about a file that does not block                  *)
(*   feature    a schema feature that the pinned cuttlefish does not have  *)
(*   untracked  a module that no snapshot covers and no file defines       *)
(*   rename     a path that is called otherwise on the target              *)
(*   absent     a path that is not on the target, where others are         *)
(*   added      what a file the patch adds needs and the target lacks      *)
(*   symbol     what a touched file needs and the target lacks             *)
(*   suite      a test suite or a schema key nothing on the target reads   *)
(*   apply      a hunk that the target does not have at the line it names  *)
(***************************************************************************)
EXTENDS Naturals, FiniteSets

Blocking == {"missing", "prereq", "api", "file", "feature", "untracked"}

PathScoped == {"file", "drift", "rename", "absent", "apply"}

Reasons == Blocking \cup PathScoped
             \cup {"later", "advice", "added", "symbol", "suite"}

Kinds == {"compatible", "adapt", "incompatible", "inapplicable"}

Verdict == [kind : Kinds, reasons : SUBSET Reasons]

Compatible == [kind |-> "compatible", reasons |-> {}]

Inapplicable == [kind |-> "inapplicable", reasons |-> {}]

FromReasons(R) ==
  [kind |-> IF R = {} THEN "compatible"
            ELSE IF R \cap Blocking # {} THEN "incompatible" ELSE "adapt",
   reasons |-> R]

-----------------------------------------------------------------------------
(* One pin.                                                                *)

(* owner says whose the touched files are: "pin" if some are the pin's own, *)
(* "elsewhere" if all are others' or nobody's, "nobody" if there are none.  *)
Route(v, tracked, owner) ==
  LET kept == v.reasons \ PathScoped
  IN  IF owner # "elsewhere" \/ v.kind = "inapplicable" THEN v
      ELSE IF kept = {} /\ ~tracked THEN Inapplicable ELSE FromReasons(kept)

Promote(v, tracked, nothingToCheck) ==
  IF v.kind = "compatible" /\ ~tracked /\ nothingToCheck THEN Inapplicable ELSE v

(* Mutation: an inapplicable pin is always left alone. *)
MergeUnlessInapplicable(v, R, override) ==
  IF R = {} \/ v.kind = "inapplicable" THEN v
  ELSE IF v.kind = "compatible" THEN FromReasons(R)
  ELSE [v EXCEPT !.reasons = @ \cup R]

(* Reasons join those a verdict has; override says whether they are heard     *)
(* where nothing was to be said.                                              *)
Merge(v, R, override) ==
  IF R = {} \/ (v.kind = "inapplicable" /\ ~override) THEN v
  ELSE IF v.kind \in {"compatible", "inapplicable"} THEN FromReasons(R)
  ELSE [v EXCEPT !.reasons = @ \cup R]

(* paths is a record: some are renamed, some missing, some on the target. *)
MergePaths(v, paths) ==
  LET renames == IF paths.renamed THEN {"rename"} ELSE {}
  IN  IF /\ v.kind = "compatible" /\ renames = {}
         /\ paths.missing /\ ~paths.present
      THEN Inapplicable
      ELSE Merge(v, renames, TRUE)

PartlyAbsent(paths) ==
  IF paths.missing /\ paths.present THEN {"absent"} ELSE {}

Reclassify(v) == FromReasons((v.reasons \ {"missing"}) \cup {"later"})

(* Mutation: the promoted reason is left out. *)
PromoteWithoutReason(v) ==
  IF "missing" \in v.reasons THEN FromReasons(v.reasons \ {"missing"}) ELSE v

PromotePrereq(v) ==
  IF "missing" \in v.reasons
  THEN FromReasons((v.reasons \ {"missing"}) \cup {"prereq"})
  ELSE v

-----------------------------------------------------------------------------
(* A series: an evaluation has the verdict of every pin, the summary that   *)
(* is counted from them, and what is kept of the target beside them.        *)

NoTarget == [given |-> FALSE, conflict |-> FALSE, findings |-> {}]

Count(verdicts, kind) == Cardinality({p \in DOMAIN verdicts : verdicts[p].kind = kind})

SummaryOf(verdicts) == [k \in Kinds |-> Count(verdicts, k)]

Evaluation(verdicts, target) ==
  [verdicts |-> verdicts, summary |-> SummaryOf(verdicts), target |-> target]

WithVerdicts(e, verdicts) == Evaluation(verdicts, e.target)

NeedsAttention(summary) == summary["incompatible"] > 0 \/ summary["adapt"] > 0

ExitCode(e) ==
  IF \/ NeedsAttention(e.summary)
     \/ e.target.given /\ (e.target.conflict \/ e.target.findings # {})
  THEN 3 ELSE 0

(* What the evaluation of a pin can find before it is routed. *)
Raw == {"missing", "api", "advice", "file", "drift"}

(* What is found about a commit on the pins of a series is a record:        *)
(*   raw      what the evaluation of each pin found                         *)
(*   tracked  the pins that the patch has references to                     *)
(*   owner    whose the touched files are, for each pin                     *)
(*   surface  "none" if the patch touches nothing that is checked, "schema" *)
(*            if only schemas, "erlang" otherwise                           *)
(*   feature, untracked    whether there are such reasons                   *)
(*   paths, added, symbol, suite           what the target branch is like   *)
(*   apply    "drifted" and "conflict" if hunks are, "gone" if a path is not  *)
(*            on the target                                                 *)
(*   bumps    the pins that the commit moves to their next release          *)
Findings(pins) ==
  [raw : UNION {[P -> SUBSET Raw] : P \in SUBSET pins}, tracked : SUBSET pins,
   owner : UNION {[P -> {"pin", "elsewhere", "nobody"}] : P \in SUBSET pins},
   surface : {"none", "schema", "erlang"}, feature : BOOLEAN, untracked : BOOLEAN,
   paths : [renamed : BOOLEAN, missing : BOOLEAN, present : BOOLEAN],
   added : BOOLEAN, symbol : BOOLEAN, suite : BOOLEAN,
   apply : SUBSET {"drifted", "conflict", "gone"}, bumps : SUBSET pins]

OnlySelf(f, selfPins) ==
  LET pins == DOMAIN f.raw
  IN  pins \cap selfPins # {} /\ f.tracked \subseteq selfPins

NothingToCheck(f, selfPins) ==
  \/ f.surface = "none"
  \/ f.surface = "erlang" /\ OnlySelf(f, selfPins)

If(condition, reason) == IF condition THEN {reason} ELSE {}

EvaluateOne(f, selfPins) ==
  LET Routed(p) == Route(FromReasons(f.raw[p]), p \in f.tracked, f.owner[p])
      Promoted(p) == Promote(Routed(p), p \in f.tracked, NothingToCheck(f, selfPins))
  IN  Evaluation([p \in DOMAIN f.raw |-> Merge(Promoted(p), If(f.feature, "feature"), TRUE)],
                 NoTarget)

ResolveUntracked(e, f) ==
  IF f.untracked
  THEN WithVerdicts(e, [p \in DOMAIN e.verdicts |->
                          FromReasons(e.verdicts[p].reasons \cup {"untracked"})])
  ELSE e

ApplyTarget(e, f) ==
  LET Joined(v) ==
        LET placed   == Merge(MergePaths(v, f.paths), PartlyAbsent(f.paths), FALSE)
            added    == Merge(placed, If(f.added, "added"), FALSE)
            symbols  == Merge(added, If(f.symbol, "symbol"), FALSE)
            suites   == Merge(symbols, If(f.suite, "suite"), TRUE)
        IN  Merge(suites, If(f.apply \cap {"drifted", "conflict"} # {}, "apply"), FALSE)
  IN  Evaluation([p \in DOMAIN e.verdicts |-> Joined(e.verdicts[p])],
                 [given    |-> TRUE,
                  conflict |-> f.apply \cap {"conflict", "gone"} # {},
                  findings |-> If(f.symbol, "symbol") \cup If(f.suite, "suite")])

(* Mutation: the summary is not counted again. *)
ReclassifyPins(e, pins) ==
  [e EXCEPT !.verdicts = [p \in DOMAIN e.verdicts |->
                            IF p \in pins THEN Reclassify(e.verdicts[p]) ELSE e.verdicts[p]]]

(* pins are those whose missing symbol is in a later snapshot. *)
ApplyAvailability(e, pins) ==
  WithVerdicts(e, [p \in DOMAIN e.verdicts |->
                     IF p \in pins THEN Reclassify(e.verdicts[p]) ELSE e.verdicts[p]])

(* selfPins are the pins of the program itself. *)
PromotePins(e, selfPins) ==
  WithVerdicts(e, [p \in DOMAIN e.verdicts |->
                     IF p \in selfPins THEN PromotePrereq(e.verdicts[p]) ELSE e.verdicts[p]])

-----------------------------------------------------------------------------
(* The clearance of a round of rows.                                        *)

Any(evals, kind) ==
  \E i \in DOMAIN evals : evals[i].summary[kind] > 0

(* Mutation: the round looks at verdicts and findings, not at conflicts. *)
ClearanceExitWithoutApply(evals) ==
  IF \/ Any(evals, "incompatible") \/ Any(evals, "adapt")
     \/ \E i \in DOMAIN evals : evals[i].target.given /\ evals[i].target.findings # {}
  THEN 3 ELSE 0

ClearanceExit(evals) ==
  IF \/ Any(evals, "incompatible") \/ Any(evals, "adapt")
     \/ \E i \in DOMAIN evals :
          /\ evals[i].target.given
          /\ evals[i].target.conflict \/ evals[i].target.findings # {}
  THEN 3 ELSE 0

(* trackedRows: some row has references to a pin that is not the program's; *)
(* bumpMissing: some row moves a pin to a release without a snapshot.       *)
Clearance(evals, trackedRows, bumpMissing) ==
  IF ClearanceExit(evals) = 3 \/ trackedRows \/ bumpMissing THEN "findings"
  ELSE IF ~Any(evals, "compatible") /\ Any(evals, "inapplicable") THEN "zero_domain"
  ELSE "clean"
=============================================================================
