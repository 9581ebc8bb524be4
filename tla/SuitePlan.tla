------------------------------ MODULE SuitePlan ------------------------------
(***************************************************************************)
(* `backhopper suites plan`: the Common Test suites to run for the paths a *)
(* backport modifies, each with the reasons that selected it.  The input   *)
(* is a record of the modified paths, the suites that were discovered (in  *)
(* the order of application and module), the applications that count as    *)
(* libraries, who implements which behaviour, and the configured rules,    *)
(* which come with the paths they fire for and the suites they name.       *)
(***************************************************************************)
EXTENDS Naturals, FiniteSets, SequencesExt

CONSTANTS
  Null,
  Floor     \* FANOUT_FLOOR: fewer suites than this are never too many for a module

(* Of what is modified, suites stand for themselves, and modules under src or *)
(* include for the application they are of, if any; other files are neither.  *)
TestPaths(in) == {p \in in.paths : p.file = "suite"}
ModifiedModules(in) == {p \in in.paths : p.file = "source" /\ p.app # Null}
ModifiedOf(in, app) == {p.module : p \in {x \in ModifiedModules(in) : x.app = app}}

Selected(suites, reason) == {<<s, reason>> : s \in suites}

(* The first suite of that name, whatever its path. *)
FirstNamed(in, module) ==
  LET named == {i \in DOMAIN in.suites : in.suites[i].module = module}
  IN  IF named = {} THEN {} ELSE {in.suites[Min(named)]}

TestModified(in) ==
  UNION {Selected(FirstNamed(in, p.module), [why |-> "test_modified", path |-> p]) : p \in TestPaths(in)}

Referring(in, module) == {s \in ToSet(in.suites) : module \in s.refs}

SameAppCaller(in) ==
  UNION {Selected({s \in Referring(in, p.module) : s.app = p.app}, [why |-> "same_app", module |-> p.module])
         : p \in ModifiedModules(in)}

CrossAppCaller(in) ==
  UNION {Selected({s \in Referring(in, p.module) : s.app # p.app},
                  [why |-> "cross_app", module |-> p.module, library |-> p.app])
         : p \in {x \in ModifiedModules(in) : x.app \in in.libraries}}

UnitOrPropSweep(in) ==
  UNION {LET triggering == ModifiedOf(in, s.app) \cap s.refs IN
         IF s.swept /\ triggering # {} THEN {<<s, [why |-> "swept", modules |-> triggering]>>} ELSE {}
         : s \in ToSet(in.suites)}

ImplementerSweep(in) ==
  UNION {UNION {Selected(Referring(in, i), [why |-> "implementer", behaviour |-> b, implementer |-> i])
                : i \in in.implementers[b]}
         : b \in {p.module : p \in {x \in in.paths : x.file = "source"}} \cap DOMAIN in.implementers}

(* The suites a rule names by application and module, those named as one of   *)
(* its templates reads, and those that refer to a module of the dependency.   *)
NamedBy(in, rule) ==
  {s \in ToSet(in.suites) :
     \/ <<s.app, s.module>> \in rule.suites
     \/ s.module \in rule.templates
     \/ s.refs \cap rule.dependency # {}}

ConfiguredRules(in) ==
  UNION {Selected(NamedBy(in, x[1]), [why |-> "rule", rule |-> x[1].name, path |-> x[2]])
         : x \in {y \in in.rules \X in.paths : y[2] \in y[1].fires}}

Reasons(in) ==
  TestModified(in) \cup SameAppCaller(in) \cup CrossAppCaller(in) \cup UnitOrPropSweep(in)
    \cup ImplementerSweep(in) \cup ConfiguredRules(in)

-----------------------------------------------------------------------------
ModulesOf(reason) ==
  CASE reason.why \in {"same_app", "cross_app"} -> {reason.module}
    [] reason.why = "swept" -> reason.modules
    [] reason.why = "implementer" -> {reason.behaviour}
    [] OTHER -> {}

(* A module that selects too many suites is named, and selects none alone.    *)
Fanout(reasons, module) == Cardinality({x[1] : x \in {y \in reasons : module \in ModulesOf(y[2])}})

IsBroad(fanout, total) == fanout >= Floor /\ fanout * 3 > total

BroadModules(in, reasons) ==
  {m \in UNION {ModulesOf(x[2]) : x \in reasons} : IsBroad(Fanout(reasons, m), Len(in.suites))}

(* As BroadDriven, of what no module selected too (a mutant). *)
NotDrivenByNarrow(reason, broad) == ModulesOf(reason) \subseteq broad

BroadDriven(reason, broad) == ModulesOf(reason) # {} /\ ModulesOf(reason) \subseteq broad

(* Of the applications with a modified module, those of which no reason names *)
(* a module, nor comes from a path; they are told from all reasons, before    *)
(* those of broad modules go.                                                 *)
Uncovered(in, reasons) ==
  LET modules == UNION {ModulesOf(x[2]) : x \in reasons}
      apps == {x[2].path.app : x \in {y \in reasons : y[2].why \in {"test_modified", "rule"}}}
  IN  {app \in {p.app : p \in ModifiedModules(in)} : app \notin apps /\ ModifiedOf(in, app) \cap modules = {}}

Plan(in) ==
  LET reasons == Reasons(in)
      broad == BroadModules(in, reasons)
  IN  [entries |-> {x \in reasons : ~BroadDriven(x[2], broad)},
       uncovered |-> Uncovered(in, reasons),
       broad |-> broad,
       unattributed |-> Cardinality({p \in in.paths : p.app = Null})]

-----------------------------------------------------------------------------
(* A plan is a selection of what the modified paths ask for, in which nothing  *)
(* gets lost.  A suite that was edited is in it (or, of two suites of one name *)
(* only the first is: apply_test_modified looks for the module alone), and so  *)
(* is one that refers to a modified module of its own application, or of a     *)
(* library, unless that module is reported as broad.  An application with a    *)
(* modified module is reported as uncovered, or has a module that is broad, or *)
(* something of its own is in the plan, and never the first and one of these.  *)
PlanAccountsForEverything(q) ==
  LET plan == Plan(q)
      in == {x[1] : x \in plan.entries}
      suites == ToSet(q.suites)
      edited(s) == \E p \in TestPaths(q) : p.app = s.app /\ p.module = s.module
      first(i) == \A j \in 1..i - 1 : q.suites[j].module # q.suites[i].module
      asks(p, s) == p.module \in s.refs /\ (p.app = s.app \/ p.app \in q.libraries)
      ofApp(app, r) == \/ ModulesOf(r) \cap ModifiedOf(q, app) # {}
                       \/ ModulesOf(r) = {} /\ r.path.app = app
  IN  /\ \A s \in suites : edited(s) =>
           \E i \in DOMAIN q.suites : q.suites[i].module = s.module /\ first(i) /\ q.suites[i] \in in
      /\ \A s \in suites, p \in ModifiedModules(q) : asks(p, s) => s \in in \/ p.module \in plan.broad
      /\ \A x \in plan.entries : ~ModulesOf(x[2]) \subseteq plan.broad \/ ModulesOf(x[2]) = {}
      /\ \A app \in {p.app : p \in ModifiedModules(q)} :
           app \in plan.uncovered <=>
             ModifiedOf(q, app) \cap plan.broad = {} /\ ~\E x \in plan.entries : ofApp(app, x[2])
=============================================================================
