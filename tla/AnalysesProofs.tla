--------------------------- MODULE AnalysesProofs ---------------------------
(***************************************************************************)
(* What holds of the answers of the analyses, for every question and not   *)
(* only for those of a run: the plan of the suites to run, the findings    *)
(* about the pins of a series, the comparison of shapes and the answers of *)
(* the driver, for all snapshots, patches, suites and shapes; and the      *)
(* lookups, for every repository, object store and set of applications: a  *)
(* merge is taken apart into what it brought in, a prefix names one commit,*)
(* and a divergence is told as far as the applications reach.  The         *)
(* definitions of the lookups are recursive functions, and facts about     *)
(* these are proved by induction over their steps (Induction).             *)
(***************************************************************************)
EXTENDS Analyses, Induction

-----------------------------------------------------------------------------
(* The plan of the suites to run.                                            *)

(* What the planner is given: the suites in their order. *)
IsListed(q) == \E n \in Nat : DOMAIN q.suites = 1..n

\* A suite that has the name of a modified test is selected in the place of the first of that name.
LEMMA FirstIsSelected ==
  ASSUME NEW q, IsListed(q), NEW s \in L!ToSet(q.suites), NEW p \in L!TestPaths(q), p.module = s.module
  PROVE  \E i \in DOMAIN q.suites :
           /\ q.suites[i].module = s.module
           /\ \A j \in 1..i - 1 : q.suites[j].module # q.suites[i].module
           /\ <<q.suites[i], [why |-> "test_modified", path |-> p]>> \in L!Reasons(q)
  <1> DEFINE T == {i \in DOMAIN q.suites : q.suites[i].module = p.module}
  <1>1. PICK n \in Nat : DOMAIN q.suites = 1..n
    BY DEF IsListed
  <1>2. T \in SUBSET Nat /\ T # {}
    BY <1>1 DEF L!ToSet
  <1> HIDE DEF T
  <1> DEFINE i == L!Min(T)
  <1>3. i \in T /\ \A j \in T : i <= j
    BY <1>2, LeastExists DEF L!Min
  <1>4. L!FirstNamed(q, p.module) = {q.suites[i]}
    BY <1>2 DEF L!FirstNamed, T
  <1> HIDE DEF i
  <1>5. i \in DOMAIN q.suites /\ q.suites[i].module = s.module
    BY <1>3 DEF T
  <1>6. \A j \in 1..i - 1 : q.suites[j].module # q.suites[i].module
    <2> SUFFICES ASSUME NEW j \in 1..i - 1, q.suites[j].module = q.suites[i].module
                 PROVE  FALSE
      OBVIOUS
    <2>1. i \in 1..n /\ j \in 1..n /\ j < i
      BY <1>1, <1>5
    <2>2. j \in T
      BY <1>1, <1>3, <2>1 DEF T
    <2> QED
      BY <1>3, <2>1, <2>2
  <1>7. <<q.suites[i], [why |-> "test_modified", path |-> p]>> \in L!Reasons(q)
    <2>1. <<q.suites[i], [why |-> "test_modified", path |-> p]>>
            \in L!Selected(L!FirstNamed(q, p.module), [why |-> "test_modified", path |-> p])
      BY <1>4 DEF L!Selected
    <2> QED
      BY <2>1, Zenon DEF L!Reasons, L!TestModified
  <1> QED
    BY <1>5, <1>6, <1>7

LEMMA SelectedForm ==
  ASSUME NEW S, NEW reason, NEW x \in L!Selected(S, reason)
  PROVE  x[1] \in S /\ x[2] = reason
  BY DEF L!Selected

\* A reason is about a module, or comes from a path.
LEMMA ReasonForms ==
  ASSUME NEW q, NEW x \in L!Reasons(q)
  PROVE  IF x[2].why \in {"test_modified", "rule"} THEN L!ModulesOf(x[2]) = {}
         ELSE L!ModulesOf(x[2]) # {}
  <1>1. CASE x \in L!TestModified(q)
    <2>1. PICK p \in L!TestPaths(q) :
            x \in L!Selected(L!FirstNamed(q, p.module), [why |-> "test_modified", path |-> p])
      BY <1>1 DEF L!TestModified
    <2>2. x[2] = [why |-> "test_modified", path |-> p]
      BY <2>1, SelectedForm
    <2> QED
      BY <2>2 DEF L!ModulesOf
  <1>2. CASE x \in L!SameAppCaller(q)
    <2>1. PICK p \in L!ModifiedModules(q) :
            x \in L!Selected({s \in L!Referring(q, p.module) : s.app = p.app},
                            [why |-> "same_app", module |-> p.module])
      BY <1>2, Zenon DEF L!SameAppCaller
    <2>2. x[2] = [why |-> "same_app", module |-> p.module]
      BY <2>1, SelectedForm
    <2> QED
      BY <2>2 DEF L!ModulesOf
  <1>3. CASE x \in L!CrossAppCaller(q)
    <2>1. PICK p \in L!ModifiedModules(q) :
            x \in L!Selected({s \in L!Referring(q, p.module) : s.app # p.app},
                            [why |-> "cross_app", module |-> p.module, library |-> p.app])
      BY <1>3, Zenon DEF L!CrossAppCaller
    <2>2. x[2] = [why |-> "cross_app", module |-> p.module, library |-> p.app]
      BY <2>1, SelectedForm
    <2> QED
      BY <2>2 DEF L!ModulesOf
  <1>4. CASE x \in L!UnitOrPropSweep(q)
    <2>1. PICK s \in L!ToSet(q.suites) :
            /\ L!ModifiedOf(q, s.app) \cap s.refs # {}
            /\ x = <<s, [why |-> "swept", modules |-> L!ModifiedOf(q, s.app) \cap s.refs]>>
      BY <1>4 DEF L!UnitOrPropSweep
    <2> QED
      BY <2>1 DEF L!ModulesOf
  <1>5. CASE x \in L!ImplementerSweep(q)
    <2>1. PICK b \in DOMAIN q.implementers : \E i \in q.implementers[b] :
              x \in L!Selected(L!Referring(q, i), [why |-> "implementer", behaviour |-> b, implementer |-> i])
      BY <1>5 DEF L!ImplementerSweep
    <2>2. \E i \in q.implementers[b] : x[2] = [why |-> "implementer", behaviour |-> b, implementer |-> i]
      BY <2>1, SelectedForm
    <2> QED
      BY <2>2 DEF L!ModulesOf
  <1>6. CASE x \in L!ConfiguredRules(q)
    <2>1. PICK y \in q.rules \X q.paths :
            x \in L!Selected(L!NamedBy(q, y[1]), [why |-> "rule", rule |-> y[1].name, path |-> y[2]])
      BY <1>6 DEF L!ConfiguredRules
    <2>2. x[2] = [why |-> "rule", rule |-> y[1].name, path |-> y[2]]
      BY <2>1, SelectedForm
    <2> QED
      BY <2>2 DEF L!ModulesOf
  <1> QED
    BY <1>1, <1>2, <1>3, <1>4, <1>5, <1>6 DEF L!Reasons

\* Who refers to a modified module of its application, or of a library, is selected for it.
LEMMA CallersAreSelected ==
  ASSUME NEW q, NEW s \in L!ToSet(q.suites), NEW p \in L!ModifiedModules(q),
         p.module \in s.refs, p.app = s.app \/ p.app \in q.libraries
  PROVE  \E x \in L!Reasons(q) : x[1] = s /\ L!ModulesOf(x[2]) = {p.module}
  <1>1. CASE p.app = s.app
    <2> DEFINE x == <<s, [why |-> "same_app", module |-> p.module]>>
    <2>1. x \in L!Reasons(q)
      <3>1. x \in L!Selected({y \in L!Referring(q, p.module) : y.app = p.app},
                            [why |-> "same_app", module |-> p.module])
        BY <1>1 DEF L!Selected, L!Referring
      <3>2. x \in L!SameAppCaller(q)
        BY <1>1, <3>1, Zenon DEF L!SameAppCaller
      <3> QED
        BY <3>2 DEF L!Reasons
    <2>2. x[1] = s /\ L!ModulesOf(x[2]) = {p.module}
      BY DEF L!ModulesOf
    <2> QED
      BY <2>1, <2>2
  <1>2. CASE p.app # s.app
    <2> DEFINE x == <<s, [why |-> "cross_app", module |-> p.module, library |-> p.app]>>
    <2>1. x \in L!Reasons(q)
      <3>1. x \in L!Selected({y \in L!Referring(q, p.module) : y.app # p.app},
                            [why |-> "cross_app", module |-> p.module, library |-> p.app])
        BY <1>2 DEF L!Selected, L!Referring
      <3>2. x \in L!CrossAppCaller(q)
        BY <1>2, <3>1, Zenon DEF L!CrossAppCaller
      <3> QED
        BY <3>2 DEF L!Reasons
    <2>2. x[1] = s /\ L!ModulesOf(x[2]) = {p.module}
      BY DEF L!ModulesOf
    <2> QED
      BY <2>1, <2>2
  <1> QED
    BY <1>1, <1>2

\* What was modified is in the plan, or said to be broad or uncovered, for any number of
\* paths, suites, libraries, behaviours and rules, and whatever counts as too many.
LEMMA PlanOfListedSuites ==
  ASSUME NEW q, IsListed(q)
  PROVE  L!PlanAccountsForEverything(q)
  <1> DEFINE plan == L!Plan(q)
             reasons == L!Reasons(q)
             modules == UNION {L!ModulesOf(x[2]) : x \in reasons}
             apps == {x[2].path.app : x \in {y \in reasons : y[2].why \in {"test_modified", "rule"}}}
             in == {x[1] : x \in plan.entries}
             edited(s) == \E p \in L!TestPaths(q) : p.app = s.app /\ p.module = s.module
             first(i) == \A j \in 1..i - 1 : q.suites[j].module # q.suites[i].module
             asks(p, s) == p.module \in s.refs /\ (p.app = s.app \/ p.app \in q.libraries)
             ofApp(app, r) == \/ L!ModulesOf(r) \cap L!ModifiedOf(q, app) # {}
                              \/ L!ModulesOf(r) = {} /\ r.path.app = app
  <1>1. /\ plan.entries = {x \in reasons : L!ModulesOf(x[2]) = {} \/ ~L!ModulesOf(x[2]) \subseteq plan.broad}
        /\ plan.broad \subseteq modules
        /\ plan.uncovered = {app \in {p.app : p \in L!ModifiedModules(q)} :
                               app \notin apps /\ L!ModifiedOf(q, app) \cap modules = {}}
    BY DEF L!Plan, L!BroadModules, L!BroadDriven, L!Uncovered
  <1>2. \A x \in reasons : IF x[2].why \in {"test_modified", "rule"} THEN L!ModulesOf(x[2]) = {}
                           ELSE L!ModulesOf(x[2]) # {}
    BY ReasonForms
  <1> HIDE DEF plan
  <1>3. ASSUME NEW s \in L!ToSet(q.suites), edited(s)
        PROVE  \E i \in DOMAIN q.suites : q.suites[i].module = s.module /\ first(i) /\ q.suites[i] \in in
    <2>1. PICK p \in L!TestPaths(q) : p.module = s.module
      BY <1>3
    <2>2. PICK i \in DOMAIN q.suites :
            /\ q.suites[i].module = s.module /\ first(i)
            /\ <<q.suites[i], [why |-> "test_modified", path |-> p]>> \in reasons
      BY <2>1, FirstIsSelected
    <2>3. <<q.suites[i], [why |-> "test_modified", path |-> p]>> \in plan.entries
      BY <1>1, <1>2, <2>2
    <2> QED
      BY <2>2, <2>3
  <1>4. ASSUME NEW s \in L!ToSet(q.suites), NEW p \in L!ModifiedModules(q), asks(p, s)
        PROVE  s \in in \/ p.module \in plan.broad
    <2>1. PICK x \in reasons : x[1] = s /\ L!ModulesOf(x[2]) = {p.module}
      BY <1>4, CallersAreSelected
    <2> QED
      BY <1>1, <2>1
  <1>5. \A x \in plan.entries : ~L!ModulesOf(x[2]) \subseteq plan.broad \/ L!ModulesOf(x[2]) = {}
    BY <1>1
  <1>6. ASSUME NEW app \in {p.app : p \in L!ModifiedModules(q)}
        PROVE  app \in plan.uncovered <=>
                 L!ModifiedOf(q, app) \cap plan.broad = {} /\ ~\E x \in plan.entries : ofApp(app, x[2])
    <2>1. ASSUME app \in plan.uncovered, NEW x \in plan.entries, ofApp(app, x[2])
          PROVE  FALSE
      <3>1. x \in reasons /\ app \notin apps /\ L!ModifiedOf(q, app) \cap modules = {}
        BY <1>1, <2>1
      <3>2. CASE L!ModulesOf(x[2]) \cap L!ModifiedOf(q, app) # {}
        BY <3>1, <3>2
      <3>3. CASE L!ModulesOf(x[2]) = {} /\ x[2].path.app = app
        BY <1>2, <3>1, <3>3
      <3> QED
        BY <2>1, <3>2, <3>3
    <2>2. ASSUME app \in plan.uncovered
          PROVE  L!ModifiedOf(q, app) \cap plan.broad = {}
      BY <1>1, <2>2
    <2>3. ASSUME app \in apps
          PROVE  \E x \in plan.entries : ofApp(app, x[2])
      BY <1>1, <1>2, <2>3
    <2>4. ASSUME NEW m \in L!ModifiedOf(q, app) \cap modules, m \notin plan.broad
          PROVE  \E x \in plan.entries : ofApp(app, x[2])
      <3>1. PICK x \in reasons : m \in L!ModulesOf(x[2])
        BY <2>4
      <3> QED
        BY <1>1, <2>4, <3>1
    <2> QED
      BY <1>1, <2>1, <2>2, <2>3, <2>4
  <1> HIDE DEF reasons, modules, apps
  <1> QED
    BY <1>3, <1>4, <1>5, <1>6 DEF L!PlanAccountsForEverything, plan

\* Whatever the planner is asked about suites in an order, what was modified is in the plan, or
\* said to be broad or uncovered (suites/rules.rs).
THEOREM PlansAccountForEverything ==
  (asked.kind = "suites" => IsListed(asked)) => PlanAccountsForEverything
  BY PlanOfListedSuites DEF PlanAccountsForEverything

-----------------------------------------------------------------------------
(* The references of a patch.                                                *)

(* What the analysis of a patch extracts: every reference is of one of four *)
(* kinds.                                                                    *)
IsAnalysed(patch) ==
  \A s \in DOMAIN patch.references : s.kind \in {"function", "any", "record", "type"}

(* What is tracked for a pin is something, and no module or record is of two *)
(* pins of a series.                                                         *)
AreApart(pins) ==
  /\ \A pin \in pins : ScopeOf(pin, {}) # Null
  /\ \A pin, other \in pins : pin # other =>
       /\ DOMAIN pin.modules \cap DOMAIN other.modules = {}
       /\ DOMAIN pin.records \cap DOMAIN other.records = {}

(* A pin and a source that are both in the store; the optional callbacks of a *)
(* behaviour are among those it declares.                                     *)
AreCompared(q) ==
  /\ q.target # Null
  /\ q.source # Null
  /\ \A b \in DOMAIN q.target.modules :
       q.target.modules[b].optional \subseteq DOMAIN q.target.modules[b].callbacks

\* What is reported as missing of a reference is that it does not resolve.
LEMMA MissingIsUnresolved ==
  ASSUME NEW s, s.kind \in {"function", "any", "record", "type"}, NEW target, NEW source
  PROVE  /\ \A r \in ReferenceReasons(s, target, source) :
              r.reason \in Missing => r.symbol = s /\ ~Resolves(target, s)
         /\ ~Resolves(target, s) =>
              \E r \in ReferenceReasons(s, target, source) : r.reason \in Missing /\ r.symbol = s
  <1> DEFINE gone == \A r \in ReferenceReasons(s, target, source) :
                       r.reason \in Missing => r.symbol = s /\ ~Resolves(target, s)
             told == \E r \in ReferenceReasons(s, target, source) : r.reason \in Missing /\ r.symbol = s
  <1>1. \A reason : About(reason, s).reason = reason /\ About(reason, s).symbol = s
    BY DEF About
  <1>2. ASSUME NEW m
        PROVE  ArityChanges(m, s).reason \in Missing /\ ArityChanges(m, s).symbol = s
    BY <1>1 DEF ArityChanges, Missing
  <1>3. \A m : \A r \in HiddenTransition(m, target, source) : r.reason \notin Missing
    BY DEF HiddenTransition, Missing
  <1>4. CASE s.kind = "function"
    <2>1. ReferenceReasons(s, target, source) = FunctionReasons(s, target, source)
      BY <1>4 DEF ReferenceReasons
    <2>2. CASE ~Named(target, s.module)
      <3>1. ReferenceReasons(s, target, source) = {About("missing", s)} /\ ~Resolves(target, s)
        BY <1>4, <2>1, <2>2 DEF FunctionReasons, Resolves
      <3> QED
        BY <1>1, <3>1 DEF Missing
    <2>3. CASE Named(target, s.module)
      <3> DEFINE m == target.modules[s.module]
                 deprecated == IF Deprecated(m, s) THEN {About("deprecated", s)} ELSE {}
                 changed == IF ~Resolves(target, s) THEN {ArityChanges(m, s)}
                            ELSE IF SpecsDiffer(target, source, s) THEN {About("signature", s)} ELSE {}
      <3>1. ReferenceReasons(s, target, source)
              = HiddenTransition(s.module, target, source) \cup deprecated \cup changed
        BY <2>1, <2>3 DEF FunctionReasons
      <3>2. \A r \in deprecated : r.reason \notin Missing
        BY <1>1 DEF Missing
      <3>3. CASE Resolves(target, s)
        <4>1. \A r \in changed : r.reason \notin Missing
          BY <1>1, <3>3 DEF Missing
        <4> QED
          BY <1>3, <3>1, <3>2, <3>3, <4>1
      <3>4. CASE ~Resolves(target, s)
        <4>1. changed = {ArityChanges(m, s)}
          BY <3>4
        <4> QED
          BY <1>2, <1>3, <3>1, <3>2, <3>4, <4>1
      <3> QED
        BY <3>3, <3>4
    <2> QED
      BY <2>2, <2>3
  <1>5. CASE s.kind = "any"
    <2> DEFINE hidden == IF Named(target, s.module) THEN HiddenTransition(s.module, target, source) ELSE {}
               missing == IF Resolves(target, s) THEN {} ELSE {About("missing", s)}
    <2>1. ReferenceReasons(s, target, source) = hidden \cup missing
      BY <1>5 DEF ReferenceReasons, AnyArityReasons
    <2>2. \A r \in hidden : r.reason \notin Missing
      BY <1>3
    <2> QED
      BY <1>1, <2>1, <2>2 DEF Missing
  <1>6. CASE s.kind = "record"
    <2>1. ReferenceReasons(s, target, source) = RecordReasons(s, target, source)
      BY <1>6 DEF ReferenceReasons
    <2>2. CASE Resolves(target, s)
      <3>1. ReferenceReasons(s, target, source) \subseteq {About("fields", s)}
        BY <2>1, <2>2 DEF RecordReasons
      <3> QED
        BY <1>1, <2>2, <3>1 DEF Missing
    <2>3. CASE ~Resolves(target, s)
      <3>1. ReferenceReasons(s, target, source) = {About("missing", s)}
        BY <2>1, <2>3 DEF RecordReasons
      <3> QED
        BY <1>1, <2>3, <3>1 DEF Missing
    <2> QED
      BY <2>2, <2>3
  <1>7. CASE s.kind = "type"
    <2>1. ReferenceReasons(s, target, source) = IF Resolves(target, s) THEN {} ELSE {About("missing_type", s)}
      BY <1>7 DEF ReferenceReasons, TypeReasons
    <2> QED
      BY <1>1, <2>1 DEF Missing
  <1> QED
    BY <1>4, <1>5, <1>6, <1>7

\* A finding about the callbacks of a file is about one behaviour it declares.
LEMMA CallbackFindings ==
  ASSUME NEW patch, NEW target, NEW source, NEW family, NEW otp, NEW r
  PROVE  r \in DepBehaviours(patch, target, source, family, otp) <=>
           \E f \in {x \in patch.files : x.erl /\ x.added} :
           \E b \in {x \in f.behaviours \cap family.behaviours : Named(target, x)} :
             r \in FileBehaviours(patch, f, b, target, source, otp)
  BY DEF DepBehaviours

\* A finding about wire constants is about those that one side lacks of one module.
LEMMA WireFindings ==
  ASSUME NEW patch, NEW target, NEW source, NEW family, NEW r
  PROVE  r \in WireConstants(patch, target, source, family) <=>
           \E m \in DOMAIN family.wire \cap Touched(patch) :
           \E macros \in WireGaps(m, target, source, family) :
             r = WireReason(m, macros, target, source, family)
  <1> DEFINE found(m) == {WireReason(m, macros, target, source, family) :
                            macros \in WireGaps(m, target, source, family)}
  <1>1. \A m : r \in found(m) <=> \E macros \in WireGaps(m, target, source, family) :
                                   r = WireReason(m, macros, target, source, family)
    OBVIOUS
  <1> HIDE DEF found
  <1>2. r \in UNION {found(m) : m \in DOMAIN family.wire \cap Touched(patch)} <=>
          \E m \in DOMAIN family.wire \cap Touched(patch) : r \in found(m)
    OBVIOUS
  <1> QED
    BY <1>1, <1>2, Zenon DEF WireConstants, found

\* Nothing but a reference is missing or has a signature that changed, and a callback was added
\* by a comparison of behaviours only.
LEMMA WhereReasonsComeFrom ==
  ASSUME NEW patch, NEW target, NEW source, NEW scope, NEW family, NEW otp,
         NEW r \in Evaluated(patch, target, source, scope, family, otp)
  PROVE  \/ r \in UNION {ReferenceReasons(s, target, source) : s \in TrackedRefs(patch, scope)}
         \/ r \in BehaviourConformance(target, source, scope)
         \/ r.reason \notin Missing \cup {"signature", "callback_added"}
  <1> DEFINE references == UNION {ReferenceReasons(s, target, source) : s \in TrackedRefs(patch, scope)}
  <1>1. ASSUME r \in MachineVersions(patch, target, source, family)
        PROVE  r.reason = "machine_version"
    <2>1. \E m : r = [reason |-> "machine_version", module |-> m, sides |-> UnversionedOn(m, target, source)]
      BY <1>1, Zenon DEF MachineVersions
    <2> QED
      BY <2>1
  <1>2. ASSUME r \in WireConstants(patch, target, source, family)
        PROVE  r.reason = "wire_constants"
    <2>1. \E m, macros : r = WireReason(m, macros, target, source, family)
      BY <1>2, WireFindings
    <2>2. \A m, macros : WireReason(m, macros, target, source, family).reason = "wire_constants"
      BY DEF WireReason
    <2> QED
      BY <2>1, <2>2
  <1>3. ASSUME r \in DepBehaviours(patch, target, source, family, otp)
        PROVE  r.reason \in {"callback_unknown", "callback_missing"}
    <2>1. \E f, b : r \in FileBehaviours(patch, f, b, target, source, otp)
      BY <1>3, CallbackFindings
    <2> QED
      BY <2>1 DEF FileBehaviours, CallbackReason
  <1>4. ASSUME r \in OptionKeyDrift(patch, target, source, family)
        PROVE  r.reason = "option_key"
    BY <1>4 DEF OptionKeyDrift
  <1>5. ASSUME r \in ClauseMismatches(patch, target, scope, references)
        PROVE  r.reason = "clauses"
    <2>1. \E s : r = About("clauses", s)
      BY <1>5, Zenon DEF ClauseMismatches
    <2> QED
      BY <2>1 DEF About
  <1>6. ASSUME r \in ReturnShapes(patch, target, source, scope)
        PROVE  r.reason = "returns"
    BY <1>6 DEF ReturnShapes, About
  <1>7. ASSUME r \in {[reason |-> "unsupported", module |-> f.module] : f \in {x \in patch.files : x.elixir}}
        PROVE  r.reason = "unsupported"
    BY <1>7
  <1>8. \/ r \in references
        \/ r \in MachineVersions(patch, target, source, family)
        \/ r \in WireConstants(patch, target, source, family)
        \/ r \in DepBehaviours(patch, target, source, family, otp)
        \/ r \in OptionKeyDrift(patch, target, source, family)
        \/ r \in ClauseMismatches(patch, target, scope, references)
        \/ r \in BehaviourConformance(target, source, scope)
        \/ r \in ReturnShapes(patch, target, source, scope)
        \/ r \in {[reason |-> "unsupported", module |-> f.module] : f \in {x \in patch.files : x.elixir}}
    BY DEF Evaluated
  <1> HIDE DEF references
  <1>9. \/ r \in references \/ r \in BehaviourConformance(target, source, scope)
         \/ r.reason \notin {"missing", "arity", "missing_type", "signature", "callback_added"}
    BY <1>1, <1>2, <1>3, <1>4, <1>5, <1>6, <1>7, <1>8
  <1> QED
    BY <1>9 DEF Missing, references

LEMMA ConformanceForms ==
  ASSUME NEW target, NEW source, NEW scope, NEW r \in BehaviourConformance(target, source, scope)
  PROVE  r.reason \in {"callback_changed", "callback_added", "callback_removed"}
  BY DEF BehaviourConformance, CallbackReason

\* What is missing of a pin are the references tracked for it that do not resolve there.
LEMMA MissingOfOnePin ==
  ASSUME NEW q, IsAnalysed(q.patch), NEW pin, NEW source, NEW scope, NEW s
  PROVE  (\E r \in Answers(q, pin, source, scope) : r.reason \in Missing /\ r.symbol = s)
           <=> s \in TrackedRefs(q.patch, scope) /\ ~Resolves(pin, s)
  <1> DEFINE reasons(x) == ReferenceReasons(x, pin, source)
  <1>1. \A x \in TrackedRefs(q.patch, scope) : x.kind \in {"function", "any", "record", "type"}
    BY DEF IsAnalysed, TrackedRefs, Referred
  <1>2. ASSUME NEW x \in TrackedRefs(q.patch, scope)
        PROVE  /\ \A r \in reasons(x) : r.reason \in Missing => r.symbol = x /\ ~Resolves(pin, x)
               /\ ~Resolves(pin, x) => \E r \in reasons(x) : r.reason \in Missing /\ r.symbol = x
    BY <1>1, MissingIsUnresolved
  <1>3. ASSUME NEW r \in Answers(q, pin, source, scope), r.reason \in Missing
        PROVE  \E x \in TrackedRefs(q.patch, scope) : r \in reasons(x)
    <2>1. r \notin BehaviourConformance(pin, source, scope)
      BY <1>3, ConformanceForms DEF Missing
    <2> QED
      BY <1>3, <2>1, WhereReasonsComeFrom DEF Answers
  <1>4. \A x \in TrackedRefs(q.patch, scope) : reasons(x) \subseteq Answers(q, pin, source, scope)
    BY DEF Answers, Evaluated
  <1> HIDE DEF reasons
  <1>5. ASSUME NEW r \in Answers(q, pin, source, scope), r.reason \in Missing, r.symbol = s
        PROVE  s \in TrackedRefs(q.patch, scope) /\ ~Resolves(pin, s)
    BY <1>2, <1>3, <1>5
  <1>6. ASSUME s \in TrackedRefs(q.patch, scope), ~Resolves(pin, s)
        PROVE  \E r \in Answers(q, pin, source, scope) : r.reason \in Missing /\ r.symbol = s
    BY <1>2, <1>4, <1>6
  <1> QED
    BY <1>5, <1>6

\* A reference that a patch adds is answered by the one pin it belongs to, or counted as
\* untracked, for any patch and any pins that have no module and no record in common.
LEMMA ReferencesOfPatches ==
  ASSUME NEW q, IsAnalysed(q.patch), AreApart(q.pins)
  PROVE  AnswersReferences(q)
  <1> DEFINE scope(pin) == ScopeOf(pin, {})
             added == {s \in DOMAIN q.patch.references \ q.patch.defined : q.patch.references[s] = "added"}
             trackers(s) == {pin \in q.pins : s \in TrackedRefs(q.patch, scope(pin))}
             untracked == Untracked(q.patch, {scope(pin) : pin \in q.pins})
             missed == {r.symbol : r \in {x \in UNION {Answers(q, pin, Null, scope(pin)) : pin \in q.pins} :
                                            x.reason \in Missing}}
  <1>1. \A pin \in q.pins : \A s : InScope(scope(pin), s) <=>
          (IF s.kind = "record" THEN s.name \in DOMAIN pin.records ELSE s.module \in DOMAIN pin.modules)
    BY DEF AreApart, InScope, ScopeOf
  <1>2. ASSUME NEW s \in added
        PROVE  trackers(s) = {pin \in q.pins : InScope(scope(pin), s)}
    BY DEF TrackedRefs, Referred
  <1>3. ASSUME NEW s \in added, s.kind # "type"
        PROVE  Cardinality(trackers(s)) = IF s \in untracked THEN 0 ELSE 1
    <2>1. s \in untracked <=> trackers(s) = {}
      BY <1>2, <1>3 DEF Untracked
    <2>2. ASSUME NEW pin \in trackers(s), NEW other \in trackers(s)
          PROVE  pin = other
      BY <1>1, <1>2 DEF AreApart
    <2> HIDE DEF trackers, untracked
    <2>3. CASE trackers(s) = {}
      BY <2>1, <2>3, FS_EmptySet
    <2>4. CASE trackers(s) # {}
      <3>1. PICK pin \in trackers(s) : TRUE
        BY <2>4
      <3>2. trackers(s) = {pin}
        BY <2>2, <3>1
      <3> QED
        BY <2>1, <3>2, FS_Singleton
    <2> QED
      BY <2>3, <2>4
  <1>4. missed = {s \in added : \E pin \in trackers(s) : ~Resolves(pin, s)}
    <2>1. \A pin, s : (\E r \in Answers(q, pin, Null, scope(pin)) : r.reason \in Missing /\ r.symbol = s)
                        <=> s \in TrackedRefs(q.patch, scope(pin)) /\ ~Resolves(pin, s)
      BY MissingOfOnePin
    <2>2. \A pin : TrackedRefs(q.patch, scope(pin)) \subseteq added
      BY DEF TrackedRefs, Referred
    <2> HIDE DEF scope, added
    <2>3. \A s : s \in missed <=> \E pin \in q.pins : s \in TrackedRefs(q.patch, scope(pin)) /\ ~Resolves(pin, s)
      BY <2>1
    <2>4. \A s : s \in missed <=> s \in added /\ \E pin \in trackers(s) : ~Resolves(pin, s)
      BY <2>2, <2>3
    <2> HIDE DEF missed, trackers
    <2> QED
      BY <2>4
  <1> QED
    BY <1>3, <1>4, Zenon DEF AnswersReferences

\* Whatever patch is evaluated against whatever pins, as they are of a series: a reference that
\* it adds resolves, is missing from the one pin it belongs to, or is untracked (evaluate.rs).
THEOREM EveryReferenceIsAnswered ==
  (asked.kind = "evaluation" => IsAnalysed(asked.patch) /\ AreApart(asked.pins)) => ReferencesAreAnswered
  BY ReferencesOfPatches DEF ReferencesAreAnswered

-----------------------------------------------------------------------------
(* What a source adds.                                                       *)

Stripped(r) == [f \in DOMAIN r \ {"sides"} |-> r[f]]

\* A spec does not differ from itself, nor from one that is not there.
LEMMA SpecsAgree ==
  ASSUME NEW target, NEW s
  PROVE  ~SpecsDiffer(target, target, s) /\ ~SpecsDiffer(target, Null, s)
  BY DEF SpecsDiffer, SpecOf, Named

\* Of a reference, the pin itself as a source tells nothing.
LEMMA ReferencesAlone ==
  ASSUME NEW s, s.kind \in {"function", "any", "record", "type"}, NEW target
  PROVE  ReferenceReasons(s, target, target) = ReferenceReasons(s, target, Null)
  <1>1. \A m : HiddenTransition(m, target, target) = {} /\ HiddenTransition(m, target, Null) = {}
    BY DEF HiddenTransition, Named
  <1>2. FunctionReasons(s, target, target) = FunctionReasons(s, target, Null)
    BY <1>1, SpecsAgree DEF FunctionReasons
  <1>3. AnyArityReasons(s, target, target) = AnyArityReasons(s, target, Null)
    BY <1>1 DEF AnyArityReasons
  <1>4. RecordReasons(s, target, target) = RecordReasons(s, target, Null)
    BY DEF RecordReasons
  <1>5. CASE s.kind = "function"
    BY <1>2, <1>5 DEF ReferenceReasons
  <1>6. CASE s.kind = "any"
    BY <1>3, <1>6 DEF ReferenceReasons
  <1>7. CASE s.kind = "record"
    BY <1>4, <1>7 DEF ReferenceReasons
  <1>8. CASE s.kind = "type"
    BY <1>8 DEF ReferenceReasons
  <1> QED
    BY <1>5, <1>6, <1>7, <1>8

\* The pin has what the pin has: nothing of a behaviour is new or gone, and no return type
\* or option key has changed.
LEMMA NothingDiffers ==
  ASSUME NEW patch, NEW target, target # Null, NEW scope, NEW family
  PROVE  /\ BehaviourConformance(target, target, scope) = {}
         /\ ReturnShapes(patch, target, target, scope) = {}
         /\ OptionKeyDrift(patch, target, target, family) = {}
         /\ OptionKeyDrift(patch, target, Null, family) = {}
  <1>1. \A m : Changed(m, m) = {} /\ NewlyRequired(m, m) = {}
    BY DEF Changed, NewlyRequired, SignaturesDiffer
  <1>2. ASSUME NEW r \in BehaviourConformance(target, target, scope)
        PROVE  FALSE
    <2>1. \E b, m, cb : \/ cb \in Changed(target.modules[b], target.modules[b])
                        \/ cb \in NewlyRequired(target.modules[b], target.modules[b])
      BY <1>2 DEF BehaviourConformance
    <2> QED
      BY <1>1, <2>1
  <1>3. ReturnShapes(patch, target, target, scope) = {}
    BY SpecsAgree DEF ReturnShapes
  <1>4. \A o : DriftedKeys(target, target, o) = {}
    BY DEF DriftedKeys
  <1>5. OptionKeyDrift(patch, target, target, family) = {}
    BY <1>4 DEF OptionKeyDrift
  <1>6. OptionKeyDrift(patch, target, Null, family) = {}
    BY DEF OptionKeyDrift
  <1> QED
    BY <1>2, <1>3, <1>5, <1>6

\* A callback is unknown to the pin as a source exactly when it is unknown to the pin.
LEMMA CallbacksAlone ==
  ASSUME NEW patch, NEW target, NEW family, NEW otp, NEW r
  PROVE  r \in DepBehaviours(patch, target, target, family, otp) <=>
           r \in DepBehaviours(patch, target, Null, family, otp) /\ r.reason # "callback_unknown"
  <1>1. ASSUME NEW f, NEW b, Named(target, b)
        PROVE  r \in FileBehaviours(patch, f, b, target, target, otp) <=>
                 r \in FileBehaviours(patch, f, b, target, Null, otp) /\ r.reason # "callback_unknown"
    <2> DEFINE unknown(source) == {CallbackReason("callback_unknown", b, cb, f.module) :
                                     cb \in UnknownCallbacks(f, b, Introduced(patch, f), target, source, otp)}
               absent == {CallbackReason("callback_missing", b, cb, f.module) : cb \in MissingCallbacks(f, b, target)}
    <2>1. UnknownCallbacks(f, b, Introduced(patch, f), target, target, otp) = {}
      BY <1>1 DEF UnknownCallbacks
    <2>2. \A x \in unknown(Null) : x.reason = "callback_unknown"
      BY DEF CallbackReason
    <2>3. \A x \in absent : x.reason = "callback_missing"
      BY DEF CallbackReason
    <2>4. unknown(target) = {}
      BY <2>1
    <2>5. \A source : FileBehaviours(patch, f, b, target, source, otp) = unknown(source) \cup absent
      BY DEF FileBehaviours
    <2> HIDE DEF unknown, absent
    <2> QED
      BY <2>2, <2>3, <2>4, <2>5
  <1> QED
    BY <1>1, CallbackFindings

\* The sides are what differs between two findings about wire constants, or a machine.
LEMMA SidesApart ==
  ASSUME NEW m, NEW macros, NEW a, NEW b
  PROVE  /\ Stripped([reason |-> "machine_version", module |-> m, sides |-> a])
              = Stripped([reason |-> "machine_version", module |-> m, sides |-> b])
         /\ Stripped([reason |-> "wire_constants", module |-> m, macros |-> macros, sides |-> a])
              = Stripped([reason |-> "wire_constants", module |-> m, macros |-> macros, sides |-> b])
  BY DEF Stripped

\* But for their sides, the same machines and wire constants are reported.
LEMMA SidesAlone ==
  ASSUME NEW patch, NEW target, target # Null, NEW family
  PROVE  /\ Unsided(MachineVersions(patch, target, target, family))
              = Unsided(MachineVersions(patch, target, Null, family))
         /\ Unsided(WireConstants(patch, target, target, family))
              = Unsided(WireConstants(patch, target, Null, family))
  <1>1. \A R : Unsided(R) = {Stripped(r) : r \in R}
    BY DEF Unsided, Stripped
  <1>2. \A m : UnversionedOn(m, target, target) # {} <=> UnversionedOn(m, target, Null) # {}
    BY DEF UnversionedOn, Sides
  <1>3. ASSUME NEW x
        PROVE  (\E r \in MachineVersions(patch, target, target, family) : x = Stripped(r))
                 <=> (\E r \in MachineVersions(patch, target, Null, family) : x = Stripped(r))
    <2> DEFINE reason(m, source) == [reason |-> "machine_version", module |-> m,
                                     sides |-> UnversionedOn(m, target, source)]
               found(source) == {m \in family.machines \cap Touched(patch) : UnversionedOn(m, target, source) # {}}
    <2>1. \A m : Stripped(reason(m, target)) = Stripped(reason(m, Null))
      BY SidesApart
    <2>2. found(target) = found(Null)
      BY <1>2
    <2>3. \A source : MachineVersions(patch, target, source, family) = {reason(m, source) : m \in found(source)}
      BY DEF MachineVersions
    <2> HIDE DEF reason, found
    <2> QED
      BY <2>1, <2>2, <2>3
  <1>4. \A m : WireGaps(m, target, target, family) = WireGaps(m, target, Null, family)
    BY DEF WireGaps
  <1>5. \A m, macros : Stripped(WireReason(m, macros, target, target, family))
                         = Stripped(WireReason(m, macros, target, Null, family))
    BY SidesApart DEF WireReason
  <1>6. ASSUME NEW x
        PROVE  (\E r \in WireConstants(patch, target, target, family) : x = Stripped(r))
                 <=> (\E r \in WireConstants(patch, target, Null, family) : x = Stripped(r))
    BY <1>4, <1>5, WireFindings
  <1> QED
    BY <1>1, <1>3, <1>6

\* Of a reference, a signature is reported where it is of a function whose specs differ, and
\* nothing about callbacks.
LEMMA SignatureIsADifference ==
  ASSUME NEW s, s.kind \in {"function", "any", "record", "type"}, NEW target, NEW source,
         NEW r \in ReferenceReasons(s, target, source)
  PROVE  /\ r.reason # "callback_added"
         /\ r.reason = "signature" => s.kind = "function" /\ SpecsDiffer(target, source, s) /\ r.symbol = s
  <1>1. \A reason : About(reason, s).reason = reason /\ About(reason, s).symbol = s
    BY DEF About
  <1>2. \A m : ArityChanges(m, s).reason \in {"missing", "arity"}
    BY <1>1 DEF ArityChanges
  <1>3. \A m : \A x \in HiddenTransition(m, target, source) : x.reason = "now_hidden"
    BY DEF HiddenTransition
  <1>4. CASE s.kind = "function"
    BY <1>1, <1>2, <1>3, <1>4 DEF ReferenceReasons, FunctionReasons
  <1>5. CASE s.kind = "any"
    BY <1>1, <1>3, <1>5 DEF ReferenceReasons, AnyArityReasons
  <1>6. CASE s.kind = "record"
    BY <1>1, <1>6 DEF ReferenceReasons, RecordReasons
  <1>7. CASE s.kind = "type"
    BY <1>1, <1>7 DEF ReferenceReasons, TypeReasons
  <1> QED
    BY <1>4, <1>5, <1>6, <1>7

LEMMA UnsidedOfMore ==
  ASSUME NEW R, NEW S, R \subseteq S
  PROVE  Unsided(R) \subseteq Unsided(S)
  BY DEF Unsided

LEMMA UnsidedOfAll ==
  ASSUME NEW R, NEW S, NEW T, NEW U
  PROVE  Unsided(R \cup S \cup T \cup U) = Unsided(R) \cup Unsided(S) \cup Unsided(T) \cup Unsided(U)
  BY DEF Unsided

\* A source that is the pin itself adds nothing but a side, and takes away what was guessed;
\* and a signature is reported where specs differ.
LEMMA DriftComesOfADifference ==
  ASSUME NEW q, IsAnalysed(q.patch), q.target # Null
  PROVE  DriftNeedsADifference(q)
  <1> DEFINE tracked == TrackedRefs(q.patch, Null)
             references(source) == UNION {ReferenceReasons(s, q.target, source) : s \in tracked}
             machines(source) == MachineVersions(q.patch, q.target, source, q.family)
             wire(source) == WireConstants(q.patch, q.target, source, q.family)
             callbacks(source) == DepBehaviours(q.patch, q.target, source, q.family, q.otp)
             clauses(source) == ClauseMismatches(q.patch, q.target, Null, references(source))
             unsupported == {[reason |-> "unsupported", module |-> f.module] : f \in {x \in q.patch.files : x.elixir}}
             alone == Answers(q, q.target, Null, Null)
             same == Answers(q, q.target, q.target, Null)
  <1>1. \A s \in tracked : s.kind \in {"function", "any", "record", "type"}
    BY DEF IsAnalysed, TrackedRefs, Referred
  <1>2. references(q.target) = references(Null)
    <2>1. \A s \in tracked : ReferenceReasons(s, q.target, q.target) = ReferenceReasons(s, q.target, Null)
      BY <1>1, ReferencesAlone
    <2> QED
      BY <2>1
  <1>3. /\ OptionKeyDrift(q.patch, q.target, Null, q.family) = {}
        /\ OptionKeyDrift(q.patch, q.target, q.target, q.family) = {}
        /\ BehaviourConformance(q.target, q.target, Null) = {}
        /\ ReturnShapes(q.patch, q.target, q.target, Null) = {}
    BY NothingDiffers
  <1>4. /\ alone = machines(Null) \cup wire(Null) \cup callbacks(Null)
                     \cup (references(Null) \cup clauses(Null) \cup unsupported)
        /\ same = machines(q.target) \cup wire(q.target) \cup callbacks(q.target)
                    \cup (references(Null) \cup clauses(Null) \cup unsupported)
    BY <1>2, <1>3 DEF Answers, Evaluated
  <1>5. \A r : r \in callbacks(q.target) <=> r \in callbacks(Null) /\ r.reason # "callback_unknown"
    BY CallbacksAlone
  <1>6. /\ Unsided(machines(q.target)) = Unsided(machines(Null))
        /\ Unsided(wire(q.target)) = Unsided(wire(Null))
    BY SidesAlone
  <1>7. \A R : Unsided(R) = {Stripped(r) : r \in R}
    BY DEF Unsided, Stripped
  <1>8. ASSUME NEW r \in Answers(q, q.target, q.source, Null), r.reason = "signature"
        PROVE  r.symbol \in SourceDeltas(q.patch, q.target, q.source, Null)
    <2>1. PICK s \in tracked : r \in ReferenceReasons(s, q.target, q.source)
      <3>1. r \notin BehaviourConformance(q.target, q.source, Null)
        BY <1>8, ConformanceForms
      <3> QED
        BY <1>8, <3>1, WhereReasonsComeFrom DEF Answers
    <2>2. s.kind = "function" /\ SpecsDiffer(q.target, q.source, s) /\ r.symbol = s
      BY <1>1, <1>8, <2>1, SignatureIsADifference
    <2> QED
      BY <2>2 DEF SourceDeltas
  <1> HIDE DEF alone, same, references, machines, wire, callbacks, clauses, unsupported
  <1> DEFINE rest == references(Null) \cup clauses(Null) \cup unsupported
  <1> HIDE DEF rest
  <1>9. /\ alone = machines(Null) \cup wire(Null) \cup callbacks(Null) \cup rest
        /\ same = machines(q.target) \cup wire(q.target) \cup callbacks(q.target) \cup rest
    BY <1>4 DEF rest
  <1>10. Unsided(same) \subseteq Unsided(alone)
    <2>1. callbacks(q.target) \subseteq callbacks(Null)
      BY <1>5
    <2>2. Unsided(callbacks(q.target)) \subseteq Unsided(callbacks(Null))
      BY <2>1, UnsidedOfMore
    <2> DEFINE sum(source) == Unsided(machines(source)) \cup Unsided(wire(source))
                                \cup Unsided(callbacks(source)) \cup Unsided(rest)
    <2>3. Unsided(alone) = sum(Null) /\ Unsided(same) = sum(q.target)
      <3>1. \A source : Unsided(machines(source) \cup wire(source) \cup callbacks(source) \cup rest) = sum(source)
        BY DEF Unsided
      <3> QED
        BY <1>9, <3>1, Zenon
    <2> QED
      BY <1>6, <2>2, <2>3
  <1>11. ASSUME NEW r \in alone, r.reason # "callback_unknown"
         PROVE  Unsided({r}) \subseteq Unsided(same)
    BY <1>5, <1>6, <1>7, <1>9, <1>11
  <1> QED
    BY <1>8, <1>10, <1>11 DEF DriftNeedsADifference, alone, same

\* What is asked of implementers comes of comparing the behaviours of the two snapshots.
LEMMA AddedByConformance ==
  ASSUME NEW q, IsAnalysed(q.patch), q.source # Null, NEW r, r.reason = "callback_added"
  PROVE  r \in Answers(q, q.target, q.source, Null) <=> r \in BehaviourConformance(q.target, q.source, Null)
  <1>1. BehaviourConformance(q.target, q.source, Null) \subseteq Answers(q, q.target, q.source, Null)
    BY DEF Answers, Evaluated
  <1>2. ASSUME r \in Answers(q, q.target, q.source, Null)
        PROVE  r \in BehaviourConformance(q.target, q.source, Null)
    <2>1. \A s \in TrackedRefs(q.patch, Null) : s.kind \in {"function", "any", "record", "type"}
      BY DEF IsAnalysed, TrackedRefs, Referred
    <2>2. \A s \in TrackedRefs(q.patch, Null) : r \notin ReferenceReasons(s, q.target, q.source)
      BY <2>1, SignatureIsADifference
    <2> QED
      BY <1>2, <2>2, WhereReasonsComeFrom DEF Answers
  <1> QED
    BY <1>1, <1>2

LEMMA AddedForms ==
  ASSUME NEW q, NEW b \in DOMAIN q.target.modules \cap DOMAIN q.source.modules,
         NEW m \in ImplementersOf(q.target, b), NEW r
  PROVE  r \in BehaviourConformance(q.target, q.source, Null)
           /\ r.reason = "callback_added" /\ r.behaviour = b /\ r.implementer = m
         <=> \E cb \in NewlyRequired(q.target.modules[b], q.source.modules[b]) \ q.target.modules[m].exports :
               r = CallbackReason("callback_added", b, cb, m)
  <1> DEFINE target == q.target
             source == q.source
             compared == {x \in DOMAIN source.modules \cap DOMAIN target.modules :
                            DOMAIN source.modules[x].callbacks # {} \/ source.modules[x].optional # {}}
             changed(x, y) == {CallbackReason("callback_changed", x, cb, y) :
                                 cb \in Changed(target.modules[x], source.modules[x])}
             added(x, y) == {CallbackReason("callback_added", x, cb, y) :
                               cb \in NewlyRequired(target.modules[x], source.modules[x]) \ target.modules[y].exports}
             removed(x, y) == {CallbackReason("callback_removed", x, cb, y) :
                                 cb \in NewlyRequired(source.modules[x], target.modules[x]) \cap target.modules[y].exports}
  <1>1. BehaviourConformance(target, source, Null)
          = UNION {UNION {changed(x, y) \cup added(x, y) \cup removed(x, y) : y \in ImplementersOf(target, x)}
                   : x \in compared}
    BY DEF BehaviourConformance
  <1>2. \A reason, x, cb, y : /\ CallbackReason(reason, x, cb, y).reason = reason
                              /\ CallbackReason(reason, x, cb, y).behaviour = x
                              /\ CallbackReason(reason, x, cb, y).implementer = y
    BY DEF CallbackReason
  <1>3. ASSUME NEW x, NEW y
        PROVE  /\ \A z \in changed(x, y) : z.reason = "callback_changed"
               /\ \A z \in added(x, y) : z.reason = "callback_added" /\ z.behaviour = x /\ z.implementer = y
               /\ \A z \in removed(x, y) : z.reason = "callback_removed"
    BY <1>2
  <1>4. NewlyRequired(target.modules[b], source.modules[b]) # {} => b \in compared
    BY DEF NewlyRequired
  <1>5. r \in added(b, m) <=> \E cb \in NewlyRequired(target.modules[b], source.modules[b]) \ target.modules[m].exports :
                                r = CallbackReason("callback_added", b, cb, m)
    OBVIOUS
  <1>6. r \in added(b, m) => b \in compared
    BY <1>4
  <1> HIDE DEF changed, added, removed, compared
  <1>7. r \in BehaviourConformance(target, source, Null) <=>
          \E x \in compared : \E y \in ImplementersOf(target, x) : r \in changed(x, y) \cup added(x, y) \cup removed(x, y)
    BY <1>1
  <1>8. r \in BehaviourConformance(target, source, Null)
          /\ r.reason = "callback_added" /\ r.behaviour = b /\ r.implementer = m
        <=> r \in added(b, m)
    BY <1>3, <1>6, <1>7
  <1> QED
    BY <1>5, <1>8

\* An implementer is asked for the callbacks that its behaviour requires at the source and did
\* not know at the pin.
LEMMA AddedCallbacks ==
  ASSUME NEW q, IsAnalysed(q.patch), q.source # Null, NEW b \in DOMAIN q.target.modules \cap DOMAIN q.source.modules,
         NEW m \in ImplementersOf(q.target, b)
  PROVE  {r.callback : r \in {x \in {y \in Answers(q, q.target, q.source, Null) : y.reason = "callback_added"} :
                                x.behaviour = b /\ x.implementer = m}}
           = NewlyRequired(q.target.modules[b], q.source.modules[b]) \ q.target.modules[m].exports
  <1> DEFINE conformance == BehaviourConformance(q.target, q.source, Null)
             gap(x, y) == NewlyRequired(q.target.modules[x], q.source.modules[x]) \ q.target.modules[y].exports
  <1>1. ASSUME NEW r, r.reason = "callback_added"
        PROVE  r \in Answers(q, q.target, q.source, Null) <=> r \in conformance
    BY <1>1, AddedByConformance
  <1>2. ASSUME NEW r
        PROVE  r \in conformance /\ r.reason = "callback_added" /\ r.behaviour = b /\ r.implementer = m
                 <=> \E cb \in gap(b, m) : r = CallbackReason("callback_added", b, cb, m)
    BY AddedForms
  <1>3. \A cb : CallbackReason("callback_added", b, cb, m).callback = cb
    BY DEF CallbackReason
  <1> HIDE DEF conformance, gap
  <1>4. \A cb : cb \in gap(b, m) <=> \E r \in Answers(q, q.target, q.source, Null) :
                 r.reason = "callback_added" /\ r.behaviour = b /\ r.implementer = m /\ r.callback = cb
    BY <1>1, <1>2, <1>3
  <1> QED
    BY <1>4 DEF gap

\* Drift is reported exactly where the source differs from the pin, and no implementer that
\* lacks a callback the source newly requires is passed over, for any snapshots in which the
\* optional callbacks of a behaviour are among those it declares.
LEMMA DriftOfSnapshots ==
  ASSUME NEW q, IsAnalysed(q.patch), AreCompared(q)
  PROVE  ReportsDrift(q)
  <1> DEFINE required(pin, b) == DOMAIN pin.modules[b].callbacks \ pin.modules[b].optional
             added(b, m) == NewlyRequired(q.target.modules[b], q.source.modules[b]) \ q.target.modules[m].exports
  <1>1. ASSUME NEW b \in DOMAIN q.target.modules \cap DOMAIN q.source.modules,
               NEW m \in ImplementersOf(q.target, b)
        PROVE  LET has == q.target.modules[m].exports
               IN  /\ added(b, m) \cap has = {}
                   /\ required(q.target, b) \subseteq has =>
                        added(b, m) = required(q.source, b) \ (has \cup q.target.modules[b].optional)
    BY DEF NewlyRequired, AreCompared
  <1>2. CallbackGapsAreReported(q)
    BY <1>1, AddedCallbacks DEF CallbackGapsAreReported, AreCompared
  <1> QED
    BY <1>2, DriftComesOfADifference DEF ReportsDrift, AreCompared

\* Whatever pin and source are compared: a difference is reported exactly where there is one,
\* and no implementer that lacks a newly required callback is passed over (evaluate.rs).
THEOREM EveryDriftIsReported ==
  (asked.kind = "evaluation" => IsAnalysed(asked.patch) /\ AreCompared(asked)) => DriftIsReported
  BY DriftOfSnapshots DEF DriftIsReported
-----------------------------------------------------------------------------
(* What shapes have in common.                                               *)

(* The shapes that arguments and return types have. *)
ArgShape ==
  [kind : {"unknown", "variable", "float", "binary", "list", "fun", "integer", "string"}]
  \cup [kind : {"atom", "record"}, name : AtomNames]
  \cup [kind : {"tuple"}, size : TupleSizes]

ReturnShape ==
  [kind : {"unknown", "variable", "float", "binary", "list", "fun", "map"}]
  \cup [kind : {"atom", "record"}, name : AtomNames]
  \cup [kind : {"tuple"}, size : TupleSizes]
  \cup [kind : {"tagged"}, name : AtomNames, size : TupleSizes]
  \cup [kind : {"integer"}, value : IntegerValues]
  \cup {r \in [kind : {"range"}, low : Int, high : Int] : r.low <= r.high /\ r.low..r.high \subseteq IntegerValues}
  \cup [kind : {"builtin", "type"}, name : STRING]

AreShapes(q) ==
  \/ q.of = "args" /\ {q.a, q.b} \subseteq ArgShape
  \/ q.of = "returns" /\ {q.a, q.b, q.c} \subseteq ReturnShape

LEMMA OfTwo ==
  ASSUME NEW a, NEW b
  PROVE  /\ SatisfiesAny(<<a>>, {<<b>>}) <=> Satisfies(a, b)
         /\ Matches({a}, {b}) <=> Meets(a, b)
         /\ Matches({a}, {b}) <=> Matches({b}, {a})
  <1>1. SatisfiesAny(<<a>>, {<<b>>}) <=> Satisfies(a, b)
    BY DEF SatisfiesAny
  <1>2. \A x, y : Matches({x}, {y}) <=> Meets(x, y)
    BY DEF Matches, Unknown
  <1>3. Meets(a, b) <=> Meets(b, a)
    BY DEF Meets
  <1> QED
    BY <1>1, <1>2, <1>3

LEMMA OfThree ==
  ASSUME NEW a, NEW b, NEW c
  PROVE  Matches({a}, {b, c}) <=> (Matches({a}, {b}) \/ Matches({a}, {c}))
  BY DEF Matches, Unknown

\* A shape is of some term, and a shape that accepts anything has a term of every other.
LEMMA SomeTerm ==
  ASSUME NEW s \in ArgShape \cup ReturnShape
  PROVE  /\ \E t \in Denoted(s) : t \in Terms
         /\ s.kind \in {"unknown", "variable", "builtin", "type"} => Denoted(s) = Terms
  <1>1. s.kind \in {"unknown", "variable", "builtin", "type"} => Denoted(s) = Terms
    BY DEF Denoted
  <1> SUFFICES \E t \in Denoted(s) : t \in Terms
    BY <1>1
  <1>2. /\ \A n \in AtomNames : Atom(n) \in Terms
        /\ \A n \in IntegerValues : Number(n) \in Terms
        /\ \A t \in Tuples : t \in Terms
        /\ Other("nil") \in Terms
        /\ \A k \in {"float", "binary", "map", "fun"} : Other(k) \in Terms
    BY DEF Terms, Lists
  <1>3. CASE s.kind \in {"unknown", "variable", "builtin", "type"}
    BY <1>1, <1>2, <1>3
  <1>4. CASE s.kind = "atom"
    <2>1. Denoted(s) = {Atom(s.name)} /\ s.name \in AtomNames
      BY <1>4 DEF Denoted, ArgShape, ReturnShape
    <2> QED
      BY <2>1, <1>2
  <1>5. CASE s.kind = "integer"
    <2>1. \E n \in IntegerValues : Number(n) \in Denoted(s)
      BY <1>5, TermsExist DEF Denoted, ArgShape, ReturnShape
    <2> QED
      BY <2>1, <1>2
  <1>6. CASE s.kind = "range"
    <2>1. Denoted(s) = {Number(n) : n \in s.low..s.high} /\ s.low \in s.low..s.high /\ s.low \in IntegerValues
      BY <1>6 DEF Denoted, ArgShape, ReturnShape
    <2> QED
      BY <2>1, <1>2
  <1>7. CASE s.kind = "tuple"
    <2>1. Denoted(s) = {t \in Tuples : t.size = s.size} /\ s.size \in TupleSizes
      BY <1>7 DEF Denoted, ArgShape, ReturnShape
    <2>2. Tuple(Null, s.size) \in Denoted(s)
      BY <2>1 DEF Tuples, Tuple
    <2>3. Tuple(Null, s.size) \in Tuples
      BY <2>1 DEF Tuples
    <2> QED
      BY <2>2, <2>3, <1>2
  <1>8. CASE s.kind = "tagged"
    <2>1. Denoted(s) = {Tuple(s.name, s.size)} /\ s.size \in TupleSizes /\ s.name \in AtomNames
      BY <1>8 DEF Denoted, ArgShape, ReturnShape
    <2> QED
      BY <2>1, <1>2 DEF Tuples
  <1>9. CASE s.kind = "record"
    <2>1. Denoted(s) = {t \in Tuples : t.tag = s.name} /\ s.name \in AtomNames
      BY <1>9 DEF Denoted, ArgShape, ReturnShape
    <2>2. PICK n \in TupleSizes : TRUE
      BY TermsExist
    <2>3. Tuple(s.name, n) \in Denoted(s)
      BY <2>1 DEF Tuples, Tuple
    <2>4. Tuple(s.name, n) \in Tuples
      BY <2>1 DEF Tuples
    <2> QED
      BY <2>3, <2>4, <1>2
  <1>10. CASE s.kind \in {"list", "string"}
    <2>1. Other("nil") \in Denoted(s)
      BY <1>10 DEF Denoted, Lists
    <2> QED
      BY <2>1, <1>2
  <1>11. CASE s.kind \in {"float", "binary", "map", "fun"}
    <2>1. Denoted(s) = {Other(s.kind)}
      BY <1>11 DEF Denoted
    <2> QED
      BY <2>1, <1>11, <1>2
  <1> QED
    BY <1>3, <1>4, <1>5, <1>6, <1>7, <1>8, <1>9, <1>10, <1>11 DEF ArgShape, ReturnShape

\* A term of a shape says what it is of.
LEMMA TermsTell ==
  ASSUME NEW s \in ArgShape \cup ReturnShape, NEW t \in Denoted(s),
         s.kind \notin {"unknown", "variable", "builtin", "type"}
  PROVE  /\ s.kind = "atom" => t = Atom(s.name)
         /\ s.kind = "integer" => t.term = "integer" /\ ("value" \in DOMAIN s => t.value = s.value)
         /\ s.kind = "range" => t.term = "integer" /\ t.value \in s.low..s.high
         /\ s.kind = "tuple" => t.term = "tuple" /\ t.size = s.size
         /\ s.kind = "tagged" => t = Tuple(s.name, s.size)
         /\ s.kind = "record" => t.term = "tuple" /\ t.tag = s.name
         /\ s.kind = "list" => t \in Lists
         /\ s.kind = "string" => t \in {Other("nil"), Other("string")}
         /\ s.kind \in {"float", "binary", "map", "fun"} => t = Other(s.kind)
  BY DEF Denoted, Number, Tuples, Tuple

\* What is accepted has a term in common.
LEMMA AcceptedShares ==
  ASSUME NEW a \in ArgShape \cup ReturnShape, NEW b \in ArgShape \cup ReturnShape, a = b \/ MeetsOneWay(a, b)
  PROVE  \E t \in Denoted(a) : t \in Denoted(b)
  <1>1. CASE a = b
    BY <1>1, SomeTerm
  <1>2. CASE a.kind \in Accepting \/ (a.kind = "builtin" /\ a.name \in Universal)
    BY <1>2, SomeTerm DEF Accepting
  <1>3. CASE b.kind = "builtin"
    BY <1>3, SomeTerm
  <1>4. CASE a.kind = "tagged" /\ b.kind = "tuple" /\ a.size = b.size
    <2>1. Tuple(a.name, a.size) \in Denoted(a)
      BY <1>4 DEF Denoted
    <2>2. Tuple(a.name, a.size) \in Denoted(b)
      BY <1>4 DEF Denoted, Tuples, Tuple, ArgShape, ReturnShape
    <2> QED
      BY <2>1, <2>2
  <1>5. CASE a.kind = "integer" /\ b.kind = "range" /\ a.value \in b.low..b.high
    <2>1. CASE "value" \in DOMAIN a
      <3>1. Number(a.value) \in Denoted(a)
        BY <1>5, <2>1 DEF Denoted
      <3>2. Number(a.value) \in Denoted(b)
        BY <1>5 DEF Denoted
      <3> QED
        BY <3>1, <3>2
    <2>2. CASE "value" \notin DOMAIN a
      <3>1. Denoted(a) = {Number(n) : n \in IntegerValues}
        BY <1>5, <2>2 DEF Denoted
      <3>2. Denoted(b) = {Number(n) : n \in b.low..b.high} /\ b.low \in b.low..b.high /\ b.low \in IntegerValues
        BY <1>5 DEF Denoted, ArgShape, ReturnShape
      <3> QED
        BY <3>1, <3>2
    <2> QED
      BY <2>1, <2>2
  <1> QED
    BY <1>1, <1>2, <1>3, <1>4, <1>5 DEF MeetsOneWay

\* What has a term in common is accepted, or guessed to be apart.
LEMMA SharingArguments ==
  ASSUME NEW a \in ArgShape, NEW b \in ArgShape, NEW t \in Denoted(a) \cap Denoted(b), ~Guessed(a, b)
  PROVE  Satisfies(a, b)
  <1> SUFFICES ASSUME a.kind \notin Accepting, b.kind \notin Accepting
               PROVE  a = b
    BY DEF Satisfies
  <1>1. a.kind = b.kind
    BY TermsTell DEF Accepting, ArgShape, Guessed, Atom, Tuple, Other, Lists
  <1>2. CASE a.kind \in {"float", "binary", "list", "fun", "integer", "string"}
    BY <1>1, <1>2 DEF ArgShape
  <1>3. CASE a.kind \in {"atom", "record", "tuple"}
    BY <1>1, <1>3, TermsTell DEF ArgShape, Atom
  <1> QED
    BY <1>2, <1>3 DEF ArgShape, Accepting

LEMMA SharingReturns ==
  ASSUME NEW a \in ReturnShape, NEW b \in ReturnShape, NEW t \in Denoted(a) \cap Denoted(b), ~Guessed(a, b)
  PROVE  Meets(a, b)
  <1> SUFFICES ASSUME a.kind \notin Accepting \cup {"builtin", "type"}, b.kind \notin Accepting \cup {"builtin", "type"}
               PROVE  Meets(a, b)
    BY DEF Meets, MeetsOneWay, Guessed, OfOneName
  <1>1. CASE a.kind = b.kind
    <2>1. a = b
      BY <1>1, TermsTell DEF ReturnShape, Atom, Tuple, Accepting, Guessed
    <2> QED
      BY <2>1 DEF Meets
  <1>2. CASE a.kind # b.kind
    <2>1. {a.kind, b.kind} \in {{"tagged", "tuple"}, {"integer", "range"}}
      BY <1>2, TermsTell DEF ReturnShape, Accepting, Guessed, Atom, Tuple, Other, Lists
    <2>2. ASSUME NEW x \in {a, b}, NEW y \in {a, b}, x.kind = "tagged", y.kind = "tuple"
          PROVE  MeetsOneWay(x, y)
      BY <2>2, TermsTell DEF MeetsOneWay, Tuple
    <2>3. ASSUME NEW x \in {a, b}, NEW y \in {a, b}, x.kind = "integer", y.kind = "range"
          PROVE  MeetsOneWay(x, y)
      BY <2>3, TermsTell DEF MeetsOneWay, ReturnShape
    <2> QED
      BY <2>1, <2>2, <2>3 DEF Meets
  <1> QED
    BY <1>1, <1>2
\* Whatever shapes are compared: what is accepted has a term in common, what has one is accepted or
\* guessed to be apart, and of return types neither order nor an alternative matters
\* (arg_shape.rs, spec_ast.rs).
THEOREM EveryMismatchIsProof ==
  (asked.kind = "shapes" => AreShapes(asked)) => MismatchesAreProof
  <1> SUFFICES ASSUME asked.kind = "shapes", AreShapes(asked)
               PROVE  MismatchesAreProof
    BY DEF MismatchesAreProof
  <1> DEFINE a == asked.a  b == asked.b  c == asked.c
             accepted == Accepted(asked, a, b)
  <1>1. /\ asked.of = "args" => (accepted <=> Satisfies(a, b))
        /\ asked.of # "args" => (accepted <=> Meets(a, b))
    BY OfTwo DEF Accepted
  <1>2. a \in ArgShape \cup ReturnShape /\ b \in ArgShape \cup ReturnShape
    BY DEF AreShapes
  <1>3. Satisfies(a, b) => \E t \in Denoted(a) : t \in Denoted(b)
    <2>1. Satisfies(a, b) => a = b \/ MeetsOneWay(a, b) \/ MeetsOneWay(b, a)
      BY DEF Satisfies, MeetsOneWay
    <2> QED
      BY <1>2, <2>1, AcceptedShares
  <1>4. Meets(a, b) => \E t \in Denoted(a) : t \in Denoted(b)
    BY <1>2, AcceptedShares DEF Meets
  <1>5. accepted => Denoted(a) \cap Denoted(b) # {}
    BY <1>1, <1>3, <1>4
  <1>6. Denoted(a) \cap Denoted(b) # {} => accepted \/ Guessed(a, b)
    BY <1>1, SharingArguments, SharingReturns DEF AreShapes
  <1>7. /\ Matches({a}, {b}) <=> Matches({b}, {a})
        /\ Matches({a}, {b, c}) <=> (Matches({a}, {b}) \/ Matches({a}, {c}))
    BY OfTwo, OfThree
  <1> HIDE DEF a, b, c, accepted
  <1> QED
    BY <1>5, <1>6, <1>7 DEF MismatchesAreProof, a, b, c, accepted

-----------------------------------------------------------------------------
(* Answers of a child of the driver.                                         *)

\* The answers there are: an exit code of the program's contract, and text, a
\* line of JSON or an envelope, of whatever schema, verb and payload.
AreTexts == {[is |-> "text"]}
Lines(payloads, commands) ==
  [is : {"json"}, schema : Nat \cup {Null}]
    \cup [is : {"envelope"}, schema : Nat, command : commands, data : payloads]

IsAnswerOf(q, payloads, commands) ==
  /\ Null \notin Nat \cup commands \cup D!KnownVerbs
  /\ \A d \in payloads : d.of = "version" => d.verbs # Null
  /\ q.verb \in D!KnownVerbs
  /\ q.answer.exit \in 0..4 \cup {n \in Nat : n >= 64}
  /\ q.answer.out \in AreTexts \cup Lines(payloads, commands)

\* For any exit code, schema, verb and payload: what is returned is a payload
\* of a known schema and nothing that fits is refused; and the lenient version
\* probe agrees with the strict one on every schema of 32 bits.
THEOREM AnswersAreUnderstood ==
  ASSUME WordSize \in Nat, WordSize > 17, NEW q, NEW payloads, NEW commands,
         IsAnswerOf(q, payloads, commands)
  PROVE  D!AnswersAreDecoded(q)
  <1> DEFINE out == q.answer.out
             exit == q.answer.exit
             ok == exit \in D!SuccessShaped
  <1>1. /\ out.is \in {"text", "json", "envelope"}
        /\ out.is = "json" => out.schema \in Nat \cup {Null}
        /\ out.is = "envelope" => out.schema \in Nat /\ out.command \in commands /\ out.data \in payloads
        /\ exit \in Nat /\ (ok <=> exit < 64)
        /\ Null \notin Nat
    BY DEF IsAnswerOf, AreTexts, Lines, D!SuccessShaped
  <1> DEFINE read == D!Probed(out)
             fits == out.is = "text" \/ out.schema = Null \/ out.schema < WordSize
             strange == read # Null /\ read \notin D!SupportedSchema
             told(v) == out.is = "envelope" /\ read # Null /\ out.data.of = D!Expects(v)
  <1>2. ASSUME NEW v
        PROVE  LET got == D!Decode(v, q.answer) IN
               /\ got.is = "tool error" <=> ~ok
               /\ got.is = "schema mismatch" <=> ok /\ strange
               /\ got.is = "unparseable" <=> ok /\ ~strange /\ ~told(v)
               /\ got.is = "envelope" <=> ok /\ ~strange /\ told(v)
               /\ got.is = "envelope" =>
                    /\ got.data = out.data
                    /\ got.command = IF out.command \in D!KnownVerbs THEN out.command
                                     ELSE IF v \in D!KnownVerbs THEN v ELSE Null
    BY DEF D!Decode
  <1>3. /\ read # Null => read = out.schema /\ out.schema \in Nat /\ out.schema < WordSize /\ out.is # "text"
        /\ out.is # "text" /\ out.schema # Null /\ out.schema < WordSize => read = out.schema /\ read # Null
        /\ D!SupportedSchema = 1..17
    BY <1>1 DEF D!Probed, D!SupportedSchema
  <1> DEFINE got == D!Decode(q.verb, q.answer)
             report == D!Compatibility(q.answer, {"suites plan"})
             version == D!Version(q.answer)
  <1>4. version # Null =>
          ok /\ ~strange /\ told("version") /\ version = out.data.verbs
    BY <1>2 DEF D!Version
  <1>5. ok /\ ~strange /\ told("version") => version = out.data.verbs /\ version # Null
    <2>1. out.is = "envelope" /\ out.data.of = "version" => out.data.verbs # Null
      BY <1>1 DEF IsAnswerOf
    <2> QED
      BY <1>2, <2>1 DEF D!Version, D!Expects
  <1>6. fits => (report.compatible <=>
                   /\ read # Null /\ read \in D!SupportedSchema
                   /\ out.is = "envelope" /\ out.data.of = "version" /\ "suites plan" \in out.data.verbs)
    <2> DEFINE schema == IF ~(out.is # "text") \/ out.schema = Null THEN Null ELSE out.schema % WordSize
               verbs == IF out.is = "envelope" /\ out.data.of = "version" THEN out.data.verbs ELSE {}
    <2>1. report.compatible <=> schema # Null /\ schema \in D!SupportedSchema /\ {"suites plan"} \ verbs = {}
      BY DEF D!Compatibility
    <2>2. fits => schema = read
      <3>1. ASSUME NEW n \in Nat, n < WordSize PROVE n % WordSize = n
        BY <3>1
      <3> QED
        BY <1>1, <1>3, <3>1 DEF D!Probed
    <2>3. {"suites plan"} \ verbs = {} <=> "suites plan" \in verbs
      OBVIOUS
    <2>4. "suites plan" \in verbs <=>
            out.is = "envelope" /\ out.data.of = "version" /\ "suites plan" \in out.data.verbs
      OBVIOUS
    <2> DEFINE listed == "suites plan" \in verbs
               lists == out.is = "envelope" /\ out.data.of = "version" /\ "suites plan" \in out.data.verbs
               lacks == {"suites plan"} \ verbs = {}
               compatible == report.compatible
    <2>5. /\ compatible <=> schema # Null /\ schema \in D!SupportedSchema /\ lacks
          /\ fits => schema = read
          /\ (lacks <=> listed) /\ (listed <=> lists)
      BY <2>1, <2>2, <2>3, <2>4, Zenon
    <2> HIDE DEF schema, read, compatible, fits, listed, lists, lacks
    <2>6. fits => (compatible <=> read # Null /\ read \in D!SupportedSchema /\ lists)
      BY <2>5
    <2> QED
      BY <2>6, Zenon DEF compatible, lists
  <1>7. got.is = "tool error" <=> exit >= 64
    <2>1. got.is = "tool error" <=> ~ok
      BY <1>2, Zenon
    <2>2. ~ok <=> exit >= 64
      BY <1>1
    <2> QED
      BY <2>1, <2>2, Zenon
  <1>8. got.is = "envelope" =>
          /\ got.data = out.data /\ out.schema \in D!SupportedSchema
          /\ got.command # Null /\ (out.command \in D!KnownVerbs => got.command = out.command)
    BY <1>2, <1>3 DEF IsAnswerOf
  <1>9. ok /\ out.is # "text" /\ fits =>
          (out.schema # Null /\ out.schema \notin D!SupportedSchema <=> got.is = "schema mismatch")
    BY <1>1, <1>2, <1>3
  <1>10. version # Null /\ "suites plan" \in version => report.compatible
    BY <1>1, <1>3, <1>4, <1>6 DEF D!Expects
  <1>11. fits /\ ok /\ report.compatible => version # Null /\ "suites plan" \in version
    BY <1>3, <1>5, <1>6 DEF D!Expects
  <1>12. got.is = "unparseable" => ~(out.is = "envelope" /\ fits /\ out.schema \in D!SupportedSchema
                                     /\ out.data.of = D!Expects(q.verb))
    BY <1>1, <1>2, <1>3
  <1> HIDE DEF got, report, version
  <1> QED
    BY <1>7, <1>8, <1>9, <1>10, <1>11, <1>12 DEF D!AnswersAreDecoded, got, report, version

-----------------------------------------------------------------------------
(* The commits of a history, and what a merge brings in.                     *)

LEMMA SameCardinality == ASSUME NEW S PROVE G!Cardinality(S) = Cardinality(S)
  BY Zenon DEF G!Cardinality, Cardinality, IsFiniteSet, G!IsFiniteSet

\* The ancestors of a commit are it and what any of them builds on, and no more.
LEMMA AncestorsAreReached ==
  ASSUME NEW repo, IsFiniteSet(DOMAIN repo), NEW c \in DOMAIN repo
  PROVE  /\ c \in G!Ancestors(repo, c) /\ G!Ancestors(repo, c) \subseteq DOMAIN repo
         /\ \A a \in G!Ancestors(repo, c) : G!Known(repo, a) \subseteq G!Ancestors(repo, c)
         /\ \A S : c \in S /\ (\A a \in S \cap DOMAIN repo : G!Known(repo, a) \subseteq S)
                     => G!Ancestors(repo, c) \subseteq S
  <1> DEFINE N == Cardinality(DOMAIN repo)
             Walks(g) == g = [n \in 0..N |-> IF n = 0 THEN {c} ELSE g[n - 1] \cup UNION {G!Known(repo, a) : a \in g[n - 1]}]
             f == CHOOSE g : Walks(g)
             Sets == SUBSET DOMAIN repo
             first == {c}
             step == [X \in Sets |-> X \cup UNION {G!Known(repo, a) : a \in X}]
             steps == [n \in 1..N |-> step]
  <1>1. N \in Nat
    BY FS_CardinalityType
  <1>2. \A a : G!Known(repo, a) \subseteq DOMAIN repo
    BY DEF G!Known
  <1>3. G!Ancestors(repo, c) = f[N]
    BY Zenon, SameCardinality DEF G!Ancestors
  <1> HIDE DEF N
  <1>4. \E g : Walks(g)
    <2>1. step \in [Sets -> Sets]
      BY <1>2
    <2>2. first \in Sets
      OBVIOUS
    <2> HIDE DEF step, Sets, first
    <2>s. steps \in [1..N -> [Sets -> Sets]] /\ \A n \in 1..N : steps[n] = step
      BY <2>1
    <2> HIDE DEF steps
    <2>3. PICK g : IsWalk(g, N, Sets, first, steps)
      BY <1>1, <2>s, <2>2, StepsExist
    <2>4. ASSUME NEW n \in 1..N PROVE g[n] = g[n - 1] \cup UNION {G!Known(repo, a) : a \in g[n - 1]}
      <3>1. n - 1 \in 0..N
        BY <1>1
      <3>2. g[n - 1] \in Sets
        BY <2>3, <3>1 DEF IsWalk
      <3> QED
        BY <2>3, <2>s, <3>2 DEF step, IsWalk
    <2>5. Walks(g)
      BY <1>1, <2>3, <2>4 DEF first, IsWalk
    <2> QED
      BY <2>5
  <1>5. Walks(f)
    <2> HIDE DEF Walks
    <2> QED
      BY <1>4
  <1> HIDE DEF f
  <1>6. f[0] = {c} /\ \A n \in 1..N : f[n] = f[n - 1] \cup UNION {G!Known(repo, a) : a \in f[n - 1]}
    BY <1>1, <1>5
  <1>7. \A n \in 0..N : f[n] \subseteq DOMAIN repo
    <2> DEFINE P == {n \in 0..N : f[n] \subseteq DOMAIN repo}
    <2>1. 0 \in P
      BY <1>1, <1>6
    <2>2. ASSUME NEW n \in 1..N, n - 1 \in P PROVE n \in P
      BY <1>2, <1>6, <2>2
    <2>3. 0..N \subseteq P
      <3> HIDE DEF P
      <3> QED
        BY <1>1, <2>1, <2>2, UpTo
    <2> QED
      BY <2>3
  <1> DEFINE E == [a \in DOMAIN repo |-> G!Known(repo, a)]
  <1>8. \A n \in 1..N : f[n] = f[n - 1] \cup UNION {E[a] : a \in f[n - 1] \cap DOMAIN repo}
    <2> TAKE n \in 1..N
    <2>1. f[n - 1] \subseteq DOMAIN repo
      BY <1>1, <1>7
    <2> QED
      BY <1>6, <2>1
  <1>9. \A a \in DOMAIN repo : E[a] = G!Known(repo, a)
    OBVIOUS
  <1> HIDE DEF E
  <1>10. /\ {c} \subseteq f[N]
         /\ \A a \in f[N] \cap DOMAIN repo : E[a] \subseteq f[N]
         /\ \A S : {c} \subseteq S /\ (\A a \in S \cap DOMAIN repo : E[a] \subseteq S) => f[N] \subseteq S
    <2>1. Cardinality(DOMAIN repo) <= N
      BY <1>1 DEF N
    <2>2. IsClosure(f[N], {c}, DOMAIN repo, E)
      BY <1>1, <1>6, <1>8, <2>1, Saturates
    <2> QED
      BY <2>2 DEF IsClosure
  <1> QED
    BY <1>1, <1>3, <1>7, <1>9, <1>10

-----------------------------------------------------------------------------
\* Of finitely many commits with clocks, there is a newest.
LEMMA NewestExists ==
  ASSUME NEW S, IsFiniteSet(S), S # {}, NEW clock \in [S -> Int]
  PROVE  \E c \in S : \A d \in S : clock[c] >= clock[d]
  <1> DEFINE From(c) == {d \in S : clock[d] >= clock[c]}
             U == {From(c) : c \in S}
  <1>1. U # {} /\ U \subseteq FiniteSubsetsOf(S)
    <2>1. ASSUME NEW c \in S PROVE From(c) \in FiniteSubsetsOf(S)
      <3>1. From(c) \subseteq S
        OBVIOUS
      <3> QED
        BY <3>1, FS_Subset DEF FiniteSubsetsOf
    <2> HIDE DEF From
    <2>2. U \subseteq FiniteSubsetsOf(S)
      BY <2>1
    <2>3. PICK c \in S : TRUE
      OBVIOUS
    <2>4. From(c) \in U
      OBVIOUS
    <2> QED
      BY <2>2, <2>4
  <1>2. IsWellFoundedOn(StrictSubsetOrdering(S), FiniteSubsetsOf(S))
    BY FS_StrictSubsetOrderingWellFounded
  <1> HIDE DEF U
  <1>3. PICK u \in U : \A v \in U : <<v, u>> \notin StrictSubsetOrdering(S)
    BY <1>1, <1>2, WFMin
  <1>4. PICK c \in S : u = From(c)
    BY DEF U
  <1>5. ASSUME NEW d \in S, ~(clock[c] >= clock[d]) PROVE FALSE
    <2>1. From(d) \in U
      BY DEF U
    <2>2. From(d) \subseteq From(c) /\ c \in From(c) /\ c \notin From(d)
      BY <1>5
    <2>3. From(d) \subseteq S /\ From(c) \subseteq S
      OBVIOUS
    <2>4. <<From(d), From(c)>> \in StrictSubsetOrdering(S)
      BY <2>2, <2>3 DEF StrictSubsetOrdering
    <2> QED
      BY <1>3, <1>4, <2>1, <2>4
  <1> QED
    BY <1>5

(* The repositories that are walked: finitely many commits, each with a clock. *)
IsRepository(repo) == IsFiniteSet(DOMAIN repo) /\ \A c \in DOMAIN repo : repo[c].time \in Int

Newest(repo, S) == CHOOSE c \in S : \A d \in S : repo[c].time >= repo[d].time

LEMMA NewestIsNewest ==
  ASSUME NEW repo, IsRepository(repo), NEW S \in SUBSET DOMAIN repo, S # {}
  PROVE  Newest(repo, S) \in S /\ \A d \in S : repo[Newest(repo, S)].time >= repo[d].time
  <1> DEFINE clock == [c \in S |-> repo[c].time]
  <1>1. clock \in [S -> Int] /\ \A c \in S : clock[c] = repo[c].time
    BY DEF IsRepository
  <1>2. IsFiniteSet(S)
    BY FS_Subset DEF IsRepository
  <1> HIDE DEF clock
  <1>3. \E c \in S : \A d \in S : clock[c] >= clock[d]
    BY <1>1, <1>2, NewestExists
  <1>4. \E c \in S : \A d \in S : repo[c].time >= repo[d].time
    BY <1>1, <1>3
  <1> QED
    BY <1>4 DEF Newest

(* One more commit of a walk. *)
More(repo, hidden, w) == G!Known(repo, Newest(repo, w.queue)) \ (hidden \cup w.seen)
Listing(repo, hidden, w) ==
  IF w.queue = {} THEN w
  ELSE [queue |-> (w.queue \ {Newest(repo, w.queue)}) \cup More(repo, hidden, w),
        seen |-> w.seen \cup More(repo, hidden, w), out |-> Append(w.out, Newest(repo, w.queue))]

Walked(repo) == [queue : SUBSET DOMAIN repo, seen : SUBSET DOMAIN repo, out : Seq(DOMAIN repo)]

ElementsOf(s) == {s[i] : i \in DOMAIN s}

(* What was seen was listed or is waiting, no commit twice; and what a commit *)
(* that was listed builds on was seen, or is hidden.                           *)
HasListed(repo, tip, hidden, w) ==
  /\ w \in Walked(repo)
  /\ ElementsOf(w.out) \cup w.queue = w.seen
  /\ ElementsOf(w.out) \cap w.queue = {}
  /\ Cardinality(ElementsOf(w.out)) = Len(w.out)
  /\ \A i, j \in DOMAIN w.out : w.out[i] = w.out[j] => i = j
  /\ w.seen \cap hidden = {}
  /\ {tip} \ hidden \subseteq w.seen /\ w.seen \subseteq G!Ancestors(repo, tip)
  /\ \A c \in ElementsOf(w.out) : G!Known(repo, c) \subseteq w.seen \cup hidden

(* The newest first, and newer than all that waits. *)
GoesBack(repo, w) ==
  /\ \A i, j \in DOMAIN w.out : i < j => repo[w.out[i]].time >= repo[w.out[j]].time
  /\ \A c \in ElementsOf(w.out) : \A d \in w.queue : repo[c].time >= repo[d].time

LEMMA ListingLists ==
  ASSUME NEW repo, IsRepository(repo), NEW tip \in DOMAIN repo, NEW hidden, NEW w,
         HasListed(repo, tip, hidden, w), w.queue # {}
  PROVE  /\ HasListed(repo, tip, hidden, Listing(repo, hidden, w))
         /\ Len(Listing(repo, hidden, w).out) = Len(w.out) + 1
         /\ G!ClocksAgree(repo) /\ GoesBack(repo, w) => GoesBack(repo, Listing(repo, hidden, w))
  <1> DEFINE c == Newest(repo, w.queue)
             more == More(repo, hidden, w)
             v == Listing(repo, hidden, w)
  <1>1. w \in Walked(repo) /\ w.out \in Seq(DOMAIN repo) /\ w.queue \subseteq DOMAIN repo /\ w.seen \subseteq DOMAIN repo
    BY DEF HasListed, Walked
  <1>2. c \in w.queue /\ \A d \in w.queue : repo[c].time >= repo[d].time
    BY <1>1, NewestIsNewest
  <1>3. more = G!Known(repo, c) \ (hidden \cup w.seen) /\ G!Known(repo, c) \subseteq DOMAIN repo
    BY DEF More, G!Known
  <1>4. /\ v.queue = (w.queue \ {c}) \cup more
        /\ v.seen = w.seen \cup more
        /\ v.out = Append(w.out, c)
        /\ v = [queue |-> v.queue, seen |-> v.seen, out |-> v.out]
    BY DEF Listing
  <1> HIDE DEF c, more, v
  <1>5. /\ v.out \in Seq(DOMAIN repo) /\ Len(v.out) = Len(w.out) + 1 /\ DOMAIN v.out = 1..(Len(w.out) + 1)
        /\ DOMAIN w.out = 1..Len(w.out) /\ Len(w.out) \in Nat
        /\ \A i \in DOMAIN w.out : v.out[i] = w.out[i]
        /\ v.out[Len(w.out) + 1] = c
    BY <1>1, <1>2, <1>4
  <1>6. ElementsOf(v.out) = ElementsOf(w.out) \cup {c}
    BY <1>5 DEF ElementsOf
  <1>7. v \in Walked(repo)
    <2>1. v.queue \in SUBSET DOMAIN repo /\ v.seen \in SUBSET DOMAIN repo
      BY <1>1, <1>3, <1>4
    <2> QED
      BY <1>4, <1>5, <2>1 DEF Walked
  <1>8. c \notin ElementsOf(w.out) /\ c \in w.seen
    BY <1>2 DEF HasListed
  <1>9. Cardinality(ElementsOf(v.out)) = Len(v.out)
    <2>1. ElementsOf(w.out) \subseteq DOMAIN repo
      BY <1>1 DEF ElementsOf
    <2>2. IsFiniteSet(ElementsOf(w.out))
      BY <2>1, FS_Subset DEF IsRepository
    <2>3. Cardinality(ElementsOf(w.out) \cup {c}) = Cardinality(ElementsOf(w.out)) + 1
      BY <1>8, <2>2, FS_AddElement
    <2> QED
      BY <1>5, <1>6, <2>3 DEF HasListed
  <1>10. \A i, j \in DOMAIN v.out : v.out[i] = v.out[j] => i = j
    <2>1. \A i \in DOMAIN w.out : v.out[i] \in ElementsOf(w.out)
      BY <1>5 DEF ElementsOf
    <2>2. \A i \in DOMAIN v.out : i \in DOMAIN w.out \/ i = Len(w.out) + 1
      BY <1>5
    <2>3. \A i, j \in DOMAIN w.out : w.out[i] = w.out[j] => i = j
      BY DEF HasListed
    <2> QED
      BY <1>5, <1>8, <2>1, <2>2, <2>3
  <1>11. ElementsOf(v.out) \cup v.queue = v.seen /\ ElementsOf(v.out) \cap v.queue = {} /\ v.seen \cap hidden = {}
    BY <1>2, <1>3, <1>4, <1>6, <1>8 DEF HasListed
  <1>12. {tip} \ hidden \subseteq v.seen /\ v.seen \subseteq G!Ancestors(repo, tip)
    <2>1. c \in G!Ancestors(repo, tip)
      BY <1>8 DEF HasListed
    <2>2. G!Known(repo, c) \subseteq G!Ancestors(repo, tip)
      BY <2>1, AncestorsAreReached DEF IsRepository
    <2> QED
      BY <1>3, <1>4, <2>2 DEF HasListed
  <1>13. \A d \in ElementsOf(v.out) : G!Known(repo, d) \subseteq v.seen \cup hidden
    <2>1. \A d \in ElementsOf(w.out) : G!Known(repo, d) \subseteq w.seen \cup hidden
      BY DEF HasListed
    <2> QED
      BY <1>3, <1>4, <1>6, <2>1
  <1>14. HasListed(repo, tip, hidden, v)
    BY <1>7, <1>9, <1>10, <1>11, <1>12, <1>13 DEF HasListed
  <1>15. ASSUME G!ClocksAgree(repo), GoesBack(repo, w) PROVE GoesBack(repo, v)
    <2>1. \A d \in DOMAIN repo : repo[d].time \in Int
      BY DEF IsRepository
    <2>2. ElementsOf(w.out) \subseteq DOMAIN repo /\ c \in DOMAIN repo
      BY <1>1, <1>2 DEF ElementsOf
    <2>3. \A p \in more : p \in DOMAIN repo /\ repo[c].time >= repo[p].time
      BY <1>3, <1>15, <2>1, <2>2 DEF G!ClocksAgree
    <2>4. \A x \in ElementsOf(w.out) : repo[x].time >= repo[c].time
      BY <1>2, <1>15 DEF GoesBack
    <2>5. \A x \in ElementsOf(v.out) : \A d \in v.queue : repo[x].time >= repo[d].time
      <3> SUFFICES ASSUME NEW x \in ElementsOf(v.out), NEW d \in v.queue PROVE repo[x].time >= repo[d].time
        OBVIOUS
      <3>1. repo[c].time >= repo[d].time /\ d \in DOMAIN repo
        BY <1>1, <1>2, <1>4, <2>3
      <3>2. x = c \/ (x \in ElementsOf(w.out) /\ repo[x].time >= repo[c].time)
        BY <1>6, <2>4
      <3>3. repo[x].time \in Int /\ repo[c].time \in Int /\ repo[d].time \in Int
        BY <2>1, <2>2, <3>1, <3>2
      <3> QED
        BY <3>1, <3>2, <3>3
    <2>6. \A i, j \in DOMAIN v.out : i < j => repo[v.out[i]].time >= repo[v.out[j]].time
      <3> SUFFICES ASSUME NEW i \in DOMAIN v.out, NEW j \in DOMAIN v.out, i < j
                   PROVE  repo[v.out[i]].time >= repo[v.out[j]].time
        OBVIOUS
      <3>1. i \in DOMAIN w.out /\ (j \in DOMAIN w.out \/ j = Len(w.out) + 1)
        BY <1>5
      <3>2. CASE j \in DOMAIN w.out
        BY <1>5, <1>15, <3>1, <3>2 DEF GoesBack
      <3>3. CASE j = Len(w.out) + 1
        BY <1>5, <2>4, <3>1, <3>3 DEF ElementsOf
      <3> QED
        BY <3>1, <3>2, <3>3
    <2> QED
      BY <2>5, <2>6 DEF GoesBack
  <1> QED
    BY <1>5, <1>14, <1>15 DEF v

\* A walk lists what is reached from its tip and not hidden, each commit once, and, where the
\* clocks agree with the branches, none before one that is newer.
LEMMA WalksListWhatIsNew ==
  ASSUME NEW repo, IsRepository(repo), NEW tip \in DOMAIN repo, NEW hidden,
         \A a \in hidden \cap DOMAIN repo : G!Known(repo, a) \subseteq hidden
  PROVE  LET walk == G!NewestFirst(repo, tip, hidden) IN
         /\ walk \in Seq(DOMAIN repo)
         /\ ElementsOf(walk) = G!Ancestors(repo, tip) \ hidden
         /\ \A i, j \in DOMAIN walk : walk[i] = walk[j] => i = j
         /\ G!ClocksAgree(repo) => \A i, j \in DOMAIN walk : i < j => repo[walk[i]].time >= repo[walk[j]].time
  <1> DEFINE N == Cardinality(DOMAIN repo)
             start == [queue |-> {tip} \ hidden, seen |-> {tip} \ hidden, out |-> <<>>]
             Walks(g) == g = [n \in 0..N |-> IF n = 0 THEN start ELSE Listing(repo, hidden, g[n - 1])]
             f == CHOOSE g : Walks(g)
  <1>1. N \in Nat /\ IsFiniteSet(DOMAIN repo)
    BY FS_CardinalityType DEF IsRepository
  <1>2. G!NewestFirst(repo, tip, hidden) = f[N].out
    BY Zenon, SameCardinality DEF G!NewestFirst, Listing, Newest, More
  <1>3. HasListed(repo, tip, hidden, start) /\ GoesBack(repo, start)
    <2>1. start \in Walked(repo) /\ start.out = <<>> /\ start.queue = {tip} \ hidden /\ start.seen = {tip} \ hidden
      BY DEF Walked
    <2>2. ElementsOf(<<>>) = {} /\ Cardinality({}) = 0 /\ Len(<<>>) = 0 /\ DOMAIN <<>> = {}
      BY FS_EmptySet DEF ElementsOf
    <2>3. tip \in G!Ancestors(repo, tip)
      BY <1>1, AncestorsAreReached
    <2> HIDE DEF start
    <2> QED
      BY <2>1, <2>2, <2>3 DEF HasListed, GoesBack
  <1> DEFINE Good == {w \in Walked(repo) : HasListed(repo, tip, hidden, w)}
             step == [w \in Good |-> Listing(repo, hidden, w)]
             steps == [n \in 1..N |-> step]
  <1>4. \A w \in Good : Listing(repo, hidden, w) \in Good
    <2> TAKE w \in Good
    <2>1. CASE w.queue = {}
      BY <2>1 DEF Listing
    <2>2. CASE w.queue # {}
      <3>1. HasListed(repo, tip, hidden, Listing(repo, hidden, w))
        BY <2>2, ListingLists
      <3> QED
        BY <3>1 DEF HasListed
    <2> QED
      BY <2>1, <2>2
  <1> HIDE DEF N
  <1>5. \E g : Walks(g)
    <2>1. step \in [Good -> Good]
      BY <1>4
    <2>2. start \in Good
      BY <1>3 DEF HasListed
    <2>3. \A w \in Good : step[w] = Listing(repo, hidden, w)
      OBVIOUS
    <2> HIDE DEF step, Good, start
    <2>s. steps \in [1..N -> [Good -> Good]] /\ \A n \in 1..N : steps[n] = step
      BY <2>1
    <2> HIDE DEF steps
    <2>4. PICK g : IsWalk(g, N, Good, start, steps)
      BY <1>1, <2>s, <2>2, StepsExist
    <2>5. ASSUME NEW n \in 1..N PROVE g[n] = Listing(repo, hidden, g[n - 1])
      <3>1. n - 1 \in 0..N
        BY <1>1
      <3>2. g[n - 1] \in Good
        BY <2>4, <3>1 DEF IsWalk
      <3> QED
        BY <2>3, <2>4, <2>s, <3>2 DEF IsWalk
    <2>6. Walks(g)
      BY <1>1, <2>4, <2>5 DEF IsWalk
    <2> QED
      BY <2>6
  <1>6. Walks(f)
    <2> HIDE DEF Walks
    <2> QED
      BY <1>5
  <1> HIDE DEF f, start
  <1>7. f[0] = start /\ \A n \in 1..N : f[n] = Listing(repo, hidden, f[n - 1])
    BY <1>1, <1>6
  <1> DEFINE P == {n \in 0..N : /\ HasListed(repo, tip, hidden, f[n])
                                /\ f[n].queue = {} \/ Len(f[n].out) = n
                                /\ G!ClocksAgree(repo) => GoesBack(repo, f[n])}
  <1>8. 0 \in P
    BY <1>1, <1>3, <1>7 DEF start
  <1>9. ASSUME NEW n \in 1..N, n - 1 \in P PROVE n \in P
    <2>1. CASE f[n - 1].queue = {}
      <3>1. f[n] = f[n - 1]
        BY <1>7, <2>1 DEF Listing
      <3> QED
        BY <1>9, <2>1, <3>1
    <2>2. CASE f[n - 1].queue # {}
      <3>1. HasListed(repo, tip, hidden, f[n - 1]) /\ Len(f[n - 1].out) = n - 1 /\ (G!ClocksAgree(repo) => GoesBack(repo, f[n - 1]))
        BY <1>9, <2>2
      <3>2. f[n] = Listing(repo, hidden, f[n - 1])
        BY <1>7
      <3>3. /\ HasListed(repo, tip, hidden, f[n]) /\ Len(f[n].out) = Len(f[n - 1].out) + 1
            /\ G!ClocksAgree(repo) => GoesBack(repo, f[n])
        BY <2>2, <3>1, <3>2, ListingLists
      <3> QED
        BY <1>1, <3>1, <3>3
    <2> QED
      BY <2>1, <2>2
  <1>10. N \in P
    <2> HIDE DEF P
    <2> QED
      BY <1>1, <1>8, <1>9, UpTo
  <1> DEFINE w == f[N]
  <1>11. /\ HasListed(repo, tip, hidden, w) /\ (w.queue = {} \/ Len(w.out) = N)
         /\ G!ClocksAgree(repo) => GoesBack(repo, w)
    BY <1>10
  <1> HIDE DEF P, w
  <1>12. ElementsOf(w.out) \subseteq DOMAIN repo /\ w.queue \subseteq DOMAIN repo /\ w.out \in Seq(DOMAIN repo)
    BY <1>11 DEF HasListed, Walked, ElementsOf
  <1>13. w.queue = {}
    <2>1. CASE Len(w.out) = N
      <3>1. Cardinality(ElementsOf(w.out)) = Cardinality(DOMAIN repo)
        BY <1>11, <2>1 DEF HasListed, N
      <3>2. ElementsOf(w.out) = DOMAIN repo
        BY <1>1, <1>12, <3>1, FS_Subset
      <3> QED
        BY <1>11, <1>12, <3>2 DEF HasListed
    <2> QED
      BY <1>11, <2>1
  <1>14. ElementsOf(w.out) = w.seen /\ w.seen \cap hidden = {} /\ w.seen \subseteq G!Ancestors(repo, tip)
         /\ {tip} \ hidden \subseteq w.seen
         /\ \A c \in w.seen : G!Known(repo, c) \subseteq w.seen \cup hidden
    BY <1>11, <1>13 DEF HasListed
  <1>15. G!Ancestors(repo, tip) \subseteq w.seen \cup hidden
    <2> DEFINE S == w.seen \cup hidden
    <2>1. tip \in S /\ \A a \in S \cap DOMAIN repo : G!Known(repo, a) \subseteq S
      BY <1>14
    <2> HIDE DEF S
    <2>2. G!Ancestors(repo, tip) \subseteq S
      BY <1>1, <2>1, AncestorsAreReached
    <2> QED
      BY <2>2 DEF S
  <1>16. ElementsOf(w.out) = G!Ancestors(repo, tip) \ hidden
    BY <1>14, <1>15
  <1>17. \A i, j \in DOMAIN w.out : w.out[i] = w.out[j] => i = j
    BY <1>11 DEF HasListed
  <1>18. G!ClocksAgree(repo) => \A i, j \in DOMAIN w.out : i < j => repo[w.out[i]].time >= repo[w.out[j]].time
    BY <1>11 DEF GoesBack
  <1> QED
    BY <1>2, <1>12, <1>16, <1>17, <1>18 DEF w

-----------------------------------------------------------------------------
(* What a merge is taken apart into.                                         *)

\* Where the clocks agree with the branches, what a commit builds on is earlier.
LEMMA AncestorsAreEarlier ==
  ASSUME NEW repo, IsRepository(repo), G!ClocksAgree(repo), NEW c \in DOMAIN repo
  PROVE  \A a \in G!Ancestors(repo, c) : a = c \/ repo[a].time < repo[c].time
  <1> DEFINE S == {a \in DOMAIN repo : a = c \/ repo[a].time < repo[c].time}
  <1>1. c \in S
    OBVIOUS
  <1>2. ASSUME NEW a \in S \cap DOMAIN repo, NEW p \in G!Known(repo, a) PROVE p \in S
    <2>1. p \in DOMAIN repo /\ repo[p].time < repo[a].time
      BY <1>2 DEF G!ClocksAgree, G!Known
    <2>2. repo[p].time \in Int /\ repo[a].time \in Int /\ repo[c].time \in Int
      BY <2>1 DEF IsRepository
    <2> QED
      BY <2>1, <2>2
  <1> HIDE DEF S
  <1>3. G!Ancestors(repo, c) \subseteq S
    BY <1>1, <1>2, AncestorsAreReached DEF IsRepository
  <1> QED
    BY <1>3 DEF S

\* The branch of a pull request lists what it brought in, once each, and, where the clocks agree,
\* none before an earlier one.
LEMMA BranchesListWhatIsNew ==
  ASSUME NEW repo, IsRepository(repo), NEW base \in DOMAIN repo, NEW pr \in DOMAIN repo
  PROVE  LET walked == G!WalkPrBranch(repo, base, pr) IN
         /\ walked \in Seq(DOMAIN repo)
         /\ ElementsOf(walked) = G!Ancestors(repo, pr) \ G!Ancestors(repo, base)
         /\ \A i, j \in DOMAIN walked : walked[i] = walked[j] => i = j
         /\ G!ClocksAgree(repo) =>
              \A i, j \in DOMAIN walked : i < j => repo[walked[j]].time >= repo[walked[i]].time
  <1> DEFINE hidden == G!Ancestors(repo, base)
             walk == G!NewestFirst(repo, pr, hidden)
             walked == G!WalkPrBranch(repo, base, pr)
             n == Len(walk)
  <1>1. \A a \in hidden \cap DOMAIN repo : G!Known(repo, a) \subseteq hidden
    BY AncestorsAreReached DEF IsRepository
  <1>2. walked = [i \in 1..n |-> walk[(n - i) + 1]]
    BY DEF G!WalkPrBranch, G!Reverse
  <1> HIDE DEF hidden
  <1>3. /\ walk \in Seq(DOMAIN repo)
        /\ ElementsOf(walk) = G!Ancestors(repo, pr) \ hidden
        /\ \A i, j \in DOMAIN walk : walk[i] = walk[j] => i = j
        /\ G!ClocksAgree(repo) => \A i, j \in DOMAIN walk : i < j => repo[walk[i]].time >= repo[walk[j]].time
    BY <1>1, WalksListWhatIsNew
  <1> HIDE DEF walk, walked
  <1>4. n \in Nat /\ DOMAIN walk = 1..n /\ DOMAIN walked = 1..n
    BY <1>2, <1>3
  <1>5. \A i \in 1..n : (n - i) + 1 \in 1..n /\ walked[i] = walk[(n - i) + 1] /\ walked[(n - i) + 1] = walk[i]
    BY <1>2, <1>4
  <1>6. walked \in Seq(DOMAIN repo)
    BY <1>2, <1>3, <1>4, <1>5
  <1>7. ElementsOf(walked) = ElementsOf(walk)
    <2>1. ASSUME NEW i \in 1..n PROVE walked[i] \in ElementsOf(walk) /\ walk[i] \in ElementsOf(walked)
      <3>1. (n - i) + 1 \in DOMAIN walk /\ (n - i) + 1 \in DOMAIN walked
        BY <1>4, <1>5
      <3> QED
        BY <1>5, <3>1 DEF ElementsOf
    <2> QED
      BY <1>4, <2>1 DEF ElementsOf
  <1>8. \A i, j \in DOMAIN walked : walked[i] = walked[j] => i = j
    <2> SUFFICES ASSUME NEW i \in 1..n, NEW j \in 1..n, walked[i] = walked[j] PROVE i = j
      BY <1>4
    <2>1. (n - i) + 1 = (n - j) + 1
      BY <1>3, <1>4, <1>5
    <2> QED
      BY <1>4, <2>1
  <1>9. ASSUME G!ClocksAgree(repo), NEW i \in DOMAIN walked, NEW j \in DOMAIN walked, i < j
        PROVE  repo[walked[j]].time >= repo[walked[i]].time
    <2>1. (n - j) + 1 < (n - i) + 1 /\ i \in 1..n /\ j \in 1..n
      BY <1>4, <1>9
    <2> QED
      BY <1>3, <1>4, <1>5, <1>9, <2>1
  <1> QED
    BY <1>3, <1>6, <1>7, <1>8, <1>9 DEF walked, hidden

(* The history of a merge is all there. *)
IsMergeQuestion(q) ==
  /\ IsFiniteSet(DOMAIN q.shape)
  /\ \A c \in DOMAIN q.shape : q.shape[c] \in Seq(DOMAIN q.shape) /\ q.clock[c] \in Int

LEMMA MergeRepositories ==
  ASSUME NEW q, IsMergeQuestion(q)
  PROVE  LET repo == G!MergeRepo(q) IN
         /\ IsRepository(repo) /\ DOMAIN repo = DOMAIN q.shape
         /\ \A c \in DOMAIN repo : repo[c].parents \in Seq(DOMAIN repo)
  <1> DEFINE repo == G!MergeRepo(q)
  <1>1. DOMAIN repo = DOMAIN q.shape
    BY DEF G!MergeRepo
  <1>2. ASSUME NEW c \in DOMAIN repo PROVE repo[c].parents = q.shape[c] /\ repo[c].time = q.clock[c]
    BY <1>1 DEF G!MergeRepo, G!Plain
  <1> HIDE DEF repo
  <1> QED
    BY <1>1, <1>2 DEF IsMergeQuestion, IsRepository, repo

(* What a merge is taken apart into is what it brought in. *)
IsTakenApart(repo, c) ==
  LET taken == G!PrCommitsFor(repo, c)
      at(i) == taken[i].sha
      before(i) == UNION {G!PathsOf(repo, at(j)) : j \in 1..(i - 1)}
  IN  /\ G!IsInjective([i \in DOMAIN taken |-> at(i)])
      /\ {at(i) : i \in DOMAIN taken}
           = G!Ancestors(repo, repo[c].parents[2]) \ G!Ancestors(repo, repo[c].parents[1])
      /\ \A i, j \in DOMAIN taken :
           i < j /\ G!ClocksAgree(repo) => ~G!IsAncestor(repo, at(j), at(i))
      /\ \A i \in DOMAIN taken : taken[i].kind # G!Substantive =>
           /\ repo[at(i)].subject # Null
           /\ G!PathsOf(repo, at(i)) \subseteq before(i) /\ G!PathsOf(repo, at(i)) # before(i)
      /\ repo[c].parents[1] \notin {at(i) : i \in DOMAIN taken}

\* A merge of two parents is.
LEMMA MergesBringIn ==
  ASSUME NEW repo, IsRepository(repo), NEW c \in DOMAIN repo, repo[c].parents \in Seq(DOMAIN repo),
         Len(repo[c].parents) = 2
  PROVE  IsTakenApart(repo, c)
  <1> DEFINE base == repo[c].parents[1]
             pr == repo[c].parents[2]
             walked == G!WalkPrBranch(repo, base, pr)
             taken == G!PrCommitsFor(repo, c)
             prior(i) == UNION {G!PathsOf(repo, walked[j]) : j \in 1..(i - 1)}
             at(i) == taken[i].sha
             before(i) == UNION {G!PathsOf(repo, at(j)) : j \in 1..(i - 1)}
  <1>1. base \in DOMAIN repo /\ pr \in DOMAIN repo
    OBVIOUS
  <1>2. taken = [i \in DOMAIN walked |->
                   [sha |-> walked[i], kind |-> G!KindOf(repo[walked[i]], G!PathsOf(repo, walked[i]), prior(i))]]
    BY DEF G!PrCommitsFor
  <1> HIDE DEF base, pr
  <1>3. /\ walked \in Seq(DOMAIN repo)
        /\ ElementsOf(walked) = G!Ancestors(repo, pr) \ G!Ancestors(repo, base)
        /\ \A i, j \in DOMAIN walked : walked[i] = walked[j] => i = j
        /\ G!ClocksAgree(repo) =>
             \A i, j \in DOMAIN walked : i < j => repo[walked[j]].time >= repo[walked[i]].time
    BY <1>1, BranchesListWhatIsNew
  <1> HIDE DEF walked, taken, prior
  <1>4. DOMAIN taken = DOMAIN walked /\ \A i \in DOMAIN taken : at(i) = walked[i] /\ at(i) \in DOMAIN repo
    BY <1>2, <1>3
  <1>5. \A i \in DOMAIN taken : taken[i].kind = G!KindOf(repo[walked[i]], G!PathsOf(repo, walked[i]), prior(i))
    BY <1>2
  <1> HIDE DEF at
  <1>6. G!IsInjective([i \in DOMAIN taken |-> at(i)])
    BY <1>3, <1>4 DEF G!IsInjective
  <1>7. {at(i) : i \in DOMAIN taken} = G!Ancestors(repo, pr) \ G!Ancestors(repo, base)
    <2>1. {at(i) : i \in DOMAIN taken} = ElementsOf(walked)
      BY <1>4 DEF ElementsOf
    <2> QED
      BY <1>3, <2>1
  <1>8. ASSUME NEW i \in DOMAIN taken, NEW j \in DOMAIN taken, i < j, G!ClocksAgree(repo),
               G!IsAncestor(repo, at(j), at(i))
        PROVE  FALSE
    <2>1. at(j) \in G!Ancestors(repo, at(i))
      BY <1>8 DEF G!IsAncestor
    <2>2. at(j) = at(i) \/ repo[at(j)].time < repo[at(i)].time
      BY <1>4, <1>8, <2>1, AncestorsAreEarlier
    <2>3. repo[at(j)].time >= repo[at(i)].time /\ repo[at(j)].time \in Int /\ repo[at(i)].time \in Int
      BY <1>3, <1>4, <1>8 DEF IsRepository
    <2>4. i # j
      BY <1>3, <1>4, <1>8
    <2> QED
      BY <1>3, <1>4, <2>2, <2>3, <2>4
  <1>9. ASSUME NEW i \in DOMAIN taken PROVE before(i) = prior(i)
    <2>1. \A j \in 1..(i - 1) : j \in DOMAIN taken
      BY <1>3, <1>4
    <2>2. \A j \in 1..(i - 1) : at(j) = walked[j]
      BY <1>4, <2>1
    <2> QED
      BY <2>2, Zenon DEF prior
  <1>10. ASSUME NEW i \in DOMAIN taken, taken[i].kind # G!Substantive
         PROVE  /\ repo[at(i)].subject # Null
                /\ G!PathsOf(repo, at(i)) \subseteq before(i) /\ G!PathsOf(repo, at(i)) # before(i)
    BY <1>4, <1>5, <1>9, <1>10, Zenon DEF G!KindOf
  <1>11. base \notin {at(i) : i \in DOMAIN taken}
    BY <1>1, <1>7, AncestorsAreReached DEF IsRepository
  <1> QED
    BY <1>6, <1>7, <1>8, <1>10, <1>11 DEF IsTakenApart, at, taken, base, pr

\* What each verb makes of a commit.
LEMMA VerbsAgree ==
  ASSUME NEW repo, NEW c \in DOMAIN repo, repo[c].parents \in Seq(DOMAIN repo)
  PROVE  LET input(verb) == G!FromParents(repo, c, verb)
             refused(verb) == "refused" \in DOMAIN input(verb)
             parents == repo[c].parents
         IN  /\ Len(parents) = 1 => input("batch") = input("commit")
             /\ Len(parents) > 1 => input("batch") = input("merge") /\ input("merge").base = parents[1]
             /\ (\A verb \in G!Verbs : refused(verb)) <=> parents = <<>>
             /\ ~refused("batch") => input("batch").base \in DOMAIN repo
             /\ refused("commit") \/ refused("merge")
  <1> DEFINE parents == repo[c].parents
             input(verb) == G!FromParents(repo, c, verb)
  <1>1. parents \in Seq(DOMAIN repo) /\ Len(parents) \in Nat /\ (parents = <<>> <=> Len(parents) = 0)
    OBVIOUS
  <1>2. /\ G!MergePolicy("commit") = "refuse" /\ G!MergePolicy("merge") = "require"
        /\ G!MergePolicy("batch") = "first_parent"
        /\ ~G!CollectsPrCommits("commit") /\ G!CollectsPrCommits("merge") /\ G!CollectsPrCommits("batch")
    BY DEF G!MergePolicy, G!CollectsPrCommits
  <1> DEFINE taken(pr) == [base |-> Head(parents), patch |-> G!PatchOf(repo, c), parents |-> Len(parents), pr |-> pr]
  <1>3. \A verb : input(verb) =
          CASE parents = <<>> -> G!Refused("root")
            [] Len(parents) = 1 /\ G!MergePolicy(verb) = "require" -> G!Refused("not_a_merge")
            [] Len(parents) > 1 /\ G!MergePolicy(verb) = "refuse" -> G!Refused("merge")
            [] OTHER -> taken(IF Len(parents) > 1 /\ G!CollectsPrCommits(verb) THEN G!PrCommitsFor(repo, c) ELSE Null)
    BY DEF G!FromParents
  <1>4. (\A why : DOMAIN G!Refused(why) = {"refused"}) /\ (\A pr : "refused" \notin DOMAIN taken(pr) /\ taken(pr).base = Head(parents))
    BY DEF G!Refused
  <1>5. parents # <<>> => Head(parents) = parents[1] /\ parents[1] \in DOMAIN repo
    BY <1>1
  <1> HIDE DEF taken, parents, input
  <1> DEFINE n == Len(parents)
  <1>n. n \in Nat /\ (parents = <<>> <=> n = 0)
    BY <1>1
  <1>m. n = Len(parents)
    OBVIOUS
  <1> HIDE DEF n
  <1>6. parents = <<>> => \A verb : input(verb) = G!Refused("root")
    BY <1>1, <1>3
  <1>7. Len(parents) = 1 => input("batch") = taken(Null) /\ input("commit") = taken(Null)
                              /\ input("merge") = G!Refused("not_a_merge")
    BY <1>1, <1>2, <1>3
  <1>8. Len(parents) > 1 => /\ input("batch") = taken(G!PrCommitsFor(repo, c))
                            /\ input("merge") = taken(G!PrCommitsFor(repo, c))
                            /\ input("commit") = G!Refused("merge")
    <2> SUFFICES ASSUME n > 1
                 PROVE  /\ input("batch") = taken(G!PrCommitsFor(repo, c))
                        /\ input("merge") = taken(G!PrCommitsFor(repo, c))
                        /\ input("commit") = G!Refused("merge")
      BY <1>m
    <2>1. n # 0 /\ n # 1
      BY <1>n
    <2>2. parents # <<>> /\ Len(parents) # 1 /\ Len(parents) > 1
      BY <1>n, <1>m, <2>1, Zenon
    <2> QED
      BY <1>2, <1>3, <2>2
  <1>9. "batch" \in G!Verbs
    BY DEF G!Verbs
  <1>10. parents = <<>> \/ Len(parents) = 1 \/ Len(parents) > 1
    BY <1>n, <1>m
  <1>11. /\ Len(parents) = 1 => input("batch") = input("commit")
         /\ Len(parents) > 1 => input("batch") = input("merge") /\ input("merge").base = parents[1]
         /\ (\A verb \in G!Verbs : "refused" \in DOMAIN input(verb)) <=> parents = <<>>
         /\ "refused" \notin DOMAIN input("batch") => input("batch").base \in DOMAIN repo
         /\ "refused" \in DOMAIN input("commit") \/ "refused" \in DOMAIN input("merge")
    BY <1>1, <1>4, <1>5, <1>6, <1>7, <1>8, <1>9, <1>10
  <1> QED
    BY <1>11 DEF input, parents

LEMMA MergesOfHistories ==
  ASSUME NEW q, IsMergeQuestion(q)
  PROVE  G!MergesAreTakenApart(q)
  <1> DEFINE repo == G!MergeRepo(q)
  <1>1. IsRepository(repo) /\ DOMAIN repo = DOMAIN q.shape /\ \A c \in DOMAIN repo : repo[c].parents \in Seq(DOMAIN repo)
    BY MergeRepositories
  <1> HIDE DEF repo
  <1>2. \A c \in DOMAIN repo : G!PrCommitsFor(repo, c) # Null => Len(repo[c].parents) = 2
    BY DEF G!PrCommitsFor
  <1>3. \A c \in DOMAIN repo : Len(repo[c].parents) = 2 => Len(repo[c].parents) > 1
    OBVIOUS
  <1>4. ASSUME NEW c \in DOMAIN repo
        PROVE  LET input(verb) == G!FromParents(repo, c, verb)
                   refused(verb) == "refused" \in DOMAIN input(verb)
                   taken == G!PrCommitsFor(repo, c)
                   at(i) == taken[i].sha
                   before(i) == UNION {G!PathsOf(repo, at(j)) : j \in 1..(i - 1)}
               IN  /\ taken # Null =>
                        /\ G!IsInjective([i \in DOMAIN taken |-> at(i)])
                        /\ {at(i) : i \in DOMAIN taken}
                             = G!Ancestors(repo, repo[c].parents[2]) \ G!Ancestors(repo, repo[c].parents[1])
                        /\ \A i, j \in DOMAIN taken :
                             i < j /\ G!ClocksAgree(repo) => ~G!IsAncestor(repo, at(j), at(i))
                        /\ \A i \in DOMAIN taken : taken[i].kind # G!Substantive =>
                             /\ repo[at(i)].subject # Null
                             /\ G!PathsOf(repo, at(i)) \subseteq before(i) /\ G!PathsOf(repo, at(i)) # before(i)
                        /\ input("merge").base \notin {at(i) : i \in DOMAIN taken}
                   /\ Len(repo[c].parents) = 1 => input("batch") = input("commit")
                   /\ Len(repo[c].parents) > 1 => input("batch") = input("merge")
                   /\ (\A verb \in G!Verbs : refused(verb)) <=> repo[c].parents = <<>>
                   /\ ~refused("batch") => input("batch").base \in DOMAIN repo
                   /\ refused("commit") \/ refused("merge")
    <2> DEFINE input(verb) == G!FromParents(repo, c, verb)
               refused(verb) == "refused" \in DOMAIN input(verb)
               taken == G!PrCommitsFor(repo, c)
               at(i) == taken[i].sha
               before(i) == UNION {G!PathsOf(repo, at(j)) : j \in 1..(i - 1)}
    <2>1. repo[c].parents \in Seq(DOMAIN repo)
      BY <1>1
    <2>2. /\ Len(repo[c].parents) = 1 => input("batch") = input("commit")
          /\ Len(repo[c].parents) > 1 => input("batch") = input("merge") /\ input("merge").base = repo[c].parents[1]
          /\ (\A verb \in G!Verbs : refused(verb)) <=> repo[c].parents = <<>>
          /\ ~refused("batch") => input("batch").base \in DOMAIN repo
          /\ refused("commit") \/ refused("merge")
      BY <2>1, VerbsAgree
    <2>3. ASSUME taken # Null
          PROVE  /\ G!IsInjective([i \in DOMAIN taken |-> at(i)])
                 /\ {at(i) : i \in DOMAIN taken}
                      = G!Ancestors(repo, repo[c].parents[2]) \ G!Ancestors(repo, repo[c].parents[1])
                 /\ \A i, j \in DOMAIN taken :
                      i < j /\ G!ClocksAgree(repo) => ~G!IsAncestor(repo, at(j), at(i))
                 /\ \A i \in DOMAIN taken : taken[i].kind # G!Substantive =>
                      /\ repo[at(i)].subject # Null
                      /\ G!PathsOf(repo, at(i)) \subseteq before(i) /\ G!PathsOf(repo, at(i)) # before(i)
                 /\ input("merge").base \notin {at(i) : i \in DOMAIN taken}
      <3>1. Len(repo[c].parents) = 2 /\ Len(repo[c].parents) > 1
        BY <1>2, <1>3, <2>3
      <3> HIDE DEF input
      <3>2. input("merge").base = repo[c].parents[1]
        BY <2>2, <3>1
      <3>3. IsTakenApart(repo, c)
        BY <1>1, <2>1, <3>1, MergesBringIn
      <3> QED
        BY <3>2, <3>3, Zenon DEF IsTakenApart
    <2> QED
      BY <2>2, <2>3
  <1> QED
    BY <1>1, <1>4, Zenon DEF G!MergesAreTakenApart, repo

-----------------------------------------------------------------------------
(* What a prefix names.                                                      *)

\* The ids of a set in their order: each is one of them, and before it are those that are less.
LEMMA SortedInOrder ==
  ASSUME NEW S \in SUBSET Nat, IsFiniteSet(S), NEW i \in 1..Cardinality(S)
  PROVE  /\ G!Sorted(S) \in Seq(S) /\ Len(G!Sorted(S)) = Cardinality(S)
         /\ \A o \in S : o < G!Sorted(S)[i] <=> \E j \in 1..(i - 1) : o = G!Sorted(S)[j]
  <1> DEFINE n == Cardinality(S)
             Before(o) == {p \in S : p < o}
             Of(k) == CHOOSE o \in S : G!Cardinality(Before(o)) = k - 1
             sorted == G!Sorted(S)
  <1>0. \A o \in S : o \in Nat
    OBVIOUS
  <1>1. n \in Nat
    BY FS_CardinalityType
  <1>2. \A T : G!Cardinality(T) = Cardinality(T)
    BY SameCardinality
  <1>3. sorted = [k \in 1..n |-> Of(k)]
    BY <1>2, Zenon DEF G!Sorted
  <1>4. ASSUME NEW k \in 1..n PROVE Of(k) \in S /\ Cardinality(Before(Of(k))) = k - 1
    <2>1. \E o \in S : G!Cardinality(Before(o)) = k - 1
      BY <1>2, RanksExist
    <2>2. Of(k) \in S /\ G!Cardinality(Before(Of(k))) = k - 1
      BY <2>1
    <2> QED
      BY <1>2, <2>2
  <1>i. i \in 1..n
    OBVIOUS
  <1> HIDE DEF sorted, Of, n
  <1>5. \A k \in 1..n : sorted[k] \in S /\ Cardinality(Before(sorted[k])) = k - 1
    BY <1>3, <1>4
  <1>6. sorted \in Seq(S) /\ Len(sorted) = n
    <2>1. sorted \in [1..n -> S]
      BY <1>3, <1>5
    <2> QED
      BY <1>1, <2>1
  <1>7. \A o : IsFiniteSet(Before(o)) /\ Cardinality(Before(o)) \in Nat
    BY FS_Subset, FS_CardinalityType
  <1>8. ASSUME NEW o \in S, NEW p \in S
        PROVE  /\ o <= p => Cardinality(Before(o)) <= Cardinality(Before(p))
               /\ o < p => Cardinality(Before(o)) < Cardinality(Before(p))
    <2>0. o \in Nat /\ p \in Nat
      BY <1>0
    <2>1. o <= p => Before(o) \subseteq Before(p)
      <3>1. ASSUME o <= p, NEW x \in S, x < o PROVE x < p
        BY <1>0, <2>0, <3>1
      <3> QED
        BY <3>1
    <2>2. o < p => Before(o) # Before(p) /\ o <= p
      <3>1. ASSUME o < p PROVE o \in Before(p) /\ o \notin Before(o) /\ o <= p
        BY <2>0, <3>1
      <3> QED
        BY <3>1
    <2> HIDE DEF Before
    <2> QED
      BY <1>7, <2>1, <2>2, FS_Subset
  <1>9. ASSUME NEW o \in S, o < sorted[i] PROVE \E j \in 1..(i - 1) : o = sorted[j]
    <2> DEFINE j == Cardinality(Before(o)) + 1
    <2>1. sorted[i] \in S /\ Cardinality(Before(sorted[i])) = i - 1
      BY <1>5, <1>i
    <2>2. Cardinality(Before(o)) < Cardinality(Before(sorted[i])) /\ Cardinality(Before(o)) \in Nat
      BY <1>7, <1>8, <1>9, <2>1
    <2>3. j \in 1..(i - 1) /\ j \in 1..n /\ Cardinality(Before(o)) = j - 1
      BY <1>1, <1>i, <2>1, <2>2
    <2> HIDE DEF j, Before
    <2>4. sorted[j] \in S /\ Cardinality(Before(sorted[j])) = Cardinality(Before(o))
      BY <1>5, <2>3
    <2>5. o = sorted[j]
      <3>1. \A x, y \in S : x < y => Cardinality(Before(x)) # Cardinality(Before(y))
        BY <1>7, <1>8
      <3>2. o \in Nat /\ sorted[j] \in Nat
        BY <1>0, <2>4
      <3>3. o < sorted[j] \/ sorted[j] < o \/ o = sorted[j]
        BY <3>2
      <3> QED
        BY <2>4, <3>1, <3>3
    <2> QED
      BY <2>3, <2>5
  <1>10. ASSUME NEW j \in 1..(i - 1) PROVE sorted[j] < sorted[i]
    <2>1. j \in 1..n /\ i \in 1..n /\ ~(i - 1 <= j - 1)
      BY <1>1, <1>i
    <2>2. /\ sorted[j] \in S /\ Cardinality(Before(sorted[j])) = j - 1
          /\ sorted[i] \in S /\ Cardinality(Before(sorted[i])) = i - 1
      BY <1>5, <2>1
    <2> HIDE DEF Before
    <2>3. ~(sorted[i] <= sorted[j])
      BY <1>8, <2>1, <2>2
    <2>4. sorted[i] \in Nat /\ sorted[j] \in Nat
      BY <1>0, <2>2
    <2> QED
      BY <2>3, <2>4
  <1> QED
    BY <1>6, <1>9, <1>10 DEF sorted, n

\* A number that is divided by how many ids a prefix may begin gives the prefix of it.
LEMMA BegunByPrefix ==
  ASSUME NEW span \in Nat \ {0}, NEW value \in Nat, NEW o \in Nat
  PROVE  o \div span = value <=> \E rest \in 0..(span - 1) : o = value * span + rest
  OBVIOUS

LEMMA LeastOfTwo ==
  ASSUME NEW a \in Nat, NEW b \in Nat
  PROVE  G!Min({a, b}) \in Nat /\ G!Min({a, b}) <= a /\ G!Min({a, b}) <= b
  <1>1. \E x \in {a, b} : \A y \in {a, b} : x <= y
    OBVIOUS
  <1>2. G!Min({a, b}) \in {a, b} /\ \A y \in {a, b} : G!Min({a, b}) <= y
    BY <1>1, Zenon DEF G!Min
  <1> QED
    BY <1>2

(* Finitely many objects, and a prefix that may begin some. *)
IsPrefixQuestion(q) ==
  /\ DOMAIN q.objects \in SUBSET Nat /\ IsFiniteSet(DOMAIN q.objects)
  /\ q.prefix.value \in Nat /\ q.prefix.span \in Nat \ {0} /\ q.cap \in Nat

LEMMA PrefixesOfIds ==
  ASSUME NEW q, IsPrefixQuestion(q)
  PROVE  G!PrefixesHold(q)
  <1> DEFINE answer == G!ResolveShaPrefix(q.objects, q.prefix, q.cap)
             named == G!Named(q.objects, q.prefix)
             begun == {o \in DOMAIN q.objects :
                         \E rest \in 0..(q.prefix.span - 1) : o = q.prefix.value * q.prefix.span + rest}
             is(c) == c \in DOMAIN q.objects /\ q.objects[c].kind = "commit"
             cap == G!Min({q.cap, Cardinality(named)})
             sample == G!Sorted(named)
  <1>1. named = begun
    <2>1. \A o \in DOMAIN q.objects :
            o \div q.prefix.span = q.prefix.value
              <=> \E rest \in 0..(q.prefix.span - 1) : o = q.prefix.value * q.prefix.span + rest
      <3> TAKE o \in DOMAIN q.objects
      <3>1. o \in Nat /\ q.prefix.value \in Nat /\ q.prefix.span \in Nat \ {0}
        BY DEF IsPrefixQuestion
      <3> DEFINE span == q.prefix.span  value == q.prefix.value
      <3>a. value \in Nat /\ span \in Nat \ {0}
        BY <3>1
      <3> HIDE DEF span, value
      <3>2. o \div span = value <=> \E rest \in 0..(span - 1) : o = value * span + rest
        BY <3>1, <3>a, BegunByPrefix
      <3> QED
        BY <3>2 DEF span, value
    <2> QED
      BY <2>1, Zenon DEF G!Named
  <1>2. named \in SUBSET Nat /\ IsFiniteSet(named) /\ named \subseteq DOMAIN q.objects /\ Cardinality(named) \in Nat
    BY FS_Subset, FS_CardinalityType DEF G!Named, IsPrefixQuestion
  <1> HIDE DEF named, begun
  <1>3. answer = CASE named = {} -> [refused |-> "not_found"]
                   [] Cardinality(named) = 1 -> G!PeelToCommit(q.objects, CHOOSE o \in named : TRUE)
                   [] OTHER -> [refused |-> "ambiguous", total |-> Cardinality(named),
                                sample |-> SubSeq(sample, 1, cap)]
    BY SameCardinality DEF G!ResolveShaPrefix, named
  <1> HIDE DEF answer, sample, cap
  <1>4. ASSUME NEW o, named = {o} PROVE answer = G!PeelToCommit(q.objects, o)
    <2>1. Cardinality(named) = 1 /\ named # {} /\ (CHOOSE x \in named : TRUE) = o
      BY <1>4, FS_Singleton
    <2> QED
      BY <1>3, <2>1
  <1>5. "commit" \in DOMAIN answer => is(answer.commit)
    <2>1. CASE named = {}
      <3>1. Cardinality(named) # 1
        BY <2>1, FS_EmptySet
      <3>2. answer = [refused |-> "not_found"]
        BY <1>3, <2>1, <3>1
      <3> QED
        BY <3>2
    <2>2. CASE Cardinality(named) = 1
      <3>1. PICK o : named = {o}
        BY <1>2, <2>2, FS_Singleton
      <3>2. answer = G!PeelToCommit(q.objects, o) /\ o \in DOMAIN q.objects
        BY <1>2, <1>4, <3>1
      <3> QED
        BY <3>2 DEF G!PeelToCommit
    <2>3. CASE named # {} /\ Cardinality(named) # 1
      <3> DEFINE first == SubSeq(sample, 1, cap)
                 n == Cardinality(named)
      <3>1. answer = [refused |-> "ambiguous", total |-> n, sample |-> first]
        BY <1>3, <2>3
      <3> HIDE DEF first, n
      <3>2. DOMAIN answer = {"refused", "total", "sample"}
        BY <3>1
      <3> QED
        BY <3>2
    <2> QED
      BY <2>1, <2>2, <2>3
  <1>6. \A o \in begun : begun = {o} /\ is(o) => answer = [commit |-> o]
    BY <1>1, <1>4 DEF G!PeelToCommit
  <1>7. \A o \in begun : begun = {o} /\ q.objects[o].kind = "tag" /\ is(q.objects[o].of) =>
          answer = [commit |-> q.objects[o].of]
    BY <1>1, <1>4 DEF G!PeelToCommit
  <1>8. ASSUME Cardinality(begun) > 1
        PROVE  /\ answer.total = Cardinality(begun)
               /\ Len(answer.sample) = G!Min({q.cap, answer.total})
               /\ \A i \in DOMAIN answer.sample :
                    /\ answer.sample[i] \in begun
                    /\ \A o \in begun : o < answer.sample[i] <=> \E j \in 1..(i - 1) : o = answer.sample[j]
    <2>1. named # {} /\ Cardinality(named) # 1
      BY <1>1, <1>2, <1>8, FS_EmptySet
    <2>2. answer.total = Cardinality(named) /\ answer.sample = SubSeq(sample, 1, cap)
      BY <1>3, <2>1
    <2>3. cap \in Nat /\ cap <= Cardinality(named) /\ cap = G!Min({q.cap, answer.total})
      BY <1>2, <2>2, LeastOfTwo DEF IsPrefixQuestion, cap
    <2>4. sample \in Seq(named) /\ Len(sample) = Cardinality(named)
      <3>1. 1 \in 1..Cardinality(named)
        BY <1>1, <1>2, <1>8
      <3> QED
        BY <1>2, <3>1, SortedInOrder DEF sample
    <2>5. /\ DOMAIN answer.sample = 1..cap /\ Len(answer.sample) = cap
          /\ \A i \in 1..cap : answer.sample[i] = sample[i] /\ i \in 1..Cardinality(named) /\ sample[i] \in named
      <3>1. \A i \in 1..cap : i \in 1..Cardinality(named)
        BY <1>2, <2>3
      <3>2. \A i \in 1..Cardinality(named) : sample[i] \in named
        BY <1>2, <2>4
      <3>3. SubSeq(sample, 1, cap) = [i \in 1..cap |-> sample[i]]
        BY <1>2, <2>3, <2>4
      <3>4. answer.sample = [i \in 1..cap |-> sample[i]]
        BY <2>2, <3>3
      <3>5. Len(answer.sample) = cap /\ DOMAIN answer.sample = 1..cap
        BY <2>3, <3>4
      <3> QED
        BY <3>1, <3>2, <3>4, <3>5
    <2>6. \A i \in 1..Cardinality(named) : \A o \in named : o < sample[i] <=> \E j \in 1..(i - 1) : o = sample[j]
      BY <1>2, SortedInOrder DEF sample
    <2>7. \A i \in 1..cap : \A o \in named : o < answer.sample[i] <=> \E j \in 1..(i - 1) : o = answer.sample[j]
      <3> SUFFICES ASSUME NEW i \in 1..cap, NEW o \in named
                   PROVE  o < answer.sample[i] <=> \E j \in 1..(i - 1) : o = answer.sample[j]
        OBVIOUS
      <3>1. \A j \in 1..(i - 1) : j \in 1..cap
        BY <2>3
      <3>2. \A j \in 1..(i - 1) : answer.sample[j] = sample[j]
        BY <2>5, <3>1
      <3> QED
        BY <2>5, <2>6, <3>2
    <2> QED
      BY <1>1, <2>2, <2>3, <2>5, <2>7
  <1>9. G!Cardinality(begun) = Cardinality(begun)
    BY SameCardinality
  <1> QED
    BY <1>5, <1>6, <1>7, <1>8, <1>9, Zenon DEF G!PrefixesHold, answer, begun

-----------------------------------------------------------------------------
(* How far the pins that differ are told.                                    *)

LEMMA EndsExist ==
  ASSUME NEW n \in Nat, NEW T \in SUBSET (1..n), T # {}
  PROVE  /\ B!Min(T) \in T /\ \A y \in T : B!Min(T) <= y
         /\ B!Max(T) \in T /\ \A y \in T : B!Max(T) >= y
  <1>0. \A y \in T : y \in 1..n /\ y \in Nat
    OBVIOUS
  <1>1. \E x \in T : \A y \in T : x <= y
    <2>1. T \in SUBSET Nat
      BY <1>0
    <2> QED
      BY <2>1, LeastExists
  <1>2. \E x \in T : \A y \in T : x >= y
    <2> DEFINE U == {n - y : y \in T}
    <2>1. U \in SUBSET Nat /\ U # {}
      <3>1. \A y \in T : n - y \in Nat
        BY <1>0
      <3>2. PICK y \in T : TRUE
        OBVIOUS
      <3>3. n - y \in U
        OBVIOUS
      <3> QED
        BY <3>1, <3>3
    <2>2. PICK u \in U : \A v \in U : u <= v
      BY <2>1, LeastExists
    <2>3. PICK x \in T : u = n - x
      OBVIOUS
    <2>4. ASSUME NEW y \in T PROVE x >= y
      <3>1. n - y \in U
        OBVIOUS
      <3>2. n - x <= n - y
        BY <2>2, <2>3, <3>1
      <3> QED
        BY <1>0, <3>2
    <2> QED
      BY <2>4
  <1> QED
    BY <1>1, <1>2, Zenon DEF B!Min, B!Max

(* Applications that were read: each has a name and a directory. *)
AreApps(apps) ==
  /\ apps \in Seq(ElementsOf(apps))
  /\ \A i \in DOMAIN apps : apps[i].name # Null /\ apps[i].dir \in Seq(ElementsOf(apps[i].dir))

LEMMA RootsAreSequences ==
  ASSUME NEW dir, dir \in Seq(ElementsOf(dir))
  PROVE  Len(B!AppRootDir(dir)) \in Nat
  <1>1. dir # <<>> => Len(dir) - 1 \in Nat
    OBVIOUS
  <1>2. dir # <<>> => Len(B!Front(dir)) \in Nat
    BY <1>1 DEF B!Front
  <1> QED
    BY <1>2 DEF B!AppRootDir

\* A path is of the first of the deepest applications that hold it.
LEMMA OwnersAreTheDeepest ==
  ASSUME NEW apps, AreApps(apps), NEW path
  PROVE  {B!ApplicationOfPath(apps, path)} \ {Null} = B!OwnersOf(apps, path)
  <1> DEFINE n == Len(apps)
             root(i) == B!AppRootDir(apps[i].dir)
             holding == {i \in DOMAIN apps : B!IsPrefix(root(i), path)}
             nearer(j, i) == Len(root(j)) > Len(root(i)) \/ (Len(root(j)) = Len(root(i)) /\ j < i)
             deepest == {i \in 1..n : /\ B!IsPrefix(root(i), path)
                                      /\ \A b \in B!ToSet(apps) : B!IsPrefix(B!AppRootDir(b.dir), path)
                                           => Len(B!AppRootDir(b.dir)) <= Len(root(i))}
             found == IF deepest # {} THEN B!Min(deepest) ELSE 0
             nearest == {i \in holding : \A j \in holding : ~nearer(j, i)}
  <1>1. n \in Nat /\ DOMAIN apps = 1..n
    BY DEF AreApps
  <1>2. \A i \in 1..n : Len(root(i)) \in Nat /\ apps[i].name # Null
    BY <1>1, RootsAreSequences DEF AreApps
  <1>3. B!ApplicationOfPath(apps, path) = IF found = 0 THEN Null ELSE apps[found].name
    BY DEF B!ApplicationOfPath, B!SelectInSeq
  <1>4. B!OwnersOf(apps, path) = {apps[i].name : i \in nearest}
    BY Zenon DEF B!OwnersOf
  <1> HIDE DEF n
  <1> DEFINE depth(i) == Len(root(i))
             holds(i) == B!IsPrefix(root(i), path)
  <1>5. \A i : i \in deepest <=> i \in 1..n /\ holds(i) /\ \A j \in 1..n : holds(j) => depth(j) <= depth(i)
    BY <1>1 DEF B!ToSet
  <1>6. \A i : i \in nearest <=>
          i \in 1..n /\ holds(i)
            /\ \A j \in 1..n : holds(j) => ~(depth(j) > depth(i)) /\ ~(depth(j) = depth(i) /\ j < i)
    BY <1>1
  <1>7. \A i \in 1..n : depth(i) \in Nat
    BY <1>2
  <1>8. deepest \in SUBSET (1..n)
    OBVIOUS
  <1> HIDE DEF deepest, nearest, depth, holds
  <1>9. CASE deepest = {}
    <2>1. nearest = {}
      BY <1>5, <1>6, <1>7, <1>9
    <2> QED
      BY <1>3, <1>4, <1>9, <2>1
  <1>10. CASE deepest # {}
    <2> DEFINE first == B!Min(deepest)
    <2>1. first \in deepest /\ \A y \in deepest : first <= y
      BY <1>1, <1>8, <1>10, EndsExist
    <2>b. found = first
      BY <1>10
    <2> HIDE DEF first
    <2>c. first \in 1..n
      BY <1>8, <2>1
    <2>a. first \in 1..n /\ first # 0
      BY <1>1, <2>c
    <2>2. found = first /\ first \in 1..n /\ first # 0
      BY <2>a, <2>b
    <2>3. first \in nearest
      <3> SUFFICES ASSUME NEW j \in 1..n, holds(j)
                   PROVE  ~(depth(j) > depth(first)) /\ ~(depth(j) = depth(first) /\ j < first)
        BY <1>5, <1>6, <2>1
      <3>1. depth(j) <= depth(first) /\ depth(j) \in Nat /\ depth(first) \in Nat
        BY <1>5, <1>7, <2>1, <2>2
      <3>2. depth(j) = depth(first) => j \in deepest
        BY <1>5, <2>1
      <3>3. j \in deepest => ~(j < first)
        BY <1>1, <2>1, <2>2
      <3> QED
        BY <3>1, <3>2, <3>3
    <2>4. ASSUME NEW i \in nearest PROVE i = first
      <3>1. i \in 1..n /\ holds(i) /\ holds(first)
        BY <1>5, <1>6, <2>1
      <3>2. ~(depth(first) > depth(i)) /\ ~(depth(i) > depth(first))
        BY <1>6, <2>2, <2>3, <3>1
      <3>3. depth(i) = depth(first)
        BY <1>7, <2>2, <3>1, <3>2
      <3>4. ~(first < i) /\ ~(i < first)
        BY <1>6, <2>2, <2>3, <3>1, <3>3
      <3> QED
        BY <1>1, <2>2, <3>1, <3>4
    <2>5. {apps[i].name : i \in nearest} = {apps[first].name}
      BY <2>3, <2>4
    <2>6. B!ApplicationOfPath(apps, path) = apps[first].name /\ apps[first].name # Null
      BY <1>2, <1>3, <2>2
    <2> QED
      BY <1>4, <2>5, <2>6
  <1> QED
    BY <1>9, <1>10

(* What an application of a name starts before itself: the last of the name. *)
Starts(apps, name) ==
  LET last == B!SelectLastInSeq(apps, LAMBDA a : a.name = name)
  IN  IF last = 0 THEN {} ELSE apps[last].applications

(* No later application has its name. *)
IsLast(apps, i) == \A j \in DOMAIN apps : apps[j].name = apps[i].name => j <= i

LEMMA LastOfNameStarts ==
  ASSUME NEW apps, AreApps(apps), NEW name
  PROVE  /\ \A i \in DOMAIN apps : apps[i].name = name /\ IsLast(apps, i) => Starts(apps, name) = apps[i].applications
         /\ Starts(apps, name) # {} =>
              \E i \in DOMAIN apps : apps[i].name = name /\ IsLast(apps, i) /\ Starts(apps, name) = apps[i].applications
  <1> DEFINE n == Len(apps)
             T == {i \in 1..n : apps[i].name = name}
             last == IF T # {} THEN B!Max(T) ELSE 0
  <1>1. n \in Nat /\ DOMAIN apps = 1..n
    BY DEF AreApps
  <1>2. Starts(apps, name) = IF last = 0 THEN {} ELSE apps[last].applications
    BY DEF Starts, B!SelectLastInSeq
  <1> HIDE DEF n
  <1>3. T \in SUBSET (1..n) /\ \A i : i \in T <=> i \in 1..n /\ apps[i].name = name
    OBVIOUS
  <1> HIDE DEF T
  <1>4. CASE T = {}
    BY <1>1, <1>2, <1>3, <1>4
  <1>5. CASE T # {}
    <2> DEFINE top == B!Max(T)
    <2>1. top \in T /\ \A y \in T : top >= y
      BY <1>1, <1>3, <1>5, EndsExist
    <2>2. last = top
      BY <1>5
    <2> HIDE DEF top, last
    <2>3. top \in 1..n /\ apps[top].name = name
      BY <1>3, <2>1
    <2>4. top # 0 /\ top \in DOMAIN apps
      BY <1>1, <2>3
    <2>5. Starts(apps, name) = apps[top].applications
      BY <1>2, <2>2, <2>4
    <2>6. IsLast(apps, top)
      <3> SUFFICES ASSUME NEW j \in DOMAIN apps, apps[j].name = apps[top].name PROVE j <= top
        BY DEF IsLast
      <3>1. j \in T /\ j \in 1..n
        BY <1>1, <1>3, <2>3
      <3> QED
        BY <1>1, <2>1, <2>3, <3>1
    <2>7. ASSUME NEW i \in DOMAIN apps, apps[i].name = name, IsLast(apps, i) PROVE i = top
      <3>1. i \in T /\ i \in 1..n
        BY <1>1, <1>3, <2>7
      <3>2. top <= i /\ i <= top
        BY <1>1, <2>1, <2>3, <2>4, <2>7, <3>1 DEF IsLast
      <3> QED
        BY <1>1, <2>3, <3>1, <3>2
    <2> QED
      BY <2>3, <2>4, <2>5, <2>6, <2>7
  <1> QED
    BY <1>4, <1>5

\* What is reached over applications is the least set that holds what is touched and is closed.
LEMMA ReachedIsLeast ==
  ASSUME NEW apps, AreApps(apps), NEW start
  PROVE  B!ReachableAppNames(apps, start) = B!Reached(apps, start)
  <1> DEFINE N == Len(apps)
             Walks(g) == g = [n \in 0..N |-> IF n = 0 THEN start ELSE g[n - 1] \cup UNION {Starts(apps, a) : a \in g[n - 1]}]
             f == CHOOSE g : Walks(g)
             all == start \cup UNION {apps[i].applications : i \in DOMAIN apps}
             closed(S) == start \subseteq S
                          /\ \A i \in DOMAIN apps : apps[i].name \in S /\ IsLast(apps, i) => apps[i].applications \subseteq S
             Sets == SUBSET all
             step == [X \in Sets |-> X \cup UNION {Starts(apps, a) : a \in X}]
             steps == [n \in 1..N |-> step]
  <1>1. N \in Nat /\ DOMAIN apps = 1..N
    BY DEF AreApps
  <1>2. B!ReachableAppNames(apps, start) = f[N]
    BY Zenon DEF B!ReachableAppNames, Starts
  <1>3. B!Reached(apps, start) = {n \in all : \A S \in SUBSET all : closed(S) => n \in S}
    BY Zenon DEF B!Reached, IsLast
  <1>4. \A a : Starts(apps, a) \subseteq all
    <2> TAKE a
    <2>1. CASE Starts(apps, a) = {}
      BY <2>1
    <2>2. CASE Starts(apps, a) # {}
      <3>1. PICK i \in DOMAIN apps : Starts(apps, a) = apps[i].applications
        BY <2>2, LastOfNameStarts
      <3> QED
        BY <3>1
    <2> QED
      BY <2>1, <2>2
  <1> HIDE DEF N
  <1>5. \E g : Walks(g)
    <2>1. step \in [Sets -> Sets]
      <3>1. \A X \in Sets : X \cup UNION {Starts(apps, a) : a \in X} \in Sets
        BY <1>4
      <3> HIDE DEF Sets
      <3> QED
        BY <3>1
    <2>2. start \in Sets
      OBVIOUS
    <2>s. steps \in [1..N -> [Sets -> Sets]] /\ \A n \in 1..N : steps[n] = step
      <3> HIDE DEF step, Sets
      <3> QED
        BY <2>1
    <2>v. \A X \in Sets : step[X] = X \cup UNION {Starts(apps, a) : a \in X}
      OBVIOUS
    <2> HIDE DEF step, steps, Sets
    <2>3. PICK g : IsWalk(g, N, Sets, start, steps)
      BY <1>1, <2>s, <2>2, StepsExist
    <2>4. ASSUME NEW n \in 1..N PROVE g[n] = g[n - 1] \cup UNION {Starts(apps, a) : a \in g[n - 1]}
      <3>1. n - 1 \in 0..N
        BY <1>1
      <3>2. g[n - 1] \in Sets
        BY <2>3, <3>1 DEF IsWalk
      <3> QED
        BY <2>3, <2>s, <2>v, <3>2 DEF IsWalk
    <2>5. Walks(g)
      BY <1>1, <2>3, <2>4 DEF IsWalk
    <2> QED
      BY <2>5
  <1>6. Walks(f)
    <2> HIDE DEF Walks
    <2> QED
      BY <1>5
  <1> HIDE DEF f
  <1>7. f[0] = start /\ \A n \in 1..N : f[n] = f[n - 1] \cup UNION {Starts(apps, a) : a \in f[n - 1]}
    BY <1>1, <1>6
  <1> DEFINE names == {apps[i].name : i \in DOMAIN apps}
             gives == [a \in names |-> Starts(apps, a)]
  <1>8. \A a : Starts(apps, a) # {} => a \in names
    BY LastOfNameStarts
  <1>9. IsFiniteSet(names) /\ Cardinality(names) <= N
    <2>1. IsFiniteSet(1..N) /\ Cardinality(1..N) = N
      BY <1>1, FS_Interval
    <2> DEFINE named == [i \in 1..N |-> apps[i].name]
    <2>2. named \in Surjection(1..N, names)
      BY <1>1 DEF Surjection
    <2> HIDE DEF named, names
    <2> QED
      BY <2>1, <2>2, FS_Surjection
  <1>10. \A n \in 1..N : f[n] = f[n - 1] \cup UNION {gives[a] : a \in f[n - 1] \cap names}
    <2> SUFFICES ASSUME NEW n \in 1..N
                 PROVE  UNION {Starts(apps, a) : a \in f[n - 1]} = UNION {gives[a] : a \in f[n - 1] \cap names}
      BY <1>7
    <2>1. \A a \in names : gives[a] = Starts(apps, a)
      OBVIOUS
    <2> HIDE DEF gives, names
    <2> QED
      BY <1>8, <2>1
  <1>11. \A a \in names : gives[a] = Starts(apps, a)
    OBVIOUS
  <1>12. \A i \in DOMAIN apps : apps[i].name \in names
    OBVIOUS
  <1> HIDE DEF gives, names
  <1>13. /\ start \subseteq f[N]
         /\ \A a \in f[N] \cap names : gives[a] \subseteq f[N]
         /\ \A S : start \subseteq S /\ (\A a \in S \cap names : gives[a] \subseteq S) => f[N] \subseteq S
    <2>1. f[0] = start
      BY <1>7
    <2>2. IsClosure(f[N], start, names, gives)
      BY <1>1, <1>9, <1>10, <2>1, Saturates
    <2> QED
      BY <2>2 DEF IsClosure
  <1>14. closed(f[N])
    <2> SUFFICES ASSUME NEW i \in DOMAIN apps, apps[i].name \in f[N], IsLast(apps, i) PROVE apps[i].applications \subseteq f[N]
      BY <1>13
    <2>1. Starts(apps, apps[i].name) = apps[i].applications
      BY LastOfNameStarts
    <2> QED
      BY <1>11, <1>12, <1>13, <2>1
  <1>15. ASSUME NEW S, closed(S) PROVE f[N] \subseteq S
    <2>1. ASSUME NEW a \in S \cap names PROVE gives[a] \subseteq S
      <3>1. gives[a] = Starts(apps, a)
        BY <1>11
      <3>2. CASE Starts(apps, a) = {}
        BY <3>1, <3>2
      <3>3. CASE Starts(apps, a) # {}
        <4>1. PICK i \in DOMAIN apps : apps[i].name = a /\ IsLast(apps, i) /\ Starts(apps, a) = apps[i].applications
          BY <3>3, LastOfNameStarts
        <4> QED
          BY <1>15, <3>1, <4>1
      <3> QED
        BY <3>2, <3>3
    <2> QED
      BY <1>13, <1>15, <2>1
  <1>16. f[N] \subseteq all
    <2>1. start \subseteq all /\ \A a \in all \cap names : gives[a] \subseteq all
      BY <1>4, <1>11
    <2> HIDE DEF all
    <2> QED
      BY <1>13, <2>1
  <1> HIDE DEF all, closed
  <1>17. f[N] = {n \in all : \A S \in SUBSET all : closed(S) => n \in S}
    BY <1>14, <1>15, <1>16
  <1> QED
    BY <1>2, <1>3, <1>17

\* The names that differ are those of which the last pin of the target is another.
LEMMA DiffersFromTheLast ==
  ASSUME NEW target, target \in Seq(ElementsOf(target)), NEW p
  PROVE  (p.name \in DOMAIN B!ByName(target) /\ B!ByName(target)[p.name] # p)
           <=> \E i \in DOMAIN target : /\ target[i].name = p.name
                                         /\ \A j \in DOMAIN target : target[j].name = target[i].name => j <= i
                                         /\ target[i] # p
  <1> DEFINE n == Len(target)
             T == {i \in 1..n : target[i].name = p.name}
             last == IF T # {} THEN B!Max(T) ELSE 0
             pinned == B!ByName(target)
  <1>1. n \in Nat /\ DOMAIN target = 1..n
    OBVIOUS
  <1>2. /\ p.name \in DOMAIN pinned <=> \E i \in DOMAIN target : target[i].name = p.name
        /\ p.name \in DOMAIN pinned => pinned[p.name] = target[last]
    BY DEF B!ByName, B!NamesIn, B!ToSet, B!SelectLastInSeq
  <1> HIDE DEF n, pinned
  <1>3. T \in SUBSET (1..n) /\ \A i : i \in T <=> i \in 1..n /\ target[i].name = p.name
    OBVIOUS
  <1> HIDE DEF T
  <1>4. CASE T = {}
    BY <1>1, <1>2, <1>3, <1>4 DEF pinned
  <1>5. CASE T # {}
    <2> DEFINE top == B!Max(T)
    <2>1. top \in T /\ \A y \in T : top >= y
      BY <1>1, <1>3, <1>5, EndsExist
    <2>2. last = top
      BY <1>5
    <2> HIDE DEF top, last
    <2>3. top \in DOMAIN target /\ target[top].name = p.name /\ top \in Nat
      BY <1>1, <1>3, <2>1
    <2>4. p.name \in DOMAIN pinned /\ pinned[p.name] = target[top]
      BY <1>2, <2>2, <2>3
    <2>5. \A j \in DOMAIN target : target[j].name = target[top].name => j <= top
      <3> SUFFICES ASSUME NEW j \in DOMAIN target, target[j].name = target[top].name PROVE j <= top
        OBVIOUS
      <3>1. j \in T /\ j \in Nat
        BY <1>1, <1>3, <2>3
      <3> QED
        BY <2>1, <2>3, <3>1
    <2>6. ASSUME NEW i \in DOMAIN target, target[i].name = p.name,
                 \A j \in DOMAIN target : target[j].name = target[i].name => j <= i
          PROVE  i = top
      <3>1. i \in T /\ i \in Nat
        BY <1>1, <1>3, <2>6
      <3>2. top <= i /\ i <= top
        BY <2>1, <2>3, <2>6, <3>1
      <3> QED
        BY <2>3, <3>1, <3>2
    <2> QED
      BY <2>3, <2>4, <2>5, <2>6 DEF pinned
  <1> QED
    BY <1>4, <1>5

(* A commit that was read: it may have no file of pins. *)
IsPinCommit(commit) == AreApps(commit.apps)

LEMMA DivergenceIsTold ==
  ASSUME NEW target, target \in Seq(ElementsOf(target)), NEW commit, IsPinCommit(commit)
  PROVE  B!DivergenceFor(target, commit) = B!ToTell(target, commit)
  <1> DEFINE pinned == B!ByName(target)
             differs(p) == p.name \in DOMAIN pinned /\ pinned[p.name] # p
             divergent == IF commit.pins = Null THEN {} ELSE {p.name : p \in {p \in B!ToSet(commit.pins) : differs(p)}}
             touched == {B!ApplicationOfPath(commit.apps, path) : path \in commit.touched} \ {Null}
             is(i) == \A j \in DOMAIN target : target[j].name = target[i].name => j <= i
             other(p) == \E i \in DOMAIN target : target[i].name = p.name /\ is(i) /\ target[i] # p
             differing == B!Differing(target, commit.pins)
             owners == UNION {B!OwnersOf(commit.apps, path) : path \in commit.touched}
  <1>1. B!DivergenceFor(target, commit) =
          IF divergent = {} \/ touched = {} THEN divergent
          ELSE divergent \cap B!ReachableAppNames(commit.apps, touched)
    BY Zenon DEF B!DivergenceFor
  <1>2. B!ToTell(target, commit) = IF owners = {} THEN differing ELSE differing \cap B!Reached(commit.apps, owners)
    BY Zenon DEF B!ToTell
  <1>3. divergent = differing
    <2>1. differing = IF commit.pins = Null THEN {} ELSE {p.name : p \in {p \in B!ToSet(commit.pins) : other(p)}}
      BY Zenon DEF B!Differing
    <2>2. \A p : differs(p) <=> other(p)
      BY DiffersFromTheLast
    <2> HIDE DEF differs, other, differing
    <2> QED
      BY <2>1, <2>2
  <1>4. touched = owners
    <2>1. \A path : {B!ApplicationOfPath(commit.apps, path)} \ {Null} = B!OwnersOf(commit.apps, path)
      BY OwnersAreTheDeepest DEF IsPinCommit
    <2> QED
      BY <2>1
  <1>5. B!ReachableAppNames(commit.apps, owners) = B!Reached(commit.apps, owners)
    BY ReachedIsLeast DEF IsPinCommit
  <1> HIDE DEF divergent, differing, touched, owners
  <1> QED
    BY <1>1, <1>2, <1>3, <1>4, <1>5

(* A batch of commits that were read. *)
IsReachQuestion(q) ==
  /\ q.target \in Seq(ElementsOf(q.target))
  /\ q.batch \in Seq(DOMAIN q.commits)
  /\ \A sha \in DOMAIN q.commits : IsPinCommit(q.commits[sha])

LEMMA BatchesAreTold ==
  ASSUME NEW q, IsReachQuestion(q)
  PROVE  B!DivergenceIsReached(q)
  <1> DEFINE N == Len(q.batch)
             shas == DOMAIN q.commits
             told(sha) == B!ToTell(q.target, q.commits[sha])
             step(i, before) == B!Diverging(q.target, before.memo, q.batch[i], q.commits[q.batch[i]])
             start == [answer |-> {}, memo |-> [sha \in {} |-> {}]]
             Walks(g) == g = [i \in 0..N |-> IF i = 0 THEN start ELSE step(i, g[i - 1])]
             f == CHOOSE g : Walks(g)
             answers == {{}} \cup {told(sha) : sha \in shas}
             memos == UNION {[known -> answers] : known \in SUBSET shas}
             Good == {r \in [answer : answers, memo : memos] : \A sha \in DOMAIN r.memo : r.memo[sha] = told(sha)}
             steps == [i \in 1..N |-> [r \in Good |-> step(i, r)]]
  <1>1. N \in Nat /\ \A i \in 1..N : q.batch[i] \in shas
    BY DEF IsReachQuestion
  <1>2. B!DivergenceIsReached(q) <=> \A i \in 1..N : f[i].answer = told(q.batch[i])
    BY Zenon DEF B!DivergenceIsReached
  <1>3. \A sha \in shas : told(sha) = B!DivergenceFor(q.target, q.commits[sha])
    BY DivergenceIsTold DEF IsReachQuestion
  <1> HIDE DEF N, told
  <1>4. start \in Good
    <2>1. [sha \in {} |-> {}] \in [{} -> answers]
      OBVIOUS
    <2>2. [sha \in {} |-> {}] \in memos
      <3>1. {} \in SUBSET shas
        OBVIOUS
      <3> HIDE DEF answers
      <3> QED
        BY <2>1, <3>1
    <2> HIDE DEF memos
    <2> QED
      BY <2>2
  <1>5. ASSUME NEW i \in 1..N, NEW r \in Good
        PROVE  step(i, r) \in Good /\ step(i, r).answer = told(q.batch[i])
    <2> DEFINE sha == q.batch[i]
               found == B!DivergenceFor(q.target, q.commits[sha])
               more == [s \in DOMAIN r.memo \cup {sha} |-> IF s = sha THEN found ELSE r.memo[s]]
    <2>1. sha \in shas /\ found = told(sha) /\ told(sha) \in answers
      BY <1>1, <1>3
    <2>2. /\ r.memo \in memos /\ DOMAIN r.memo \subseteq shas /\ \A s \in DOMAIN r.memo : r.memo[s] = told(s)
          /\ \A s \in shas : told(s) \in answers
      <3>1. PICK known \in SUBSET shas : r.memo \in [known -> answers]
        OBVIOUS
      <3> QED
        BY <3>1
    <2>3. step(i, r) = IF sha \in DOMAIN r.memo THEN [answer |-> r.memo[sha], memo |-> r.memo]
                       ELSE [answer |-> found, memo |-> more]
      BY Zenon DEF B!Diverging
    <2> HIDE DEF step, sha, found, more, answers, memos
    <2>4. CASE sha \in DOMAIN r.memo
      BY <2>1, <2>2, <2>3, <2>4 DEF sha
    <2>5. CASE sha \notin DOMAIN r.memo
      <3>1. /\ more \in [DOMAIN r.memo \cup {sha} -> answers] /\ DOMAIN r.memo \cup {sha} \in SUBSET shas
            /\ \A s \in DOMAIN more : more[s] = told(s)
        BY <2>1, <2>2 DEF more
      <3>2. more \in memos
        BY <3>1 DEF memos
      <3> HIDE DEF more
      <3> QED
        BY <2>1, <2>3, <2>5, <3>1, <3>2 DEF sha
    <2> QED
      BY <2>4, <2>5
  <1> HIDE DEF step
  <1>6. \E g : Walks(g)
    <2>1. steps \in [1..N -> [Good -> Good]] /\ \A i \in 1..N : \A r \in Good : steps[i][r] = step(i, r)
      <3> HIDE DEF Good
      <3> QED
        BY <1>5
    <2> HIDE DEF steps, Good, start
    <2>2. PICK g : IsWalk(g, N, Good, start, steps)
      BY <1>1, <1>4, <2>1, StepsExist
    <2>3. ASSUME NEW i \in 1..N PROVE g[i] = step(i, g[i - 1])
      <3>1. i - 1 \in 0..N
        BY <1>1
      <3> QED
        BY <2>1, <2>2, <3>1 DEF IsWalk
    <2>4. Walks(g)
      BY <1>1, <2>2, <2>3 DEF IsWalk
    <2> QED
      BY <2>4
  <1>7. Walks(f)
    <2> HIDE DEF Walks
    <2> QED
      BY <1>6
  <1> HIDE DEF f, start, Good
  <1>8. f[0] = start /\ \A i \in 1..N : f[i] = step(i, f[i - 1])
    BY <1>1, <1>7
  <1> DEFINE P == {i \in 0..N : f[i] \in Good}
  <1>9. 0 \in P
    BY <1>1, <1>4, <1>8
  <1>10. \A i \in 1..N : i - 1 \in P => i \in P
    BY <1>5, <1>8
  <1>11. 0..N \subseteq P
    <2> HIDE DEF P
    <2> QED
      BY <1>1, <1>9, <1>10, UpTo
  <1>12. ASSUME NEW i \in 1..N PROVE f[i].answer = told(q.batch[i])
    <2>1. f[i - 1] \in Good
      BY <1>1, <1>11
    <2> QED
      BY <1>5, <1>8, <2>1
  <1> QED
    BY <1>2, <1>12

-----------------------------------------------------------------------------
(* An answer of the driver is what a command of it prints. *)
IsDriverQuestion(q) == \E payloads, commands : IsAnswerOf(q, payloads, commands)

(* Every lookup is right: a merge is taken apart into the commits that it      *)
(* brought in and no other, an abbreviated id names one commit or is refused,  *)
(* a divergence is told as far as applications reach, whatever a batch has     *)
(* checked before, and an answer of the driver is taken for what it is:        *)
(* walk_pr_branch and pr_commits_for, resolve_sha_prefix, divergence_for, and  *)
(* the decoding of crates/backhopper-driver, for every repository, object      *)
(* store, batch and answer.                                                   *)
THEOREM EveryLookupIsRight ==
  ASSUME WordSize \in Nat, WordSize > 17,
         asked.kind = "merge" => IsMergeQuestion(asked),
         asked.kind = "prefix" => IsPrefixQuestion(asked),
         asked.kind = "reach" => IsReachQuestion(asked),
         asked.kind = "answer" => IsDriverQuestion(asked)
  PROVE  LookupsHold
  <1>1. asked.kind = "merge" => G!MergesAreTakenApart(asked)
    BY MergesOfHistories
  <1>2. asked.kind = "prefix" => G!PrefixesHold(asked)
    BY PrefixesOfIds
  <1>3. asked.kind = "reach" => B!DivergenceIsReached(asked)
    BY BatchesAreTold
  <1>4. asked.kind = "answer" => D!AnswersAreDecoded(asked)
    BY AnswersAreUnderstood DEF IsDriverQuestion
  <1> QED
    BY <1>1, <1>2, <1>3, <1>4 DEF LookupsHold
=============================================================================
