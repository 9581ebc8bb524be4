----------------------------- MODULE Evaluation -----------------------------
(***************************************************************************)
(* The findings about one pin: what a patch refers to, against the snapshot*)
(* of the dependency at the pin and, when there is one, at the source.     *)
(*                                                                         *)
(* A snapshot maps the names of modules to what they declare, and names of *)
(* records to their fields.  A patch is what its analysis extracts: the    *)
(* symbols it refers to, each from an added line or from context, those it *)
(* defines, the arguments of its calls, and its files.  A family declares  *)
(* the modules of a project that need checks of their own.                 *)
(***************************************************************************)
EXTENDS Shapes, FiniteSets, SequencesExt

CONSTANT Null  \* no source snapshot, no spec, no module

Symbol(kind, module, name, arity) ==
  [kind |-> kind, module |-> module, name |-> name, arity |-> arity]

Key(s) == <<s.name, s.arity>>

-----------------------------------------------------------------------------
(* Snapshots.                                                                *)

Named(snap, m) == snap # Null /\ m \in DOMAIN snap.modules

Resolves(snap, s) ==
  IF s.kind = "record" THEN s.name \in DOMAIN snap.records
  ELSE /\ Named(snap, s.module)
       /\ LET m == snap.modules[s.module]
          IN  CASE s.kind = "function" -> Key(s) \in m.exports
                [] s.kind = "any"      -> \E e \in m.exports : e[1] = s.name
                [] s.kind = "type"     -> Key(s) \in m.types

SpecOf(snap, s) ==
  IF Named(snap, s.module) /\ Key(s) \in DOMAIN snap.modules[s.module].specs
  THEN snap.modules[s.module].specs[Key(s)] ELSE Null

SpecsDiffer(a, b, s) ==
  SpecOf(a, s) # Null /\ SpecOf(b, s) # Null /\ SpecOf(a, s) # SpecOf(b, s)

ImplementersOf(snap, b) == {m \in DOMAIN snap.modules : b \in snap.modules[m].behaviours}

(* A scope is the modules and the records that are tracked for the pin. *)
InScope(scope, s) ==
  scope = Null \/ (IF s.kind = "record" THEN s.name \in scope.records ELSE s.module \in scope.modules)

-----------------------------------------------------------------------------
(* One reference.                                                            *)

About(reason, s) == [reason |-> reason, symbol |-> s]

HiddenAtThePin(m, target, source) ==
  IF Named(source, m) /\ target.modules[m].hidden
  THEN {[reason |-> "now_hidden", module |-> m]} ELSE {}

HiddenTransition(m, target, source) ==
  IF Named(source, m) /\ target.modules[m].hidden /\ ~source.modules[m].hidden
  THEN {[reason |-> "now_hidden", module |-> m]} ELSE {}

(* A deprecation covers the module, every arity of a function, or one. *)
Deprecated(m, s) ==
  m.deprecated \cap {<<"all">>, <<s.name>>, Key(s)} # {}

ArityChanges(m, s) ==
  LET found == {e[2] : e \in {x \in m.exports : x[1] = s.name}}
  IN  IF found = {} THEN About("missing", s)
      ELSE [reason |-> "arity", symbol |-> s, found |-> found]

FunctionReasons(s, target, source) ==
  IF ~Named(target, s.module) THEN {About("missing", s)}
  ELSE LET m == target.modules[s.module]
       IN  HiddenTransition(s.module, target, source)
             \cup (IF Deprecated(m, s) THEN {About("deprecated", s)} ELSE {})
             \cup (IF ~Resolves(target, s) THEN {ArityChanges(m, s)}
                   ELSE IF SpecsDiffer(target, source, s) THEN {About("signature", s)} ELSE {})

AnyArityReasons(s, target, source) ==
  (IF Named(target, s.module) THEN HiddenTransition(s.module, target, source) ELSE {})
    \cup (IF Resolves(target, s) THEN {} ELSE {About("missing", s)})

RecordReasons(s, target, source) ==
  IF ~Resolves(target, s) THEN {About("missing", s)}
  ELSE IF source # Null /\ Resolves(source, s) /\ source.records[s.name] # target.records[s.name]
  THEN {About("fields", s)} ELSE {}

TypeReasons(s, target) == IF Resolves(target, s) THEN {} ELSE {About("missing_type", s)}

ReferenceReasons(s, target, source) ==
  CASE s.kind = "function" -> FunctionReasons(s, target, source)
    [] s.kind = "any"      -> AnyArityReasons(s, target, source)
    [] s.kind = "record"   -> RecordReasons(s, target, source)
    [] s.kind = "type"     -> TypeReasons(s, target)

(* What the patch defines itself is not looked up, and what its context lines *)
(* refer to is there already: it is only counted when it does not resolve.    *)
Referred(patch, origin, scope) ==
  {s \in DOMAIN patch.references \ patch.defined : patch.references[s] = origin /\ InScope(scope, s)}

TrackedRefs(patch, scope) == Referred(patch, "added", scope)

ContextMisses(patch, target, scope) ==
  {s \in Referred(patch, "context", scope) : s.kind # "record" /\ ~Resolves(target, s)}

SourceDeltas(patch, target, source, scope) ==
  {s \in TrackedRefs(patch, scope) : s.kind = "function" /\ SpecsDiffer(target, source, s)}

-----------------------------------------------------------------------------
(* Calls and what they return.                                               *)

(* The first call of a function that no clause takes; not where the signature *)
(* is known to have changed.                                                  *)
ClauseMismatches(patch, target, scope, reasons) ==
  {About("clauses", c.symbol) : c \in
     {d \in ToSet(patch.calls) :
        /\ InScope(scope, d.symbol) /\ About("signature", d.symbol) \notin reasons
        /\ Named(target, d.symbol.module)
        /\ LET clauses == target.modules[d.symbol.module].clauses
           IN  Key(d.symbol) \in DOMAIN clauses /\ ~SatisfiesAny(d.args, clauses[Key(d.symbol)])}}

ReturnShapes(patch, target, source, scope) ==
  {About("returns", s) : s \in
     {r \in DOMAIN patch.references :
        /\ r.kind = "function" /\ patch.references[r] = "added" /\ InScope(scope, r)
        /\ SpecsDiffer(target, source, r)
        /\ ~Matches(SpecOf(target, r).returns, SpecOf(source, r).returns)}}

-----------------------------------------------------------------------------
(* The behaviours of the dependency and the modules of it that implement     *)
(* them.                                                                     *)

SignaturesDiffer(a, b) == a # b /\ a.returns # b.returns

CallbackReason(reason, b, cb, m) ==
  [reason |-> reason, behaviour |-> b, callback |-> cb, implementer |-> m]

NewlyDeclared(old, new) == DOMAIN new.callbacks \ DOMAIN old.callbacks

(* What a behaviour requires now and did not know before. *)
NewlyRequired(old, new) == DOMAIN new.callbacks \ (DOMAIN old.callbacks \cup new.optional)

Changed(old, new) ==
  {cb \in DOMAIN old.callbacks \cap DOMAIN new.callbacks :
     SignaturesDiffer(old.callbacks[cb], new.callbacks[cb])}

BehaviourConformance(target, source, scope) ==
  LET compared == {b \in DOMAIN source.modules \cap DOMAIN target.modules :
                     DOMAIN source.modules[b].callbacks # {} \/ source.modules[b].optional # {}}
      implementers(b) == {m \in ImplementersOf(target, b) : scope = Null \/ m \in scope.modules}
      changed(b) == Changed(target.modules[b], source.modules[b])
      added(b) == NewlyRequired(target.modules[b], source.modules[b])
      removed(b) == NewlyRequired(source.modules[b], target.modules[b])
      exports(m) == target.modules[m].exports
  IN  UNION {UNION {
        {CallbackReason("callback_changed", b, cb, m) : cb \in changed(b)}
          \cup {CallbackReason("callback_added", b, cb, m) : cb \in added(b) \ exports(m)}
          \cup {CallbackReason("callback_removed", b, cb, m) : cb \in removed(b) \cap exports(m)}
        : m \in implementers(b)} : b \in compared}

-----------------------------------------------------------------------------
(* The files of the patch that a family names.                               *)

Touched(patch) == {f.module : f \in patch.files}

(* On which sides something is missing; without a source only the target's. *)
Sides(target, source, missing(_)) ==
  {side \in {"target", "source"} :
     IF side = "target" THEN missing(target) ELSE source # Null /\ missing(source)}

UnversionedOn(m, target, source) ==
  Sides(target, source, LAMBDA snap : ~(Named(snap, m) /\ snap.modules[m].versioned))

MachineVersions(patch, target, source, family) ==
  {[reason |-> "machine_version", module |-> m, sides |-> UnversionedOn(m, target, source)] :
     m \in {x \in family.machines \cap Touched(patch) : UnversionedOn(x, target, source) # {}}}

WireGap(snap, m, family) ==
  family.wire[m] \ (IF Named(snap, m) THEN snap.modules[m].wire ELSE {})

WireGaps(m, target, source, family) ==
  ({WireGap(target, m, family)} \cup (IF source = Null THEN {} ELSE {WireGap(source, m, family)})) \ {{}}

WireReason(m, macros, target, source, family) ==
  [reason |-> "wire_constants", module |-> m, macros |-> macros,
   sides |-> Sides(target, source, LAMBDA snap : WireGap(snap, m, family) = macros)]

WireConstants(patch, target, source, family) ==
  UNION {{WireReason(m, macros, target, source, family) : macros \in WireGaps(m, target, source, family)}
         : m \in DOMAIN family.wire \cap Touched(patch)}

(* A module with two behaviours may have a callback of the one that the other *)
(* does not know, or knows with another arity.                                *)
ConformsToSibling(f, b, key, target, source, otp) ==
  \E other \in f.behaviours \ {b} :
    \/ other \in DOMAIN otp /\ key \in otp[other]
    \/ \E snap \in {target, source} :
         /\ Named(snap, other)
         /\ key \in DOMAIN snap.modules[other].callbacks \cup snap.modules[other].optional

UnknownCallbacks(f, b, introduced, target, source, otp) ==
  LET pin == DOMAIN target.modules[b].callbacks \cup target.modules[b].optional
      anchored(key) == \E cb \in pin : cb[1] = key[1]
  IN  {key \in introduced \ pin :
         IF Named(source, b) THEN key \in DOMAIN source.modules[b].callbacks
         ELSE anchored(key) /\ ~ConformsToSibling(f, b, key, target, source, otp)}

(* Only a new file shows all that it exports. *)
MissingCallbacks(f, b, target) ==
  IF ~f.new \/ ~f.complete THEN {}
  ELSE DOMAIN target.modules[b].callbacks \ (target.modules[b].optional \cup f.exports)

(* What the patch exports from a file, or defines in its module. *)
Introduced(patch, f) ==
  f.exports \cup {Key(s) : s \in {d \in patch.defined : d.kind = "function" /\ d.module = f.module}}

FileBehaviours(patch, f, b, target, source, otp) ==
  {CallbackReason("callback_unknown", b, cb, f.module) :
     cb \in UnknownCallbacks(f, b, Introduced(patch, f), target, source, otp)}
    \cup {CallbackReason("callback_missing", b, cb, f.module) : cb \in MissingCallbacks(f, b, target)}

DepBehaviours(patch, target, source, family, otp) ==
  LET matched(f) == {b \in f.behaviours \cap family.behaviours : Named(target, b)}
  IN  UNION {UNION {FileBehaviours(patch, f, b, target, source, otp) : b \in matched(f)}
             : f \in {x \in patch.files : x.erl /\ x.added}}

(* The keys of an option type are known when the type is closed; of an open   *)
(* one, only some.                                                            *)
OptionKeys(snap, o) ==
  IF Named(snap, o.module) /\ o.type \in DOMAIN snap.modules[o.module].options
  THEN snap.modules[o.module].options[o.type] ELSE Null

DriftedKeys(target, source, o) ==
  LET new == OptionKeys(source, o)
      old == OptionKeys(target, o)
  IN  IF new = Null \/ old = Null THEN {}
      ELSE IF old.set # "closed" THEN {} ELSE new.keys \ old.keys

OptionKeyDrift(patch, target, source, family) ==
  IF source = Null THEN {}
  ELSE UNION {UNION {{[reason |-> "option_key", type |-> o.type, key |-> k] :
                        k \in f.keys \cap DriftedKeys(target, source, o)}
                     : f \in {x \in patch.files : x.erl /\ x.added}} : o \in family.options}

-----------------------------------------------------------------------------
(* One pin, and all pins of a series.                                        *)

Evaluated(patch, target, source, scope, family, otp) ==
  LET references == UNION {ReferenceReasons(s, target, source) : s \in TrackedRefs(patch, scope)}
      declared == MachineVersions(patch, target, source, family)
                    \cup WireConstants(patch, target, source, family)
                    \cup DepBehaviours(patch, target, source, family, otp)
                    \cup OptionKeyDrift(patch, target, source, family)
      compared == IF source = Null THEN {}
                  ELSE BehaviourConformance(target, source, scope)
                         \cup ReturnShapes(patch, target, source, scope)
      unsupported == {[reason |-> "unsupported", module |-> f.module] : f \in {x \in patch.files : x.elixir}}
  IN  declared \cup references \cup ClauseMismatches(patch, target, scope, references)
        \cup compared \cup unsupported

(* The scope of a pin: the modules and records of its snapshot, and modules  *)
(* the config adds.                                                          *)
ScopeOf(snap, extra) ==
  [modules |-> DOMAIN snap.modules \cup extra, records |-> DOMAIN snap.records]

UntrackedSomewhere(patch, scopes) ==
  {s \in DOMAIN patch.references \ patch.defined :
     s.kind # "type" /\ \E scope \in scopes : ~InScope(scope, s)}

Untracked(patch, scopes) ==
  {s \in DOMAIN patch.references \ patch.defined :
     s.kind # "type" /\ \A scope \in scopes : ~InScope(scope, s)}
-----------------------------------------------------------------------------
(* Properties, of a question: a patch, a pin and a source, what the project   *)
(* declares of itself and knows of OTP, and the pins of a series.             *)

Answers(q, target, source, scope) == Evaluated(q.patch, target, source, scope, q.family, q.otp)

Missing == {"missing", "arity", "missing_type"}

(* A reference that the patch adds is answered by the one pin of a series it  *)
(* belongs to, which misses it exactly when it does not resolve there, or it  *)
(* is counted as untracked (evaluate_series sums the pins, each with a scope  *)
(* of its own).                                                               *)
AnswersReferences(q) ==
  LET scope(pin) == ScopeOf(pin, {})
      added == {s \in DOMAIN q.patch.references \ q.patch.defined : q.patch.references[s] = "added"}
      trackers(s) == {pin \in q.pins : s \in TrackedRefs(q.patch, scope(pin))}
      untracked == Untracked(q.patch, {scope(pin) : pin \in q.pins})
      missed == {r.symbol : r \in {x \in UNION {Answers(q, pin, Null, scope(pin)) : pin \in q.pins} :
                                     x.reason \in Missing}}
  IN  /\ \A s \in added : s.kind # "type" => Cardinality(trackers(s)) = IF s \in untracked THEN 0 ELSE 1
      /\ missed = {s \in added : \E pin \in trackers(s) : ~Resolves(pin, s)}

Unsided(reasons) ==
  {[f \in DOMAIN r \ {"sides"} |-> r[f]] : r \in reasons}

(* A source that is the pin itself adds nothing: what is reported then is     *)
(* reported without a source, and what goes is what was guessed by the name   *)
(* of a callback (Tier 2 of check_dep_behaviour_conformance).                 *)
DriftNeedsADifference(q) ==
  LET alone == Answers(q, q.target, Null, Null)
      same == Answers(q, q.target, q.target, Null)
  IN  /\ Unsided(same) \subseteq Unsided(alone)
      /\ \A r \in alone : r.reason # "callback_unknown" => Unsided({r}) \subseteq Unsided(same)
      /\ \A r \in Answers(q, q.target, q.source, Null) :
           r.reason = "signature" => r.symbol \in SourceDeltas(q.patch, q.target, q.source, Null)

(* An implementer that has all its behaviour requires at the pin, and lacks   *)
(* what the source requires, is reported, unless the callback was optional at *)
(* the pin; nothing is asked of it that it has.                               *)
CallbackGapsAreReported(q) ==
  LET reasons == {r \in Answers(q, q.target, q.source, Null) : r.reason = "callback_added"}
      required(pin, b) == DOMAIN pin.modules[b].callbacks \ pin.modules[b].optional
      added(b, m) == {r.callback : r \in {x \in reasons : x.behaviour = b /\ x.implementer = m}}
  IN  \A b \in DOMAIN q.target.modules \cap DOMAIN q.source.modules :
      \A m \in ImplementersOf(q.target, b) :
        LET has == q.target.modules[m].exports
        IN  /\ added(b, m) \cap has = {}
            /\ required(q.target, b) \subseteq has =>
                 added(b, m) = required(q.source, b) \ (has \cup q.target.modules[b].optional)

ReportsDrift(q) == DriftNeedsADifference(q) /\ CallbackGapsAreReported(q)
=============================================================================
