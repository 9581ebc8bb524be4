---------------------------- MODULE MCEvaluation ----------------------------
(***************************************************************************)
(* A library at two pins, with a function of two arities, a type and a     *)
(* record, a behaviour with two callbacks and a module that implements it; *)
(* a program beside it; and a patch that refers to all of them.  Shapes to *)
(* compare.  And what a plan of suites is asked of.                        *)
(***************************************************************************)
EXTENDS Evaluation, TLC

F1 == <<"f", 1>>
F2 == <<"f", 2>>
T0 == <<"t", 0>>

Bare ==
  [hidden |-> FALSE, exports |-> {F1}, types |-> {}, specs |-> <<>>, deprecated |-> {},
   clauses |-> <<>>, callbacks |-> <<>>, optional |-> {}, behaviours |-> {},
   versioned |-> FALSE, wire |-> {}, options |-> <<>>]

Returning(a, r) == [args |-> a, returns |-> {NamedShape("atom", r)}]

Specs == {<<>>, F1 :> Returning("x", "ok"), F1 :> Returning("y", "ok"), F1 :> Returning("x", "no")}

(* Absent, or with some of its exports and one thing more. *)
Libraries ==
  {<<>>} \cup
  {"lib" :> m : m \in {[Bare EXCEPT !.exports = e, !.specs = s] : e \in SUBSET {F1, F2}, s \in Specs}
                        \cup {[Bare EXCEPT !.hidden = TRUE], [Bare EXCEPT !.deprecated = {<<"f">>}],
                              [Bare EXCEPT !.types = {T0}], [Bare EXCEPT !.clauses = F1 :> {<<Shape("list")>>}]}}

Records == {<<>>, "r" :> <<"a">>, "r" :> <<"a", "b">>}

Program == [modules |-> "app" :> Bare, records |-> <<>>]

Call(s) == [symbol |-> s, args |-> <<Shape("integer")>>]

FunctionF == Symbol("function", "lib", "f", 1)
AnyF == Symbol("any", "lib", "f", Null)
RecordR == Symbol("record", Null, "r", Null)
TypeT == Symbol("type", "lib", "t", 0)
Always == {Symbol("function", "app", "f", 1), Symbol("function", "else", "f", 1)}

NoFamily == [machines |-> {}, wire |-> <<>>, behaviours |-> {}, options |-> {}]

Refers(function, any, others, defined) ==
  LET origin(s) == CASE s = FunctionF -> function [] s = AnyF -> any [] OTHER -> "added"
      named == {FunctionF, AnyF} \cup others \cup Always
  IN  [references |-> [s \in {x \in named : origin(x) # "none"} |-> origin(s)],
       defined |-> defined, calls |-> <<Call(FunctionF)>>, files |-> {}]

Origins == {"none", "added", "context"}

ReferenceSeeds == [kind : {"references"}, source : Libraries, records : Records]

ReferenceQuestions(seed) ==
  {[kind |-> "evaluation", target |-> [modules |-> t, records |-> "r" :> <<"a">>],
    source |-> [modules |-> seed.source, records |-> seed.records],
    pins |-> {[modules |-> t, records |-> "r" :> <<"a">>], Program},
    family |-> NoFamily, otp |-> <<>>, patch |-> Refers(f, a, o, d)] :
     t \in Libraries, f \in Origins, a \in Origins,
     o \in {{}, {RecordR, TypeT}}, d \in {{}, {FunctionF}}}

-----------------------------------------------------------------------------
(* The behaviour, its implementer, and the modules a family names.          *)

Init1 == <<"init", 1>>
Init2 == <<"init", 2>>

(* A callback is not declared, required with one of two specs, or optional. *)
Declared == [{Init1, Init2} -> {"absent", "required", "other", "optional"}]

BehaviourOf(declared) ==
  LET callbacks == {cb \in {Init1, Init2} : declared[cb] # "absent"}
  IN  [Bare EXCEPT !.callbacks = [cb \in callbacks |->
                                    Returning("x", IF declared[cb] = "other" THEN "no" ELSE "ok")],
                   !.optional = {cb \in callbacks : declared[cb] = "optional"}]

Implements(exports) == [Bare EXCEPT !.behaviours = {"beh"}, !.exports = exports]

FileOf(exports, new, keys) ==
  [module |-> "impl", erl |-> TRUE, elixir |-> FALSE, added |-> TRUE, new |-> new, complete |-> TRUE,
   behaviours |-> {"beh"}, exports |-> exports, keys |-> keys]

Family ==
  [machines |-> {"impl"}, wire |-> "impl" :> {"v1", "v2"}, behaviours |-> {"beh"},
   options |-> {[module |-> "beh", type |-> "opts"]}]

Options(keys) == "opts" :> [set |-> "closed", keys |-> keys]

Pin(declared, exports, keys, wire) ==
  [modules |-> "beh" :> [BehaviourOf(declared) EXCEPT !.options = Options(keys)]
                 @@ "impl" :> [Implements(exports) EXCEPT !.wire = wire, !.versioned = wire # {}],
   records |-> <<>>]

CallbackSeeds == [kind : {"callbacks"}, source : Declared, exports : SUBSET {Init1, Init2}]

CallbackQuestions(seed) ==
  {[kind |-> "evaluation", target |-> Pin(t, seed.exports, {"k"}, w),
    source |-> Pin(seed.source, seed.exports, {"k", "l"}, {"v1"}),
    pins |-> {Pin(t, seed.exports, {"k"}, w), Program}, family |-> Family, otp |-> <<>>,
    patch |-> [references |-> [s \in Always |-> "added"], defined |-> {}, calls |-> <<>>,
               files |-> {FileOf(e, n, {"k", "l"})}]] :
     t \in Declared, e \in SUBSET {Init1, Init2}, n \in BOOLEAN, w \in {{}, {"v1"}, {"v2"}}}

-----------------------------------------------------------------------------
(* Shapes to compare, of arguments and of return types. *)

Opaque == {Shape(k) : k \in {"unknown", "variable", "float", "binary", "list", "fun"}}

NamedShapes == {NamedShape(k, n) : k \in {"atom", "record"}, n \in {"a", "r"}}

ArgShapes == Opaque \cup NamedShapes \cup {Shape("integer"), Shape("string"), OfSize(1), OfSize(2)}

ReturnTypes ==
  Opaque \cup NamedShapes \cup {Shape("map"), OfSize(1), OfSize(2)}
    \cup {Tagged(t, n) : t \in {"a", "r"}, n \in 1..2}
    \cup {IntegerOf(0), IntegerOf(3), RangeOf(0, 1), RangeOf(1, 3)}
    \cup {Builtin(b) : b \in {"term", "integer", "binary", "atom", "neg_integer"}}
    \cup {TypeCall("a"), TypeCall("r")}

ShapeSeeds == [kind : {"args"}, first : ArgShapes] \cup [kind : {"returns"}, first : ReturnTypes]

ShapeQuestions(seed) ==
  LET shapes == IF seed.kind = "args" THEN ArgShapes ELSE ReturnTypes
  IN  {[kind |-> "shapes", of |-> seed.kind, a |-> seed.first, b |-> b, c |-> c] :
         b \in shapes, c \in shapes}

-----------------------------------------------------------------------------
(* Two applications with modules m and n, and o, which b's rule and sweep    *)
(* depend on; four suites, of which one may refer to any module.  With a     *)
(* Floor of 2 a module of two suites of the four is broad.                   *)

SourceOf(m, app) == [file |-> "source", module |-> m, app |-> app]
SuiteFile(s) == [file |-> "suite", module |-> s[2], app |-> s[1]]
Header == [file |-> "other", module |-> Null, app |-> "a"]

(* Two applications may have suites of one name. *)
SuiteNames == <<<<"a", "s">>, <<"a", "unit">>, <<"b", "s">>, <<"b", "t">>>>

Modifiable == {SourceOf("m", "a"), SourceOf("n", "a"), SourceOf("o", "b"), SourceOf("i", Null), Header}

PlanSeeds ==
  [kind : {"plan"}, refs : {r \in [DOMAIN SuiteNames -> SUBSET {"m", "n", "o"}] :
                            /\ r[2] \in SUBSET {"m", "n"} /\ r[3] \in SUBSET {"m", "o"}
                            /\ r[4] \in {{}, {"m"}}}]

Rule(fires, dependency) ==
  [name |-> "rule", fires |-> fires, suites |-> {<<"b", "t">>}, templates |-> {}, dependency |-> dependency]

PlanQuestions(seed) ==
  {[kind |-> "suites", paths |-> p \cup t, libraries |-> l, implementers |-> "o" :> {"n"},
    suites |-> [i \in DOMAIN SuiteNames |-> [app |-> SuiteNames[i][1], module |-> SuiteNames[i][2], refs |-> seed.refs[i],
                                        swept |-> SuiteNames[i][2] = "unit"]],
    rules |-> {Rule(p \cap {Header}, IF l = {} THEN {} ELSE {"m"})}] :
     p \in SUBSET Modifiable, t \in {{}, {SuiteFile(SuiteNames[2])}, {SuiteFile(SuiteNames[3])}}, l \in {{}, {"a"}}}
=============================================================================
