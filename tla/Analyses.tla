------------------------------ MODULE Analyses ------------------------------
(***************************************************************************)
(* What is asked of the analyses that evaluate a pin, compare shapes, plan *)
(* the suites and look things up in a repository, and what is right of     *)
(* every answer: `asked` is the present question, a record of its kind and *)
(* of what the analysis is given.                                          *)
(***************************************************************************)
EXTENDS Evaluation

\* The names of atoms, the sizes of tuples and the numbers there are.
CONSTANTS Floor, AtomNames, TupleSizes, IntegerValues

\* What the modules of the questions declare.
CONSTANTS Malformed, NotText, WordSize, Slack

ASSUME TermsExist == TupleSizes # {} /\ IntegerValues # {}

VARIABLE asked

L == INSTANCE SuitePlan
G == INSTANCE MCGitHistory
B == INSTANCE MCDepPins
D == INSTANCE MCDriverApi

-----------------------------------------------------------------------------
(* The terms of Erlang, as far as a shape tells them apart.  A tuple has its *)
(* first element if that is an atom, and a record is such a tuple.           *)
Atom(a) == [term |-> "atom", name |-> a]
Number(n) == [term |-> "integer", value |-> n]
Tuple(tag, size) == [term |-> "tuple", tag |-> tag, size |-> size]
Other(kind) == [term |-> kind]

Tuples == {Tuple(tag, size) : tag \in AtomNames \cup {Null}, size \in TupleSizes}
Lists == {Other("nil"), Other("string"), Other("list")}
Terms == {Atom(a) : a \in AtomNames} \cup {Number(n) : n \in IntegerValues} \cup Tuples \cup Lists
           \cup {Other("float"), Other("binary"), Other("map"), Other("fun")}

(* The terms that may be of a shape: of a named type, any. *)
Denoted(s) ==
  CASE s.kind \in {"unknown", "variable", "builtin", "type"} -> Terms
    [] s.kind = "atom"    -> {Atom(s.name)}
    [] s.kind = "integer" -> IF "value" \in DOMAIN s THEN {Number(s.value)} ELSE {Number(n) : n \in IntegerValues}
    [] s.kind = "range"   -> {Number(n) : n \in s.low..s.high}
    [] s.kind = "tuple"   -> {t \in Tuples : t.size = s.size}
    [] s.kind = "tagged"  -> {Tuple(s.name, s.size)}
    [] s.kind = "record"  -> {t \in Tuples : t.tag = s.name}
    [] s.kind = "list"    -> Lists
    [] s.kind = "string"  -> {Other("nil"), Other("string")}
    [] OTHER -> {Other(s.kind)}

(* What is refused although a term may be of both: a string and a list, a     *)
(* record and a tuple, two ranges that overlap, and a named type beside what  *)
(* the code does not list for it.                                             *)
OfOneName(s) == s.kind = "type" \/ (s.kind = "builtin" /\ s.name \notin Universal)
Guessed(a, b) ==
  \/ OfOneName(a) \/ OfOneName(b)
  \/ {a.kind, b.kind} \in {{"string", "list"}, {"tuple", "record"}, {"tagged", "record"}, {"range"}}

Accepted(q, a, b) == IF q.of = "args" THEN SatisfiesAny(<<a>>, {<<b>>}) ELSE Matches({a}, {b})

-----------------------------------------------------------------------------
(* A call is refused by a clause, and a return type by another, only when no  *)
(* term is of both shapes; and when no term is, they are refused (the promise *)
(* of arg_shape.rs and spec_ast.rs, but for what is guessed).  Of two types   *)
(* neither order nor a further alternative makes a mismatch.                  *)
MismatchesAreProof ==
  asked.kind = "shapes" =>
    LET a == asked.a  b == asked.b  c == asked.c
        common == Denoted(a) \cap Denoted(b)
    IN  /\ Accepted(asked, a, b) => common # {}
        /\ common # {} => (Accepted(asked, a, b) \/ Guessed(a, b))
        /\ asked.of = "returns" => /\ Matches({a}, {b}) <=> Matches({b}, {a})
                                   /\ Matches({a}, {b, c}) <=> (Matches({a}, {b}) \/ Matches({a}, {c}))

(* A reference that a patch adds resolves, is reported missing by the one pin *)
(* it belongs to, or is counted as untracked (evaluate.rs).                   *)
ReferencesAreAnswered == asked.kind = "evaluation" => AnswersReferences(asked)

(* A source adds to a verdict what differs from the pin, and reports an       *)
(* implementer that lacks a new callback (evaluate.rs).                       *)
DriftIsReported == asked.kind = "evaluation" => ReportsDrift(asked)

(* What was modified is selected, broad or uncovered (suites/rules.rs).       *)
PlanAccountsForEverything == asked.kind = "suites" => L!PlanAccountsForEverything(asked)

(* A merge is taken apart into what it brought in, and a prefix names one       *)
(* commit (MCGitHistory); the pins that differ are told as far as the           *)
(* applications of a commit reach (MCDepPins); and what is taken from an answer *)
(* of the driver is what is in it (MCDriverApi).                                *)
LookupsHold ==
  /\ asked.kind = "merge" => G!MergesAreTakenApart(asked)
  /\ asked.kind = "prefix" => G!PrefixesHold(asked)
  /\ asked.kind = "reach" => B!DivergenceIsReached(asked)
  /\ asked.kind = "answer" => D!AnswersAreDecoded(asked)
=============================================================================
