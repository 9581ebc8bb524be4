------------------------------- MODULE Shapes -------------------------------
(***************************************************************************)
(* The coarse shapes of terms that a call is compared by: of arguments and *)
(* the patterns of clause heads, and of the types a spec returns.          *)
(*                                                                         *)
(* A shape has a kind and what is kept of it: the name of an atom, of a    *)
(* record, of a type or of a variable, the number of elements of a tuple,  *)
(* the bounds of a range.  A return type is a set of alternatives.         *)
(***************************************************************************)
EXTENDS Integers, Sequences

Shape(kind) == [kind |-> kind]
NamedShape(kind, name) == [kind |-> kind, name |-> name]
OfSize(size) == [kind |-> "tuple", size |-> size]

-----------------------------------------------------------------------------
(* Arguments.  A variable and what is not recognised accept anything.       *)

Accepting == {"unknown", "variable"}

Satisfies(actual, pattern) ==
  \/ actual.kind \in Accepting \/ pattern.kind \in Accepting
  \/ actual = pattern

SatisfiesAny(args, clauses) ==
  clauses = {} \/ \E c \in clauses : /\ Len(c) = Len(args)
                                     /\ \A i \in DOMAIN args : Satisfies(args[i], c[i])

-----------------------------------------------------------------------------
(* Return types.                                                            *)

Tagged(tag, size) == [kind |-> "tagged", name |-> tag, size |-> size]
RangeOf(low, high) == [kind |-> "range", low |-> low, high |-> high]
IntegerOf(n) == [kind |-> "integer", value |-> n]
TypeCall(name) == NamedShape("type", name)
Builtin(name) == NamedShape("builtin", name)

Universal == {"term", "any", "dynamic"}
BuiltinsOf ==
  [integer |-> {"integer", "non_neg_integer", "pos_integer"},
   range   |-> {"integer", "non_neg_integer", "pos_integer", "neg_integer", "number"},
   binary  |-> {"binary", "bitstring", "nonempty_binary", "nonempty_bitstring"}]

(* One shape against another: alike, a tuple of the same size, a number in a *)
(* range, a literal of a built-in type.                                      *)
MeetsOneWay(a, b) ==
  \/ a.kind \in Accepting
  \/ a.kind = "builtin" /\ a.name \in Universal
  \/ a.kind = "tagged" /\ b.kind = "tuple" /\ a.size = b.size
  \/ a.kind = "integer" /\ b.kind = "range" /\ a.value \in b.low..b.high
  \/ a.kind = "atom" /\ b.kind = "builtin" /\ a.name = b.name
  \/ a.kind \in DOMAIN BuiltinsOf /\ b.kind = "builtin" /\ b.name \in BuiltinsOf[a.kind]

(* The element of a list, the keys of a map and the module of a type call    *)
(* are not looked at: the shape has none.                                    *)
MeetsAsWritten(a, b) == a = b \/ MeetsOneWay(a, b)

Meets(a, b) == a = b \/ MeetsOneWay(a, b) \/ MeetsOneWay(b, a)

(* No alternative at all is a type that was not understood. *)
Unknown == {}

Matches(pin, source) ==
  pin = Unknown \/ source = Unknown \/ \E a \in pin, b \in source : Meets(a, b)
=============================================================================
