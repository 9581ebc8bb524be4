-------------------------- MODULE ConfigFileProofs --------------------------
(***************************************************************************)
(* What holds of the config file for any number of verbs of any number of  *)
(* processes, on any projects, series, tags and branches.                  *)
(*                                                                         *)
(* The argument has two halves.  One is about the edits: a sync or a stub  *)
(* changes its own block or adds to the end, and what it reports is in the *)
(* text it leaves.  The other is about who may have come between: as long  *)
(* as nobody wrote since a process read, the text it edits is the one on   *)
(* disk, with every promise in it and every name it uses declared.         *)
(***************************************************************************)
EXTENDS ConfigFile, FiniteSetTheorems, FunctionTheorems, SequenceTheorems, TLAPS

-----------------------------------------------------------------------------
(* The least and the greatest of a set of numbers, and the enumeration of a  *)
(* finite set.  There is no induction over an operator here: the order of    *)
(* the finite sets by inclusion is well founded, and so has least elements.  *)

LEMMA LeastExists ==
  ASSUME NEW T \in SUBSET Nat, T # {}
  PROVE \E x \in T : \A y \in T : x <= y
  <1> DEFINE U == {0..x : x \in T}
  <1>1. U # {} /\ U \subseteq FiniteSubsetsOf(Nat)
    <2>1. ASSUME NEW x \in T PROVE 0..x \in FiniteSubsetsOf(Nat)
      <3>1. IsFiniteSet(0..x)
        BY FS_Interval
      <3>2. 0..x \subseteq Nat
        OBVIOUS
      <3> QED
        BY <3>1, <3>2 DEF FiniteSubsetsOf
    <2> QED
      BY <2>1
  <1>2. IsWellFoundedOn(StrictSubsetOrdering(Nat), FiniteSubsetsOf(Nat))
    BY FS_StrictSubsetOrderingWellFounded
  <1> HIDE DEF U
  <1>3. PICK u \in U : \A v \in U : <<v, u>> \notin StrictSubsetOrdering(Nat)
    BY <1>1, <1>2, WFMin
  <1>4. PICK x \in T : u = 0..x
    BY DEF U
  <1>5. ASSUME NEW y \in T, y < x PROVE FALSE
    <2>1. 0..y \in U BY DEF U
    <2>2. 0..y \subseteq 0..x BY <1>5
    <2>3. x \in 0..x /\ x \notin 0..y BY <1>5
    <2>4. <<0..y, 0..x>> \in StrictSubsetOrdering(Nat)
      <3>1. 0..y \subseteq Nat /\ 0..x \subseteq Nat OBVIOUS
      <3>2. 0..y # 0..x BY <2>3
      <3> QED BY <2>2, <3>1, <3>2 DEF StrictSubsetOrdering
    <2> QED BY <1>3, <1>4, <2>1, <2>4
  <1> QED BY <1>5

LEMMA GreatestExists ==
  ASSUME NEW T \in SUBSET Nat, T # {}, IsFiniteSet(T)
  PROVE \E x \in T : \A y \in T : x >= y
  <1> DEFINE Above(x) == {y \in T : y > x}
             U == {Above(x) : x \in T}
  <1>1. U # {} /\ U \subseteq FiniteSubsetsOf(T)
    <2>1. ASSUME NEW x \in T PROVE Above(x) \in FiniteSubsetsOf(T)
      <3>1. Above(x) \in SUBSET T
        OBVIOUS
      <3> HIDE DEF Above
      <3>2. IsFiniteSet(Above(x))
        BY <3>1, FS_Subset
      <3> QED
        BY <3>1, <3>2 DEF FiniteSubsetsOf
    <2> QED
      BY <2>1
  <1>2. IsWellFoundedOn(StrictSubsetOrdering(T), FiniteSubsetsOf(T))
    BY FS_StrictSubsetOrderingWellFounded
  <1> HIDE DEF U
  <1>3. PICK u \in U : \A v \in U : <<v, u>> \notin StrictSubsetOrdering(T)
    BY <1>1, <1>2, WFMin
  <1>4. PICK x \in T : u = Above(x)
    BY DEF U
  <1>5. ASSUME NEW y \in T, y > x PROVE FALSE
    <2>1. Above(y) \in U BY DEF U
    <2>2. Above(y) \subseteq Above(x)
      <3> SUFFICES ASSUME NEW z \in T, z > y PROVE z > x
        OBVIOUS
      <3> QED BY <1>5
    <2>3. y \in Above(x) /\ y \notin Above(y) BY <1>5
    <2>4. <<Above(y), Above(x)>> \in StrictSubsetOrdering(T)
      BY <2>2, <2>3 DEF StrictSubsetOrdering
    <2> QED BY <1>3, <1>4, <2>1, <2>4
  <1> QED BY <1>5

LEMMA MinFacts ==
  ASSUME NEW T \in SUBSET Nat, T # {}
  PROVE Min(T) \in T /\ \A y \in T : Min(T) <= y
  BY LeastExists DEF Min

LEMMA MaxFacts ==
  ASSUME NEW T \in SUBSET Nat, T # {}, IsFiniteSet(T)
  PROVE Max(T) \in T /\ \A y \in T : Max(T) >= y
  BY GreatestExists DEF Max

LEMMA SetToSeqFacts ==
  ASSUME NEW S, IsFiniteSet(S)
  PROVE  /\ Cardinality(S) \in Nat
         /\ SetToSeq(S) \in [1..Cardinality(S) -> S]
         /\ \A i, j \in 1..Cardinality(S) : SetToSeq(S)[i] = SetToSeq(S)[j] => i = j
         /\ \A x \in S : \E i \in 1..Cardinality(S) : SetToSeq(S)[i] = x
  <1> DEFINE n == Cardinality(S)
  <1>1. n \in Nat /\ ExistsBijection(1..n, S)
    BY FS_CardinalityType
  <1>2. \E f \in [1..n -> S] : IsInjective(f)
    <2>1. PICK f \in Bijection(1..n, S) : TRUE
      BY <1>1, Fun_ExistsBij
    <2>2. f \in [1..n -> S] /\ \A a, b \in 1..n : f[a] = f[b] => a = b
      BY <2>1, Fun_BijectionProperties
    <2> QED BY <2>2 DEF IsInjective
  <1>3. SetToSeq(S) \in [1..n -> S] /\ IsInjective(SetToSeq(S))
    BY <1>2 DEF SetToSeq
  <1> HIDE DEF n
  <1> DEFINE f == SetToSeq(S)
  <1>4. f \in [1..n -> S] /\ \A a, b \in 1..n : f[a] = f[b] => a = b
    BY <1>3 DEF IsInjective
  <1> HIDE DEF f
  <1>5. f \in Injection(1..n, S)
    BY <1>4, Fun_IsInj
  <1>6. Cardinality(1..n) = n
    BY <1>1, FS_Interval
  <1>7. f \in Surjection(1..n, S)
    BY <1>5, <1>6, FS_Injection DEF n
  <1>8. \A x \in S : \E i \in 1..n : f[i] = x
    BY <1>7, Zenon DEF Surjection
  <1> QED BY <1>1, <1>4, <1>8 DEF f, n

-----------------------------------------------------------------------------
(* Sets of positions.                                                        *)

LEMMA Positions ==
  ASSUME NEW n \in Nat, NEW T \in SUBSET (1..n)
  PROVE  /\ IsFiniteSet(T) /\ T \subseteq Nat
         /\ T # {} => /\ Min(T) \in T /\ \A i \in T : Min(T) <= i
                      /\ Max(T) \in T /\ \A i \in T : Max(T) >= i
  <1>1. T \in SUBSET Nat /\ IsFiniteSet(1..n)
    BY FS_Interval
  <1>2. IsFiniteSet(T)
    BY <1>1, FS_Subset
  <1> QED
    BY <1>1, <1>2, MinFacts, MaxFacts

\* Of a set of at most one element, any two are equal.
LEMMA AtMostOne ==
  ASSUME NEW T, IsFiniteSet(T)
  PROVE  Cardinality(T) <= 1 <=> \A x, y \in T : x = y
  <1>1. CASE T = {}
    BY <1>1, FS_EmptySet
  <1>2. ASSUME NEW x \in T
        PROVE  Cardinality(T) <= 1 <=> \A y, z \in T : y = z
    <2>1. IsFiniteSet(T \ {x}) /\ Cardinality(T \ {x}) = Cardinality(T) - 1
      BY <1>2, FS_RemoveElement
    <2>2. Cardinality(T) \in Nat /\ Cardinality(T \ {x}) \in Nat
      BY <2>1, FS_CardinalityType
    <2>3. Cardinality(T \ {x}) = 0 <=> T \ {x} = {}
      BY <2>1, FS_EmptySet
    <2>4. Cardinality(T) <= 1 <=> T \ {x} = {}
      BY <2>1, <2>2, <2>3
    <2>5. T \ {x} = {} <=> \A y, z \in T : y = z
      BY <1>2
    <2> QED
      BY <2>4, <2>5
  <1> QED
    BY <1>1, <1>2

-----------------------------------------------------------------------------
(* The pins of a set of dependencies.                                        *)

IsDeps(deps) ==
  /\ IsFiniteSet(DOMAIN deps) /\ DOMAIN deps \subseteq Names
  /\ \A n \in DOMAIN deps : deps[n] \in Tags

LEMMA BranchDeps ==
  ASSUME NEW b \in Branches, NEW names
  PROVE  IsDeps(b.deps) /\ IsDeps(Inferred(b, names)) /\ b.series \in Series
         /\ DOMAIN Inferred(b, names) \subseteq names
  <1>1. /\ b.series \in Series
        /\ \E D \in SUBSET (Names \ {Self}) : b.deps \in [D -> Tags]
    BY ConfigAssumption
  <1>2. IsFiniteSet(DOMAIN b.deps)
    BY ConfigAssumption
  <1>3. IsDeps(b.deps)
    BY <1>1, <1>2 DEF IsDeps
  <1>4. IsFiniteSet(DOMAIN b.deps \cap names)
    BY <1>2, FS_Intersection
  <1> QED
    BY <1>1, <1>3, <1>4 DEF IsDeps, Inferred

\* Each dependency has one pin, and each pin is of a dependency.
LEMMA PinsOfFacts ==
  ASSUME NEW deps, IsDeps(deps)
  PROVE  /\ PinsOf(deps) \in Seq(Pin)
         /\ \A i \in DOMAIN PinsOf(deps) :
              /\ PinsOf(deps)[i].project \in DOMAIN deps
              /\ PinsOf(deps)[i] =
                   Literal(PinsOf(deps)[i].project, deps[PinsOf(deps)[i].project])
         /\ \A n \in DOMAIN deps : \E i \in DOMAIN PinsOf(deps) :
              PinsOf(deps)[i] = Literal(n, deps[n])
         /\ \A i, j \in DOMAIN PinsOf(deps) :
              PinsOf(deps)[i].project = PinsOf(deps)[j].project => i = j
  <1> DEFINE D == DOMAIN deps
             N == Cardinality(D)
             s == SetToSeq(D)
             pins == PinsOf(deps)
  <1>1. /\ N \in Nat /\ s \in [1..N -> D]
        /\ \A i, j \in 1..N : s[i] = s[j] => i = j
        /\ \A n \in D : \E i \in 1..N : s[i] = n
    BY SetToSeqFacts DEF IsDeps
  <1>2. pins = [i \in 1..N |-> Literal(s[i], deps[s[i]])]
    BY DEF PinsOf
  <1>3. \A n \in D : Literal(n, deps[n]) \in Pin /\ Literal(n, deps[n]).project = n
    BY DEF IsDeps, Literal, Pin
  <1> HIDE DEF D, N, s, pins
  <1>4. /\ DOMAIN pins = 1..N
        /\ \A i \in 1..N : pins[i] = Literal(s[i], deps[s[i]]) /\ s[i] \in D
    BY <1>1, <1>2
  <1>5. \A i \in 1..N : pins[i] \in Pin /\ pins[i].project = s[i]
    BY <1>3, <1>4
  <1>6. pins \in Seq(Pin)
    BY <1>1, <1>2, <1>4, <1>5
  <1>7. \A i \in DOMAIN pins :
          pins[i].project \in D /\ pins[i] = Literal(pins[i].project, deps[pins[i].project])
    BY <1>4, <1>5
  <1>8. \A n \in D : \E i \in DOMAIN pins : pins[i] = Literal(n, deps[n])
    BY <1>1, <1>4
  <1>9. \A i, j \in DOMAIN pins : pins[i].project = pins[j].project => i = j
    BY <1>1, <1>4, <1>5
  <1> QED
    BY <1>6, <1>7, <1>8, <1>9 DEF D, pins

LEMMA NothingToPin ==
  ASSUME NEW deps, DOMAIN deps = {}
  PROVE  PinsOf(deps) = << >>
  <1>1. Cardinality(DOMAIN deps) = 0
    BY FS_EmptySet
  <1> QED
    BY <1>1 DEF PinsOf

-----------------------------------------------------------------------------
(* The pins of a merged block.                                               *)

\* The pins inferred that the block lacks.
Lacking(pins, deps) == [n \in Unpinned(pins, deps) |-> deps[n]]

Updated(pins, deps, overwrite) == IF overwrite THEN Differing(pins, deps) ELSE {}

\* What becomes of the pins that are there.
Retagged(pins, deps, overwrite) ==
  [i \in DOMAIN pins |->
     IF /\ pins[i].project \in Updated(pins, deps, overwrite)
        /\ i = Min(At(pins, pins[i].project))
     THEN Literal(pins[i].project, deps[pins[i].project]) ELSE pins[i]]

LEMMA MergeIsRetagAndAdd ==
  ASSUME NEW pins, NEW deps, NEW overwrite
  PROVE  MergePins(pins, deps, overwrite)
           = Retagged(pins, deps, overwrite) \o PinsOf(Lacking(pins, deps))
  BY DEF MergePins, Retagged, Updated, Lacking

LEMMA AtFacts ==
  ASSUME NEW pins \in Seq(Pin), NEW n
  PROVE  /\ Tagged(pins, n) \subseteq At(pins, n) /\ At(pins, n) \subseteq DOMAIN pins
         /\ IsFiniteSet(At(pins, n)) /\ IsFiniteSet(Tagged(pins, n))
         /\ At(pins, n) # {} => /\ Min(At(pins, n)) \in At(pins, n)
                                /\ \A i \in At(pins, n) : Min(At(pins, n)) <= i
         /\ Tagged(pins, n) # {} => Max(Tagged(pins, n)) \in Tagged(pins, n)
         /\ \A i \in Tagged(pins, n) : pins[i] = Literal(n, pins[i].tag)
  <1>1. Len(pins) \in Nat /\ DOMAIN pins = 1..Len(pins)
    OBVIOUS
  <1>2. Tagged(pins, n) \subseteq At(pins, n) /\ At(pins, n) \subseteq DOMAIN pins
    BY DEF At, Tagged
  <1>3. \A i \in Tagged(pins, n) : pins[i] = Literal(n, pins[i].tag)
    <2> SUFFICES ASSUME NEW i \in Tagged(pins, n)
                 PROVE  pins[i] = Literal(n, pins[i].tag)
      OBVIOUS
    <2>1. pins[i] \in Pin /\ pins[i].project = n /\ pins[i].tag # NoTag
      BY DEF At, Tagged
    <2>2. pins[i] \in [project : Names, kind : {"literal"}, tag : Tags]
      BY <2>1 DEF Pin
    <2> QED
      BY <2>1, <2>2 DEF Literal
  <1> QED
    BY <1>1, <1>2, <1>3, Positions

LEMMA LackingIsDeps ==
  ASSUME NEW pins, NEW deps, IsDeps(deps)
  PROVE  /\ IsDeps(Lacking(pins, deps))
         /\ DOMAIN Lacking(pins, deps) = Unpinned(pins, deps)
         /\ \A n \in Unpinned(pins, deps) : n \in DOMAIN deps /\ Lacking(pins, deps)[n] = deps[n]
  <1>1. Unpinned(pins, deps) \in SUBSET DOMAIN deps
    BY DEF Unpinned
  <1>2. IsFiniteSet(Unpinned(pins, deps))
    BY <1>1, FS_Subset DEF IsDeps
  <1> QED
    BY <1>1, <1>2 DEF IsDeps, Lacking

LEMMA RetaggedFacts ==
  ASSUME NEW pins \in Seq(Pin), NEW deps, IsDeps(deps), NEW overwrite \in BOOLEAN
  PROVE  /\ Retagged(pins, deps, overwrite) \in Seq(Pin)
         /\ DOMAIN Retagged(pins, deps, overwrite) = DOMAIN pins
         /\ Len(Retagged(pins, deps, overwrite)) = Len(pins)
         /\ \A i \in DOMAIN pins :
              LET new == Retagged(pins, deps, overwrite)[i]
              IN  /\ new.project = pins[i].project
                  /\ \/ new = pins[i]
                     \/ /\ overwrite /\ new.project \in DOMAIN deps
                        /\ new = Literal(new.project, deps[new.project])
  <1> DEFINE new == Retagged(pins, deps, overwrite)
  <1>1. Updated(pins, deps, overwrite) \subseteq DOMAIN deps
        /\ (~overwrite => Updated(pins, deps, overwrite) = {})
    BY DEF Updated, Differing
  <1>2. \A n \in DOMAIN deps : Literal(n, deps[n]) \in Pin /\ Literal(n, deps[n]).project = n
    BY DEF IsDeps, Literal, Pin
  <1>3. /\ DOMAIN new = DOMAIN pins
        /\ \A i \in DOMAIN pins :
             \/ new[i] = pins[i]
             \/ /\ pins[i].project \in Updated(pins, deps, overwrite)
                /\ new[i] = Literal(pins[i].project, deps[pins[i].project])
    BY DEF Retagged
  <1>4. DOMAIN pins = 1..Len(pins) /\ Len(pins) \in Nat /\ \A i \in DOMAIN pins : pins[i] \in Pin
    OBVIOUS
  <1>5. new = [i \in 1..Len(pins) |-> new[i]]
    BY <1>4 DEF Retagged
  <1> HIDE DEF new
  <1>6. \A i \in DOMAIN pins :
          /\ new[i] \in Pin /\ new[i].project = pins[i].project
          /\ \/ new[i] = pins[i]
             \/ /\ overwrite /\ new[i].project \in DOMAIN deps
                /\ new[i] = Literal(new[i].project, deps[new[i].project])
    BY <1>1, <1>2, <1>3, <1>4
  <1>7. new \in Seq(Pin) /\ Len(new) = Len(pins)
    BY <1>4, <1>5, <1>6
  <1> QED
    BY <1>3, <1>6, <1>7 DEF new

LEMMA Joined ==
  ASSUME NEW S, NEW a \in Seq(S), NEW b \in Seq(S)
  PROVE  /\ a \o b \in Seq(S)
         /\ DOMAIN (a \o b) = 1..(Len(a) + Len(b))
         /\ \A i \in DOMAIN a : i \in DOMAIN (a \o b) /\ (a \o b)[i] = a[i]
         /\ \A i \in DOMAIN b :
              Len(a) + i \in DOMAIN (a \o b) /\ (a \o b)[Len(a) + i] = b[i]
         /\ \A i \in DOMAIN (a \o b) \ DOMAIN a :
              i - Len(a) \in DOMAIN b /\ (a \o b)[i] = b[i - Len(a)]
  <1> DEFINE c == a \o b
  <1>1. /\ c \in Seq(S) /\ Len(c) = Len(a) + Len(b)
        /\ \A i \in 1..(Len(a) + Len(b)) :
             c[i] = IF i <= Len(a) THEN a[i] ELSE b[i - Len(a)]
    BY ConcatProperties
  <1>2. DOMAIN c = 1..Len(c) /\ DOMAIN a = 1..Len(a) /\ DOMAIN b = 1..Len(b)
        /\ Len(a) \in Nat /\ Len(b) \in Nat
    BY <1>1
  <1> HIDE DEF c
  <1> QED
    BY <1>1, <1>2 DEF c

\* A merge keeps what it does not overwrite, adds a pin for each dependency
\* that has none, and says so of no other.
Reports(pins, deps, overwrite) ==
  {n \in DOMAIN deps : /\ At(pins, n) # {} => Tagged(pins, n) # {}
                       /\ overwrite \/ n \notin Differing(pins, deps)}

LEMMA MergePinsFacts ==
  ASSUME NEW pins \in Seq(Pin), NEW deps, IsDeps(deps), NEW overwrite \in BOOLEAN,
         NEW new, new = MergePins(pins, deps, overwrite)
  PROVE  /\ new \in Seq(Pin)
         /\ \A i \in DOMAIN pins :
              /\ i \in DOMAIN new
              /\ new[i] = pins[i] \/ (overwrite /\ pins[i].project \in DOMAIN deps)
         /\ \A i \in DOMAIN new :
              \/ i \in DOMAIN pins /\ new[i] = pins[i]
              \/ /\ new[i].project \in DOMAIN deps
                 /\ new[i] = Literal(new[i].project, deps[new[i].project])
         /\ \A n \in Reports(pins, deps, overwrite) :
              \E i \in DOMAIN new : new[i] = Literal(n, deps[n])
  <1> DEFINE old == Retagged(pins, deps, overwrite)
             more == PinsOf(Lacking(pins, deps))
  <1>1. /\ old \in Seq(Pin) /\ DOMAIN old = DOMAIN pins /\ Len(old) = Len(pins)
        /\ \A i \in DOMAIN pins :
             /\ old[i].project = pins[i].project
             /\ \/ old[i] = pins[i]
                \/ /\ overwrite /\ old[i].project \in DOMAIN deps
                   /\ old[i] = Literal(old[i].project, deps[old[i].project])
    BY RetaggedFacts
  <1>2. /\ IsDeps(Lacking(pins, deps))
        /\ DOMAIN Lacking(pins, deps) = Unpinned(pins, deps)
        /\ \A n \in Unpinned(pins, deps) : n \in DOMAIN deps /\ Lacking(pins, deps)[n] = deps[n]
    BY LackingIsDeps
  <1>3. /\ more \in Seq(Pin)
        /\ \A i \in DOMAIN more :
              /\ more[i].project \in DOMAIN deps
              /\ more[i] = Literal(more[i].project, deps[more[i].project])
        /\ \A n \in Unpinned(pins, deps) : \E i \in DOMAIN more : more[i] = Literal(n, deps[n])
    BY <1>2, PinsOfFacts
  <1>4. new = old \o more
    BY MergeIsRetagAndAdd
  <1>5. ASSUME NEW n \in Reports(pins, deps, overwrite)
        PROVE  \/ \E i \in DOMAIN old : old[i] = Literal(n, deps[n])
               \/ n \in Unpinned(pins, deps)
    <2>1. n \in DOMAIN deps /\ (overwrite \/ n \notin Differing(pins, deps))
      BY <1>5 DEF Reports
    <2>2. CASE At(pins, n) = {}
      BY <2>1, <2>2 DEF Unpinned
    <2>3. CASE n \in Differing(pins, deps)
      <3>1. overwrite /\ n \in Updated(pins, deps, overwrite) /\ At(pins, n) # {}
        BY <2>1, <2>3, AtFacts DEF Updated, Differing
      <3> DEFINE i == Min(At(pins, n))
      <3>2. i \in At(pins, n) /\ i \in DOMAIN pins /\ pins[i].project = n
        BY <3>1, AtFacts DEF At
      <3> HIDE DEF i
      <3>3. old[i] = Literal(n, deps[n])
        BY <3>1, <3>2 DEF Retagged, i
      <3> QED
        BY <1>1, <3>2, <3>3
    <2>4. CASE At(pins, n) # {} /\ n \notin Differing(pins, deps)
      <3> DEFINE i == Max(Tagged(pins, n))
      <3>1. Tagged(pins, n) # {}
        BY <1>5, <2>4 DEF Reports
      <3>2. i \in Tagged(pins, n) /\ i \in DOMAIN pins /\ pins[i] = Literal(n, pins[i].tag)
        BY <3>1, AtFacts
      <3>3. pins[i].tag = deps[n]
        BY <2>1, <2>4, <3>1 DEF Differing
      <3>4. pins[i].project = n
        BY <3>2 DEF Tagged, At
      <3> HIDE DEF i
      <3>5. old[i] = pins[i]
        BY <2>4, <3>2, <3>4 DEF Retagged, Updated
      <3> QED
        BY <1>1, <3>2, <3>3, <3>5
    <2> QED
      BY <2>2, <2>3, <2>4
  <1> HIDE DEF old, more
  <1>6. /\ new \in Seq(Pin)
        /\ DOMAIN new = 1..(Len(old) + Len(more))
        /\ \A i \in DOMAIN old : i \in DOMAIN new /\ new[i] = old[i]
        /\ \A i \in DOMAIN more : Len(old) + i \in DOMAIN new /\ new[Len(old) + i] = more[i]
        /\ \A i \in DOMAIN new \ DOMAIN old :
             i - Len(old) \in DOMAIN more /\ new[i] = more[i - Len(old)]
    <2>1. old \in Seq(Pin) /\ more \in Seq(Pin)
      BY <1>1, <1>3
    <2>2. /\ old \o more \in Seq(Pin)
          /\ DOMAIN (old \o more) = 1..(Len(old) + Len(more))
          /\ \A i \in DOMAIN old : i \in DOMAIN (old \o more) /\ (old \o more)[i] = old[i]
          /\ \A i \in DOMAIN more : /\ Len(old) + i \in DOMAIN (old \o more)
                                    /\ (old \o more)[Len(old) + i] = more[i]
          /\ \A i \in DOMAIN (old \o more) \ DOMAIN old :
               i - Len(old) \in DOMAIN more /\ (old \o more)[i] = more[i - Len(old)]
      BY <2>1, Joined
    <2> QED
      BY <1>4, <2>2
  <1>7. \A i \in DOMAIN pins :
              /\ i \in DOMAIN new
              /\ new[i] = pins[i] \/ (overwrite /\ pins[i].project \in DOMAIN deps)
    BY <1>1, <1>6
  <1>8. \A i \in DOMAIN new :
              \/ i \in DOMAIN pins /\ new[i] = pins[i]
              \/ /\ new[i].project \in DOMAIN deps
                 /\ new[i] = Literal(new[i].project, deps[new[i].project])
    <2> TAKE i \in DOMAIN new
    <2>1. CASE i \in DOMAIN old
      <3>1. new[i] = old[i] /\ i \in DOMAIN pins
        BY <1>1, <1>6, <2>1
      <3> QED
        BY <1>1, <3>1
    <2>2. CASE i \notin DOMAIN old
      <3>1. PICK k \in DOMAIN more : new[i] = more[k]
        BY <1>6, <2>2
      <3> QED
        BY <1>3, <3>1
    <2> QED
      BY <2>1, <2>2
  <1>9. \A n \in Reports(pins, deps, overwrite) :
              \E i \in DOMAIN new : new[i] = Literal(n, deps[n])
    <2> TAKE n \in Reports(pins, deps, overwrite)
    <2>1. CASE \E i \in DOMAIN old : old[i] = Literal(n, deps[n])
      BY <1>6, <2>1
    <2>2. CASE n \in Unpinned(pins, deps)
      <3>1. PICK k \in DOMAIN more : more[k] = Literal(n, deps[n])
        BY <1>3, <2>2
      <3> QED
        BY <1>6, <3>1
    <2> QED
      BY <1>5, <2>1, <2>2
  <1> QED
    BY <1>6, <1>7, <1>8, <1>9

-----------------------------------------------------------------------------
(* A text in which one block of a series has changed.                        *)

Block == [name : Series, pins : Seq(Pin), untracked : SUBSET Names]

\* The first block of a series, and the text with another in its place.
BlockIn(d, s) == d.series[Position(d, s)]

WithBlock(d, s, b) == [d EXCEPT !.series[Position(d, s)] = b]

AtEnd(d, b) == [d EXCEPT !.series = Append(@, b)]

\* new is d with b as its block of s.
Puts(d, s, b, new) ==
  /\ new \in Texts /\ new.projects = d.projects
  /\ Has(new, s) /\ BlockIn(new, s) = b
  /\ \A t \in Series \ {s} : Has(d, t) => Has(new, t) /\ BlockIn(new, t) = BlockIn(d, t)
  /\ \A i \in DOMAIN new.series :
       new.series[i] = b \/ \E k \in DOMAIN d.series : new.series[i] = d.series[k]

LEMMA TextFacts ==
  ASSUME NEW d \in Texts
  PROVE  /\ d.projects \in Seq(Project) /\ d.series \in Seq(Block)
         /\ d = [projects |-> d.projects, series |-> d.series]
  BY DEF Texts, Block

LEMMA TextNames ==
  ASSUME NEW d \in Texts
  PROVE  NamesOf(d) \subseteq Names \cup InvalidNames
  <1>1. \A i \in DOMAIN d.projects : d.projects[i] \in Project
    BY TextFacts
  <1> QED
    BY <1>1 DEF NamesOf, Project

LEMMA WithSeries ==
  ASSUME NEW d \in Texts, NEW x
  PROVE  [d EXCEPT !.series = x] = [projects |-> d.projects, series |-> x]
  <1>1. PICK a, b : d = [projects |-> a, series |-> b]
    BY TextFacts
  <1> QED
    BY <1>1

LEMMA WithProjects ==
  ASSUME NEW d \in Texts, NEW x
  PROVE  [d EXCEPT !.projects = x] = [projects |-> x, series |-> d.series]
  <1>1. PICK a, b : d = [projects |-> a, series |-> b]
    BY TextFacts
  <1> QED
    BY <1>1

LEMMA PositionFacts ==
  ASSUME NEW d \in Texts, NEW s, Has(d, s)
  PROVE  /\ Position(d, s) \in DOMAIN d.series
         /\ BlockIn(d, s) \in Block /\ BlockIn(d, s).name = s
         /\ \A i \in DOMAIN d.series : d.series[i].name = s => Position(d, s) <= i
  <1> DEFINE T == {i \in DOMAIN d.series : d.series[i].name = s}
  <1>1. d.series \in Seq(Block) /\ Len(d.series) \in Nat /\ DOMAIN d.series = 1..Len(d.series)
    BY TextFacts
  <1>2. T # {} /\ T \in SUBSET (1..Len(d.series))
    BY <1>1 DEF Has
  <1> HIDE DEF T
  <1>3. Min(T) \in T /\ \A i \in T : Min(T) <= i
    BY <1>1, <1>2, Positions
  <1>4. Position(d, s) = Min(T)
    BY DEF Position, T
  <1>5. /\ Min(T) \in DOMAIN d.series /\ d.series[Min(T)].name = s
        /\ \A i \in DOMAIN d.series : d.series[i].name = s => Min(T) <= i
    BY <1>3 DEF T
  <1> QED
    BY <1>1, <1>4, <1>5 DEF BlockIn

\* The position of a series is where its name is first.
LEMMA PositionIs ==
  ASSUME NEW d \in Texts, NEW s, NEW i \in DOMAIN d.series, d.series[i].name = s,
         \A k \in DOMAIN d.series : d.series[k].name = s => i <= k
  PROVE  Has(d, s) /\ Position(d, s) = i
  <1>1. Has(d, s)
    BY DEF Has
  <1>2. Position(d, s) <= i /\ i <= Position(d, s) /\ Position(d, s) \in DOMAIN d.series
    BY <1>1, PositionFacts DEF BlockIn
  <1>3. DOMAIN d.series \subseteq Nat
    BY TextFacts
  <1> QED
    BY <1>1, <1>2, <1>3

\* Texts with the same names up to a point have the same positions up to it.
LEMMA SamePosition ==
  ASSUME NEW d \in Texts, NEW new \in Texts, NEW t, Has(d, t),
         DOMAIN d.series \subseteq DOMAIN new.series,
         \A i \in DOMAIN d.series : new.series[i].name = d.series[i].name
  PROVE  Has(new, t) /\ Position(new, t) = Position(d, t)
  <1> DEFINE i == Position(d, t)
  <1>1. i \in DOMAIN d.series /\ d.series[i].name = t
        /\ \A k \in DOMAIN d.series : d.series[k].name = t => i <= k
    BY PositionFacts DEF BlockIn
  <1>2. DOMAIN d.series = 1..Len(d.series) /\ DOMAIN new.series = 1..Len(new.series)
        /\ Len(d.series) \in Nat /\ Len(new.series) \in Nat
    BY TextFacts
  <1> HIDE DEF i
  <1>3. new.series[i].name = t /\ i \in DOMAIN new.series
    BY <1>1
  <1>4. \A k \in DOMAIN new.series : new.series[k].name = t => i <= k
    BY <1>1, <1>2
  <1>5. Has(new, t) /\ Position(new, t) = i
    BY <1>3, <1>4, PositionIs
  <1> QED
    BY <1>5 DEF i

LEMMA WithBlockPuts ==
  ASSUME NEW d \in Texts, NEW s \in Series, NEW b \in Block, b.name = s, Has(d, s)
  PROVE  Puts(d, s, b, WithBlock(d, s, b))
  <1> DEFINE i == Position(d, s)
             new == WithBlock(d, s, b)
  <1>1. /\ d.projects \in Seq(Project) /\ d.series \in Seq(Block)
        /\ d = [projects |-> d.projects, series |-> d.series]
    BY TextFacts
  <1>2. i \in DOMAIN d.series /\ d.series[i].name = s
    BY PositionFacts DEF BlockIn
  <1>3. new = [projects |-> d.projects, series |-> [d.series EXCEPT ![i] = b]]
    BY <1>1 DEF WithBlock
  <1> HIDE DEF new, i
  <1>4. new.projects = d.projects /\ new.series = [d.series EXCEPT ![i] = b]
    BY <1>3
  <1>5. new.series \in Seq(Block) /\ DOMAIN new.series = DOMAIN d.series
    <2>1. d.series \in [1..Len(d.series) -> Block] /\ Len(d.series) \in Nat
      BY <1>1
    <2>2. new.series \in [1..Len(d.series) -> Block]
      BY <1>4, <2>1
    <2>3. new.series \in Seq(Block)
      BY <2>1, <2>2, SeqDef
    <2> QED
      BY <2>1, <2>2, <2>3
  <1>6. new \in Texts
    BY <1>1, <1>3, <1>4, <1>5 DEF Texts, Block
  <1>7. new.series[i] = b /\ \A k \in DOMAIN d.series \ {i} : new.series[k] = d.series[k]
    BY <1>1, <1>2, <1>4
  <1>8. \A k \in DOMAIN d.series : new.series[k].name = d.series[k].name
    BY <1>2, <1>7
  <1>9. \A t : Has(d, t) => Has(new, t) /\ Position(new, t) = Position(d, t)
    BY <1>5, <1>6, <1>8, SamePosition
  <1>10. Has(new, s) /\ BlockIn(new, s) = b
    BY <1>7, <1>9 DEF BlockIn, i
  <1>11. ASSUME NEW t \in Series \ {s}, Has(d, t)
         PROVE  Has(new, t) /\ BlockIn(new, t) = BlockIn(d, t)
    <2>1. Position(d, t) \in DOMAIN d.series /\ d.series[Position(d, t)].name = t
      BY <1>11, PositionFacts DEF BlockIn
    <2>2. Position(d, t) # i
      BY <1>2, <2>1
    <2> QED
      BY <1>7, <1>9, <1>11, <2>1, <2>2 DEF BlockIn
  <1>12. \A k \in DOMAIN new.series :
           new.series[k] = b \/ \E l \in DOMAIN d.series : new.series[k] = d.series[l]
    BY <1>5, <1>7
  <1> QED
    BY <1>4, <1>6, <1>10, <1>11, <1>12 DEF Puts, new

LEMMA AtEndPuts ==
  ASSUME NEW d \in Texts, NEW s \in Series, NEW b \in Block, b.name = s, ~Has(d, s)
  PROVE  Puts(d, s, b, AtEnd(d, b))
  <1> DEFINE new == AtEnd(d, b)
             n == Len(d.series) + 1
  <1>1. /\ d.projects \in Seq(Project) /\ d.series \in Seq(Block)
        /\ d = [projects |-> d.projects, series |-> d.series]
    BY TextFacts
  <1>2. new = [projects |-> d.projects, series |-> Append(d.series, b)]
    BY <1>1, WithSeries DEF AtEnd
  <1> HIDE DEF new
  <1>3. new.projects = d.projects /\ new.series = Append(d.series, b)
    BY <1>2
  <1>4. /\ new.series \in Seq(Block) /\ DOMAIN new.series = 1..n /\ new.series[n] = b
        /\ DOMAIN d.series = 1..Len(d.series) /\ Len(d.series) \in Nat
        /\ \A i \in DOMAIN d.series : new.series[i] = d.series[i]
    BY <1>1, <1>3
  <1>5. new \in Texts
    BY <1>1, <1>2, <1>3, <1>4 DEF Texts, Block
  <1>6. \A t : Has(d, t) => Has(new, t) /\ Position(new, t) = Position(d, t)
    BY <1>4, <1>5, SamePosition
  <1>7. n \in DOMAIN new.series /\ \A k \in DOMAIN new.series : new.series[k].name = s => n <= k
    BY <1>4 DEF Has
  <1>8. Has(new, s) /\ Position(new, s) = n
    BY <1>4, <1>5, <1>7, PositionIs
  <1>9. ASSUME NEW t \in Series, Has(d, t)
        PROVE  Has(new, t) /\ BlockIn(new, t) = BlockIn(d, t)
    <2>1. Position(d, t) \in DOMAIN d.series
      BY <1>9, PositionFacts
    <2> QED
      BY <1>4, <1>6, <1>9, <2>1 DEF BlockIn
  <1>10. \A k \in DOMAIN new.series :
           new.series[k] = b \/ \E l \in DOMAIN d.series : new.series[k] = d.series[l]
    BY <1>4
  <1> QED
    BY <1>3, <1>4, <1>5, <1>8, <1>9, <1>10 DEF Puts, BlockIn, new

-----------------------------------------------------------------------------
(* The edits put a block, add projects, or write a text afresh.              *)

LEMMA BlockOfType ==
  ASSUME NEW s \in Series, NEW deps, IsDeps(deps)
  PROVE  /\ BlockOf(s, deps) \in Block /\ BlockOf(s, deps).name = s
         /\ BlockOf(s, deps).pins = PinsOf(deps) /\ BlockOf(s, deps).untracked = {}
  BY PinsOfFacts DEF BlockOf, Block

LEMMA ReplacePuts ==
  ASSUME NEW d \in Texts, NEW s \in Series, NEW deps, IsDeps(deps)
  PROVE  Puts(d, s, BlockOf(s, deps), ReplaceBlock(d, s, deps))
  <1> DEFINE b == BlockOf(s, deps)
  <1>1. b \in Block /\ b.name = s
    BY BlockOfType
  <1>2. ReplaceBlock(d, s, deps) = IF Has(d, s) THEN WithBlock(d, s, b) ELSE AtEnd(d, b)
    BY DEF ReplaceBlock, WithBlock, AtEnd
  <1> HIDE DEF b
  <1>3. Puts(d, s, b, ReplaceBlock(d, s, deps))
    BY <1>1, <1>2, WithBlockPuts, AtEndPuts
  <1> QED
    BY <1>3 DEF b

\* The block that a merge leaves.
Merged(d, s, deps, overwrite) ==
  IF Has(d, s)
  THEN [name |-> s, pins |-> MergePins(BlockIn(d, s).pins, deps, overwrite),
        untracked |-> BlockIn(d, s).untracked]
  ELSE BlockOf(s, deps)

LEMMA MergeIsWithBlock ==
  ASSUME NEW d \in Texts, NEW s, Has(d, s), NEW deps, NEW overwrite
  PROVE  MergeBlock(d, s, deps, overwrite) = WithBlock(d, s, Merged(d, s, deps, overwrite))
  <1> DEFINE i == Position(d, s)
             b == d.series[i]
             pins == MergePins(b.pins, deps, overwrite)
  <1>1. i \in DOMAIN d.series /\ b \in Block /\ b.name = s
    BY PositionFacts DEF BlockIn
  <1>2. [b EXCEPT !.pins = pins] = [name |-> s, pins |-> pins, untracked |-> b.untracked]
    BY <1>1 DEF Block
  <1>3. Merged(d, s, deps, overwrite) = [b EXCEPT !.pins = pins]
    BY <1>2 DEF Merged, BlockIn
  <1>4. MergeBlock(d, s, deps, overwrite) = [d EXCEPT !.series[i].pins = pins]
    BY DEF MergeBlock
  <1> HIDE DEF pins
  <1>5. [d EXCEPT !.series[i].pins = pins] = [d EXCEPT !.series[i] = [b EXCEPT !.pins = pins]]
    OBVIOUS
  <1>6. WithBlock(d, s, Merged(d, s, deps, overwrite))
          = [d EXCEPT !.series[i] = [b EXCEPT !.pins = pins]]
    BY <1>3 DEF WithBlock
  <1> QED
    BY <1>4, <1>5, <1>6

LEMMA MergePuts ==
  ASSUME NEW d \in Texts, NEW s \in Series, NEW deps, IsDeps(deps), NEW overwrite \in BOOLEAN
  PROVE  Puts(d, s, Merged(d, s, deps, overwrite), MergeBlock(d, s, deps, overwrite))
  <1>1. CASE Has(d, s)
    <2> DEFINE b == BlockIn(d, s)
               new == Merged(d, s, deps, overwrite)
    <2>1. b \in Block
      BY <1>1, PositionFacts
    <2>2. b.pins \in Seq(Pin) /\ b.untracked \in SUBSET Names
      BY <2>1 DEF Block
    <2>3. MergePins(b.pins, deps, overwrite) \in Seq(Pin)
      BY <2>2, MergePinsFacts
    <2>4. new \in Block /\ new.name = s
      BY <1>1, <2>2, <2>3 DEF Merged, Block
    <2> HIDE DEF new
    <2>5. Puts(d, s, new, WithBlock(d, s, new))
      BY <1>1, <2>4, WithBlockPuts
    <2>6. MergeBlock(d, s, deps, overwrite) = WithBlock(d, s, new)
      BY <1>1, MergeIsWithBlock DEF new
    <2> QED
      BY <2>5, <2>6 DEF new
  <1>2. CASE ~Has(d, s)
    <2>1. Merged(d, s, deps, overwrite) = BlockOf(s, deps)
      BY <1>2 DEF Merged
    <2>2. MergeBlock(d, s, deps, overwrite) = AtEnd(d, BlockOf(s, deps))
      BY <1>2 DEF MergeBlock, AtEnd
    <2>3. BlockOf(s, deps) \in Block /\ BlockOf(s, deps).name = s
      BY BlockOfType
    <2> QED
      BY <1>2, <2>1, <2>2, <2>3, AtEndPuts
  <1> QED
    BY <1>1, <1>2

AnyName == Names \cup InvalidNames

LEMMA StubsOfFacts ==
  ASSUME NEW names \in SUBSET AnyName, IsFiniteSet(names)
  PROVE  /\ StubsOf(names) \in Seq(Project)
         /\ \A i \in DOMAIN StubsOf(names) :
              StubsOf(names)[i].name \in names /\ StubsOf(names)[i].self = FALSE
         /\ \A n \in names : \E i \in DOMAIN StubsOf(names) : StubsOf(names)[i].name = n
  <1> DEFINE N == Cardinality(names)
             s == SetToSeq(names)
             stubs == StubsOf(names)
  <1>1. /\ N \in Nat /\ s \in [1..N -> names]
        /\ \A n \in names : \E i \in 1..N : s[i] = n
    BY SetToSeqFacts
  <1>2. stubs = [i \in 1..N |-> [name |-> s[i], self |-> FALSE]]
    BY DEF StubsOf
  <1> HIDE DEF N, s, stubs
  <1>3. \A i \in 1..N : s[i] \in names
    BY <1>1
  <1>4. /\ DOMAIN stubs = 1..N
        /\ \A i \in 1..N : stubs[i].name = s[i] /\ stubs[i].self = FALSE /\ stubs[i] \in Project
    BY <1>2, <1>3 DEF Project, AnyName
  <1>5. stubs \in Seq(Project)
    BY <1>1, <1>2, <1>4
  <1> QED
    BY <1>1, <1>3, <1>4, <1>5 DEF stubs

\* new is d with more projects.
Declares(d, names, new) ==
  /\ new \in Texts /\ new.series = d.series
  /\ DOMAIN d.projects \subseteq DOMAIN new.projects
  /\ \A i \in DOMAIN d.projects : new.projects[i] = d.projects[i]
  /\ \A i \in DOMAIN new.projects \ DOMAIN d.projects :
       new.projects[i].name \notin NamesOf(d) /\ new.projects[i].self = FALSE
  /\ NamesOf(new) = NamesOf(d) \cup names

LEMMA StubsDeclare ==
  ASSUME NEW d \in Texts, NEW names \in SUBSET AnyName, IsFiniteSet(names)
  PROVE  Declares(d, names, AppendStubs(d, names))
  <1> DEFINE rest == names \ NamesOf(d)
             stubs == StubsOf(rest)
             new == AppendStubs(d, names)
             projects == d.projects \o stubs
  <1>1. /\ d.projects \in Seq(Project) /\ d.series \in Seq(Block)
        /\ d = [projects |-> d.projects, series |-> d.series]
    BY TextFacts
  <1>2. rest \in SUBSET AnyName /\ IsFiniteSet(rest)
    BY FS_Difference
  <1>3. /\ stubs \in Seq(Project)
        /\ \A i \in DOMAIN stubs : stubs[i].name \in rest /\ stubs[i].self = FALSE
        /\ \A n \in rest : \E i \in DOMAIN stubs : stubs[i].name = n
    BY <1>2, StubsOfFacts
  <1>4. new = [projects |-> projects, series |-> d.series]
    <2>1. new = [d EXCEPT !.projects = projects]
      BY DEF AppendStubs
    <2> HIDE DEF projects, new
    <2> QED
      BY <2>1, WithProjects
  <1>5. new.projects = projects /\ new.series = d.series
    BY <1>4
  <1> HIDE DEF stubs, new
  <1>6. /\ projects \in Seq(Project)
        /\ DOMAIN projects = 1..(Len(d.projects) + Len(stubs))
        /\ \A i \in DOMAIN d.projects : i \in DOMAIN projects /\ projects[i] = d.projects[i]
        /\ \A i \in DOMAIN stubs :
             Len(d.projects) + i \in DOMAIN projects /\ projects[Len(d.projects) + i] = stubs[i]
        /\ \A i \in DOMAIN projects \ DOMAIN d.projects :
             i - Len(d.projects) \in DOMAIN stubs /\ projects[i] = stubs[i - Len(d.projects)]
    BY <1>1, <1>3, Joined
  <1> HIDE DEF projects
  <1>7. new \in Texts
    BY <1>1, <1>4, <1>6 DEF Texts, Block
  <1>8. \A i \in DOMAIN projects \ DOMAIN d.projects :
          projects[i].name \in rest /\ projects[i].self = FALSE
    BY <1>3, <1>6
  <1>9. NamesOf(new) = NamesOf(d) \cup names
    <2>1. \A i \in DOMAIN projects : projects[i].name \in NamesOf(d) \cup names
      BY <1>6, <1>8 DEF NamesOf
    <2>2. \A n \in NamesOf(d) : \E i \in DOMAIN projects : projects[i].name = n
      BY <1>6 DEF NamesOf
    <2>3. \A n \in rest : \E i \in DOMAIN projects : projects[i].name = n
      BY <1>3, <1>6
    <2>4. NamesOf(new) = {projects[i].name : i \in DOMAIN projects}
      BY <1>5 DEF NamesOf
    <2> QED
      BY <2>1, <2>2, <2>3, <2>4
  <1> QED
    BY <1>5, <1>6, <1>7, <1>8, <1>9 DEF Declares, new

-----------------------------------------------------------------------------
(* The text of init.                                                         *)

LEMMA NthFacts ==
  ASSUME NEW n \in Nat, NEW S \in SUBSET (1..n), NEW k \in 1..Cardinality(S)
  PROVE  Nth(S, k) \in S
  <1> DEFINE UpTo(i) == {l \in S : l <= i}
             T == {i \in Nat : Cardinality(UpTo(i)) >= k}
  <1>0. \A l \in S : l \in Nat /\ 1 <= l /\ l <= n
    OBVIOUS
  <1>1. IsFiniteSet(S) /\ Cardinality(S) \in Nat
    BY Positions, FS_CardinalityType
  <1>2. \A i : UpTo(i) \in SUBSET S
    OBVIOUS
  <1>3. \A i : IsFiniteSet(UpTo(i)) /\ Cardinality(UpTo(i)) \in Nat
    BY <1>1, <1>2, FS_Subset, FS_CardinalityType
  <1>4. n \in T
    <2>1. UpTo(n) = S
      BY <1>0
    <2> HIDE DEF UpTo
    <2> QED
      BY <1>1, <2>1
  <1> DEFINE i == Min(T)
  <1>5. i \in T /\ \A l \in T : i <= l
    <2>1. T \in SUBSET Nat
      OBVIOUS
    <2> HIDE DEF T
    <2> QED
      BY <1>4, <2>1, MinFacts
  <1> HIDE DEF i
  <1>6. i \in Nat /\ Cardinality(UpTo(i)) >= k
    BY <1>5
  <1>7. i # 0
    <2>1. UpTo(0) = {}
      <3>1. \A l \in S : ~(l <= 0)
        BY <1>0
      <3> QED
        BY <3>1, Zenon
    <2>2. Cardinality(UpTo(0)) = 0
      BY <2>1, FS_EmptySet
    <2> HIDE DEF UpTo
    <2> QED
      BY <1>1, <1>6, <2>2
  <1>8. i - 1 \in Nat /\ Cardinality(UpTo(i - 1)) < k
    <2>1. i - 1 \in Nat /\ i - 1 < i
      BY <1>6, <1>7
    <2>2. i - 1 \notin T
      <3> HIDE DEF T
      <3> QED
        BY <1>5, <1>6, <2>1
    <2> HIDE DEF UpTo
    <2> QED
      BY <1>1, <1>3, <2>1, <2>2
  <1>9. i \in S
    <2> SUFFICES ASSUME i \notin S PROVE FALSE
      OBVIOUS
    <2>1. UpTo(i) = UpTo(i - 1)
      <3>1. \A l \in S : l <= i <=> l <= i - 1
        BY <1>0, <1>6
      <3> QED
        BY <3>1
    <2> HIDE DEF UpTo
    <2> QED
      BY <1>1, <1>3, <1>6, <1>8, <2>1
  <1>10. Cardinality(UpTo(i)) = k
    <2>1. UpTo(i) = UpTo(i - 1) \cup {i} /\ i \notin UpTo(i - 1)
      <3>1. \A l \in S : l <= i <=> (l <= i - 1 \/ l = i)
        BY <1>0, <1>6
      <3>2. ~(i <= i - 1)
        BY <1>6
      <3> QED
        BY <1>9, <3>1, <3>2
    <2> HIDE DEF UpTo
    <2>2. Cardinality(UpTo(i)) = Cardinality(UpTo(i - 1)) + 1
      BY <1>3, <2>1, FS_AddElement
    <2> QED
      BY <1>1, <1>3, <1>6, <1>8, <2>2
  <1>11. \E l \in S : Cardinality({m \in S : m <= l}) = k
    BY <1>9, <1>10
  <1> QED
    BY <1>11 DEF Nth

DepsOf(branches) == UNION {DOMAIN branches[i].deps : i \in DOMAIN branches}

Mine == [project |-> Self, kind |-> "self", tag |-> NoTag]

LEMMA InitBlockFacts ==
  ASSUME NEW b \in Branches
  PROVE  /\ InitBlock(b) \in Block /\ InitBlock(b).untracked = {}
         /\ \A i \in DOMAIN InitBlock(b).pins :
              LET pin == InitBlock(b).pins[i]
              IN  pin = Mine \/ (pin.kind = "literal" /\ pin.project \in DOMAIN b.deps)
  <1> DEFINE pins == <<Mine>> \o PinsOf(b.deps)
  <1>1. b.series \in Series /\ IsDeps(b.deps)
    BY BranchDeps
  <1>2. Mine \in Pin
    BY ConfigAssumption DEF Mine, Pin
  <1>3. <<Mine>> \in Seq(Pin) /\ DOMAIN <<Mine>> = {1} /\ <<Mine>>[1] = Mine /\ Len(<<Mine>>) = 1
    BY <1>2
  <1>4. /\ PinsOf(b.deps) \in Seq(Pin)
        /\ \A i \in DOMAIN PinsOf(b.deps) :
             /\ PinsOf(b.deps)[i].project \in DOMAIN b.deps
             /\ PinsOf(b.deps)[i].kind = "literal"
    BY <1>1, PinsOfFacts DEF Literal
  <1>5. /\ pins \in Seq(Pin)
        /\ \A i \in DOMAIN <<Mine>> : i \in DOMAIN pins /\ pins[i] = <<Mine>>[i]
        /\ \A i \in DOMAIN pins \ DOMAIN <<Mine>> :
             i - Len(<<Mine>>) \in DOMAIN PinsOf(b.deps) /\ pins[i] = PinsOf(b.deps)[i - Len(<<Mine>>)]
    BY <1>3, <1>4, Joined
  <1>6. InitBlock(b) = [name |-> b.series, pins |-> pins, untracked |-> {}]
    BY DEF InitBlock, Mine
  <1> HIDE DEF pins
  <1>7. InitBlock(b) \in Block /\ InitBlock(b).untracked = {} /\ InitBlock(b).pins = pins
    BY <1>1, <1>5, <1>6 DEF Block
  <1>8. \A i \in DOMAIN pins :
          pins[i] = Mine \/ (pins[i].kind = "literal" /\ pins[i].project \in DOMAIN b.deps)
    BY <1>3, <1>4, <1>5
  <1> QED
    BY <1>7, <1>8

LEMMA InitTextFacts ==
  ASSUME NEW branches \in Seq(Branches)
  PROVE  /\ InitText(branches) \in Texts
         /\ DepsOf(branches) \subseteq Names \ {Self}
         /\ DepsOf(branches) # {} =>
              /\ NamesOf(InitText(branches)) = {Self} \cup DepsOf(branches)
              /\ 1 \in DOMAIN InitText(branches).projects
              /\ \A i \in DOMAIN InitText(branches).projects :
                   LET project == InitText(branches).projects[i]
                   IN  IF i = 1 THEN project = [name |-> Self, self |-> TRUE]
                       ELSE project.self = FALSE /\ project.name \in DepsOf(branches)
         /\ \A i \in DOMAIN InitText(branches).series :
              \E b \in Branches : /\ InitText(branches).series[i] = InitBlock(b)
                                  /\ DOMAIN b.deps \subseteq DepsOf(branches)
  <1> DEFINE deps == DepsOf(branches)
             own == <<[name |-> Self, self |-> TRUE]>>
             stubs == StubsOf(deps)
             first == {i \in DOMAIN branches :
                         \A k \in 1..(i - 1) : branches[k].series # branches[i].series}
             projects == IF deps = {} THEN <<>> ELSE own \o stubs
             series == [k \in 1..Cardinality(first) |-> InitBlock(branches[Nth(first, k)])]
  <1>1. InitText(branches) = [projects |-> projects, series |-> series]
    BY DEF InitText, DepsOf
  <1>2. /\ Len(branches) \in Nat /\ DOMAIN branches = 1..Len(branches)
        /\ \A i \in DOMAIN branches : branches[i] \in Branches
    OBVIOUS
  <1>3. deps \subseteq Names \ {Self}
    BY <1>2, ConfigAssumption DEF DepsOf
  <1>4. IsFiniteSet(deps)
    <2> DEFINE D == {DOMAIN branches[i].deps : i \in DOMAIN branches}
               f == [i \in DOMAIN branches |-> DOMAIN branches[i].deps]
    <2>1. IsFiniteSet(DOMAIN branches)
      BY <1>2, FS_Interval
    <2>2. f \in Surjection(DOMAIN branches, D)
      BY DEF Surjection
    <2>3. IsFiniteSet(D)
      BY <2>1, <2>2, FS_Surjection
    <2>4. \A x \in D : IsFiniteSet(x)
      BY <1>2, BranchDeps DEF IsDeps
    <2> QED
      BY <2>3, <2>4, FS_UNION DEF DepsOf
  <1>5. own \in Seq(Project) /\ DOMAIN own = {1} /\ own[1] = [name |-> Self, self |-> TRUE]
        /\ Len(own) = 1
    BY ConfigAssumption DEF Project
  <1>6. /\ stubs \in Seq(Project)
        /\ \A i \in DOMAIN stubs : stubs[i].name \in deps /\ stubs[i].self = FALSE
        /\ \A n \in deps : \E i \in DOMAIN stubs : stubs[i].name = n
    <2>1. deps \in SUBSET AnyName
      BY <1>3 DEF AnyName
    <2> QED
      BY <1>4, <2>1, StubsOfFacts
  <1>7. first \in SUBSET (1..Len(branches)) /\ Cardinality(first) \in Nat
    BY <1>2, Positions, FS_CardinalityType
  <1>8. \A k \in 1..Cardinality(first) :
          /\ branches[Nth(first, k)] \in Branches
          /\ DOMAIN branches[Nth(first, k)].deps \subseteq deps
    <2> TAKE k \in 1..Cardinality(first)
    <2>1. Nth(first, k) \in first
      <3> HIDE DEF first
      <3> QED
        BY <1>2, <1>7, NthFacts
    <2>2. Nth(first, k) \in DOMAIN branches
      BY <2>1
    <2> QED
      BY <1>2, <2>2 DEF DepsOf
  <1> HIDE DEF first, deps, stubs, own
  <1>9. /\ series \in Seq(Block)
        /\ \A i \in DOMAIN series : \E b \in Branches :
              series[i] = InitBlock(b) /\ DOMAIN b.deps \subseteq deps
    <2>1. \A k \in 1..Cardinality(first) : InitBlock(branches[Nth(first, k)]) \in Block
      BY <1>8, InitBlockFacts
    <2>2. series \in Seq(Block)
      BY <1>7, <2>1
    <2> QED
      BY <1>8, <2>2
  <1>10. CASE deps # {}
    <2> DEFINE both == own \o stubs
    <2>1. /\ both \in Seq(Project)
          /\ DOMAIN both = 1..(Len(own) + Len(stubs))
          /\ \A i \in DOMAIN own : i \in DOMAIN both /\ both[i] = own[i]
          /\ \A i \in DOMAIN stubs :
               Len(own) + i \in DOMAIN both /\ both[Len(own) + i] = stubs[i]
          /\ \A i \in DOMAIN both \ DOMAIN own :
               i - Len(own) \in DOMAIN stubs /\ both[i] = stubs[i - Len(own)]
      <3>1. own \in Seq(Project) /\ stubs \in Seq(Project)
        BY <1>5, <1>6
      <3> QED
        BY <3>1, Joined
    <2>2. projects = both
      BY <1>10
    <2> HIDE DEF both, projects
    <2>3. /\ projects \in Seq(Project) /\ 1 \in DOMAIN projects
          /\ projects[1] = [name |-> Self, self |-> TRUE]
          /\ \A i \in DOMAIN projects \ {1} :
               projects[i].self = FALSE /\ projects[i].name \in deps
          /\ \A n \in deps : \E i \in DOMAIN projects : projects[i].name = n
      <3>1. \A i \in DOMAIN projects \ {1} :
              i - 1 \in DOMAIN stubs /\ projects[i] = stubs[i - 1]
        BY <1>5, <2>1, <2>2
      <3>2. \A i \in DOMAIN stubs : 1 + i \in DOMAIN projects /\ projects[1 + i] = stubs[i]
        BY <1>5, <2>1, <2>2
      <3>3. 1 \in DOMAIN projects /\ projects[1] = [name |-> Self, self |-> TRUE]
        BY <1>5, <2>1, <2>2
      <3>4. \A n \in deps : \E i \in DOMAIN projects : projects[i].name = n
        BY <1>6, <3>2
      <3> QED
        BY <1>6, <2>1, <2>2, <3>1, <3>3, <3>4
    <2>4. {projects[i].name : i \in DOMAIN projects} = {Self} \cup deps
      BY <2>3
    <2> HIDE DEF series
    <2>5. InitText(branches) \in Texts
      BY <1>1, <1>9, <2>3 DEF Texts, Block
    <2>6. InitText(branches).projects = projects /\ InitText(branches).series = series
      BY <1>1
    <2> QED
      BY <1>3, <1>9, <2>3, <2>4, <2>5, <2>6 DEF NamesOf, deps
  <1>11. CASE deps = {}
    <2>1. projects \in Seq(Project)
      BY <1>11
    <2> HIDE DEF series, projects
    <2>2. InitText(branches) \in Texts
      BY <1>1, <1>9, <2>1 DEF Texts, Block
    <2>3. InitText(branches).series = series
      BY <1>1
    <2> QED
      BY <1>3, <1>9, <1>11, <2>2, <2>3 DEF deps
  <1> QED
    BY <1>10, <1>11

-----------------------------------------------------------------------------
(* What a verb reports is in the text it leaves, and so is what others       *)
(* reported that it does not take back.                                      *)

Promises ==
  [what : {"project"}, project : AnyName]
    \cup [what : {"pin"}, series : Series, project : Names, tag : Tags]

LEMMA JobFacts ==
  ASSUME NEW j \in Asked
  PROVE  /\ j.verb \in {"merge", "diff", "replace", "suggest", "init"}
         /\ j.verb = "merge" => j.branch \in Branches /\ j.overwrite \in BOOLEAN
         /\ j.verb = "replace" => j.branch \in Branches
         /\ j.verb = "suggest" => j.prefixes \in SUBSET AnyName /\ IsFiniteSet(j.prefixes)
         /\ j.verb = "init" => j.branches \in Seq(Branches)
  <1>1. j \in Verbs
    BY ConfigAssumption
  <1>2. CASE j \in [verb : {"merge", "diff"}, branch : Branches, overwrite : BOOLEAN]
    BY <1>2
  <1>3. CASE j \in [verb : {"replace"}, branch : Branches]
    BY <1>3
  <1>4. CASE j \in [verb : {"suggest"}, prefixes : SUBSET (Names \cup InvalidNames)]
    BY <1>4, ConfigAssumption DEF AnyName
  <1>5. CASE j \in [verb : {"init"}, force : BOOLEAN, branches : Seq(Branches)]
    BY <1>5
  <1> QED
    BY <1>1, <1>2, <1>3, <1>4, <1>5 DEF Verbs

LEMMA SuggestedFacts ==
  ASSUME NEW prefixes \in SUBSET AnyName, IsFiniteSet(prefixes), NEW names
  PROVE  Suggested(prefixes, names) \in SUBSET AnyName /\ IsFiniteSet(Suggested(prefixes, names))
  BY FS_Difference DEF Suggested

LEMMA EditedType ==
  ASSUME NEW j \in Asked, j.verb # "diff", NEW names, NEW d \in Texts
  PROVE  Edited(j, names, d) \in Texts
  <1>1. CASE j.verb = "merge"
    <2>1. /\ j.branch \in Branches /\ j.overwrite \in BOOLEAN /\ j.branch.series \in Series
          /\ IsDeps(Inferred(j.branch, names))
      BY <1>1, JobFacts, BranchDeps
    <2>2. MergeBlock(d, j.branch.series, Inferred(j.branch, names), j.overwrite) \in Texts
      BY <2>1, MergePuts DEF Puts
    <2> QED
      BY <1>1, <2>2 DEF Edited
  <1>2. CASE j.verb = "replace"
    <2>1. j.branch.series \in Series /\ IsDeps(Inferred(j.branch, names))
      BY <1>2, JobFacts, BranchDeps
    <2>2. ReplaceBlock(d, j.branch.series, Inferred(j.branch, names)) \in Texts
      BY <2>1, ReplacePuts DEF Puts
    <2> QED
      BY <1>2, <2>2 DEF Edited
  <1>3. CASE j.verb = "suggest"
    <2>1. Suggested(j.prefixes, names) \in SUBSET AnyName
          /\ IsFiniteSet(Suggested(j.prefixes, names))
      BY <1>3, JobFacts, SuggestedFacts
    <2>2. AppendStubs(d, Suggested(j.prefixes, names)) \in Texts
      BY <2>1, StubsDeclare DEF Declares
    <2> QED
      BY <1>3, <2>2 DEF Edited
  <1>4. CASE j.verb = "init"
    BY <1>4, JobFacts, InitTextFacts DEF Edited
  <1> QED
    BY <1>1, <1>2, <1>3, <1>4, JobFacts

\* A promise is kept when the block of its series has its pin.
LEMMA KeptIs ==
  ASSUME NEW f \in Promises, NEW d
  PROVE  /\ f.what = "project" => (Kept(f, d) <=> f.project \in NamesOf(d))
         /\ f.what # "project" =>
              /\ f.what = "pin" /\ f.series \in Series
              /\ Kept(f, d) <=>
                   /\ Has(d, f.series)
                   /\ \E i \in DOMAIN BlockIn(d, f.series).pins :
                        BlockIn(d, f.series).pins[i] = Literal(f.project, f.tag)
  BY DEF Promises, Kept, BlockIn

LEMMA PutsKeeps ==
  ASSUME NEW d \in Texts, NEW s \in Series, NEW b, NEW new, Puts(d, s, b, new),
         NEW f \in Promises, Kept(f, d),
         f.what = "pin" /\ f.series = s =>
           \E i \in DOMAIN b.pins : b.pins[i] = Literal(f.project, f.tag)
  PROVE  Kept(f, new)
  <1>1. CASE f.what = "project"
    <2>1. new.projects = d.projects
      BY DEF Puts
    <2>2. NamesOf(new) = NamesOf(d)
      BY <2>1 DEF NamesOf
    <2> QED
      BY <1>1, <2>2, KeptIs
  <1>2. CASE f.what # "project" /\ f.series = s
    <2>1. f.what = "pin"
      BY <1>2, KeptIs
    <2>2. Has(new, s) /\ BlockIn(new, s) = b
      BY DEF Puts
    <2> QED
      BY <1>2, <2>1, <2>2, KeptIs
  <1>3. CASE f.what # "project" /\ f.series # s
    <2>1. /\ f.series \in Series \ {s} /\ Has(d, f.series)
          /\ \E i \in DOMAIN BlockIn(d, f.series).pins :
               BlockIn(d, f.series).pins[i] = Literal(f.project, f.tag)
      BY <1>3, KeptIs
    <2>2. Has(new, f.series) /\ BlockIn(new, f.series) = BlockIn(d, f.series)
      BY <2>1 DEF Puts
    <2> QED
      BY <1>3, <2>1, <2>2, KeptIs
  <1> QED
    BY <1>1, <1>2, <1>3

LEMMA PutsPromise ==
  ASSUME NEW d, NEW s \in Series, NEW b, NEW new, Puts(d, s, b, new),
         NEW n \in Names, NEW t \in Tags, \E i \in DOMAIN b.pins : b.pins[i] = Literal(n, t)
  PROVE  PinPromise(s, n, t) \in Promises /\ Kept(PinPromise(s, n, t), new)
  <1> DEFINE f == PinPromise(s, n, t)
  <1>1. f \in Promises /\ f.what = "pin" /\ f.series = s /\ f.project = n /\ f.tag = t
    BY DEF PinPromise, Promises
  <1>2. Has(new, s) /\ BlockIn(new, s) = b
    BY DEF Puts
  <1> HIDE DEF f
  <1>3. Kept(f, new)
    BY <1>1, <1>2, KeptIs
  <1> QED
    BY <1>1, <1>3 DEF f

LEMMA DeclaresKeeps ==
  ASSUME NEW d \in Texts, NEW names, NEW new, Declares(d, names, new),
         NEW f \in Promises, Kept(f, d)
  PROVE  Kept(f, new)
  <1>1. new.series = d.series /\ NamesOf(d) \subseteq NamesOf(new)
    BY DEF Declares
  <1>2. Has(new, f.series) = Has(d, f.series) /\ BlockIn(new, f.series) = BlockIn(d, f.series)
    BY <1>1 DEF Has, BlockIn, Position
  <1>3. CASE f.what = "project"
    BY <1>1, <1>3, KeptIs
  <1>4. CASE f.what # "project"
    BY <1>2, <1>4, KeptIs
  <1> QED
    BY <1>3, <1>4

\* The pins of a merged block, by what they were.
LEMMA MergedPins ==
  ASSUME NEW d \in Texts, NEW s \in Series, NEW deps, IsDeps(deps), NEW overwrite \in BOOLEAN,
         NEW b, b = Merged(d, s, deps, overwrite)
  PROVE  /\ Has(d, s) =>
              \A i \in DOMAIN BlockIn(d, s).pins :
                 /\ i \in DOMAIN b.pins
                 /\ \/ b.pins[i] = BlockIn(d, s).pins[i]
                    \/ overwrite /\ BlockIn(d, s).pins[i].project \in DOMAIN deps
         /\ \A n \in Reports(IF Has(d, s) THEN BlockIn(d, s).pins ELSE <<>>, deps, overwrite) :
              \E i \in DOMAIN b.pins : b.pins[i] = Literal(n, deps[n])
         /\ b.name = s
         /\ b.untracked \subseteq IF Has(d, s) THEN BlockIn(d, s).untracked ELSE {}
         /\ \A i \in DOMAIN b.pins :
              \/ Has(d, s) /\ \E k \in DOMAIN BlockIn(d, s).pins : b.pins[i] = BlockIn(d, s).pins[k]
              \/ /\ b.pins[i].project \in DOMAIN deps
                 /\ b.pins[i].kind = "literal"
  <1>1. CASE Has(d, s)
    <2> DEFINE pins == BlockIn(d, s).pins
               new == MergePins(pins, deps, overwrite)
    <2>1. BlockIn(d, s) \in Block
      BY <1>1, PositionFacts
    <2>2. pins \in Seq(Pin)
      BY <2>1 DEF Block
    <2>3. b = [name |-> s, pins |-> new, untracked |-> BlockIn(d, s).untracked]
      BY <1>1 DEF Merged
    <2>4. b.pins = new /\ b.name = s /\ b.untracked = BlockIn(d, s).untracked
      BY <2>3
    <2> HIDE DEF pins, new
    <2>5. /\ \A i \in DOMAIN pins :
                /\ i \in DOMAIN new
                /\ new[i] = pins[i] \/ (overwrite /\ pins[i].project \in DOMAIN deps)
          /\ \A i \in DOMAIN new :
                \/ i \in DOMAIN pins /\ new[i] = pins[i]
                \/ /\ new[i].project \in DOMAIN deps
                   /\ new[i] = Literal(new[i].project, deps[new[i].project])
          /\ \A n \in Reports(pins, deps, overwrite) :
                \E i \in DOMAIN new : new[i] = Literal(n, deps[n])
      BY <2>2, MergePinsFacts DEF new
    <2>6. \A n, t : Literal(n, t).kind = "literal"
      BY DEF Literal
    <2>7. \A i \in DOMAIN new :
                \/ \E k \in DOMAIN pins : new[i] = pins[k]
                \/ new[i].project \in DOMAIN deps /\ new[i].kind = "literal"
      BY <2>5, <2>6
    <2> QED
      BY <1>1, <2>4, <2>5, <2>7 DEF pins
  <1>2. CASE ~Has(d, s)
    <2>1. b.name = s /\ b.pins = PinsOf(deps) /\ b.untracked = {}
      BY <1>2, BlockOfType DEF Merged
    <2>2. \A i \in DOMAIN PinsOf(deps) :
            PinsOf(deps)[i].project \in DOMAIN deps /\ PinsOf(deps)[i].kind = "literal"
      BY PinsOfFacts DEF Literal
    <2>3. \A n \in DOMAIN deps : \E i \in DOMAIN PinsOf(deps) : PinsOf(deps)[i] = Literal(n, deps[n])
      BY PinsOfFacts
    <2> QED
      BY <1>2, <2>1, <2>2, <2>3 DEF Reports
  <1> QED
    BY <1>1, <1>2

LEMMA EditKeeps ==
  ASSUME NEW j \in Asked, j.verb # "diff", NEW names, NEW d \in Texts, promised \subseteq Promises,
         NEW f \in promised \ TakenBack(j, names), Kept(f, d)
  PROVE  Kept(f, Edited(j, names, d))
  <1> DEFINE s == j.branch.series
             deps == Inferred(j.branch, names)
  <1>0. f \in Promises
    OBVIOUS
  <1>1. CASE j.verb = "merge"
    <2>1. j.overwrite \in BOOLEAN /\ s \in Series /\ IsDeps(deps)
      BY <1>1, JobFacts, BranchDeps
    <2> DEFINE b == Merged(d, s, deps, j.overwrite)
               new == MergeBlock(d, s, deps, j.overwrite)
    <2>2. Puts(d, s, b, new)
      BY <2>1, MergePuts
    <2>3. j.overwrite => ~(f.what = "pin" /\ f.series = s /\ f.project \in DOMAIN deps)
      BY <1>1 DEF TakenBack
    <2> HIDE DEF deps, s
    <2>4. ASSUME f.what = "pin", f.series = s
          PROVE  \E i \in DOMAIN b.pins : b.pins[i] = Literal(f.project, f.tag)
      <3>0. f.what # "project"
        BY <2>4
      <3>1. /\ Has(d, s)
            /\ \E i \in DOMAIN BlockIn(d, s).pins :
                 BlockIn(d, s).pins[i] = Literal(f.project, f.tag)
        BY <1>0, <2>4, <3>0, KeptIs
      <3>2. PICK i \in DOMAIN BlockIn(d, s).pins : BlockIn(d, s).pins[i] = Literal(f.project, f.tag)
        BY <3>1
      <3>3. BlockIn(d, s).pins[i].project = f.project
        BY <3>2 DEF Literal
      <3>4. /\ i \in DOMAIN b.pins
            /\ \/ b.pins[i] = BlockIn(d, s).pins[i]
               \/ j.overwrite /\ BlockIn(d, s).pins[i].project \in DOMAIN deps
        BY <2>1, <3>1, <3>2, MergedPins
      <3> QED
        BY <2>3, <2>4, <3>2, <3>3, <3>4
    <2> HIDE DEF b, new
    <2>5. Kept(f, new)
      BY <1>0, <2>1, <2>2, <2>4, PutsKeeps
    <2> QED
      BY <1>1, <2>5 DEF Edited, new, s, deps
  <1>2. CASE j.verb = "replace"
    <2>1. s \in Series /\ IsDeps(deps)
      BY <1>2, JobFacts, BranchDeps
    <2>2. Puts(d, s, BlockOf(s, deps), ReplaceBlock(d, s, deps))
      BY <2>1, ReplacePuts
    <2>3. ~(f.what = "pin" /\ f.series = s)
      BY <1>2 DEF TakenBack
    <2> HIDE DEF deps, s
    <2>4. Kept(f, ReplaceBlock(d, s, deps))
      BY <1>0, <2>1, <2>2, <2>3, PutsKeeps
    <2> QED
      BY <1>2, <2>4 DEF Edited, s, deps
  <1>3. CASE j.verb = "suggest"
    <2>1. Suggested(j.prefixes, names) \in SUBSET AnyName
          /\ IsFiniteSet(Suggested(j.prefixes, names))
      BY <1>3, JobFacts, SuggestedFacts
    <2>2. Kept(f, AppendStubs(d, Suggested(j.prefixes, names)))
      BY <1>0, <2>1, StubsDeclare, DeclaresKeeps
    <2> QED
      BY <1>3, <2>2 DEF Edited
  <1>4. CASE j.verb = "init"
    BY <1>4 DEF TakenBack
  <1> QED
    BY <1>1, <1>2, <1>3, <1>4, JobFacts

LEMMA EditReports ==
  ASSUME NEW j \in Asked, j.verb # "diff", NEW names, NEW d \in Texts,
         NEW f \in Reported(j, names, d)
  PROVE  f \in Promises /\ Kept(f, Edited(j, names, d))
  <1> DEFINE s == j.branch.series
             deps == Inferred(j.branch, names)
  <1>1. CASE j.verb = "merge"
    <2>1. j.overwrite \in BOOLEAN /\ s \in Series /\ IsDeps(deps)
      BY <1>1, JobFacts, BranchDeps
    <2> DEFINE b == Merged(d, s, deps, j.overwrite)
               new == MergeBlock(d, s, deps, j.overwrite)
               pins == IF Has(d, s) THEN BlockIn(d, s).pins ELSE <<>>
    <2>2. Puts(d, s, b, new)
      BY <2>1, MergePuts
    <2>3. \E n \in Reports(pins, deps, j.overwrite) : f = PinPromise(s, n, deps[n])
      BY <1>1 DEF Reported, Reports, BlockIn
    <2>4. PICK n \in Reports(pins, deps, j.overwrite) : f = PinPromise(s, n, deps[n])
      BY <2>3
    <2>5. n \in DOMAIN deps /\ n \in Names /\ deps[n] \in Tags
      BY <2>1, <2>4 DEF Reports, IsDeps
    <2> HIDE DEF deps, s
    <2>6. \E i \in DOMAIN b.pins : b.pins[i] = Literal(n, deps[n])
      BY <2>1, <2>4, MergedPins
    <2> HIDE DEF b, new
    <2>7. f \in Promises /\ Kept(f, new)
      BY <2>1, <2>2, <2>4, <2>5, <2>6, PutsPromise
    <2> QED
      BY <1>1, <2>7 DEF Edited, new, s, deps
  <1>2. CASE j.verb = "replace"
    <2>1. s \in Series /\ IsDeps(deps)
      BY <1>2, JobFacts, BranchDeps
    <2>2. Puts(d, s, BlockOf(s, deps), ReplaceBlock(d, s, deps))
      BY <2>1, ReplacePuts
    <2>3. PICK n \in DOMAIN deps : f = PinPromise(s, n, deps[n])
      BY <1>2 DEF Reported
    <2>4. n \in Names /\ deps[n] \in Tags
      BY <2>1 DEF IsDeps
    <2> HIDE DEF deps, s
    <2>5. \E i \in DOMAIN BlockOf(s, deps).pins : BlockOf(s, deps).pins[i] = Literal(n, deps[n])
      BY <2>1, BlockOfType, PinsOfFacts
    <2>6. f \in Promises /\ Kept(f, ReplaceBlock(d, s, deps))
      BY <2>1, <2>2, <2>3, <2>4, <2>5, PutsPromise
    <2> QED
      BY <1>2, <2>6 DEF Edited, s, deps
  <1>3. ASSUME NEW n \in AnyName, f = ProjectPromise(n), n \in NamesOf(Edited(j, names, d))
        PROVE  f \in Promises /\ Kept(f, Edited(j, names, d))
    BY <1>3 DEF ProjectPromise, Promises, Kept
  <1>4. CASE j.verb = "suggest"
    <2>1. Suggested(j.prefixes, names) \in SUBSET AnyName
          /\ IsFiniteSet(Suggested(j.prefixes, names))
      BY <1>4, JobFacts, SuggestedFacts
    <2>2. Suggested(j.prefixes, names)
            \subseteq NamesOf(AppendStubs(d, Suggested(j.prefixes, names)))
      <3> DEFINE m == Suggested(j.prefixes, names)
      <3> HIDE DEF m
      <3>1. Declares(d, m, AppendStubs(d, m))
        BY <2>1, StubsDeclare DEF m
      <3>2. m \subseteq NamesOf(AppendStubs(d, m))
        BY <3>1 DEF Declares
      <3> QED
        BY <3>2 DEF m
    <2>3. Edited(j, names, d) = AppendStubs(d, Suggested(j.prefixes, names))
      BY <1>4 DEF Edited
    <2>4. \E n \in Suggested(j.prefixes, names) : f = ProjectPromise(n)
      BY <1>4 DEF Reported
    <2> QED
      BY <1>3, <2>1, <2>2, <2>3, <2>4
  <1>5. CASE j.verb = "init"
    <2>1. InitText(j.branches) \in Texts
      BY <1>5, JobFacts, InitTextFacts
    <2>2. Edited(j, names, d) = InitText(j.branches)
      BY <1>5 DEF Edited
    <2>3. \E n \in NamesOf(InitText(j.branches)) : f = ProjectPromise(n)
      BY <1>5 DEF Reported
    <2>4. NamesOf(InitText(j.branches)) \subseteq AnyName
      BY <2>1, TextNames DEF AnyName
    <2> QED
      BY <1>3, <2>2, <2>3, <2>4
  <1> QED
    BY <1>1, <1>2, <1>4, <1>5, JobFacts

-----------------------------------------------------------------------------
(* The invariant.                                                            *)

PCs == {"off", "loaded", "read", "truncated"}

TypeInv ==
  /\ file \in Texts \cup {Missing, Broken}
  /\ pc \in [Procs -> PCs]
  /\ job \in [Procs -> Asked \cup {Idle}]
  /\ known \in [Procs -> SUBSET AnyName]
  /\ text \in [Procs -> Texts]
  /\ started \in 0..MaxVerbs
  /\ overtaken \subseteq {p \in Procs : pc[p] # "off"}
  /\ raced \subseteq overtaken
  /\ intact \in BOOLEAN
  /\ promised \subseteq Promises

\* A process that is at work has a job, one that loads is no init, and one
\* that writes is no diff.
JobInv ==
  \A p \in Procs :
    /\ job[p] = Idle <=> pc[p] = "off"
    /\ pc[p] = "loaded" => job[p].verb # "init"
    /\ pc[p] = "truncated" => job[p].verb # "diff"

\* An init does not read the file.
Reads(p) == job[p].verb # "init"

Quiet == \A p \in Procs : pc[p] # "truncated"

Good(d) == d # Broken /\ \A f \in promised : d # Missing /\ Kept(f, d)

\* What the text of a process that nobody wrote under is: the file, or, once
\* it truncated the file with no other write under way, what the file was.
InHand(p) ==
  /\ Quiet /\ pc[p] = "read" /\ Reads(p) => text[p] = file
  /\ intact /\ pc[p] = "truncated" /\ (\A q \in Procs \ {p} : pc[q] # "truncated")
       => /\ file = EmptyText
          /\ Reads(p) => Good(text[p])

KeptInv ==
  /\ intact /\ Quiet => Good(file)
  /\ \A p \in Procs \ raced : InHand(p)

\* What a process that nobody overtook knows of the file.
Current(p) ==
  /\ pc[p] = "loaded" => Loads(file) /\ known[p] = NamesOf(file)
  /\ pc[p] = "read" /\ Reads(p) =>
       text[p] = file /\ Loads(file) /\ known[p] = NamesOf(file)
  /\ pc[p] = "truncated" =>
       /\ file = EmptyText
       /\ Reads(p) => Loads(text[p]) /\ known[p] = NamesOf(text[p])

LoadsInv == \A p \in Procs \ overtaken : Current(p)

-----------------------------------------------------------------------------
(* Types.                                                                    *)

LEMMA IdleIsNoJob ==
  \A j \in Asked : j # Idle
  BY JobFacts DEF Idle

LEMMA EmptyTextType ==
  EmptyText \in Texts /\ EmptyText # Missing /\ EmptyText # Broken
  <1>1. EmptyText \in Texts
    BY DEF EmptyText, Texts
  <1> QED
    BY <1>1, ConfigAssumption

LEMMA InitType ==
  ASSUME Init
  PROVE  TypeInv /\ JobInv
  <1>1. TypeInv
    BY EmptyTextType, ConfigAssumption DEF Init, TypeInv, PCs
  <1>2. JobInv
    BY DEF Init, JobInv, Idle
  <1> QED
    BY <1>1, <1>2

\* A process that has a job is not idle, so the job is one it was asked.
LEMMA AtWork ==
  ASSUME TypeInv, JobInv, NEW p \in Procs, pc[p] # "off"
  PROVE  job[p] \in Asked
  BY DEF TypeInv, JobInv

LEMMA CutType ==
  ASSUME NEW d \in Texts, NEW c \in CutsOf(d)
  PROVE  c \in Texts \cup {Broken}
  <1>1. /\ d.projects \in Seq(Project) /\ d.series \in Seq(Block)
        /\ Len(d.projects) \in Nat /\ Len(d.series) \in Nat
        /\ DOMAIN d.projects = 1..Len(d.projects) /\ DOMAIN d.series = 1..Len(d.series)
    BY TextFacts
  <1>2. \A i \in 0..Len(d.projects) : SubSeq(d.projects, 1, i) \in Seq(Project)
    <2> TAKE i \in 0..Len(d.projects)
    <2>1. \A k \in 1..i : d.projects[k] \in Project
      BY <1>1
    <2> QED
      BY <2>1, SubSeqProperties
  <1>3. \A i \in 0..Len(d.series) : SubSeq(d.series, 1, i) \in Seq(Block)
    <2> TAKE i \in 0..Len(d.series)
    <2>1. \A k \in 1..i : d.series[k] \in Block
      BY <1>1
    <2> QED
      BY <2>1, SubSeqProperties
  <1>4. CASE c = Broken
    BY <1>4
  <1>5. ASSUME NEW i \in 0..Len(d.projects),
               c = [projects |-> SubSeq(d.projects, 1, i), series |-> <<>>]
        PROVE  c \in Texts
    BY <1>2, <1>5 DEF Texts, Block
  <1>6. ASSUME NEW i \in 0..Len(d.series), c = [d EXCEPT !.series = SubSeq(d.series, 1, i)]
        PROVE  c \in Texts
    <2>1. c = [projects |-> d.projects, series |-> SubSeq(d.series, 1, i)]
      BY <1>6, WithSeries
    <2> QED
      BY <1>1, <1>3, <2>1 DEF Texts, Block
  <1> QED
    BY <1>4, <1>5, <1>6 DEF CutsOf

LEMMA UnderFacts ==
  ASSUME TypeInv, NEW p \in Procs
  PROVE  /\ Under(p).changed = overtaken \cup {q \in Procs \ {p} : pc[q] # "off"}
         /\ Under(p).raced = raced \cup {q \in Procs \ {p} : pc[q] \in {"read", "truncated"}}
         /\ Under(p).raced \subseteq Under(p).changed
         /\ Under(p).changed \subseteq Procs
  BY DEF TypeInv, Under

LEMMA StepType ==
  ASSUME TypeInv, JobInv, [Next]_vars
  PROVE  TypeInv' /\ JobInv'
  <1>1. ASSUME NEW p \in Procs, NEW j \in Asked, Load(p, j)
        PROVE  TypeInv' /\ JobInv'
    <2>1. file \in Texts /\ NamesOf(file) \subseteq AnyName
      <3>1. file \in Texts
        BY <1>1 DEF Load, Loads, TypeInv
      <3> QED
        BY <3>1, TextNames DEF AnyName
    <2>2. started' \in 0..MaxVerbs
      BY <1>1, ConfigAssumption DEF Load, TypeInv
    <2>3. TypeInv'
      BY <1>1, <2>1, <2>2 DEF Load, TypeInv, PCs
    <2>4. JobInv'
      BY <1>1, IdleIsNoJob DEF Load, TypeInv, JobInv
    <2> QED
      BY <2>3, <2>4
  <1>2. ASSUME NEW p \in Procs, NEW j \in Asked, BeginInit(p, j)
        PROVE  TypeInv' /\ JobInv'
    <2>1. started' \in 0..MaxVerbs
      BY <1>2, ConfigAssumption DEF BeginInit, TypeInv
    <2>2. TypeInv'
      BY <1>2, <2>1 DEF BeginInit, TypeInv, PCs
    <2>3. JobInv'
      BY <1>2, IdleIsNoJob DEF BeginInit, TypeInv, JobInv
    <2> QED
      BY <2>2, <2>3
  <1>3. ASSUME NEW p \in Procs, Read(p)
        PROVE  TypeInv' /\ JobInv'
    BY <1>3 DEF Read, TypeInv, JobInv, PCs
  <1>4. ASSUME NEW p \in Procs, Leave(p)
        PROVE  TypeInv' /\ JobInv'
    <2>1. TypeInv'
      BY <1>4, EmptyTextType DEF Leave, Finish, TypeInv, PCs
    <2>2. JobInv'
      BY <1>4 DEF Leave, Finish, TypeInv, JobInv, Idle
    <2> QED
      BY <2>1, <2>2
  <1>5. ASSUME NEW p \in Procs, Truncate(p)
        PROVE  TypeInv' /\ JobInv'
    <2>1. /\ Under(p).raced \subseteq Under(p).changed
          /\ Under(p).changed \subseteq {q \in Procs : pc'[q] # "off"}
      BY <1>5, UnderFacts DEF Truncate, TypeInv
    <2>2. TypeInv'
      BY <1>5, <2>1, EmptyTextType DEF Truncate, TypeInv, PCs
    <2>3. JobInv'
      BY <1>5 DEF Truncate, TypeInv, JobInv
    <2> QED
      BY <2>2, <2>3
  <1>6. ASSUME NEW p \in Procs, pc[p] = "truncated", Finish(p),
               file' \in Texts \cup {Missing, Broken},
               overtaken' = Under(p).changed \ {p}, raced' = Under(p).raced \ {p},
               intact' \in BOOLEAN, promised' \subseteq Promises, UNCHANGED started
        PROVE  TypeInv' /\ JobInv'
    <2>1. /\ Under(p).raced \subseteq Under(p).changed
          /\ Under(p).changed \ {p} \subseteq {q \in Procs : pc'[q] # "off"}
      BY <1>6, UnderFacts DEF Finish, TypeInv
    <2>2. TypeInv'
      BY <1>6, <2>1, EmptyTextType DEF Finish, TypeInv, PCs
    <2>3. JobInv'
      BY <1>6 DEF Finish, TypeInv, JobInv, Idle
    <2> QED
      BY <2>2, <2>3
  <1>7. ASSUME NEW p \in Procs, pc[p] = "truncated"
        PROVE  /\ job[p] \in Asked /\ job[p].verb # "diff" /\ text[p] \in Texts
               /\ Edited(job[p], known[p], text[p]) \in Texts
    <2>1. job[p] \in Asked /\ job[p].verb # "diff" /\ text[p] \in Texts
      BY <1>7, AtWork DEF JobInv, TypeInv
    <2> QED
      BY <2>1, EditedType
  <1>8. ASSUME NEW p \in Procs, Write(p)
        PROVE  TypeInv' /\ JobInv'
    <2> DEFINE new == Edited(job[p], known[p], text[p])
    <2>1. pc[p] = "truncated"
      BY <1>8 DEF Write
    <2>2. job[p] \in Asked /\ job[p].verb # "diff" /\ text[p] \in Texts /\ new \in Texts
      BY <1>7, <2>1
    <2> HIDE DEF new
    <2>3. file' \in Texts \cup {Missing, Broken}
      BY <1>8, <2>2 DEF Write, new
    <2>4. Reported(job[p], known[p], text[p]) \subseteq Promises
      BY <2>2, EditReports
    <2>5. promised' \subseteq Promises
      BY <1>8, <2>4 DEF Write, TypeInv
    <2>6. intact' \in BOOLEAN
      BY <1>8, Zenon DEF Write
    <2> QED
      BY <1>6, <1>8, <2>1, <2>3, <2>5, <2>6 DEF Write
  <1>9. ASSUME NEW p \in Procs, WriteCut(p)
        PROVE  TypeInv' /\ JobInv'
    <2>1. pc[p] = "truncated"
      BY <1>9 DEF WriteCut
    <2>2. file' \in Texts \cup {Missing, Broken}
      BY <1>7, <1>9, <2>1, CutType DEF WriteCut, TypeInv
    <2>3. promised' \subseteq Promises /\ intact' \in BOOLEAN
      BY <1>9 DEF WriteCut, TypeInv
    <2> QED
      BY <1>6, <1>9, <2>1, <2>2, <2>3 DEF WriteCut
  <1>10. CASE UNCHANGED vars
    BY <1>10 DEF vars, TypeInv, JobInv
  <1> QED
    BY <1>1, <1>2, <1>3, <1>4, <1>5, <1>8, <1>9, <1>10 DEF Next

LEMMA TypeHolds == Spec => [](TypeInv /\ JobInv)
  <1>1. Init => TypeInv /\ JobInv
    BY InitType
  <1>2. TypeInv /\ JobInv /\ [Next]_vars => (TypeInv /\ JobInv)'
    BY StepType
  <1> QED
    BY <1>1, <1>2, PTL DEF Spec

\* Type correctness: whatever is edited by whom, the file is missing, broken or
\* a text whose pins are of their kinds.
THEOREM TypeCorrect == Spec => []TypeOK
  <1>1. ASSUME TypeInv, JobInv
        PROVE  TypeOK
    <2>1. CASE file \in Texts
      <3>1. \A i \in DOMAIN file.projects : file.projects[i] \in Project
        BY <2>1, TextFacts
      <3>2. \A i \in DOMAIN file.series :
              /\ file.series[i].name \in Series /\ file.series[i].untracked \subseteq Names
              /\ \A k \in DOMAIN file.series[i].pins : file.series[i].pins[k] \in Pin
        <4> TAKE i \in DOMAIN file.series
        <4>1. file.series[i] \in Block
          BY <2>1, TextFacts
        <4>2. file.series[i].pins \in Seq(Pin)
          BY <4>1 DEF Block
        <4> QED
          BY <4>1, <4>2 DEF Block
      <3> QED
        BY <1>1, <3>1, <3>2 DEF TypeInv, JobInv, TypeOK, PCs, AnyName
    <2>2. CASE file \in {Missing, Broken}
      BY <1>1, <2>2 DEF TypeInv, JobInv, TypeOK, PCs, AnyName
    <2> QED
      BY <1>1, <2>1, <2>2 DEF TypeInv
  <1>2. TypeInv /\ JobInv => TypeOK
    BY <1>1
  <1> QED
    BY <1>2, TypeHolds, PTL

-----------------------------------------------------------------------------
(* What was reported stays.                                                  *)

LEMMA InitKept ==
  ASSUME Init
  PROVE  KeptInv /\ LoadsInv
  <1>1. KeptInv
    <2>1. file # Broken
      BY ConfigAssumption DEF Init
    <2> QED
      BY <2>1 DEF Init, KeptInv, InHand, Good
  <1>2. LoadsInv
    BY DEF Init, LoadsInv, Current
  <1> QED
    BY <1>1, <1>2

\* Only p moves.
Moves(p) ==
  \A q \in Procs \ {p} :
    pc'[q] = pc[q] /\ job'[q] = job[q] /\ known'[q] = known[q] /\ text'[q] = text[q]

LEMMA StepMoves ==
  ASSUME TypeInv, NEW p \in Procs,
         (\E j \in Asked : Load(p, j) \/ BeginInit(p, j))
           \/ Read(p) \/ Leave(p) \/ Truncate(p) \/ Write(p) \/ WriteCut(p)
  PROVE  Moves(p)
  BY DEF TypeInv, Moves, Load, BeginInit, Read, Leave, Truncate, Write, WriteCut, Finish

\* A step that neither truncates nor writes.
LEMMA CalmKeeps ==
  ASSUME KeptInv, NEW p \in Procs, Moves(p), UNCHANGED <<file, intact, promised>>,
         pc[p] # "truncated", pc'[p] # "truncated", raced \ {p} \subseteq raced',
         Quiet /\ pc'[p] = "read" /\ job'[p].verb # "init" => text'[p] = file
  PROVE  KeptInv'
  <1>1. Quiet' <=> Quiet
    BY DEF Moves, Quiet
  <1>2. \A d : Good(d)' <=> Good(d)
    BY DEF Good
  <1>3. InHand(p)'
    BY <1>1 DEF InHand, Reads
  <1>4. ASSUME NEW q \in Procs \ raced', q # p
        PROVE  InHand(q)'
    <2>1. InHand(q) /\ pc'[q] = pc[q] /\ job'[q] = job[q] /\ text'[q] = text[q]
      BY <1>4 DEF KeptInv, Moves
    <2>2. (\A r \in Procs \ {q} : pc[r] # "truncated") <=> (\A r \in Procs \ {q} : pc'[r] # "truncated")
      BY <1>4 DEF Moves
    <2> QED
      BY <1>1, <1>2, <2>1, <2>2 DEF InHand, Reads, Good
  <1> QED
    BY <1>1, <1>3, <1>4 DEF KeptInv, Good

\* A write races all that is in hand.
LEMMA WriteRaces ==
  ASSUME TypeInv, NEW p \in Procs, Moves(p), pc'[p] = "off", raced' = Under(p).raced \ {p}
  PROVE  \A q \in Procs \ raced' : InHand(q)'
  <1> SUFFICES ASSUME NEW q \in Procs \ raced'
               PROVE  InHand(q)'
    OBVIOUS
  <1>1. CASE q = p
    BY <1>1 DEF InHand
  <1>2. CASE q # p
    <2>1. pc[q] \notin {"read", "truncated"} /\ pc'[q] = pc[q]
      BY <1>2, UnderFacts DEF Moves
    <2> QED
      BY <2>1 DEF InHand
  <1> QED
    BY <1>1, <1>2

LEMMA TruncateKeeps ==
  ASSUME TypeInv, KeptInv, NEW p \in Procs, Truncate(p), Moves(p)
  PROVE  KeptInv'
  <1>1. /\ pc[p] = "read" /\ pc'[p] = "truncated" /\ file' = EmptyText
        /\ job'[p] = job[p] /\ text'[p] = text[p] /\ intact' = intact /\ promised' = promised
        /\ raced \subseteq raced'
    BY UnderFacts DEF Truncate, TypeInv
  <1>2. ~Quiet'
    BY <1>1 DEF Quiet
  <1>3. ASSUME NEW q \in Procs \ raced', q # p
        PROVE  InHand(q)'
    BY <1>1, <1>2, <1>3 DEF InHand
  <1>4. ASSUME p \notin raced', intact', \A q \in Procs \ {p} : pc'[q] # "truncated", Reads(p)'
        PROVE  Good(text[p])'
    <2>1. Quiet /\ p \notin raced /\ intact /\ Reads(p)
      BY <1>1, <1>4 DEF Quiet, Moves, Reads
    <2>2. text[p] = file /\ Good(file)
      BY <1>1, <2>1 DEF KeptInv, InHand
    <2> QED
      BY <1>1, <2>2 DEF Good
  <1>5. p \notin raced' => InHand(p)'
    BY <1>1, <1>2, <1>4 DEF InHand
  <1> QED
    BY <1>2, <1>3, <1>5 DEF KeptInv

LEMMA WriteKeeps ==
  ASSUME TypeInv, JobInv, KeptInv, NEW p \in Procs, Write(p), Moves(p)
  PROVE  KeptInv'
  <1> DEFINE new == Edited(job[p], known[p], text[p])
  <1>1. /\ pc[p] = "truncated" /\ pc'[p] = "off" /\ raced' = Under(p).raced \ {p}
        /\ file = EmptyText => file' = new
        /\ promised' = (promised \ TakenBack(job[p], known[p]))
                         \cup Reported(job[p], known[p], text[p])
    BY DEF Write, Finish, TypeInv
  <1>2. intact' => intact /\ p \notin raced
    BY Zenon DEF Write
  <1>3. /\ job[p] \in Asked /\ job[p].verb # "diff" /\ text[p] \in Texts /\ new \in Texts
    BY <1>1, AtWork, EditedType DEF JobInv, TypeInv
  <1>4. ASSUME intact', Quiet'
        PROVE  Good(file)'
    <2>1. intact /\ p \notin raced /\ \A q \in Procs \ {p} : pc[q] # "truncated"
      BY <1>2, <1>4 DEF Quiet, Moves
    <2>2. file = EmptyText /\ (Reads(p) => Good(text[p]))
      BY <1>1, <2>1 DEF KeptInv, InHand
    <2>3. file' = new /\ new # Broken /\ new # Missing
      BY <1>1, <1>3, <2>2, ConfigAssumption
    <2>4. ASSUME NEW f \in promised'
          PROVE  Kept(f, new)
      <3>1. CASE f \in Reported(job[p], known[p], text[p])
        BY <1>3, <3>1, EditReports
      <3>2. CASE f \in promised \ TakenBack(job[p], known[p])
        <4>1. Reads(p)
          BY <3>2 DEF TakenBack, Reads
        <4>2. Kept(f, text[p]) /\ promised \subseteq Promises
          BY <2>2, <3>2, <4>1 DEF Good, TypeInv
        <4> QED
          BY <1>3, <3>2, <4>2, EditKeeps
      <3> QED
        BY <1>1, <2>4, <3>1, <3>2
    <2> HIDE DEF new
    <2> QED
      BY <2>3, <2>4 DEF Good
  <1>5. \A q \in Procs \ raced' : InHand(q)'
    BY <1>1, WriteRaces
  <1> QED
    BY <1>4, <1>5 DEF KeptInv

LEMMA StepKeeps ==
  ASSUME TypeInv, JobInv, KeptInv, [Next]_vars
  PROVE  KeptInv'
  <1>1. ASSUME NEW p \in Procs,
               (\E j \in Asked : Load(p, j) \/ BeginInit(p, j))
                 \/ Read(p) \/ Leave(p) \/ Truncate(p) \/ Write(p) \/ WriteCut(p)
        PROVE  KeptInv'
    <2>0. Moves(p)
      BY <1>1, StepMoves
    <2>1. ASSUME NEW j \in Asked, Load(p, j) \/ BeginInit(p, j)
          PROVE  KeptInv'
      <3>1. /\ UNCHANGED <<file, intact, promised>> /\ raced' = raced /\ pc[p] = "off"
            /\ pc'[p] = "loaded" \/ (pc'[p] = "read" /\ job'[p].verb = "init")
        BY <2>1 DEF Load, BeginInit, TypeInv
      <3> QED
        BY <2>0, <3>1, CalmKeeps
    <2>2. CASE Read(p)
      <3>1. /\ UNCHANGED <<file, intact, promised>> /\ raced' = raced /\ pc[p] = "loaded"
            /\ pc'[p] = "read" /\ text'[p] = file
        BY <2>2 DEF Read, TypeInv
      <3> QED
        BY <2>0, <3>1, CalmKeeps
    <2>3. CASE Leave(p)
      <3>1. /\ UNCHANGED <<file, intact, promised>> /\ raced' = raced \ {p}
            /\ pc[p] # "truncated" /\ pc'[p] = "off"
        BY <2>3 DEF Leave, Finish, TypeInv
      <3> QED
        BY <2>0, <3>1, CalmKeeps
    <2>4. CASE Truncate(p)
      BY <2>0, <2>4, TruncateKeeps
    <2>5. CASE Write(p)
      BY <2>0, <2>5, WriteKeeps
    <2>6. CASE WriteCut(p)
      <3>1. pc'[p] = "off" /\ raced' = Under(p).raced \ {p} /\ intact' = FALSE
        BY <2>6 DEF WriteCut, Finish, TypeInv
      <3>2. \A q \in Procs \ raced' : InHand(q)'
        BY <2>0, <3>1, WriteRaces
      <3> QED
        BY <3>1, <3>2 DEF KeptInv
    <2> QED
      BY <1>1, <2>1, <2>2, <2>3, <2>4, <2>5, <2>6
  <1>2. CASE UNCHANGED vars
    BY <1>2 DEF vars, KeptInv, InHand, Good, Quiet, Reads
  <1> QED
    BY <1>1, <1>2 DEF Next

\* However many verbs follow each other, each on the text it read, what a
\* finished one reported is in the file until another takes it back.
THEOREM ReportsStay == Spec => []ReportsAreKept
  <1> DEFINE Inv == TypeInv /\ JobInv /\ KeptInv
  <1>1. Init => Inv
    BY InitType, InitKept
  <1>2. Inv /\ [Next]_vars => Inv'
    BY StepType, StepKeeps
  <1>3. Inv => ReportsAreKept
    BY DEF KeptInv, Quiet, Good, ReportsAreKept
  <1> QED
    BY <1>1, <1>2, <1>3, PTL DEF Spec

-----------------------------------------------------------------------------
(* What is edited loads.                                                     *)

SelfAt(d) == {i \in DOMAIN d.projects : d.projects[i].self}

LEMMA LoadsIs ==
  ASSUME NEW d \in Texts
  PROVE  Loads(d) <=>
           /\ NamesOf(d) \cap InvalidNames = {}
           /\ Cardinality(SelfAt(d)) <= 1
           /\ \A i \in DOMAIN d.series :
                /\ \A k \in DOMAIN d.series[i].pins :
                     LET pin == d.series[i].pins[k]
                     IN  pin.project \in NamesOf(d) /\ (pin.kind = "self" => IsSelf(d, pin.project))
                /\ d.series[i].untracked \subseteq NamesOf(d)
  BY ConfigAssumption DEF Loads, SelfAt

\* A block of pins and settings of projects that d declares.
OfProjects(d, b) ==
  /\ \A k \in DOMAIN b.pins :
       /\ b.pins[k].project \in NamesOf(d)
       /\ b.pins[k].kind = "self" => IsSelf(d, b.pins[k].project)
  /\ b.untracked \subseteq NamesOf(d)

LEMMA LoadedBlocks ==
  ASSUME NEW d \in Texts, Loads(d)
  PROVE  \A i \in DOMAIN d.series : OfProjects(d, d.series[i])
  BY LoadsIs DEF OfProjects

LEMMA PutsLoads ==
  ASSUME NEW d \in Texts, Loads(d), NEW s \in Series, NEW b, NEW new, Puts(d, s, b, new),
         OfProjects(d, b)
  PROVE  Loads(new)
  <1>1. new \in Texts /\ new.projects = d.projects
    BY DEF Puts
  <1>2. NamesOf(new) = NamesOf(d) /\ SelfAt(new) = SelfAt(d)
    BY <1>1 DEF NamesOf, SelfAt
  <1>3. \A n : IsSelf(new, n) = IsSelf(d, n)
    BY <1>1 DEF IsSelf
  <1>4. \A i \in DOMAIN new.series : OfProjects(d, new.series[i])
    BY LoadedBlocks DEF Puts
  <1>5. \A i \in DOMAIN new.series : OfProjects(new, new.series[i])
    BY <1>2, <1>3, <1>4 DEF OfProjects
  <1>6. NamesOf(d) \cap InvalidNames = {} /\ Cardinality(SelfAt(d)) <= 1
    BY LoadsIs
  <1> QED
    BY <1>1, <1>2, <1>5, <1>6, LoadsIs DEF OfProjects

LEMMA DeclaresLoads ==
  ASSUME NEW d \in Texts, Loads(d), NEW names, NEW new, Declares(d, names, new),
         NamesOf(new) \cap InvalidNames = {}
  PROVE  Loads(new)
  <1>1. /\ new \in Texts /\ new.series = d.series /\ NamesOf(d) \subseteq NamesOf(new)
        /\ DOMAIN d.projects \subseteq DOMAIN new.projects
        /\ \A i \in DOMAIN d.projects : new.projects[i] = d.projects[i]
        /\ \A i \in DOMAIN new.projects \ DOMAIN d.projects :
             new.projects[i].name \notin NamesOf(d) /\ new.projects[i].self = FALSE
    BY DEF Declares
  <1>2. SelfAt(new) = SelfAt(d)
    BY <1>1 DEF SelfAt
  <1>3. ASSUME NEW n \in NamesOf(d)
        PROVE  IsSelf(new, n) = IsSelf(d, n)
    <2> DEFINE T == {i \in DOMAIN d.projects : d.projects[i].name = n}
    <2>1. {i \in DOMAIN new.projects : new.projects[i].name = n} = T
      BY <1>1
    <2>2. T # {} /\ T \in SUBSET (1..Len(d.projects)) /\ Len(d.projects) \in Nat
      BY TextFacts DEF NamesOf
    <2>3. IsSelf(d, n) = d.projects[Max(T)].self
      BY DEF IsSelf
    <2>4. IsSelf(new, n) = new.projects[Max(T)].self
      BY <2>1 DEF IsSelf
    <2> HIDE DEF T
    <2>5. Max(T) \in T
      BY <2>2, Positions
    <2>6. Max(T) \in DOMAIN d.projects
      BY <2>5 DEF T
    <2> QED
      BY <1>1, <2>3, <2>4, <2>6
  <1>4. \A i \in DOMAIN d.series : OfProjects(d, d.series[i])
    BY LoadedBlocks
  <1>5. \A i \in DOMAIN new.series : OfProjects(new, new.series[i])
    BY <1>1, <1>3, <1>4 DEF OfProjects
  <1>6. Cardinality(SelfAt(new)) <= 1
    BY <1>2, LoadsIs
  <1> QED
    BY <1>1, <1>5, <1>6, LoadsIs DEF OfProjects

LEMMA InitLoads ==
  ASSUME NEW branches \in Seq(Branches),
         branches # <<>> => DepsOf(branches) # {}
  PROVE  Loads(InitText(branches))
  <1> DEFINE new == InitText(branches)
             deps == DepsOf(branches)
  <1>1. /\ new \in Texts /\ deps \subseteq Names \ {Self}
        /\ \A i \in DOMAIN new.series :
              \E b \in Branches : new.series[i] = InitBlock(b) /\ DOMAIN b.deps \subseteq deps
    BY InitTextFacts
  <1>2. CASE deps # {}
    <2>1. /\ NamesOf(new) = {Self} \cup deps /\ 1 \in DOMAIN new.projects
          /\ \A i \in DOMAIN new.projects :
                IF i = 1 THEN new.projects[i] = [name |-> Self, self |-> TRUE]
                ELSE new.projects[i].self = FALSE /\ new.projects[i].name \in deps
      BY <1>2, InitTextFacts
    <2> HIDE DEF new, deps
    <2>2. SelfAt(new) = {1}
      BY <2>1 DEF SelfAt
    <2>3. Cardinality(SelfAt(new)) <= 1
      <3>1. Cardinality({1}) = 1
        BY FS_Singleton
      <3> QED
        BY <2>2, <3>1
    <2>4. IsSelf(new, Self)
      <3> DEFINE T == {i \in DOMAIN new.projects : new.projects[i].name = Self}
      <3>1. T = {1}
        BY <1>1, <2>1
      <3>2. IsSelf(new, Self) = new.projects[Max(T)].self
        BY DEF IsSelf
      <3> HIDE DEF T
      <3>3. T \in SUBSET (1..1) /\ T # {}
        BY <3>1
      <3>4. Max(T) = 1
        BY <3>1, <3>3, Positions
      <3> QED
        BY <2>1, <3>2, <3>4
    <2>5. ASSUME NEW i \in DOMAIN new.series
          PROVE  OfProjects(new, new.series[i])
      <3>1. PICK b \in Branches : new.series[i] = InitBlock(b) /\ DOMAIN b.deps \subseteq deps
        BY <1>1
      <3>2. /\ InitBlock(b).untracked = {}
            /\ \A k \in DOMAIN InitBlock(b).pins :
                 LET pin == InitBlock(b).pins[k]
                 IN  pin = Mine \/ (pin.kind = "literal" /\ pin.project \in DOMAIN b.deps)
        BY InitBlockFacts
      <3>3. Mine.project = Self
        BY DEF Mine
      <3> QED
        BY <2>1, <2>4, <3>1, <3>2, <3>3 DEF OfProjects
    <2>6. NamesOf(new) \cap InvalidNames = {}
      BY <1>1, <2>1, ConfigAssumption
    <2>7. Loads(new)
      BY <1>1, <2>3, <2>5, <2>6, LoadsIs DEF OfProjects
    <2> QED
      BY <2>7 DEF new
  <1>3. CASE branches = <<>>
    <2> DEFINE first == {i \in DOMAIN branches :
                           \A k \in 1..(i - 1) : branches[k].series # branches[i].series}
    <2>1. DepsOf(branches) = {} /\ first = {}
      BY <1>3 DEF DepsOf
    <2>5. Cardinality(first) = 0
      BY <2>1, FS_EmptySet
    <2>6. new.projects = <<>>
      BY <2>1 DEF InitText, DepsOf
    <2>7. new.series = [k \in 1..Cardinality(first) |-> InitBlock(branches[Nth(first, k)])]
      BY DEF InitText
    <2> HIDE DEF first
    <2>8. DOMAIN new.series = {}
      BY <2>5, <2>7
    <2> HIDE DEF new
    <2>2. NamesOf(new) = {} /\ SelfAt(new) = {} /\ DOMAIN new.series = {}
      BY <2>6, <2>8 DEF NamesOf, SelfAt
    <2>3. Cardinality(SelfAt(new)) <= 1
      BY <2>2, FS_EmptySet
    <2>4. Loads(new)
      BY <1>1, <2>2, <2>3, LoadsIs
    <2> QED
      BY <2>4 DEF new
  <1> QED
    BY <1>2, <1>3

LEMMA EditLoads ==
  ASSUME NEW j \in Asked, j.verb # "diff", NEW d \in Texts,
         j.verb # "init" => Loads(d), NEW names, j.verb # "init" => names = NamesOf(d),
         NamesOf(Edited(j, names, d)) \cap InvalidNames = {}, ~PinsNothing(j)
  PROVE  Loads(Edited(j, names, d))
  <1> DEFINE s == j.branch.series
             deps == Inferred(j.branch, names)
  <1>1. CASE j.verb = "merge"
    <2>1. j.overwrite \in BOOLEAN /\ s \in Series /\ IsDeps(deps) /\ DOMAIN deps \subseteq NamesOf(d)
      BY <1>1, JobFacts, BranchDeps
    <2> DEFINE b == Merged(d, s, deps, j.overwrite)
               new == MergeBlock(d, s, deps, j.overwrite)
    <2>2. Puts(d, s, b, new) /\ Loads(d)
      BY <1>1, <2>1, MergePuts
    <2> HIDE DEF deps, s
    <2>3. OfProjects(d, b)
      <3>1. /\ b.untracked \subseteq IF Has(d, s) THEN BlockIn(d, s).untracked ELSE {}
            /\ \A i \in DOMAIN b.pins :
                 \/ Has(d, s) /\ \E k \in DOMAIN BlockIn(d, s).pins : b.pins[i] = BlockIn(d, s).pins[k]
                 \/ /\ b.pins[i].project \in DOMAIN deps
                    /\ b.pins[i].kind = "literal"
        BY <2>1, MergedPins
      <3>2. Has(d, s) => OfProjects(d, BlockIn(d, s))
        BY <2>2, PositionFacts, LoadedBlocks DEF BlockIn
      <3> QED
        BY <2>1, <3>1, <3>2 DEF OfProjects
    <2> HIDE DEF b, new
    <2>4. Loads(new)
      BY <2>1, <2>2, <2>3, PutsLoads
    <2> QED
      BY <1>1, <2>4 DEF Edited, new, s, deps
  <1>2. CASE j.verb = "replace"
    <2>1. s \in Series /\ IsDeps(deps) /\ DOMAIN deps \subseteq NamesOf(d)
      BY <1>2, JobFacts, BranchDeps
    <2>2. Puts(d, s, BlockOf(s, deps), ReplaceBlock(d, s, deps)) /\ Loads(d)
      BY <1>2, <2>1, ReplacePuts
    <2> HIDE DEF deps, s
    <2>3. OfProjects(d, BlockOf(s, deps))
      BY <2>1, BlockOfType, PinsOfFacts DEF OfProjects, Literal
    <2>4. Loads(ReplaceBlock(d, s, deps))
      BY <2>1, <2>2, <2>3, PutsLoads
    <2> QED
      BY <1>2, <2>4 DEF Edited, s, deps
  <1>3. CASE j.verb = "suggest"
    <2> DEFINE m == Suggested(j.prefixes, names)
    <2>1. m \in SUBSET AnyName /\ IsFiniteSet(m)
      BY <1>3, JobFacts, SuggestedFacts
    <2>2. Edited(j, names, d) = AppendStubs(d, m)
      BY <1>3 DEF Edited
    <2> HIDE DEF m
    <2>3. Declares(d, m, AppendStubs(d, m))
      BY <2>1, StubsDeclare
    <2>4. Loads(AppendStubs(d, m))
      BY <1>3, <2>2, <2>3, DeclaresLoads
    <2> QED
      BY <2>2, <2>4
  <1>4. CASE j.verb = "init"
    <2>1. j.branches \in Seq(Branches)
      BY <1>4, JobFacts
    <2>2. j.branches # <<>> => DepsOf(j.branches) # {}
      BY <1>4 DEF PinsNothing, DepsOf
    <2>3. Loads(InitText(j.branches))
      BY <2>1, <2>2, InitLoads
    <2> QED
      BY <1>4, <2>3 DEF Edited
  <1> QED
    BY <1>1, <1>2, <1>3, <1>4, JobFacts

-----------------------------------------------------------------------------
(* Whoever was not overtaken knows the file.                                 *)

LEMMA StepCurrent ==
  ASSUME TypeInv, JobInv, LoadsInv, [Next]_vars
  PROVE  LoadsInv'
  <1>1. ASSUME NEW p \in Procs, Moves(p), file' = file,
               overtaken \ {p} \subseteq overtaken', p \notin overtaken' => Current(p)'
        PROVE  LoadsInv'
    <2>1. ASSUME NEW q \in Procs \ overtaken', q # p
          PROVE  Current(q)'
      <3>1. Current(q)
        BY <1>1, <2>1 DEF LoadsInv
      <3> QED
        BY <1>1, <2>1, <3>1 DEF Current, Reads, Moves
    <2> QED
      BY <1>1, <2>1 DEF LoadsInv
  <1>2. ASSUME NEW p \in Procs, Moves(p), Under(p).changed \ {p} \subseteq overtaken',
               p \notin overtaken' => Current(p)'
        PROVE  LoadsInv'
    <2>1. ASSUME NEW q \in Procs \ overtaken', q # p
          PROVE  Current(q)'
      <3>1. pc'[q] = "off"
        BY <1>2, <2>1, UnderFacts DEF Moves
      <3> QED
        BY <3>1 DEF Current
    <2> QED
      BY <1>2, <2>1 DEF LoadsInv
  <1>3. ASSUME NEW p \in Procs,
               (\E j \in Asked : Load(p, j) \/ BeginInit(p, j))
                 \/ Read(p) \/ Leave(p) \/ Truncate(p) \/ Write(p) \/ WriteCut(p)
        PROVE  LoadsInv'
    <2>0. Moves(p)
      BY <1>3, StepMoves
    <2>1. ASSUME NEW j \in Asked, Load(p, j)
          PROVE  LoadsInv'
      <3>1. /\ Loads(file) /\ file' = file /\ overtaken' = overtaken
            /\ pc'[p] = "loaded" /\ known'[p] = NamesOf(file)
        BY <2>1 DEF Load, TypeInv
      <3>2. Current(p)'
        BY <3>1 DEF Current
      <3> QED
        BY <1>1, <2>0, <3>1, <3>2
    <2>2. ASSUME NEW j \in Asked, BeginInit(p, j)
          PROVE  LoadsInv'
      <3>1. /\ file' = file /\ overtaken' = overtaken
            /\ pc'[p] = "read" /\ job'[p].verb = "init"
        BY <2>2 DEF BeginInit, TypeInv
      <3>2. Current(p)'
        BY <3>1 DEF Current, Reads
      <3> QED
        BY <1>1, <2>0, <3>1, <3>2
    <2>3. CASE Read(p)
      <3>1. /\ file' = file /\ overtaken' = overtaken /\ known' = known
            /\ pc[p] = "loaded" /\ pc'[p] = "read" /\ text'[p] = file
        BY <2>3 DEF Read, TypeInv
      <3>2. p \notin overtaken' => Current(p)'
        BY <3>1 DEF LoadsInv, Current
      <3> QED
        BY <1>1, <2>0, <3>1, <3>2
    <2>4. CASE Leave(p)
      <3>1. file' = file /\ overtaken' = overtaken \ {p} /\ pc'[p] = "off"
        BY <2>4 DEF Leave, Finish, TypeInv
      <3>2. Current(p)'
        BY <3>1 DEF Current
      <3> QED
        BY <1>1, <2>0, <3>1, <3>2
    <2>5. CASE Truncate(p)
      <3>1. /\ file' = EmptyText /\ overtaken' = Under(p).changed
            /\ pc[p] = "read" /\ pc'[p] = "truncated"
            /\ job' = job /\ known' = known /\ text' = text
        BY <2>5 DEF Truncate, TypeInv
      <3>2. p \notin overtaken' => Current(p)'
        <4>1. p \notin overtaken' => Current(p)
          BY <3>1, UnderFacts DEF LoadsInv
        <4> QED
          BY <3>1, <4>1 DEF Current, Reads
      <3> QED
        BY <1>2, <2>0, <3>1, <3>2
    <2>6. CASE Write(p) \/ WriteCut(p)
      <3>1. overtaken' = Under(p).changed \ {p} /\ pc'[p] = "off"
        BY <2>6 DEF Write, WriteCut, Finish, TypeInv
      <3>2. Current(p)'
        BY <3>1 DEF Current
      <3> QED
        BY <1>2, <2>0, <3>1, <3>2
    <2> QED
      BY <1>3, <2>1, <2>2, <2>3, <2>4, <2>5, <2>6
  <1>4. CASE UNCHANGED vars
    BY <1>4 DEF vars, LoadsInv, Current, Reads
  <1> QED
    BY <1>3, <1>4 DEF Next

CurrentInv == TypeInv /\ JobInv /\ LoadsInv

LEMMA CurrentHolds == Spec => []CurrentInv
  <1>1. Init => CurrentInv
    BY InitType, InitKept DEF CurrentInv
  <1>2. CurrentInv /\ [Next]_vars => CurrentInv'
    BY StepType, StepCurrent DEF CurrentInv
  <1> QED
    BY <1>1, <1>2, PTL DEF Spec

\* What a write makes of the file when nobody was in between.
LEMMA UndisturbedWrite ==
  ASSUME CurrentInv, NEW p \in Procs, Write(p), p \notin overtaken
  PROVE  /\ file' = Edited(job[p], known[p], text[p])
         /\ job[p] \in Asked /\ job[p].verb # "diff" /\ text[p] \in Texts
         /\ job[p].verb # "init" => Loads(text[p]) /\ known[p] = NamesOf(text[p])
  <1>1. pc[p] = "truncated"
    BY DEF Write
  <1>2. job[p] \in Asked /\ job[p].verb # "diff" /\ text[p] \in Texts
    BY <1>1, AtWork DEF CurrentInv, JobInv, TypeInv
  <1>3. file = EmptyText /\ (Reads(p) => Loads(text[p]) /\ known[p] = NamesOf(text[p]))
    BY <1>1 DEF CurrentInv, LoadsInv, Current
  <1>4. file' = Edited(job[p], known[p], text[p])
    BY <1>3 DEF Write
  <1> QED
    BY <1>2, <1>3, <1>4 DEF Reads

\* A verb that nobody overtook leaves a config that loads.
THEOREM EditsLoad == Spec => EditedConfigsLoad
  <1>1. ASSUME CurrentInv, NEW p \in Procs, Write(p), p \notin overtaken,
               ~PinsNothing(job[p]), NamesOf(file') \cap InvalidNames = {}
        PROVE  Loads(file')
    <2>1. /\ file' = Edited(job[p], known[p], text[p])
          /\ job[p] \in Asked /\ job[p].verb # "diff" /\ text[p] \in Texts
          /\ job[p].verb # "init" => Loads(text[p]) /\ known[p] = NamesOf(text[p])
      BY <1>1, UndisturbedWrite
    <2> QED
      BY <1>1, <2>1, EditLoads
  <1>2. CurrentInv /\ [Next]_vars =>
          [\A p \in Procs :
             /\ Write(p) /\ p \notin overtaken
             /\ ~PinsNothing(job[p]) /\ NamesOf(file') \cap InvalidNames = {}
             => Loads(file')]_vars
    BY <1>1
  <1> QED
    BY <1>2, CurrentHolds, PTL DEF Spec, EditedConfigsLoad

-----------------------------------------------------------------------------
(* The same edit once more.                                                  *)

LEMMA LiteralFields ==
  \A n, t, pin : pin = Literal(n, t) => pin.project = n /\ pin.tag = t
  BY DEF Literal

\* A block in which nothing is missing, and nothing to be overwritten differs,
\* is left as it is.
LEMMA NothingToMerge ==
  ASSUME NEW pins \in Seq(Pin), NEW deps, IsDeps(deps), NEW overwrite \in BOOLEAN,
         \A n \in DOMAIN deps : At(pins, n) # {},
         overwrite => Differing(pins, deps) = {}
  PROVE  MergePins(pins, deps, overwrite) = pins
  <1>1. Updated(pins, deps, overwrite) = {}
    BY DEF Updated
  <1>2. Retagged(pins, deps, overwrite) = pins
    BY <1>1 DEF Retagged
  <1>3. Unpinned(pins, deps) = {}
    BY DEF Unpinned
  <1>4. PinsOf(Lacking(pins, deps)) = <<>>
    BY <1>3, LackingIsDeps, NothingToPin
  <1>5. pins \o <<>> = pins
    BY ConcatEmptySeq
  <1> QED
    BY <1>2, <1>4, <1>5, MergeIsRetagAndAdd

LEMMA MergeCovers ==
  ASSUME NEW pins \in Seq(Pin), NEW deps, IsDeps(deps), NEW overwrite \in BOOLEAN
  PROVE  LET new == MergePins(pins, deps, overwrite)
         IN  /\ \A i \in DOMAIN pins :
                  i \in DOMAIN new /\ new[i] = Retagged(pins, deps, overwrite)[i]
             /\ \A n \in DOMAIN deps : At(new, n) # {}
  <1> DEFINE new == MergePins(pins, deps, overwrite)
             kept == Retagged(pins, deps, overwrite)
             added == PinsOf(Lacking(pins, deps))
  <1>1. new = kept \o added
    BY MergeIsRetagAndAdd
  <1>2. /\ kept \in Seq(Pin) /\ DOMAIN kept = DOMAIN pins
        /\ \A i \in DOMAIN pins : kept[i].project = pins[i].project
    BY RetaggedFacts
  <1>3. added \in Seq(Pin) /\ \A n \in Unpinned(pins, deps) :
          \E i \in DOMAIN added : added[i] = Literal(n, deps[n])
    BY LackingIsDeps, PinsOfFacts
  <1> HIDE DEF new, kept, added
  <1>4. /\ \A i \in DOMAIN kept : i \in DOMAIN new /\ new[i] = kept[i]
        /\ \A i \in DOMAIN added : Len(kept) + i \in DOMAIN new /\ new[Len(kept) + i] = added[i]
    BY <1>1, <1>2, <1>3, Joined
  <1>5. ASSUME NEW n \in DOMAIN deps
        PROVE  At(new, n) # {}
    <2>1. CASE n \in Unpinned(pins, deps)
      <3>1. PICK i \in DOMAIN added : added[i] = Literal(n, deps[n])
        BY <1>3, <2>1
      <3>2. Len(kept) + i \in DOMAIN new /\ new[Len(kept) + i].project = n
        BY <1>4, <3>1 DEF Literal
      <3> QED
        BY <3>2 DEF At
    <2>2. CASE n \notin Unpinned(pins, deps)
      <3>1. PICK i \in DOMAIN pins : pins[i].project = n
        BY <2>2 DEF Unpinned, At
      <3>2. i \in DOMAIN new /\ new[i].project = n
        BY <1>2, <1>4, <3>1
      <3> QED
        BY <3>2 DEF At
    <2> QED
      BY <2>1, <2>2
  <1> QED
    BY <1>2, <1>4, <1>5 DEF new, kept

\* With one pin for each project an overwriting merge leaves no difference.
LEMMA MergeSettles ==
  ASSUME NEW pins \in Seq(Pin), NEW deps, IsDeps(deps),
         NEW overwrite \in BOOLEAN, Updated(pins, deps, overwrite) = Differing(pins, deps),
         \A n \in Names : Cardinality(At(pins, n)) <= 1
  PROVE  Differing(MergePins(pins, deps, overwrite), deps) = {}
  <1> DEFINE new == MergePins(pins, deps, overwrite)
  <1> SUFFICES ASSUME NEW n \in Differing(new, deps)
               PROVE  FALSE
    OBVIOUS
  <1> DEFINE at == Max(Tagged(new, n))
  <1>1. new \in Seq(Pin) /\ n \in DOMAIN deps /\ n \in Names
    BY MergePinsFacts DEF Differing, IsDeps
  <1>2. Tagged(new, n) # {} /\ new[at].tag # deps[n]
    BY DEF Differing
  <1> HIDE DEF at
  <1>3. at \in Tagged(new, n)
    BY <1>1, <1>2, AtFacts DEF at
  <1>4. at \in DOMAIN new /\ new[at].project = n /\ new[at].tag # NoTag
    BY <1>3 DEF Tagged, At
  <1>12. new[at] # Literal(n, deps[n])
    BY <1>2, LiteralFields
  <1>5. at \in DOMAIN pins /\ new[at] = pins[at]
    <2>0. new = MergePins(pins, deps, overwrite)
      OBVIOUS
    <2> HIDE DEF new
    <2>1. \A k \in DOMAIN new :
            \/ k \in DOMAIN pins /\ new[k] = pins[k]
            \/ /\ new[k].project \in DOMAIN deps
               /\ new[k] = Literal(new[k].project, deps[new[k].project])
      BY <2>0, MergePinsFacts
    <2>2. (at \in DOMAIN pins /\ new[at] = pins[at]) \/ new[at] = Literal(n, deps[n])
      BY <1>4, <2>1
    <2> QED
      BY <1>12, <2>2
  <1>6. new[at] = Retagged(pins, deps, overwrite)[at]
    BY <1>5, MergeCovers
  <1> HIDE DEF new
  <1>7. at \in At(pins, n) /\ at \in Tagged(pins, n)
    BY <1>4, <1>5 DEF At, Tagged
  <1>8. \A x, y \in At(pins, n) : x = y
    BY <1>1, AtFacts, AtMostOne
  <1>9. at = Min(At(pins, n)) /\ at = Max(Tagged(pins, n))
    BY <1>7, <1>8, AtFacts
  <1>10. n \in Differing(pins, deps)
    BY <1>1, <1>2, <1>5, <1>7, <1>9 DEF Differing
  <1>11. Retagged(pins, deps, overwrite)[at] = Literal(n, deps[n])
    BY <1>4, <1>5, <1>9, <1>10 DEF Retagged
  <1> QED
    BY <1>6, <1>11, <1>12

LEMMA SameBlock ==
  ASSUME NEW d \in Texts, NEW s, Has(d, s)
  PROVE  WithBlock(d, s, BlockIn(d, s)) = d
  <1>1. Position(d, s) \in DOMAIN d.series
    BY PositionFacts
  <1> DEFINE i == Position(d, s)
             x == [d.series EXCEPT ![i] = d.series[i]]
  <1>2. WithBlock(d, s, BlockIn(d, s)) = [d EXCEPT !.series = x]
    BY DEF WithBlock, BlockIn
  <1> HIDE DEF i
  <1>3. x = d.series
    BY TextFacts
  <1> HIDE DEF x
  <1>4. [d EXCEPT !.series = x] = [projects |-> d.projects, series |-> x]
    BY WithSeries
  <1> QED
    BY <1>2, <1>3, <1>4, TextFacts

LEMMA ReplaceTwice ==
  ASSUME NEW d \in Texts, NEW s \in Series, NEW deps, IsDeps(deps)
  PROVE  LET new == ReplaceBlock(d, s, deps)
         IN  NamesOf(new) = NamesOf(d) /\ ReplaceBlock(new, s, deps) = new
  <1> DEFINE new == ReplaceBlock(d, s, deps)
  <1>1. Puts(d, s, BlockOf(s, deps), new)
    BY ReplacePuts
  <1> HIDE DEF new
  <1>2. /\ new \in Texts /\ NamesOf(new) = NamesOf(d)
        /\ Has(new, s) /\ BlockIn(new, s) = BlockOf(s, deps)
    BY <1>1 DEF Puts, NamesOf
  <1>3. ReplaceBlock(new, s, deps) = WithBlock(new, s, BlockOf(s, deps))
    BY <1>2 DEF ReplaceBlock, WithBlock
  <1>4. ReplaceBlock(new, s, deps) = new
    BY <1>2, <1>3, SameBlock
  <1> QED
    BY <1>2, <1>4 DEF new

LEMMA MergeTwice ==
  ASSUME NEW d \in Texts, NEW s \in Series, NEW deps, IsDeps(deps), NEW overwrite \in BOOLEAN,
         SinglePins(d)
  PROVE  LET new == MergeBlock(d, s, deps, overwrite)
         IN  NamesOf(new) = NamesOf(d) /\ MergeBlock(new, s, deps, overwrite) = new
  <1> DEFINE new == MergeBlock(d, s, deps, overwrite)
             b == Merged(d, s, deps, overwrite)
  <1>1. Puts(d, s, b, new)
    BY MergePuts
  <1>2. /\ b.pins \in Seq(Pin) /\ \A n \in DOMAIN deps : At(b.pins, n) # {}
        /\ overwrite => Differing(b.pins, deps) = {}
        /\ b = [name |-> s, pins |-> b.pins, untracked |-> b.untracked]
    <2>1. CASE Has(d, s)
      <3> DEFINE pins == BlockIn(d, s).pins
      <3>1. pins \in Seq(Pin) /\ \A n \in Names : Cardinality(At(pins, n)) <= 1
        BY <2>1, PositionFacts DEF Block, SinglePins, BlockIn
      <3>2. /\ b.pins = MergePins(pins, deps, overwrite)
            /\ b = [name |-> s, pins |-> b.pins, untracked |-> b.untracked]
        BY <2>1 DEF Merged
      <3> HIDE DEF pins, b
      <3>3. b.pins \in Seq(Pin) /\ \A n \in DOMAIN deps : At(b.pins, n) # {}
        BY <3>1, <3>2, MergePinsFacts, MergeCovers
      <3>4. overwrite => Differing(b.pins, deps) = {}
        <4>1. overwrite => Updated(pins, deps, overwrite) = Differing(pins, deps)
          BY DEF Updated
        <4> QED
          BY <3>1, <3>2, <4>1, MergeSettles
      <3> QED
        BY <3>2, <3>3, <3>4
    <2>2. CASE ~Has(d, s)
      <3>1. b = BlockOf(s, deps) /\ b.pins = PinsOf(deps) /\ b.untracked = {}
        BY <2>2, BlockOfType DEF Merged
      <3>2. b = [name |-> s, pins |-> b.pins, untracked |-> b.untracked]
        BY <3>1 DEF BlockOf
      <3> HIDE DEF b
      <3>3. /\ b.pins \in Seq(Pin)
            /\ \A i \in DOMAIN b.pins :
                 b.pins[i] = Literal(b.pins[i].project, deps[b.pins[i].project])
            /\ \A n \in DOMAIN deps : \E i \in DOMAIN b.pins : b.pins[i] = Literal(n, deps[n])
        BY <3>1, PinsOfFacts
      <3>4. ASSUME NEW n \in DOMAIN deps
            PROVE  At(b.pins, n) # {}
        <4>1. PICK i \in DOMAIN b.pins : b.pins[i] = Literal(n, deps[n])
          BY <3>3
        <4>2. b.pins[i].project = n
          BY <4>1, LiteralFields
        <4> QED
          BY <4>2 DEF At
      <3>5. ASSUME NEW n \in Differing(b.pins, deps)
            PROVE  FALSE
        <4> DEFINE i == Max(Tagged(b.pins, n))
        <4>1. Tagged(b.pins, n) # {} /\ b.pins[i].tag # deps[n]
          BY DEF Differing
        <4>2. i \in Tagged(b.pins, n)
          BY <3>3, <4>1, AtFacts
        <4> HIDE DEF i
        <4>3. i \in DOMAIN b.pins /\ b.pins[i].project = n
          BY <4>2 DEF Tagged, At
        <4>4. b.pins[i] = Literal(n, deps[n])
          BY <3>3, <4>3
        <4> QED
          BY <4>1, <4>4, LiteralFields
      <3> QED
        BY <3>2, <3>3, <3>4, <3>5
    <2> QED
      BY <2>1, <2>2
  <1> HIDE DEF new, b
  <1>3. new \in Texts /\ NamesOf(new) = NamesOf(d) /\ Has(new, s) /\ BlockIn(new, s) = b
    BY <1>1 DEF Puts, NamesOf
  <1>4. MergePins(b.pins, deps, overwrite) = b.pins
    BY <1>2, NothingToMerge
  <1>5. Merged(new, s, deps, overwrite) = b
    <2>1. Merged(new, s, deps, overwrite)
            = [name |-> s, pins |-> MergePins(b.pins, deps, overwrite), untracked |-> b.untracked]
      BY <1>3 DEF Merged
    <2> QED
      BY <1>2, <1>4, <2>1
  <1>6. MergeBlock(new, s, deps, overwrite) = new
    BY <1>3, <1>5, MergeIsWithBlock, SameBlock
  <1> QED
    BY <1>3, <1>6 DEF new

\* A sync that nobody overtook and that is run again changes nothing.
THEOREM SyncsRepeat == Spec => SyncsConverge
  <1>1. ASSUME CurrentInv, NEW p \in Procs, Write(p), p \notin overtaken,
               job[p].verb \in {"merge", "replace"}, SinglePins(text[p])
        PROVE  Edited(job[p], NamesOf(file'), file') = file'
    <2> DEFINE d == text[p]
               j == job[p]
               s == j.branch.series
               deps == Inferred(j.branch, NamesOf(d))
    <2>1. /\ file' = Edited(j, NamesOf(d), d) /\ j \in Asked /\ d \in Texts
      BY <1>1, UndisturbedWrite
    <2>2. j.branch \in Branches
      BY <1>1, <2>1, JobFacts
    <2>3. s \in Series /\ IsDeps(deps)
      BY <2>2, BranchDeps
    <2>4. CASE j.verb = "merge"
      <3>1. j.overwrite \in BOOLEAN
        BY <2>1, <2>4, JobFacts
      <3>2. \A names, e : Edited(j, names, e)
                            = MergeBlock(e, s, Inferred(j.branch, names), j.overwrite)
        BY <2>4 DEF Edited
      <3>3. file' = MergeBlock(d, s, deps, j.overwrite)
        BY <2>1, <3>2
      <3> HIDE DEF deps, s, j, d
      <3>4. NamesOf(file') = NamesOf(d) /\ MergeBlock(file', s, deps, j.overwrite) = file'
        BY <1>1, <2>1, <2>3, <3>1, <3>3, MergeTwice DEF d
      <3> QED
        BY <3>2, <3>4 DEF deps, j
    <2>5. CASE j.verb = "replace"
      <3>2. \A names, e : Edited(j, names, e) = ReplaceBlock(e, s, Inferred(j.branch, names))
        BY <2>5 DEF Edited
      <3>3. file' = ReplaceBlock(d, s, deps)
        BY <2>1, <3>2
      <3> HIDE DEF deps, s, j, d
      <3>4. NamesOf(file') = NamesOf(d) /\ ReplaceBlock(file', s, deps) = file'
        BY <2>1, <2>3, <3>3, ReplaceTwice
      <3> QED
        BY <3>2, <3>4 DEF deps, j
    <2> QED
      BY <1>1, <2>4, <2>5
  <1>2. CurrentInv /\ [Next]_vars =>
          [\A p \in Procs :
             /\ Write(p) /\ p \notin overtaken
             /\ job[p].verb \in {"merge", "replace"} /\ SinglePins(text[p])
             => Edited(job[p], NamesOf(file'), file') = file']_vars
    BY <1>1
  <1> QED
    BY <1>2, CurrentHolds, PTL DEF Spec, SyncsConverge
=============================================================================
