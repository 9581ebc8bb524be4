---------------------------- MODULE ClosureProofs ----------------------------
(***************************************************************************)
(* The closure of the call graph, for every relation: the search for its   *)
(* strongly connected components, which is one step over a stack of work   *)
(* (Tarjan), finds them and no earlier one leads to a later one; and what  *)
(* is gathered over them in that order joins two vertices exactly when a   *)
(* path does.                                                              *)
(***************************************************************************)
EXTENDS Induction, Sequences

\* What MCXref declares.
CONSTANTS Null, Rest, MaxNesting

X == INSTANCE MCXref

-----------------------------------------------------------------------------
(* Reachability, by the sets that no edge leaves.                            *)
Reaches(r, x, y) == \A S : x \in S /\ (\A e \in r : e[1] \in S => e[2] \in S) => y \in S

LEMMA ReachesItself == ASSUME NEW r, NEW x PROVE Reaches(r, x, x)
  BY DEF Reaches

LEMMA ReachesAlong == ASSUME NEW r, NEW x, NEW y, <<x, y>> \in r PROVE Reaches(r, x, y)
  <1> SUFFICES ASSUME NEW S, x \in S, \A e \in r : e[1] \in S => e[2] \in S PROVE y \in S
    BY DEF Reaches
  <1>1. <<x, y>>[1] \in S => <<x, y>>[2] \in S
    OBVIOUS
  <1> QED
    BY <1>1

LEMMA ReachesOn ==
  ASSUME NEW r, NEW x, NEW y, NEW z, Reaches(r, x, y), Reaches(r, y, z) PROVE Reaches(r, x, z)
  BY DEF Reaches

-----------------------------------------------------------------------------
(* The search as it is once the vertices vs[1], .., vs[g] are open, those of *)
(* S are on the stack and the edges of E were looked at.                     *)
Typed(V, r, E, S, ix, low, vs, g) ==
  /\ r \subseteq V \X V /\ E \subseteq r /\ S \subseteq V
  /\ ix \in [V -> Nat] /\ low \in [V -> Nat]
  /\ g \in Nat /\ vs \in [1..g -> S]

(* The open vertices were found one after another. *)
InOrder(ix, vs, g) == \A i, j \in 1..g : i < j => ix[vs[i]] < ix[vs[j]]

(* What an open vertex is linked to it reaches. *)
LinksReach(r, S, ix, low, vs, g) ==
  \A i \in 1..g : /\ low[vs[i]] <= ix[vs[i]]
                  /\ \E y \in S : ix[y] = low[vs[i]] /\ Reaches(r, vs[i], y)

(* What is looked at and on the stack, an open vertex is linked to that far. *)
LinksCover(E, S, ix, low, vs, g) ==
  \A w, x \in S : <<w, x>> \in E =>
    \A i \in 1..g : ix[vs[i]] <= ix[w] =>
      \E j \in 1..g : i <= j /\ ix[vs[j]] <= ix[w] /\ low[vs[j]] <= ix[x]

(* Every vertex on the stack reaches an open one that was found before it, *)
(* and is reached from all of these.                                        *)
ReachesOpen(r, S, ix, vs, g) ==
  \A w \in S : \E i \in 1..g : ix[vs[i]] <= ix[w] /\ Reaches(r, w, vs[i])
OpenReaches(r, S, ix, vs, g) ==
  \A w \in S : \A i \in 1..g : ix[vs[i]] <= ix[w] => Reaches(r, vs[i], w)

IsSearch(V, r, E, S, ix, low, vs, g) ==
  /\ Typed(V, r, E, S, ix, low, vs, g)
  /\ InOrder(ix, vs, g)
  /\ LinksReach(r, S, ix, low, vs, g)
  /\ LinksCover(E, S, ix, low, vs, g)
  /\ ReachesOpen(r, S, ix, vs, g)
  /\ OpenReaches(r, S, ix, vs, g)

(* The vertex v opens, with the number m. *)
IsOpening(S, ix, low, vs, g, v, m, S2, ix2, low2, vs2) ==
  /\ S2 = S \cup {v} /\ ix2 = [ix EXCEPT ![v] = m] /\ low2 = [low EXCEPT ![v] = m]
  /\ vs2 = [i \in 1..(g + 1) |-> IF i = g + 1 THEN v ELSE vs[i]]

(* Of the vertex v, what it is linked to changes. *)
IsLinked(low, v, l, low2) == low2 = [low EXCEPT ![v] = l]

\* A vertex that was not found is opened.
LEMMA OpeningKeeps ==
  ASSUME NEW V, NEW r, NEW E, NEW S, NEW ix, NEW low, NEW vs, NEW g,
         IsSearch(V, r, E, S, ix, low, vs, g),
         NEW v \in V \ S, NEW m \in Nat, \A x \in S : ix[x] < m,
         \A e \in E : e[1] # v /\ e[2] # v,
         g # 0 => <<vs[g], v>> \in r,
         NEW S2, NEW ix2, NEW low2, NEW vs2, IsOpening(S, ix, low, vs, g, v, m, S2, ix2, low2, vs2)
  PROVE  IsSearch(V, r, E, S2, ix2, low2, vs2, g + 1)
  <1>0. Typed(V, r, E, S, ix, low, vs, g)
    BY DEF IsSearch
  <1>1. g \in Nat /\ g + 1 \in Nat /\ g + 1 \in 1..(g + 1)
    BY <1>0 DEF Typed
  <1>2. /\ ix2 \in [V -> Nat] /\ ix2[v] = m /\ \A x \in S : ix2[x] = ix[x] /\ ix2[x] \in Nat /\ x # v
        /\ low2 \in [V -> Nat] /\ low2[v] = m /\ \A x \in S : low2[x] = low[x] /\ low2[x] \in Nat
        /\ S2 = S \cup {v}
    BY <1>0 DEF Typed, IsOpening
  <1>3. /\ vs2 \in [1..(g + 1) -> S2] /\ vs2[g + 1] = v
        /\ \A i \in 1..g : i \in 1..(g + 1) /\ i # g + 1 /\ vs2[i] = vs[i] /\ vs[i] \in S
        /\ \A i \in 1..(g + 1) : i = g + 1 \/ i \in 1..g
    BY <1>0, <1>1, <1>2 DEF Typed, IsOpening
  <1>4. Typed(V, r, E, S2, ix2, low2, vs2, g + 1)
    BY <1>0, <1>1, <1>2, <1>3 DEF Typed
  <1>5. InOrder(ix2, vs2, g + 1)
    <2> SUFFICES ASSUME NEW i \in 1..(g + 1), NEW j \in 1..(g + 1), i < j PROVE ix2[vs2[i]] < ix2[vs2[j]]
      BY DEF InOrder
    <2>1. i \in 1..g
      BY <1>1
    <2>2. CASE j = g + 1
      <3>1. vs2[i] = vs[i] /\ vs[i] \in S /\ vs2[j] = v
        BY <1>3, <2>1, <2>2
      <3>2. ix2[vs2[i]] = ix[vs[i]] /\ ix[vs[i]] < m /\ ix2[vs2[j]] = m
        BY <1>2, <3>1
      <3> QED
        BY <3>2
    <2>3. CASE j \in 1..g
      <3>1. ix[vs[i]] < ix[vs[j]]
        BY <2>1, <2>3 DEF IsSearch, InOrder
      <3> QED
        BY <1>2, <1>3, <2>1, <2>3, <3>1
    <2> QED
      BY <1>3, <2>2, <2>3
  <1>6. LinksReach(r, S2, ix2, low2, vs2, g + 1)
    <2> SUFFICES ASSUME NEW i \in 1..(g + 1)
                 PROVE  /\ low2[vs2[i]] <= ix2[vs2[i]]
                        /\ \E y \in S2 : ix2[y] = low2[vs2[i]] /\ Reaches(r, vs2[i], y)
      BY DEF LinksReach
    <2>1. CASE i = g + 1
      BY <1>2, <1>3, <2>1, ReachesItself
    <2>2. CASE i \in 1..g
      <3>1. vs2[i] = vs[i] /\ vs[i] \in S
        BY <1>3, <2>2
      <3>2. low[vs[i]] <= ix[vs[i]] /\ \E y \in S : ix[y] = low[vs[i]] /\ Reaches(r, vs[i], y)
        BY <2>2 DEF IsSearch, LinksReach
      <3>3. \A y \in S : y \in S2 /\ ix2[y] = ix[y]
        BY <1>2
      <3>4. low2[vs2[i]] = low[vs[i]] /\ ix2[vs2[i]] = ix[vs[i]]
        BY <1>2, <3>1
      <3> QED
        BY <3>1, <3>2, <3>3, <3>4
    <2> QED
      BY <1>3, <2>1, <2>2
  <1>7. LinksCover(E, S2, ix2, low2, vs2, g + 1)
    <2> SUFFICES ASSUME NEW w \in S2, NEW x \in S2, <<w, x>> \in E, NEW i \in 1..(g + 1), ix2[vs2[i]] <= ix2[w]
                 PROVE  \E j \in 1..(g + 1) : i <= j /\ ix2[vs2[j]] <= ix2[w] /\ low2[vs2[j]] <= ix2[x]
      BY DEF LinksCover
    <2>1. w \in S /\ x \in S
      <3>1. <<w, x>>[1] # v /\ <<w, x>>[2] # v
        OBVIOUS
      <3> QED
        BY <1>2, <3>1
    <2>2. i \in 1..g /\ ix[vs[i]] <= ix[w]
      <3>1. CASE i = g + 1
        <4>1. ix2[vs2[i]] = m /\ ix2[w] = ix[w] /\ ix[w] < m /\ ix[w] \in Nat
          BY <1>2, <1>3, <2>1, <3>1
        <4> QED
          BY <4>1
      <3>2. CASE i \in 1..g
        BY <1>2, <1>3, <2>1, <3>2
      <3> QED
        BY <1>3, <3>1, <3>2
    <2>3. PICK j \in 1..g : i <= j /\ ix[vs[j]] <= ix[w] /\ low[vs[j]] <= ix[x]
      BY <2>1, <2>2 DEF IsSearch, LinksCover
    <2>4. j \in 1..(g + 1) /\ vs2[j] = vs[j] /\ vs[j] \in S
      BY <1>3
    <2>5. ix2[vs2[j]] = ix[vs[j]] /\ low2[vs2[j]] = low[vs[j]] /\ ix2[w] = ix[w] /\ ix2[x] = ix[x]
      BY <1>2, <2>1, <2>4
    <2> QED
      BY <2>3, <2>4, <2>5
  <1>8. ReachesOpen(r, S2, ix2, vs2, g + 1)
    <2> SUFFICES ASSUME NEW w \in S2 PROVE \E i \in 1..(g + 1) : ix2[vs2[i]] <= ix2[w] /\ Reaches(r, w, vs2[i])
      BY DEF ReachesOpen
    <2>1. CASE w = v
      BY <1>1, <1>2, <1>3, <2>1, ReachesItself
    <2>2. CASE w \in S
      <3>1. PICK i \in 1..g : ix[vs[i]] <= ix[w] /\ Reaches(r, w, vs[i])
        BY <2>2 DEF IsSearch, ReachesOpen
      <3> QED
        BY <1>2, <1>3, <2>2, <3>1
    <2> QED
      BY <1>2, <2>1, <2>2
  <1>9. OpenReaches(r, S2, ix2, vs2, g + 1)
    <2> SUFFICES ASSUME NEW w \in S2, NEW i \in 1..(g + 1), ix2[vs2[i]] <= ix2[w] PROVE Reaches(r, vs2[i], w)
      BY DEF OpenReaches
    <2>1. CASE i = g + 1
      <3>1. ASSUME w \in S PROVE FALSE
        <4>1. ix2[w] \in Nat /\ ix2[w] < m /\ ix2[vs2[i]] = m
          BY <1>2, <1>3, <2>1, <3>1
        <4> QED
          BY <4>1
      <3>2. w = v
        BY <1>2, <3>1
      <3> QED
        BY <1>3, <2>1, <3>2, ReachesItself
    <2>2. CASE i \in 1..g /\ w = v
      <3>1. g \in 1..g /\ g # 0 /\ (i = g \/ i < g)
        BY <1>1, <2>2
      <3>2. vs[g] \in S /\ vs[i] \in S /\ ix[vs[i]] <= ix[vs[g]]
        BY <1>0, <1>3, <2>2, <3>1 DEF IsSearch, InOrder, Typed
      <3>3. Reaches(r, vs[i], vs[g])
        BY <2>2, <3>2 DEF IsSearch, OpenReaches
      <3>4. Reaches(r, vs[g], v)
        BY <3>1, ReachesAlong
      <3> QED
        BY <1>3, <2>2, <3>3, <3>4, ReachesOn
    <2>3. CASE i \in 1..g /\ w \in S
      BY <1>2, <1>3, <2>3 DEF IsSearch, OpenReaches
    <2> QED
      BY <1>2, <1>3, <2>1, <2>2, <2>3
  <1> QED
    BY <1>4, <1>5, <1>6, <1>7, <1>8, <1>9 DEF IsSearch

\* Edges of the last open vertex are looked at, and it is linked to what they lead to.
LEMMA LinkingKeeps ==
  ASSUME NEW V, NEW r, NEW E, NEW S, NEW ix, NEW low, NEW vs, NEW g,
         IsSearch(V, r, E, S, ix, low, vs, g), g # 0,
         NEW More, More \subseteq r, \A e \in More : e[1] = vs[g],
         NEW l \in Nat, l <= low[vs[g]], \A e \in More : e[2] \in S => l <= ix[e[2]],
         l = low[vs[g]] \/ \E e \in More : e[2] \in S /\ l = ix[e[2]],
         NEW low2, IsLinked(low, vs[g], l, low2)
  PROVE  IsSearch(V, r, E \cup More, S, ix, low2, vs, g)
  <1> DEFINE v == vs[g]
             E2 == E \cup More
  <1>0. Typed(V, r, E, S, ix, low, vs, g) /\ InOrder(ix, vs, g)
    BY DEF IsSearch
  <1>1. g \in Nat /\ g \in 1..g /\ v \in S /\ v \in V
    BY <1>0 DEF Typed
  <1>2. /\ \A x \in S : ix[x] \in Nat /\ low[x] \in Nat /\ x \in V
        /\ \A i \in 1..g : vs[i] \in S /\ vs[i] \in V
        /\ low2 \in [V -> Nat] /\ low2[v] = l /\ \A x \in V : x # v => low2[x] = low[x]
    BY <1>0, <1>1 DEF Typed, IsLinked
  <1>3. \A i \in 1..g : i # g => vs[i] # v
    <2> SUFFICES ASSUME NEW i \in 1..g, i # g PROVE vs[i] # v
      OBVIOUS
    <2>1. i < g
      BY <1>1
    <2>2. ix[vs[i]] < ix[v]
      BY <1>0, <1>1, <2>1 DEF InOrder
    <2> QED
      BY <1>1, <1>2, <2>2
  <1>4. \A i \in 1..g : low2[vs[i]] \in Nat /\ low2[vs[i]] <= low[vs[i]] /\ low[vs[i]] \in Nat
    <2> SUFFICES ASSUME NEW i \in 1..g
                 PROVE  low2[vs[i]] \in Nat /\ low2[vs[i]] <= low[vs[i]] /\ low[vs[i]] \in Nat
      OBVIOUS
    <2>1. CASE i = g
      BY <1>1, <1>2, <2>1
    <2>2. CASE i # g
      BY <1>2, <1>3, <2>2
    <2> QED
      BY <2>1, <2>2
  <1>5. Typed(V, r, E2, S, ix, low2, vs, g)
    BY <1>0, <1>2 DEF Typed
  <1>6. LinksReach(r, S, ix, low2, vs, g)
    <2> SUFFICES ASSUME NEW i \in 1..g
                 PROVE  /\ low2[vs[i]] <= ix[vs[i]]
                        /\ \E y \in S : ix[y] = low2[vs[i]] /\ Reaches(r, vs[i], y)
      BY DEF LinksReach
    <2>1. /\ low[vs[i]] <= ix[vs[i]]
          /\ \E y \in S : ix[y] = low[vs[i]] /\ Reaches(r, vs[i], y)
      BY DEF IsSearch, LinksReach
    <2>2. low2[vs[i]] <= ix[vs[i]]
      BY <1>2, <1>4, <2>1
    <2>3. CASE low2[vs[i]] = low[vs[i]]
      BY <2>1, <2>2, <2>3
    <2>4. CASE low2[vs[i]] # low[vs[i]]
      <3>1. vs[i] = v /\ low2[vs[i]] = l /\ l # low[v]
        BY <1>2, <2>4
      <3>2. PICK e \in More : e[2] \in S /\ l = ix[e[2]]
        BY <3>1
      <3>3. e[1] = v /\ e = <<v, e[2]>>
        BY <1>0, <3>2 DEF Typed
      <3>4. Reaches(r, v, e[2])
        BY <3>3, ReachesAlong
      <3> QED
        BY <2>2, <3>1, <3>2, <3>4
    <2> QED
      BY <2>3, <2>4
  <1>7. LinksCover(E2, S, ix, low2, vs, g)
    <2> SUFFICES ASSUME NEW w \in S, NEW x \in S, <<w, x>> \in E2, NEW i \in 1..g, ix[vs[i]] <= ix[w]
                 PROVE  \E j \in 1..g : i <= j /\ ix[vs[j]] <= ix[w] /\ low2[vs[j]] <= ix[x]
      BY DEF LinksCover
    <2>1. CASE <<w, x>> \in E
      <3>1. PICK j \in 1..g : i <= j /\ ix[vs[j]] <= ix[w] /\ low[vs[j]] <= ix[x]
        BY <2>1 DEF IsSearch, LinksCover
      <3>2. low2[vs[j]] <= ix[x]
        BY <1>2, <1>4, <3>1
      <3> QED
        BY <3>1, <3>2
    <2>2. CASE <<w, x>> \in More
      <3>1. w = v
        <4>1. <<w, x>>[1] = v
          BY <2>2
        <4> QED
          BY <4>1
      <3>2. l <= ix[x]
        <4>1. <<w, x>>[2] \in S => l <= ix[<<w, x>>[2]]
          BY <2>2
        <4> QED
          BY <4>1
      <3> QED
        BY <1>1, <1>2, <3>1, <3>2
    <2> QED
      BY <2>1, <2>2
  <1>8. ReachesOpen(r, S, ix, vs, g) /\ OpenReaches(r, S, ix, vs, g)
    BY DEF IsSearch
  <1> QED
    BY <1>0, <1>5, <1>6, <1>7, <1>8 DEF IsSearch

(* The open vertices without the last. *)
WithoutLast(vs, g) == [i \in 1..(g - 1) |-> vs[i]]

LEMMA ShorterSearch ==
  ASSUME NEW V, NEW r, NEW E, NEW S, NEW ix, NEW low, NEW vs, NEW g,
         IsSearch(V, r, E, S, ix, low, vs, g), g # 0
  PROVE  /\ g \in 1..g /\ g - 1 \in Nat /\ vs[g] \in S
         /\ \A i \in 1..(g - 1) : i \in 1..g /\ i < g /\ WithoutLast(vs, g)[i] = vs[i] /\ vs[i] \in S /\ ix[vs[i]] < ix[vs[g]]
         /\ \A i \in 1..g : i = g \/ i \in 1..(g - 1)
         /\ \A x \in S : ix[x] \in Nat /\ low[x] \in Nat /\ x \in V
         /\ WithoutLast(vs, g) \in [1..(g - 1) -> S]
         /\ InOrder(ix, WithoutLast(vs, g), g - 1)
  <1>0. Typed(V, r, E, S, ix, low, vs, g) /\ InOrder(ix, vs, g)
    BY DEF IsSearch
  <1>1. g \in Nat /\ g \in 1..g /\ vs[g] \in S /\ g - 1 \in Nat /\ \A i \in 1..g : i = g \/ i \in 1..(g - 1)
    BY <1>0 DEF Typed
  <1>2. \A i \in 1..(g - 1) : i \in 1..g /\ i < g /\ WithoutLast(vs, g)[i] = vs[i] /\ vs[i] \in S
    BY <1>0, <1>1 DEF Typed, WithoutLast
  <1>3. \A i \in 1..(g - 1) : ix[vs[i]] < ix[vs[g]]
    BY <1>0, <1>1, <1>2 DEF InOrder
  <1>4. \A x \in S : ix[x] \in Nat /\ low[x] \in Nat /\ x \in V
    BY <1>0 DEF Typed
  <1>5. WithoutLast(vs, g) \in [1..(g - 1) -> S]
    BY <1>2 DEF WithoutLast
  <1>6. InOrder(ix, WithoutLast(vs, g), g - 1)
    BY <1>0, <1>2 DEF InOrder
  <1> QED
    BY <1>1, <1>2, <1>3, <1>4, <1>5, <1>6

\* The last open vertex, which reaches one that was found before it, is left to the one it was found from.
LEMMA LeavingKeeps ==
  ASSUME NEW V, NEW r, NEW E, NEW S, NEW ix, NEW low, NEW vs, NEW g,
         IsSearch(V, r, E, S, ix, low, vs, g), g # 0,
         low[vs[g]] # ix[vs[g]],
         NEW More, More \subseteq r, \A e \in More : g # 1 /\ e = <<vs[g - 1], vs[g]>>,
         g # 1 => <<vs[g - 1], vs[g]>> \in r,
         NEW l \in Nat, g # 1 => /\ l <= low[vs[g - 1]] /\ l <= low[vs[g]]
                                 /\ l = low[vs[g - 1]] \/ l = low[vs[g]],
         NEW low2, IsLinked(low, vs[g - 1], l, low2)
  PROVE  /\ g # 1
         /\ IsSearch(V, r, E \cup More, S, ix, low2, WithoutLast(vs, g), g - 1)
  <1> DEFINE v == vs[g]
             u == vs[g - 1]
             E2 == E \cup More
             vs2 == WithoutLast(vs, g)
  <1>0. Typed(V, r, E, S, ix, low, vs, g) /\ InOrder(ix, vs, g)
    BY DEF IsSearch
  <1>1. /\ g \in 1..g /\ g - 1 \in Nat /\ v \in S
        /\ \A i \in 1..(g - 1) : i \in 1..g /\ i < g /\ vs2[i] = vs[i] /\ vs[i] \in S /\ ix[vs[i]] < ix[v]
        /\ \A i \in 1..g : i = g \/ i \in 1..(g - 1)
        /\ \A x \in S : ix[x] \in Nat /\ low[x] \in Nat /\ x \in V
        /\ vs2 \in [1..(g - 1) -> S]
        /\ InOrder(ix, vs2, g - 1)
    BY ShorterSearch
  <1> HIDE DEF vs2
  <1>2. PICK y \in S : low[v] <= ix[v] /\ ix[y] = low[v] /\ Reaches(r, v, y)
    BY <1>1 DEF IsSearch, LinksReach
  <1>3. PICK k \in 1..g : ix[vs[k]] <= ix[y] /\ Reaches(r, y, vs[k])
    BY DEF IsSearch, ReachesOpen
  <1>4. ix[y] < ix[v] /\ k \in 1..(g - 1) /\ Reaches(r, v, vs[k])
    <2>1. ix[y] < ix[v]
      BY <1>1, <1>2
    <2>2. k # g
      BY <1>1, <1>3, <2>1
    <2> QED
      BY <1>1, <1>2, <1>3, <2>1, <2>2, ReachesOn
  <1>5. g # 1 /\ g - 1 \in 1..(g - 1)
    BY <1>1, <1>4
  <1>6. u \in S /\ u \in V /\ u # v /\ <<u, v>> \in r /\ l <= low[u] /\ l <= low[v] /\ (l = low[u] \/ l = low[v])
    BY <1>1, <1>5
  <1>7. low2 \in [V -> Nat] /\ low2[u] = l /\ \A x \in V : x # u => low2[x] = low[x]
    BY <1>0, <1>6 DEF Typed, IsLinked
  <1>8. \A i \in 1..(g - 1) : low2[vs[i]] \in Nat /\ low2[vs[i]] <= low[vs[i]] /\ low[vs[i]] \in Nat
    <2> SUFFICES ASSUME NEW i \in 1..(g - 1)
                 PROVE  low2[vs[i]] \in Nat /\ low2[vs[i]] <= low[vs[i]] /\ low[vs[i]] \in Nat
      OBVIOUS
    <2>1. low[vs[i]] \in Nat /\ vs[i] \in V
      BY <1>1
    <2>2. CASE vs[i] = u
      BY <1>6, <1>7, <2>1, <2>2
    <2>3. CASE vs[i] # u
      BY <1>7, <2>1, <2>3
    <2> QED
      BY <2>2, <2>3
  <1>9. Typed(V, r, E2, S, ix, low2, vs2, g - 1)
    BY <1>0, <1>1, <1>7 DEF Typed
  <1>10. LinksReach(r, S, ix, low2, vs2, g - 1)
    <2> SUFFICES ASSUME NEW i \in 1..(g - 1)
                 PROVE  /\ low2[vs[i]] <= ix[vs[i]]
                        /\ \E z \in S : ix[z] = low2[vs[i]] /\ Reaches(r, vs[i], z)
      BY <1>1 DEF LinksReach
    <2>1. /\ low[vs[i]] <= ix[vs[i]]
          /\ \E z \in S : ix[z] = low[vs[i]] /\ Reaches(r, vs[i], z)
      BY <1>1 DEF IsSearch, LinksReach
    <2>2. low2[vs[i]] <= ix[vs[i]]
      BY <1>1, <1>8, <2>1
    <2>3. CASE low2[vs[i]] = low[vs[i]]
      BY <2>1, <2>2, <2>3
    <2>4. CASE low2[vs[i]] # low[vs[i]]
      <3>1. vs[i] = u /\ low2[vs[i]] = low[v]
        BY <1>1, <1>6, <1>7, <2>4
      <3>2. Reaches(r, u, v)
        BY <1>6, ReachesAlong
      <3>3. Reaches(r, u, y)
        BY <1>2, <3>2, ReachesOn
      <3> QED
        BY <1>2, <2>2, <3>1, <3>3
    <2> QED
      BY <2>3, <2>4
  <1>11. LinksCover(E2, S, ix, low2, vs2, g - 1)
    <2> SUFFICES ASSUME NEW w \in S, NEW x \in S, <<w, x>> \in E2, NEW i \in 1..(g - 1), ix[vs[i]] <= ix[w]
                 PROVE  \E j \in 1..(g - 1) : i <= j /\ ix[vs[j]] <= ix[w] /\ low2[vs[j]] <= ix[x]
      BY <1>1 DEF LinksCover
    <2>0. ix[w] \in Nat /\ ix[x] \in Nat /\ i \in 1..g /\ i <= g - 1 /\ low[v] \in Nat /\ ix[v] \in Nat /\ ix[u] \in Nat
      BY <1>1, <1>6
    <2>1. CASE <<w, x>> \in E
      <3>1. PICK j \in 1..g : i <= j /\ ix[vs[j]] <= ix[w] /\ low[vs[j]] <= ix[x]
        BY <2>0, <2>1 DEF IsSearch, LinksCover
      <3>2. CASE j = g
        <4>1. ix[u] <= ix[w]
          <5>1. ix[u] < ix[v]
            BY <1>1, <1>5
          <5> QED
            BY <2>0, <3>1, <3>2, <5>1
        <4>2. low2[u] <= ix[x]
          BY <1>6, <1>7, <2>0, <3>1, <3>2
        <4> QED
          BY <1>5, <2>0, <4>1, <4>2
      <3>3. CASE j \in 1..(g - 1)
        <4>1. low2[vs[j]] <= ix[x]
          BY <1>8, <2>0, <3>1, <3>3
        <4> QED
          BY <3>1, <3>3, <4>1
      <3> QED
        BY <1>1, <3>2, <3>3
    <2>2. CASE <<w, x>> \in More
      <3>1. w = u /\ x = v
        BY <2>2
      <3>2. low2[u] <= ix[x]
        <4>1. low[v] <= ix[v]
          BY <1>2
        <4> QED
          BY <1>6, <1>7, <2>0, <3>1, <4>1
      <3>3. ix[u] <= ix[w]
        BY <2>0, <3>1
      <3> QED
        BY <1>5, <2>0, <3>2, <3>3
    <2> QED
      BY <2>1, <2>2
  <1>12. ReachesOpen(r, S, ix, vs2, g - 1)
    <2> SUFFICES ASSUME NEW w \in S PROVE \E i \in 1..(g - 1) : ix[vs[i]] <= ix[w] /\ Reaches(r, w, vs[i])
      BY <1>1 DEF ReachesOpen
    <2>1. PICK i \in 1..g : ix[vs[i]] <= ix[w] /\ Reaches(r, w, vs[i])
      BY DEF IsSearch, ReachesOpen
    <2>2. CASE i = g
      <3>1. Reaches(r, w, vs[k])
        BY <1>4, <2>1, <2>2, ReachesOn
      <3>2. ix[vs[k]] <= ix[w]
        BY <1>1, <1>2, <1>3, <1>4, <2>1, <2>2
      <3> QED
        BY <1>4, <3>1, <3>2
    <2>3. CASE i \in 1..(g - 1)
      BY <2>1, <2>3
    <2> QED
      BY <1>1, <2>2, <2>3
  <1>13. OpenReaches(r, S, ix, vs2, g - 1)
    BY <1>1 DEF IsSearch, OpenReaches
  <1> QED
    BY <1>1, <1>5, <1>9, <1>10, <1>11, <1>12, <1>13 DEF IsSearch, vs2

(* Those of S that were found before v. *)
IsBelow(S2, S, ix, v) == S2 = {w \in S : ix[w] < ix[v]}

(* What is taken of S, all but S2: these reach one another, and no edge that was *)
(* looked at leads from them to S2.                                               *)
IsTaken(r, E, S, S2) ==
  /\ \A w, x \in S \ S2 : Reaches(r, w, x)
  /\ \A w \in S \ S2, x \in S : <<w, x>> \in E => x \in S \ S2

\* The last open vertex, which reaches none that was found before it, is taken from the stack with what is
\* above it: these reach one another, and no edge that was looked at leads from them to what is left.
LEMMA TakingKeeps ==
  ASSUME NEW V, NEW r, NEW E, NEW S, NEW ix, NEW low, NEW vs, NEW g,
         IsSearch(V, r, E, S, ix, low, vs, g), g # 0,
         low[vs[g]] = ix[vs[g]],
         NEW More, More \subseteq r, \A e \in More : e[2] = vs[g],
         NEW S2, IsBelow(S2, S, ix, vs[g])
  PROVE  /\ IsSearch(V, r, E \cup More, S2, ix, low, WithoutLast(vs, g), g - 1)
         /\ IsTaken(r, E, S, S2)
  <1> USE DEF IsBelow
  <1> DEFINE v == vs[g]
             E2 == E \cup More
             vs2 == WithoutLast(vs, g)
  <1>0. Typed(V, r, E, S, ix, low, vs, g) /\ InOrder(ix, vs, g)
    BY DEF IsSearch
  <1>1. /\ g \in 1..g /\ g - 1 \in Nat /\ v \in S
        /\ \A i \in 1..(g - 1) : i \in 1..g /\ i < g /\ vs2[i] = vs[i] /\ vs[i] \in S /\ ix[vs[i]] < ix[v]
        /\ \A i \in 1..g : i = g \/ i \in 1..(g - 1)
        /\ \A x \in S : ix[x] \in Nat /\ low[x] \in Nat /\ x \in V
        /\ InOrder(ix, vs2, g - 1)
    BY ShorterSearch
  <1>2. /\ S2 \subseteq S /\ v \in S \ S2
        /\ \A w \in S \ S2 : ix[v] <= ix[w]
        /\ \A w \in S2 : w \in S /\ ix[w] < ix[v]
    BY <1>1
  <1>3. \A i \in 1..(g - 1) : vs[i] \in S2
    BY <1>1
  <1> HIDE DEF vs2
  <1>4. Typed(V, r, E2, S2, ix, low, vs2, g - 1)
    <2>1. vs2 \in [1..(g - 1) -> S2]
      BY <1>1, <1>3 DEF vs2, WithoutLast
    <2> QED
      BY <1>0, <1>1, <1>2, <2>1 DEF Typed
  <1>5. LinksReach(r, S2, ix, low, vs2, g - 1)
    <2> SUFFICES ASSUME NEW i \in 1..(g - 1)
                 PROVE  /\ low[vs[i]] <= ix[vs[i]]
                        /\ \E y \in S2 : ix[y] = low[vs[i]] /\ Reaches(r, vs[i], y)
      BY <1>1 DEF LinksReach
    <2>1. PICK y \in S : low[vs[i]] <= ix[vs[i]] /\ ix[y] = low[vs[i]] /\ Reaches(r, vs[i], y)
      BY <1>1 DEF IsSearch, LinksReach
    <2>2. y \in S2
      BY <1>1, <2>1
    <2> QED
      BY <2>1, <2>2
  <1>6. LinksCover(E2, S2, ix, low, vs2, g - 1)
    <2> SUFFICES ASSUME NEW w \in S2, NEW x \in S2, <<w, x>> \in E2, NEW i \in 1..(g - 1), ix[vs[i]] <= ix[w]
                 PROVE  \E j \in 1..(g - 1) : i <= j /\ ix[vs[j]] <= ix[w] /\ low[vs[j]] <= ix[x]
      BY <1>1 DEF LinksCover
    <2>1. <<w, x>> \in E
      <3>1. <<w, x>> \in More => <<w, x>>[2] = v
        OBVIOUS
      <3> QED
        BY <1>2, <3>1
    <2>2. PICK j \in 1..g : i <= j /\ ix[vs[j]] <= ix[w] /\ low[vs[j]] <= ix[x]
      BY <1>1, <1>2, <2>1 DEF IsSearch, LinksCover
    <2>3. j # g
      BY <1>1, <1>2, <2>2
    <2> QED
      BY <1>1, <2>2, <2>3
  <1>7. ReachesOpen(r, S2, ix, vs2, g - 1)
    <2> SUFFICES ASSUME NEW w \in S2 PROVE \E i \in 1..(g - 1) : ix[vs[i]] <= ix[w] /\ Reaches(r, w, vs[i])
      BY <1>1 DEF ReachesOpen
    <2>1. PICK i \in 1..g : ix[vs[i]] <= ix[w] /\ Reaches(r, w, vs[i])
      BY <1>2 DEF IsSearch, ReachesOpen
    <2>2. i # g
      BY <1>1, <1>2, <2>1
    <2> QED
      BY <1>1, <2>1, <2>2
  <1>8. OpenReaches(r, S2, ix, vs2, g - 1)
    BY <1>1, <1>2 DEF IsSearch, OpenReaches
  <1>9. ASSUME NEW w \in S \ S2, NEW x \in S \ S2 PROVE Reaches(r, w, x)
    <2>1. PICK i \in 1..g : ix[vs[i]] <= ix[w] /\ Reaches(r, w, vs[i])
      BY DEF IsSearch, ReachesOpen
    <2>2. ix[vs[i]] <= ix[x]
      BY <1>1, <1>2
    <2>3. Reaches(r, vs[i], x)
      BY <2>2 DEF IsSearch, OpenReaches
    <2> QED
      BY <2>1, <2>3, ReachesOn
  <1>10. ASSUME NEW w \in S \ S2, NEW x \in S, <<w, x>> \in E PROVE x \in S \ S2
    <2>1. ix[vs[g]] <= ix[w]
      BY <1>2
    <2>2. PICK j \in 1..g : g <= j /\ ix[vs[j]] <= ix[w] /\ low[vs[j]] <= ix[x]
      BY <1>1, <1>10, <2>1 DEF IsSearch, LinksCover
    <2>3. j = g
      BY <1>1, <2>2
    <2>4. ix[v] <= ix[x]
      BY <2>2, <2>3
    <2> QED
      BY <1>1, <2>4
  <1> QED
    BY <1>1, <1>2, <1>4, <1>5, <1>6, <1>7, <1>8, <1>9, <1>10 DEF IsSearch, IsTaken, vs2

-----------------------------------------------------------------------------
(* The search as the state t of it holds it: g vertices are open, the edges  *)
(* of E were looked at.                                                      *)
IsRelationOf(V, r, ns) ==
  /\ r \subseteq V \X V
  /\ ns \in [V -> Seq(V)]
  /\ \A v \in V : \A y : (\E j \in DOMAIN ns[v] : ns[v][j] = y) <=> <<v, y>> \in r

Held(t) == {t.stack[i] : i \in DOMAIN t.stack}
Open(t, g) == [i \in 1..g |-> t.work[i].v]

IsState(V, t) ==
  t \in [index : [V -> Nat], low : [V -> Nat], next : Nat, stack : Seq(V),
         work : Seq([v : V, at : Nat]), components : Seq(SUBSET V)]

(* Vertices are numbered as they are found, and are on the stack in that order. *)
Numbered(t) ==
  /\ t.next # 0
  /\ \A v \in DOMAIN t.index : t.index[v] < t.next
  /\ \A i, j \in DOMAIN t.stack : i < j => t.index[t.stack[i]] < t.index[t.stack[j]]

(* What was found is on the stack or of one component. *)
Parted(t) ==
  /\ \A v \in DOMAIN t.index :
       t.index[v] # 0 <=> v \in Held(t) \/ \E k \in DOMAIN t.components : v \in t.components[k]
  /\ \A k \in DOMAIN t.components : t.components[k] \cap Held(t) = {}
  /\ \A k, l \in DOMAIN t.components : k # l => t.components[k] \cap t.components[l] = {}

(* Each vertex of the work waits for the next one; the last may not be open yet. *)
Waiting(ns, t, g) ==
  /\ Len(t.work) \in {g, g + 1}
  /\ \A i \in 1..(Len(t.work) - 1) : /\ t.work[i].at \in DOMAIN ns[t.work[i].v]
                                     /\ ns[t.work[i].v][t.work[i].at] = t.work[i + 1].v
  /\ Len(t.work) = g + 1 => t.work[g + 1].at = 0 /\ t.index[t.work[g + 1].v] = 0

(* The edges that were looked at join what was found, and are all of those of a *)
(* vertex that was closed.                                                       *)
LookedOver(r, ns, t, E, g) ==
  /\ \A e \in E : t.index[e[1]] # 0 /\ t.index[e[2]] # 0
  /\ \A e \in r : (t.index[e[1]] # 0 /\ \A i \in 1..g : t.work[i].v # e[1]) => e \in E
  /\ \A i \in 1..g : \A j \in DOMAIN ns[t.work[i].v] :
       (j < t.work[i].at \/ (j = t.work[i].at /\ i = Len(t.work))) => <<t.work[i].v, ns[t.work[i].v][j]>> \in E

(* The vertices of a component reach one another, and lead to no later one. *)
AreComponents(r, cs) ==
  /\ \A k \in DOMAIN cs : \A e \in r : e[1] \in cs[k] => \E l \in 1..k : e[2] \in cs[l]
  /\ \A k \in DOMAIN cs : \A x, y \in cs[k] : Reaches(r, x, y)

IsSearchIn(V, r, ns, t, E, g) ==
  /\ IsState(V, t)
  /\ IsSearch(V, r, E, Held(t), t.index, t.low, Open(t, g), g)
  /\ Numbered(t)
  /\ Parted(t)
  /\ Waiting(ns, t, g)
  /\ LookedOver(r, ns, t, E, g)
  /\ AreComponents(r, t.components)

(* What was taken up, and what was closed. *)
TakenUp(t) == {v \in DOMAIN t.index : t.index[v] # 0 \/ \E i \in DOMAIN t.work : t.work[i].v = v}
Ended(t) == {v \in DOMAIN t.index : t.index[v] # 0 /\ \A i \in DOMAIN t.work : t.work[i].v # v}

LEMMA PlacesOf ==
  ASSUME NEW T, NEW s \in Seq(T)
  PROVE  DOMAIN s = 1..Len(s) /\ Len(s) \in Nat /\ \A i \in DOMAIN s : s[i] \in T
  OBVIOUS

LEMMA PlacesOfAppended ==
  ASSUME NEW T, NEW s \in Seq(T), NEW x \in T
  PROVE  /\ Append(s, x) \in Seq(T) /\ Len(Append(s, x)) = Len(s) + 1 /\ DOMAIN Append(s, x) = 1..(Len(s) + 1)
         /\ Append(s, x)[Len(s) + 1] = x
         /\ \A i \in DOMAIN s : Append(s, x)[i] = s[i] /\ i \in 1..(Len(s) + 1)
  <1>1. Append(s, x) \in Seq(T) /\ Len(Append(s, x)) = Len(s) + 1 /\ DOMAIN Append(s, x) = 1..(Len(s) + 1)
    OBVIOUS
  <1>2. Append(s, x)[Len(s) + 1] = x
    OBVIOUS
  <1>3. \A i \in DOMAIN s : Append(s, x)[i] = s[i] /\ i \in 1..(Len(s) + 1)
    OBVIOUS
  <1> QED
    BY <1>1, <1>2, <1>3

\* The search starts with nothing found.
LEMMA StartIsSearch ==
  ASSUME NEW n, NEW V, V = 1..n, NEW r, NEW ns, IsRelationOf(V, r, ns)
  PROVE  IsSearchIn(V, r, ns, X!Start(n), {}, 0)
  <1> DEFINE t == X!Start(n)
  <1>1. /\ t.index = [v \in V |-> 0] /\ t.low = [v \in V |-> 0] /\ t.next = 1
        /\ t.stack = <<>> /\ t.work = <<>> /\ t.components = <<>> /\ IsState(V, t)
    BY DEF X!Start, IsState
  <1> HIDE DEF t
  <1>2. Held(t) = {} /\ Len(t.work) = 0 /\ Open(t, 0) = [i \in 1..0 |-> t.work[i].v] /\ 1..0 = {}
    BY <1>1 DEF Held, Open
  <1>3. IsSearch(V, r, {}, Held(t), t.index, t.low, Open(t, 0), 0)
    <2>1. Typed(V, r, {}, {}, t.index, t.low, Open(t, 0), 0)
      <3>1. Open(t, 0) \in [1..0 -> {}]
        <4>1. \A i \in 1..0 : FALSE
          OBVIOUS
        <4> QED
          BY <4>1 DEF Open
      <3>2. t.index \in [V -> Nat] /\ t.low \in [V -> Nat]
        BY <1>1
      <3> QED
        BY <3>1, <3>2 DEF Typed, IsRelationOf
    <2> QED
      BY <1>2, <2>1 DEF IsSearch, InOrder, LinksReach, LinksCover, ReachesOpen, OpenReaches
  <1>4. Numbered(t) /\ Parted(t) /\ AreComponents(r, t.components)
    BY <1>1, <1>2 DEF Numbered, Parted, AreComponents
  <1>5. Waiting(ns, t, 0) 
    BY <1>1, <1>2 DEF Waiting
  <1>6. LookedOver(r, ns, t, {}, 0)
    <2>1. \A e \in r : e[1] \in V
      BY DEF IsRelationOf
    <2> QED
      BY <1>1, <1>2, <2>1 DEF LookedOver
  <1> QED
    BY <1>1, <1>3, <1>4, <1>5, <1>6 DEF IsSearchIn, t

(* The vertex v is begun with. *)
IsBegun(t, v, t2) == t2 = [t EXCEPT !.work = <<X!Frame(v)>>]

\* A vertex that was not found is taken up when there is no other work.
LEMMA BeginningIsSearch ==
  ASSUME NEW V, NEW r, NEW ns, IsRelationOf(V, r, ns), NEW t, NEW E, IsSearchIn(V, r, ns, t, E, 0), t.work = <<>>,
         NEW v \in V, t.index[v] = 0,
         NEW t2, IsBegun(t, v, t2)
  PROVE  /\ IsSearchIn(V, r, ns, t2, E, 0)
         /\ TakenUp(t2) = TakenUp(t) \cup {v} /\ v \notin TakenUp(t) /\ Ended(t2) = Ended(t)
  <1>1. /\ IsState(V, t2) /\ t2.index = t.index /\ t2.low = t.low /\ t2.next = t.next /\ t2.stack = t.stack
        /\ t2.components = t.components /\ t2.work = <<[v |-> v, at |-> 0]>>
    <2> DEFINE work == <<[v |-> v, at |-> 0]>>
    <2>1. work \in Seq([v : V, at : Nat])
      OBVIOUS
    <2>2. t2 = [t EXCEPT !.work = work]
      BY DEF X!Frame, IsBegun
    <2> HIDE DEF work
    <2>3. IsState(V, t)
      BY DEF IsSearchIn
    <2>4. IsState(V, t2) /\ t2.index = t.index /\ t2.low = t.low /\ t2.next = t.next /\ t2.stack = t.stack
          /\ t2.components = t.components /\ t2.work = work
      BY <2>1, <2>2, <2>3 DEF IsState
    <2> QED
      BY <2>4 DEF work
  <1>2. Held(t2) = Held(t) /\ Open(t2, 0) = Open(t, 0) /\ Len(t2.work) = 1 /\ t2.work[1].v = v /\ t2.work[1].at = 0 /\ 1..0 = {}
    <2>1. 1..0 = {}
      OBVIOUS
    <2> QED
      BY <1>1, <2>1 DEF Held, Open
  <1>3. Waiting(ns, t2, 0)
    BY <1>1, <1>2 DEF Waiting
  <1>4. LookedOver(r, ns, t2, E, 0)
    BY <1>1, <1>2 DEF IsSearchIn, LookedOver
  <1>5. Numbered(t2) /\ Parted(t2) /\ AreComponents(r, t2.components)
    BY <1>1, <1>2 DEF IsSearchIn, Numbered, Parted
  <1>6. IsSearchIn(V, r, ns, t2, E, 0)
    BY <1>1, <1>2, <1>3, <1>4, <1>5 DEF IsSearchIn
  <1>7. TakenUp(t2) = TakenUp(t) \cup {v} /\ v \notin TakenUp(t) /\ Ended(t2) = Ended(t)
    <2>1. DOMAIN t.index = V /\ DOMAIN t.work = {} /\ DOMAIN t2.work = {1}
      BY <1>1 DEF IsSearchIn, IsState
    <2> QED
      BY <1>1, <1>2, <2>1 DEF TakenUp, Ended
  <1> QED
    BY <1>6, <1>7

\* The vertex that was taken up last is opened.
LEMMA OpenedIsSearch ==
  ASSUME NEW V, NEW r, NEW ns, IsRelationOf(V, r, ns), NEW t, NEW E, NEW g, IsSearchIn(V, r, ns, t, E, g),
         Len(t.work) = g + 1, NEW v, v = t.work[g + 1].v,
         NEW t2, t2 = X!Opened(t, v)
  PROVE  /\ IsSearchIn(V, r, ns, t2, E, g + 1)
         /\ t2.work = t.work /\ TakenUp(t2) = TakenUp(t) /\ Ended(t2) = Ended(t)
  <1>0. /\ IsState(V, t) /\ Typed(V, r, E, Held(t), t.index, t.low, Open(t, g), g)
        /\ Numbered(t) /\ Parted(t) /\ Waiting(ns, t, g) /\ LookedOver(r, ns, t, E, g) /\ AreComponents(r, t.components)
    BY DEF IsSearchIn, IsSearch
  <1>1. /\ g \in Nat /\ g + 1 \in 1..(g + 1) /\ DOMAIN t.work = 1..(g + 1) /\ t.work[g + 1] \in [v : V, at : Nat]
        /\ v \in V /\ t.index[v] = 0 /\ t.next \in Nat /\ t.next # 0 /\ t.stack \in Seq(V)
        /\ t.index \in [V -> Nat] /\ t.low \in [V -> Nat] /\ t.components \in Seq(SUBSET V)
    <2>1. g \in Nat
      BY <1>0 DEF Typed
    <2>2. t.work \in Seq([v : V, at : Nat])
      BY <1>0 DEF IsState
    <2>3. g + 1 \in 1..(g + 1) /\ DOMAIN t.work = 1..(g + 1) /\ t.work[g + 1] \in [v : V, at : Nat]
      <3>1. DOMAIN t.work = 1..(g + 1) /\ \A i \in DOMAIN t.work : t.work[i] \in [v : V, at : Nat]
        BY <2>2, PlacesOf
      <3>2. g + 1 \in 1..(g + 1)
        BY <2>1
      <3> QED
        BY <3>1, <3>2
    <2>4. t.index[v] = 0
      BY <1>0 DEF Waiting
    <2>5. v \in V
      BY <2>3
    <2> QED
      BY <1>0, <2>1, <2>3, <2>4, <2>5 DEF IsState, Numbered
  <1>2. /\ IsState(V, t2) /\ t2.index = [t.index EXCEPT ![v] = t.next] /\ t2.low = [t.low EXCEPT ![v] = t.next]
        /\ t2.next = t.next + 1 /\ t2.stack = Append(t.stack, v) /\ t2.components = t.components /\ t2.work = t.work
    <2> DEFINE work == t.work
               components == t.components
               index == [t.index EXCEPT ![v] = t.next]
               low == [t.low EXCEPT ![v] = t.next]
               next == t.next + 1
               stack == Append(t.stack, v)
    <2>1. index \in [V -> Nat] /\ low \in [V -> Nat] /\ next \in Nat /\ stack \in Seq(V)
      BY <1>1
    <2>2. work \in Seq([v : V, at : Nat]) /\ components \in Seq(SUBSET V)
      BY <1>0 DEF IsState
    <2>3. t2 = [index |-> index, low |-> low, next |-> next, stack |-> stack, work |-> work, components |-> components]
      BY <1>0 DEF X!Opened, IsState
    <2> HIDE DEF index, low, next, stack, work, components
    <2>4. /\ IsState(V, t2) /\ t2.index = index /\ t2.low = low /\ t2.next = next /\ t2.stack = stack
          /\ t2.work = work /\ t2.components = components
      BY <2>1, <2>2, <2>3 DEF IsState
    <2> QED
      BY <2>4 DEF index, low, next, stack, work, components
  <1>3. t2.index[v] = t.next /\ \A x \in V : x # v => t2.index[x] = t.index[x]
    BY <1>1, <1>2
  <1>4. /\ DOMAIN t.stack = 1..Len(t.stack) /\ Len(t.stack) \in Nat /\ \A i \in DOMAIN t.stack : t.stack[i] \in V
        /\ DOMAIN t2.stack = 1..(Len(t.stack) + 1) /\ t2.stack[Len(t.stack) + 1] = v
        /\ \A i \in DOMAIN t.stack : t2.stack[i] = t.stack[i] /\ i \in DOMAIN t2.stack
    <2>1. t.stack \in Seq(V) /\ t2.stack = Append(t.stack, v) /\ v \in V
      BY <1>1, <1>2
    <2> QED
      BY <2>1, PlacesOf, PlacesOfAppended
  <1>5. Held(t2) = Held(t) \cup {v}
    <2>1. \A i \in DOMAIN t2.stack : i = Len(t.stack) + 1 \/ i \in DOMAIN t.stack
      BY <1>4
    <2>2. Len(t.stack) + 1 \in DOMAIN t2.stack
      BY <1>4
    <2> QED
      BY <1>4, <2>1, <2>2 DEF Held
  <1>6. /\ v \notin Held(t) /\ Held(t) \subseteq V
        /\ \A x \in Held(t) : t.index[x] < t.next /\ t.index[x] # 0
        /\ \A k \in DOMAIN t.components : v \notin t.components[k]
    <2>1. Held(t) \subseteq V
      BY <1>0 DEF Typed
    <2> QED
      BY <1>0, <1>1, <2>1 DEF Parted, Numbered
  <1>7. \A e \in E : e[1] # v /\ e[2] # v
    BY <1>0, <1>1 DEF LookedOver
  <1>8. \A i \in 1..g : i \in DOMAIN t.work /\ i # Len(t.work) /\ t.work[i].v # v /\ Open(t, g)[i] = t.work[i].v
    <2> SUFFICES ASSUME NEW i \in 1..g
                 PROVE  i \in DOMAIN t.work /\ i # Len(t.work) /\ t.work[i].v # v /\ Open(t, g)[i] = t.work[i].v
      OBVIOUS
    <2>1. Open(t, g)[i] = t.work[i].v /\ Open(t, g)[i] \in Held(t)
      BY <1>0 DEF Typed, Open
    <2> QED
      BY <1>1, <1>6, <2>1
  <1>9. g # 0 => <<Open(t, g)[g], v>> \in r
    <2> SUFFICES ASSUME g # 0 PROVE <<Open(t, g)[g], v>> \in r
      OBVIOUS
    <2>1. g \in 1..g /\ g \in 1..(Len(t.work) - 1)
      BY <1>1
    <2>2. /\ t.work[g].at \in DOMAIN ns[t.work[g].v] /\ ns[t.work[g].v][t.work[g].at] = v
          /\ Open(t, g)[g] = t.work[g].v /\ Open(t, g)[g] \in V
      BY <1>0, <1>8, <2>1 DEF Waiting, Typed
    <2> QED
      BY <2>2 DEF IsRelationOf
  <1>10. IsSearch(V, r, E, Held(t2), t2.index, t2.low, Open(t2, g + 1), g + 1)
    <2>1. Open(t2, g + 1) = [i \in 1..(g + 1) |-> IF i = g + 1 THEN v ELSE Open(t, g)[i]]
      <3>1. \A i \in 1..(g + 1) : i = g + 1 \/ i \in 1..g
        BY <1>1
      <3>2. \A i \in 1..(g + 1) : t2.work[i].v = IF i = g + 1 THEN v ELSE Open(t, g)[i]
        BY <1>2, <1>8, <3>1
      <3> QED
        BY <3>2 DEF Open
    <2> DEFINE vs == Open(t, g)
               S == Held(t)
               ix == t.index
               low == t.low
               m == t.next
               S2 == Held(t2)
               ix2 == t2.index
               low2 == t2.low
               vs2 == Open(t2, g + 1)
    <2>2. IsSearch(V, r, E, S, ix, low, vs, g)
      BY DEF IsSearchIn
    <2>3. g # 0 => <<vs[g], v>> \in r
      BY <1>9
    <2>4. v \in V \ S /\ m \in Nat /\ \A x \in S : ix[x] < m
      BY <1>1, <1>6
    <2>5. IsOpening(S, ix, low, vs, g, v, m, S2, ix2, low2, vs2)
      BY <1>2, <1>5, <2>1 DEF IsOpening
    <2> HIDE DEF vs, S, ix, low, m, S2, ix2, low2, vs2
    <2>6. IsSearch(V, r, E, S2, ix2, low2, vs2, g + 1)
      BY <1>7, <2>2, <2>3, <2>4, <2>5, OpeningKeeps
    <2> QED
      BY <2>6 DEF S2, ix2, low2, vs2
  <1>11. Numbered(t2)
    <2>1. t2.next # 0 /\ DOMAIN t2.index = V
      <3>1. t.next \in Nat /\ t2.next = t.next + 1
        BY <1>1, <1>2
      <3>2. t2.index \in [V -> Nat]
        BY <1>2 DEF IsState
      <3> QED
        BY <3>1, <3>2
    <2>2. \A x \in V : t2.index[x] < t2.next
      <3> SUFFICES ASSUME NEW x \in V PROVE t2.index[x] < t2.next
        OBVIOUS
      <3>1. t.index[x] < t.next /\ t.index[x] \in Nat
        BY <1>0, <1>1 DEF Numbered
      <3> QED
        <4>1. t2.next = t.next + 1 /\ t.next \in Nat
          BY <1>1, <1>2
        <4>2. t2.index[x] = t.next \/ t2.index[x] = t.index[x]
          BY <1>3
        <4> QED
          BY <3>1, <4>1, <4>2
    <2>3. ASSUME NEW i \in DOMAIN t2.stack, NEW j \in DOMAIN t2.stack, i < j
          PROVE  t2.index[t2.stack[i]] < t2.index[t2.stack[j]]
      <3>1. i \in DOMAIN t.stack /\ t2.stack[i] = t.stack[i] /\ t.stack[i] \in Held(t)
        BY <1>4, <2>3 DEF Held
      <3>2. t2.index[t2.stack[i]] = t.index[t.stack[i]] /\ t.index[t.stack[i]] < t.next
        BY <1>3, <1>4, <1>6, <3>1
      <3>3. CASE j = Len(t.stack) + 1
        BY <1>3, <1>4, <3>2, <3>3
      <3>4. CASE j \in DOMAIN t.stack
        <4>1. t2.index[t2.stack[j]] = t.index[t.stack[j]]
          <5>1. t.stack[j] \in Held(t) /\ t2.stack[j] = t.stack[j]
            BY <1>4, <3>4 DEF Held
          <5>2. t.stack[j] # v /\ t.stack[j] \in V
            BY <1>6, <5>1
          <5> QED
            BY <1>3, <5>1, <5>2
        <4> QED
          BY <1>0, <2>3, <3>1, <3>2, <3>4, <4>1 DEF Numbered
      <3> QED
        <4>1. DOMAIN t2.stack = 1..(Len(t.stack) + 1) /\ DOMAIN t.stack = 1..Len(t.stack) /\ Len(t.stack) \in Nat
          BY <1>4
        <4>2. j = Len(t.stack) + 1 \/ j \in DOMAIN t.stack
          BY <4>1
        <4> QED
          BY <3>3, <3>4, <4>2
    <2> QED
      BY <2>1, <2>2, <2>3 DEF Numbered
  <1>12. Parted(t2)
    <2>1. DOMAIN t2.index = V /\ DOMAIN t.index = V
      BY <1>1, <1>2
    <2>2. \A x \in V : t2.index[x] # 0 <=> t.index[x] # 0 \/ x = v
      BY <1>1, <1>3
    <2>3. \A x \in V : t.index[x] # 0 <=> x \in Held(t) \/ \E k \in DOMAIN t.components : x \in t.components[k]
      BY <1>0, <2>1 DEF Parted
    <2>4. \A x \in V : t2.index[x] # 0 <=> x \in Held(t2) \/ \E k \in DOMAIN t.components : x \in t.components[k]
      BY <1>5, <2>2, <2>3
    <2>5. \A k \in DOMAIN t.components : t.components[k] \cap Held(t2) = {}
      BY <1>0, <1>5, <1>6 DEF Parted
    <2>6. \A k, l \in DOMAIN t.components : k # l => t.components[k] \cap t.components[l] = {}
      BY <1>0 DEF Parted
    <2> QED
      BY <1>2, <2>1, <2>4, <2>5, <2>6 DEF Parted
  <1>13. Waiting(ns, t2, g + 1)
    <2>1. Len(t2.work) = g + 1 /\ g + 1 # (g + 1) + 1 /\ Len(t2.work) \in {g + 1, (g + 1) + 1}
      <3>1. t2.work = t.work
        BY <1>2
      <3>2. g \in Nat
        BY <1>1
      <3> QED
        BY <3>1, <3>2
    <2>2. \A i \in 1..(Len(t.work) - 1) : /\ t.work[i].at \in DOMAIN ns[t.work[i].v]
                                          /\ ns[t.work[i].v][t.work[i].at] = t.work[i + 1].v
      BY <1>0 DEF Waiting
    <2> QED
      <3> DEFINE W == Len(t.work)
                 work == t.work
      <3>1. /\ W \in {g + 1, (g + 1) + 1} /\ W # (g + 1) + 1
            /\ \A i \in 1..(W - 1) : work[i].at \in DOMAIN ns[work[i].v] /\ ns[work[i].v][work[i].at] = work[i + 1].v
            /\ t2.work = work /\ Len(t2.work) = W
        BY <1>2, <2>1, <2>2
      <3> HIDE DEF W, work
      <3> QED
        BY <3>1 DEF Waiting
  <1>14. LookedOver(r, ns, t2, E, g + 1)
    <2>1. \A e \in E : t2.index[e[1]] # 0 /\ t2.index[e[2]] # 0
      <3> SUFFICES ASSUME NEW e \in E PROVE t2.index[e[1]] # 0 /\ t2.index[e[2]] # 0
        OBVIOUS
      <3>1. e[1] \in V /\ e[2] \in V
        BY <1>0 DEF Typed
      <3> QED
        BY <1>0, <1>3, <1>7, <3>1 DEF LookedOver
    <2>2. ASSUME NEW e \in r, t2.index[e[1]] # 0, \A i \in 1..(g + 1) : t2.work[i].v # e[1] PROVE e \in E
      <3>1. e[1] \in V /\ e[1] # v
        <4>1. t2.work[g + 1].v = v /\ g + 1 \in 1..(g + 1)
          BY <1>1, <1>2
        <4>2. r \subseteq V \X V
          BY DEF IsRelationOf
        <4>3. e[1] \in V
          BY <4>2
        <4> QED
          BY <2>2, <4>1, <4>3
      <3>2. t.index[e[1]] # 0 /\ \A i \in 1..g : t.work[i].v # e[1]
        <4>1. \A i \in 1..g : i \in 1..(g + 1)
          BY <1>1
        <4> QED
          <5>1. t2.work = t.work
            BY <1>2
          <5>2. t2.index[e[1]] = t.index[e[1]]
            BY <1>3, <3>1
          <5> QED
            BY <2>2, <4>1, <5>1, <5>2
      <3> QED
        BY <1>0, <3>2 DEF LookedOver
    <2>3. ASSUME NEW i \in 1..(g + 1), NEW j \in DOMAIN ns[t2.work[i].v],
                 j < t2.work[i].at \/ (j = t2.work[i].at /\ i = Len(t2.work))
          PROVE  <<t2.work[i].v, ns[t2.work[i].v][j]>> \in E
      <3>1. CASE i = g + 1
        <4>1. ns[v] \in Seq(V) /\ t2.work[i].v = v /\ t2.work[i].at = 0
          BY <1>0, <1>1, <1>2, <3>1 DEF IsRelationOf, Waiting
        <4>2. j \in 1..Len(ns[v])
          BY <2>3, <4>1
        <4> QED
          BY <2>3, <4>1, <4>2
      <3>2. CASE i \in 1..g
        BY <1>0, <1>2, <1>8, <2>3, <3>2 DEF LookedOver
      <3>3. i = g + 1 \/ i \in 1..g
        <4>1. g \in Nat
          BY <1>1
        <4> QED
          BY <4>1
      <3> QED
        BY <3>1, <3>2, <3>3
    <2> QED
      BY <2>1, <2>2, <2>3 DEF LookedOver
  <1>15. TakenUp(t2) = TakenUp(t) /\ Ended(t2) = Ended(t)
    <2>1. DOMAIN t2.index = V /\ DOMAIN t.index = V /\ \E i \in DOMAIN t.work : t.work[i].v = v
      BY <1>1, <1>2
    <2> QED
      <3>1. \A x \in V : x # v => t2.index[x] = t.index[x]
        BY <1>3
      <3>2. \A x \in V : (t2.index[x] # 0 \/ \E i \in DOMAIN t.work : t.work[i].v = x)
                             <=> (t.index[x] # 0 \/ \E i \in DOMAIN t.work : t.work[i].v = x)
        BY <2>1, <3>1
      <3>3. \A x \in V : (t2.index[x] # 0 /\ \A i \in DOMAIN t.work : t.work[i].v # x)
                             <=> (t.index[x] # 0 /\ \A i \in DOMAIN t.work : t.work[i].v # x)
        BY <2>1, <3>1
      <3> QED
        <4> DEFINE work == t.work
        <4>1. t2.work = work
          BY <1>2
        <4> HIDE DEF work
        <4>2. TakenUp(t2) = {x \in V : t2.index[x] # 0 \/ \E i \in DOMAIN work : work[i].v = x}
          BY <2>1, <4>1 DEF TakenUp
        <4>3. Ended(t2) = {x \in V : t2.index[x] # 0 /\ \A i \in DOMAIN work : work[i].v # x}
          BY <2>1, <4>1 DEF Ended
        <4> QED
          <5>1. TakenUp(t) = {x \in V : t.index[x] # 0 \/ \E i \in DOMAIN work : work[i].v = x}
            BY <2>1 DEF TakenUp, work
          <5>2. Ended(t) = {x \in V : t.index[x] # 0 /\ \A i \in DOMAIN work : work[i].v # x}
            BY <2>1 DEF Ended, work
          <5>3. TakenUp(t2) = TakenUp(t)
            BY <3>2, <4>2, <5>1 DEF work
          <5>4. Ended(t2) = Ended(t)
            BY <3>3, <4>3, <5>2 DEF work
          <5> QED
            BY <5>3, <5>4
  <1> QED
    BY <1>0, <1>2, <1>10, <1>11, <1>12, <1>13, <1>14, <1>15 DEF IsSearchIn

LEMMA LeastOf ==
  ASSUME NEW T, T # {}, \A x \in T : x \in Nat
  PROVE  X!Min(T) \in T /\ X!Min(T) \in Nat /\ \A x \in T : X!Min(T) <= x
  <1>1. T \in SUBSET Nat
    OBVIOUS
  <1>2. \E x \in T : \A y \in T : x <= y
    BY <1>1, LeastExists
  <1>3. X!Min(T) \in T /\ \A y \in T : X!Min(T) <= y
    BY <1>2, Zenon DEF X!Min
  <1> QED
    BY <1>3

(* From the place `at` on, the neighbours s of v are looked at up to `stop`, and l is the least *)
(* number of those on the stack.                                                                *)
Looks(t, v, s, at, looked, stop, l) ==
  /\ stop \in Nat /\ l \in Nat /\ looked.waits \in BOOLEAN
  /\ \A j \in at..(stop - 1) : j \in DOMAIN s /\ t.index[s[j]] # 0
  /\ IF looked.waits THEN stop \in DOMAIN s /\ at <= stop /\ t.index[s[stop]] = 0 ELSE stop = Len(s) + 1
  /\ l <= t.low[v]
  /\ \A j \in at..(stop - 1) : s[j] \in Held(t) => l <= t.index[s[j]]
  /\ l = t.low[v] \/ \E j \in at..(stop - 1) : s[j] \in Held(t) /\ l = t.index[s[j]]
  /\ looked.t = [index |-> t.index, low |-> [t.low EXCEPT ![v] = l], next |-> t.next, stack |-> t.stack,
                 work |-> IF looked.waits THEN X!Front(t.work) \o <<[v |-> v, at |-> stop], [v |-> s[stop], at |-> 0]>>
                          ELSE t.work,
                 components |-> t.components]

LEMMA LookingIsDone ==
  ASSUME NEW V, NEW t, IsState(V, t), NEW v \in V, NEW s \in Seq(V), NEW at \in Nat, at # 0,
         NEW looked, looked = X!LookedAt(t, v, s, at)
  PROVE  \E stop, l : Looks(t, v, s, at, looked, stop, l)
  <1> DEFINE new == {i \in at..Len(s) : t.index[s[i]] = 0}
             stop == IF new = {} THEN Len(s) + 1 ELSE X!Min(new)
             before == {j \in at..(stop - 1) : X!Contains(t.stack, s[j])}
             links == {t.index[s[i]] : i \in before}
             l == X!Min({t.low[v]} \cup links)
             linked == [t EXCEPT !.low[v] = X!Min({@} \cup links)]
             waits == new # {}
             work == X!Front(t.work) \o <<[v |-> v, at |-> stop], [v |-> s[stop], at |-> 0]>>
             frames == X!Front(linked.work) \o <<[v |-> v, at |-> stop], X!Frame(s[stop])>>
  <1>1. looked = [waits |-> waits, t |-> IF new = {} THEN linked ELSE [linked EXCEPT !.work = frames]]
    BY Zenon DEF X!LookedAt
  <1>2. /\ DOMAIN s = 1..Len(s) /\ Len(s) \in Nat /\ \A j \in DOMAIN s : s[j] \in V
        /\ DOMAIN t.stack = 1..Len(t.stack) /\ t.index \in [V -> Nat] /\ t.low \in [V -> Nat]
    <2>1. t.stack \in Seq(V) /\ t.index \in [V -> Nat] /\ t.low \in [V -> Nat]
      BY DEF IsState
    <2> QED
      BY <2>1, PlacesOf
  <1>3. \A i \in at..Len(s) : i \in DOMAIN s /\ i \in Nat
    BY <1>2
  <1>4. new # {} => stop \in new /\ \A i \in new : stop <= i
    <2>1. \A i \in new : i \in Nat
      BY <1>3
    <2> HIDE DEF new
    <2> QED
      BY <2>1, LeastOf
  <1>5. /\ stop \in Nat
        /\ \A j \in at..(stop - 1) : j \in DOMAIN s /\ t.index[s[j]] # 0
        /\ IF waits THEN stop \in DOMAIN s /\ at <= stop /\ t.index[s[stop]] = 0 ELSE stop = Len(s) + 1
    <2>1. CASE new = {}
      <3>1. stop = Len(s) + 1
        BY <2>1
      <3> HIDE DEF stop
      <3>2. \A j \in at..(stop - 1) : j \in at..Len(s)
        BY <1>2, <3>1
      <3>3. \A j \in at..Len(s) : j \in DOMAIN s /\ t.index[s[j]] # 0
        BY <1>3, <2>1
      <3>4. stop \in Nat
        BY <1>2, <3>1
      <3> HIDE DEF new
      <3> QED
        BY <2>1, <3>1, <3>2, <3>3, <3>4
    <2>2. CASE new # {}
      <3>1. stop \in at..Len(s) /\ t.index[s[stop]] = 0 /\ \A i \in at..Len(s) : t.index[s[i]] = 0 => stop <= i
        BY <1>4, <2>2
      <3> HIDE DEF stop
      <3>2. ASSUME NEW j \in at..(stop - 1) PROVE j \in at..Len(s) /\ ~(stop <= j)
        <4>1. stop \in at..Len(s) /\ Len(s) \in Nat
          BY <1>2, <3>1
        <4> QED
          BY <4>1
      <3> HIDE DEF new
      <3> QED
        BY <1>2, <1>3, <2>2, <3>1, <3>2
    <2> QED
      BY <2>1, <2>2
  <1>6. \A x : X!Contains(t.stack, x) <=> x \in Held(t)
    BY <1>2 DEF X!Contains, Held
  <1> HIDE DEF stop, new
  <1>7. /\ l \in Nat /\ l <= t.low[v]
        /\ \A j \in at..(stop - 1) : s[j] \in Held(t) => l <= t.index[s[j]]
        /\ l = t.low[v] \/ \E j \in at..(stop - 1) : s[j] \in Held(t) /\ l = t.index[s[j]]
    <2>1. \A x \in {t.low[v]} \cup links : x \in Nat
      BY <1>2, <1>5
    <2>2. t.low[v] \in {t.low[v]} \cup links
      OBVIOUS
    <2>3. l \in {t.low[v]} \cup links /\ l \in Nat /\ \A x \in {t.low[v]} \cup links : l <= x
      <3> HIDE DEF links
      <3> QED
        BY <2>1, <2>2, LeastOf
    <2> HIDE DEF l
    <2> QED
      BY <1>6, <2>3
  <1>8. looked.t = [index |-> t.index, low |-> [t.low EXCEPT ![v] = l], next |-> t.next, stack |-> t.stack,
                    work |-> IF waits THEN work ELSE t.work, components |-> t.components]
    <2>1. linked = [t EXCEPT !.low = [t.low EXCEPT ![v] = l]]
      BY DEF IsState
    <2> DEFINE low == [t.low EXCEPT ![v] = l]
    <2> HIDE DEF links, l, linked
    <2>2. linked = [index |-> t.index, low |-> low, next |-> t.next, stack |-> t.stack,
                    work |-> t.work, components |-> t.components]
      <3>1. linked = [t EXCEPT !.low = low]
        BY <2>1
      <3> HIDE DEF low
      <3> QED
        BY <3>1 DEF IsState
    <2> HIDE DEF low
    <2>3. frames = work
      BY <2>2 DEF X!Frame
    <2>4. looked.t = IF new = {} THEN linked ELSE [linked EXCEPT !.work = frames]
      BY <1>1
    <2> HIDE DEF frames, work
    <2> QED
      BY <2>2, <2>3, <2>4 DEF low
  <1>9. looked.waits = waits /\ waits \in BOOLEAN
    BY <1>1
  <1> HIDE DEF l, waits
  <1>10. Looks(t, v, s, at, looked, stop, l)
    BY <1>5, <1>7, <1>8, <1>9 DEF Looks
  <1> QED
    BY <1>10

LEMMA FrontOf ==
  ASSUME NEW T, NEW s \in Seq(T), s # <<>>
  PROVE  /\ X!Front(s) \in Seq(T) /\ Len(s) - 1 \in Nat /\ Len(X!Front(s)) = Len(s) - 1
         /\ \A i \in 1..(Len(s) - 1) : X!Front(s)[i] = s[i] /\ i \in DOMAIN s
         /\ X!Last(s) = s[Len(s)] /\ Len(s) \in DOMAIN s
  <1>1. Len(s) \in Nat /\ Len(s) # 0 /\ Len(s) \in DOMAIN s /\ DOMAIN s = 1..Len(s)
    OBVIOUS
  <1>2. X!Front(s) = SubSeq(s, 1, Len(s) - 1)
    BY DEF X!Front
  <1>3. SubSeq(s, 1, Len(s) - 1) \in Seq(T) /\ Len(SubSeq(s, 1, Len(s) - 1)) = Len(s) - 1
    BY <1>1
  <1>4. \A i \in 1..(Len(s) - 1) : SubSeq(s, 1, Len(s) - 1)[i] = s[i] /\ i \in DOMAIN s
    BY <1>1
  <1> QED
    BY <1>1, <1>2, <1>3, <1>4 DEF X!Last

LEMMA PlacesOfJoined ==
  ASSUME NEW T, NEW p \in Seq(T), NEW q \in Seq(T), NEW w, w = p \o q
  PROVE  /\ w \in Seq(T) /\ Len(w) = Len(p) + Len(q) /\ Len(p) \in Nat /\ Len(q) \in Nat
         /\ \A i \in 1..Len(p) : w[i] = p[i]
         /\ \A i \in 1..Len(q) : w[Len(p) + i] = q[i]
  <1>1. w \in Seq(T) /\ Len(w) = Len(p) + Len(q) /\ Len(p) \in Nat /\ Len(q) \in Nat
    OBVIOUS
  <1>2. \A i \in 1..Len(p) : w[i] = p[i]
    OBVIOUS
  <1>3. \A i \in 1..Len(q) : w[Len(p) + i] = q[i]
    OBVIOUS
  <1> QED
    BY <1>1, <1>2, <1>3

(* w is s with its last place taken by a and b. *)
IsReplaced(T, s, a, b, w) ==
  /\ w \in Seq(T) /\ Len(w) = Len(s) + 1 /\ w[Len(s)] = a /\ w[Len(s) + 1] = b
  /\ \A i \in 1..(Len(s) - 1) : w[i] = s[i]

LEMMA LastReplaced ==
  ASSUME NEW T, NEW s \in Seq(T), s # <<>>, NEW a \in T, NEW b \in T,
         NEW front, front = X!Front(s), NEW two, two = <<a, b>>, NEW w, w = front \o two
  PROVE  IsReplaced(T, s, a, b, w)
  <1> DEFINE N == Len(s) - 1
  <1>1. front \in Seq(T) /\ N \in Nat /\ Len(front) = N /\ \A i \in 1..N : front[i] = s[i]
    BY FrontOf
  <1>2. two \in Seq(T) /\ Len(two) = 2 /\ two[1] = a /\ two[2] = b
    OBVIOUS
  <1>3. Len(s) = N + 1 /\ Len(s) + 1 = N + 2
    BY <1>1
  <1>4. /\ w \in Seq(T) /\ Len(w) = Len(front) + Len(two)
        /\ \A i \in 1..Len(front) : w[i] = front[i]
        /\ \A i \in 1..Len(two) : w[Len(front) + i] = two[i]
    BY <1>1, <1>2, PlacesOfJoined
  <1>5. w[N + 1] = a /\ w[N + 2] = b
    <2>1. 1 \in 1..Len(two) /\ 2 \in 1..Len(two)
      BY <1>2
    <2>2. w[Len(front) + 1] = two[1] /\ w[Len(front) + 2] = two[2]
      BY <1>4, <2>1
    <2> QED
      BY <1>1, <1>2, <2>2
  <1> QED
    BY <1>1, <1>2, <1>3, <1>4, <1>5 DEF IsReplaced

(* The neighbours of v were looked at, and t2 is the state then. *)
HasLooked(V, r, ns, t, g, v, waits, t2) ==
  \E E2 : /\ IsSearchIn(V, r, ns, t2, E2, g)
          /\ waits => /\ Len(t2.work) = g + 1
                     /\ \E x \in V : /\ TakenUp(t2) = TakenUp(t) \cup {x} /\ x \notin TakenUp(t)
                                     /\ Ended(t2) = Ended(t)
          /\ ~waits => /\ t2.work = t.work /\ TakenUp(t2) = TakenUp(t) /\ Ended(t2) = Ended(t)
                      /\ \A e \in r : e[1] = v => e \in E2

\* The neighbours of the last open vertex are looked at, up to the first that was not found.
LEMMA LookedIsSearch ==
  ASSUME NEW V, NEW r, NEW ns, IsRelationOf(V, r, ns), NEW t, NEW E, NEW g, IsSearchIn(V, r, ns, t, E, g),
         g # 0, Len(t.work) = g, NEW v, v = t.work[g].v, NEW at, at = t.work[g].at + 1,
         NEW looked, NEW stop, NEW l, Looks(t, v, ns[v], at, looked, stop, l),
         NEW t2, t2 = looked.t
  PROVE  HasLooked(V, r, ns, t, g, v, looked.waits, t2)
  <1> DEFINE s == ns[v]
             More == {<<v, s[j]>> : j \in at..(stop - 1)}
             E2 == E \cup More
             work2 == X!Front(t.work) \o <<[v |-> v, at |-> stop], [v |-> s[stop], at |-> 0]>>
  <1>0. /\ IsState(V, t) /\ Typed(V, r, E, Held(t), t.index, t.low, Open(t, g), g)
        /\ Numbered(t) /\ Parted(t) /\ Waiting(ns, t, g) /\ LookedOver(r, ns, t, E, g) /\ AreComponents(r, t.components)
        /\ IsSearch(V, r, E, Held(t), t.index, t.low, Open(t, g), g)
    BY DEF IsSearchIn, IsSearch
  <1>1. /\ g \in Nat /\ g \in 1..g /\ t.work \in Seq([v : V, at : Nat]) /\ t.work # <<>> /\ DOMAIN t.work = 1..g
        /\ \A i \in 1..g : t.work[i] \in [v : V, at : Nat] /\ t.work[i].v \in V /\ t.work[i].at \in Nat
        /\ t.index \in [V -> Nat] /\ t.low \in [V -> Nat] /\ t.stack \in Seq(V) /\ t.next \in Nat
        /\ t.components \in Seq(SUBSET V)
    <2>1. g \in Nat
      BY <1>0 DEF Typed
    <2>2. t.work \in Seq([v : V, at : Nat])
      BY <1>0 DEF IsState
    <2>3. DOMAIN t.work = 1..g /\ \A i \in DOMAIN t.work : t.work[i] \in [v : V, at : Nat]
      BY <2>2, PlacesOf
    <2>4. \A i \in 1..g : t.work[i] \in [v : V, at : Nat] /\ t.work[i].v \in V /\ t.work[i].at \in Nat
      BY <2>3
    <2>5. g \in 1..g /\ t.work # <<>>
      BY <2>1, <2>3
    <2> QED
      BY <1>0, <2>1, <2>2, <2>3, <2>4, <2>5 DEF IsState
  <1>2. v \in V /\ at \in Nat /\ at # 0 /\ at - 1 = t.work[g].at /\ s \in Seq(V) /\ DOMAIN s = 1..Len(s) /\ Len(s) \in Nat
        /\ \A j \in DOMAIN s : s[j] \in V /\ <<v, s[j]>> \in r
    <2>1. v \in V /\ at \in Nat /\ at # 0 /\ at - 1 = t.work[g].at
      <3>1. g \in 1..g /\ t.work[g].v \in V /\ t.work[g].at \in Nat
        BY <1>1
      <3> QED
        BY <3>1
    <2>2. s \in Seq(V)
      BY <2>1 DEF IsRelationOf
    <2>3. \A j \in DOMAIN s : <<v, s[j]>> \in r
      BY <2>1 DEF IsRelationOf
    <2> QED
      BY <2>1, <2>2, <2>3, PlacesOf
  <1>3. /\ stop \in Nat /\ l \in Nat /\ looked.waits \in BOOLEAN
        /\ \A j \in at..(stop - 1) : j \in DOMAIN s /\ t.index[s[j]] # 0
        /\ IF looked.waits THEN stop \in DOMAIN s /\ at <= stop /\ t.index[s[stop]] = 0 ELSE stop = Len(s) + 1
        /\ l <= t.low[v]
        /\ \A j \in at..(stop - 1) : s[j] \in Held(t) => l <= t.index[s[j]]
        /\ l = t.low[v] \/ \E j \in at..(stop - 1) : s[j] \in Held(t) /\ l = t.index[s[j]]
    BY DEF Looks
  <1>s. s = ns[v]
    OBVIOUS
  <1> HIDE DEF s
  <1>4. /\ t2.index = t.index /\ t2.low = [t.low EXCEPT ![v] = l] /\ t2.next = t.next /\ t2.stack = t.stack
        /\ t2.work = IF looked.waits THEN work2 ELSE t.work
        /\ t2.components = t.components
        /\ t2 = [index |-> t2.index, low |-> t2.low, next |-> t2.next, stack |-> t2.stack, work |-> t2.work,
                 components |-> t2.components]
    <2> DEFINE low == [t.low EXCEPT ![v] = l]
               work == IF looked.waits THEN work2 ELSE t.work
    <2>1. t2 = [index |-> t.index, low |-> low, next |-> t.next, stack |-> t.stack, work |-> work,
                components |-> t.components]
      BY DEF Looks, s
    <2> HIDE DEF low, work
    <2>2. /\ t2.index = t.index /\ t2.low = low /\ t2.next = t.next /\ t2.stack = t.stack /\ t2.work = work
          /\ t2.components = t.components
      BY <2>1
    <2> QED
      BY <2>1, <2>2 DEF low, work
  <1>6. looked.waits => /\ work2 \in Seq([v : V, at : Nat]) /\ Len(work2) = g + 1 /\ work2[g] = [v |-> v, at |-> stop]
                        /\ work2[g + 1] = [v |-> s[stop], at |-> 0] /\ \A i \in 1..(g - 1) : work2[i] = t.work[i]
    <2> SUFFICES ASSUME looked.waits
                 PROVE  /\ work2 \in Seq([v : V, at : Nat]) /\ Len(work2) = g + 1 /\ work2[g] = [v |-> v, at |-> stop]
                        /\ work2[g + 1] = [v |-> s[stop], at |-> 0] /\ \A i \in 1..(g - 1) : work2[i] = t.work[i]
      OBVIOUS
    <2> DEFINE a == [v |-> v, at |-> stop]
               b == [v |-> s[stop], at |-> 0]
    <2>1. a \in [v : V, at : Nat] /\ b \in [v : V, at : Nat]
      BY <1>2, <1>3
    <2> HIDE DEF a, b
    <2>2. work2 = X!Front(t.work) \o <<a, b>>
      BY DEF a, b
    <2> DEFINE T == [v : V, at : Nat]
               work == t.work
               front == X!Front(work)
               two == <<a, b>>
    <2>w. Len(work) = g /\ work \in Seq(T) /\ work # <<>> /\ a \in T /\ b \in T /\ work2 = front \o two
      BY <1>1, <2>1, <2>2
    <2>x. front = X!Front(work) /\ two = <<a, b>>
      OBVIOUS
    <2> HIDE DEF work2, T, work, front, two
    <2>l. IsReplaced(T, work, a, b, work2)
      BY <2>w, <2>x, LastReplaced
    <2>3. work2 \in Seq([v : V, at : Nat]) /\ Len(work2) = g + 1 /\ work2[g] = a /\ work2[g + 1] = b
          /\ \A i \in 1..(g - 1) : work2[i] = t.work[i]
      BY <2>w, <2>l DEF T, work, IsReplaced
    <2> QED
      BY <2>3 DEF a, b
  <1> HIDE DEF work2
  <1>7. /\ t2.work \in Seq([v : V, at : Nat]) /\ Len(t2.work) = IF looked.waits THEN g + 1 ELSE g
        /\ \A i \in 1..g : i \in DOMAIN t2.work /\ t2.work[i].v = t.work[i].v
        /\ \A i \in 1..(g - 1) : t2.work[i] = t.work[i] /\ i \in 1..g
    <2>1. CASE looked.waits
      <3>1. t2.work = work2 /\ Len(t2.work) = g + 1 /\ t2.work \in Seq([v : V, at : Nat])
        BY <1>4, <1>6, <2>1
      <3>2. DOMAIN t2.work = 1..(g + 1)
        BY <3>1, PlacesOf
      <3>3. \A i \in 1..g : i \in DOMAIN t2.work /\ (i = g \/ i \in 1..(g - 1))
        <4>1. g \in Nat
          BY <1>1
        <4> QED
          BY <3>2, <4>1
      <3>4. \A i \in 1..(g - 1) : t2.work[i] = t.work[i] /\ i \in 1..g
        <4>1. \A i \in 1..(g - 1) : i \in 1..g
          BY <1>1
        <4> QED
          BY <1>6, <2>1, <3>1, <4>1
      <3>5. t2.work[g].v = v
        BY <1>6, <2>1, <3>1
      <3> QED
        BY <2>1, <3>1, <3>3, <3>4, <3>5
    <2>2. CASE ~looked.waits
      BY <1>1, <1>4, <2>2
    <2> QED
      BY <2>1, <2>2
  <1>8. IsState(V, t2) /\ Held(t2) = Held(t)
    <2>1. t2.low \in [V -> Nat]
      <3>1. t.low \in [V -> Nat] /\ l \in Nat /\ t2.low = [t.low EXCEPT ![v] = l]
        BY <1>1, <1>3, <1>4
      <3> QED
        BY <3>1
    <2>2. Held(t2) = Held(t)
      BY <1>4 DEF Held
    <2> QED
      BY <1>1, <1>4, <1>7, <2>1, <2>2 DEF IsState
  <1>9. Open(t2, g) = Open(t, g) /\ Open(t, g)[g] = v
    BY <1>1, <1>7 DEF Open
  <1>10. IsSearch(V, r, E2, Held(t2), t2.index, t2.low, Open(t2, g), g)
    <2> DEFINE S == Held(t)
               ix == t.index
               low == t.low
               vs == Open(t, g)
               low2 == t2.low
    <2>1. IsSearch(V, r, E, S, ix, low, vs, g) /\ IsLinked(low, vs[g], l, low2) /\ l \in Nat /\ l <= low[vs[g]]
      BY <1>0, <1>3, <1>4, <1>9 DEF IsLinked
    <2>2. More \subseteq r /\ \A e \in More : e[1] = vs[g]
      <3>1. \A j \in at..(stop - 1) : <<v, s[j]>> \in r /\ <<v, s[j]>>[1] = vs[g]
        BY <1>2, <1>3, <1>9
      <3> HIDE DEF vs
      <3> QED
        BY <3>1
    <2>3. \A e \in More : e[2] \in S => l <= ix[e[2]]
      <3>1. \A j \in at..(stop - 1) : <<v, s[j]>>[2] \in S => l <= ix[<<v, s[j]>>[2]]
        BY <1>3
      <3> HIDE DEF S, ix
      <3> QED
        BY <3>1
    <2>4. l = low[vs[g]] \/ \E e \in More : e[2] \in S /\ l = ix[e[2]]
      <3>1. CASE l = low[v]
        BY <1>9, <3>1
      <3>2. CASE l # low[v]
        <4>1. PICK j \in at..(stop - 1) : s[j] \in S /\ l = ix[s[j]]
          BY <1>3, <3>2
        <4>2. <<v, s[j]>> \in More /\ <<v, s[j]>>[2] = s[j]
          OBVIOUS
        <4> QED
          BY <4>1, <4>2
      <3> QED
        BY <3>1, <3>2
    <2> HIDE DEF S, ix, low, vs, low2, More
    <2>5. IsSearch(V, r, E \cup More, S, ix, low2, vs, g)
      BY <2>1, <2>2, <2>3, <2>4, LinkingKeeps
    <2> QED
      BY <1>4, <1>8, <1>9, <2>5 DEF S, ix, vs, low2
  <1>11. Numbered(t2) /\ Parted(t2) /\ AreComponents(r, t2.components)
    <2>1. Numbered(t2)
      BY <1>0, <1>4 DEF Numbered
    <2>2. Parted(t2)
      BY <1>0, <1>4, <1>8 DEF Parted
    <2> QED
      BY <1>0, <1>4, <2>1, <2>2
  <1>12. Waiting(ns, t2, g)
    <2>1. \A i \in 1..(g - 1) : t.work[i].at \in DOMAIN ns[t.work[i].v] /\ ns[t.work[i].v][t.work[i].at] = t.work[i + 1].v
      BY <1>0 DEF Waiting
    <2>2. \A i \in 1..(g - 1) : t2.work[i].at \in DOMAIN ns[t2.work[i].v] /\ ns[t2.work[i].v][t2.work[i].at] = t2.work[i + 1].v
      <3> SUFFICES ASSUME NEW i \in 1..(g - 1)
                   PROVE  t2.work[i].at \in DOMAIN ns[t2.work[i].v] /\ ns[t2.work[i].v][t2.work[i].at] = t2.work[i + 1].v
        OBVIOUS
      <3>1. i + 1 \in 1..g
        BY <1>1
      <3>2. t2.work[i] = t.work[i] /\ t2.work[i + 1].v = t.work[i + 1].v
        BY <1>7, <3>1
      <3> QED
        BY <2>1, <3>2
    <2>3. CASE looked.waits
      <3>1. Len(t2.work) = g + 1 /\ g + 1 # g /\ (g + 1) - 1 = g
        BY <1>1, <1>7, <2>3
      <3>w. t2.work[g + 1] = [v |-> s[stop], at |-> 0] /\ t2.work[g] = [v |-> v, at |-> stop]
        BY <1>4, <1>6, <2>3
      <3>2. t2.work[g + 1].at = 0 /\ t2.index[t2.work[g + 1].v] = 0 /\ t2.work[g + 1].v = s[stop]
        BY <1>3, <1>4, <2>3, <3>w
      <3>3. t2.work[g].v = v /\ t2.work[g].at = stop /\ stop \in DOMAIN ns[v] /\ ns[v][stop] = s[stop]
        <4>1. t2.work[g].v = v /\ t2.work[g].at = stop
          BY <3>w
        <4>2. stop \in DOMAIN s
          BY <1>3, <2>3
        <4> QED
          BY <1>s, <4>1, <4>2
      <3>4. \A i \in 1..g : i = g \/ i \in 1..(g - 1)
        BY <1>1
      <3>5. \A i \in 1..g : t2.work[i].at \in DOMAIN ns[t2.work[i].v] /\ ns[t2.work[i].v][t2.work[i].at] = t2.work[i + 1].v
        BY <2>2, <3>2, <3>3, <3>4
      <3> QED
        BY <3>1, <3>2, <3>5 DEF Waiting
    <2>4. CASE ~looked.waits
      <3>1. Len(t2.work) = g /\ g # g + 1
        BY <1>1, <1>7, <2>4
      <3> QED
        BY <2>2, <3>1 DEF Waiting
    <2> QED
      BY <2>3, <2>4
  <1>13. \A j \in DOMAIN s : j < stop => <<v, s[j]>> \in E2
    <2> SUFFICES ASSUME NEW j \in DOMAIN s, j < stop PROVE <<v, s[j]>> \in E2
      OBVIOUS
    <2>1. j \in Nat /\ (j < t.work[g].at \/ j = t.work[g].at \/ j \in at..(stop - 1))
      <3>1. j \in Nat /\ t.work[g].at \in Nat /\ stop \in Nat /\ at \in Nat /\ at - 1 = t.work[g].at
        <4>1. DOMAIN s = 1..Len(s)
          BY <1>2
        <4>2. j \in Nat
          BY <4>1
        <4>3. t.work[g].at \in Nat
          BY <1>1
        <4>4. at \in Nat /\ at - 1 = t.work[g].at
          BY <1>2
        <4>5. stop \in Nat
          BY <1>3
        <4> QED
          BY <4>2, <4>3, <4>4, <4>5
      <3> QED
        BY <3>1
    <2>2. CASE j < t.work[g].at \/ j = t.work[g].at
      BY <1>0, <1>1, <1>s, <2>2 DEF LookedOver
    <2>3. CASE j \in at..(stop - 1)
      BY <2>3
    <2> QED
      BY <2>1, <2>2, <2>3
  <1>14. LookedOver(r, ns, t2, E2, g)
    <2>1. \A e \in E2 : t2.index[e[1]] # 0 /\ t2.index[e[2]] # 0
      <3>1. \A e \in E : t.index[e[1]] # 0 /\ t.index[e[2]] # 0
        BY <1>0 DEF LookedOver
      <3>2. t.index[v] # 0
        <4>1. v \in Held(t)
          BY <1>0, <1>1, <1>9 DEF Typed
        <4> QED
          BY <1>0, <1>1, <1>2, <4>1 DEF Parted
      <3>3. \A e \in More : t.index[e[1]] # 0 /\ t.index[e[2]] # 0
        <4>1. \A j \in at..(stop - 1) : t.index[<<v, s[j]>>[1]] # 0 /\ t.index[<<v, s[j]>>[2]] # 0
          BY <1>3, <3>2
        <4> QED
          BY <4>1
      <3> QED
        BY <1>4, <3>1, <3>3
    <2>2. \A e \in r : (t2.index[e[1]] # 0 /\ \A i \in 1..g : t2.work[i].v # e[1]) => e \in E2
      <3> SUFFICES ASSUME NEW e \in r, t2.index[e[1]] # 0, \A i \in 1..g : t2.work[i].v # e[1] PROVE e \in E2
        OBVIOUS
      <3>1. t.index[e[1]] # 0 /\ \A i \in 1..g : t.work[i].v # e[1]
        BY <1>4, <1>7
      <3>2. e \in E
        BY <1>0, <3>1 DEF LookedOver
      <3> QED
        BY <3>2
    <2>3. ASSUME NEW i \in 1..g, NEW j \in DOMAIN ns[t2.work[i].v],
                 j < t2.work[i].at \/ (j = t2.work[i].at /\ i = Len(t2.work))
          PROVE  <<t2.work[i].v, ns[t2.work[i].v][j]>> \in E2
      <3>1. CASE i \in 1..(g - 1)
        <4>1. i # Len(t2.work) /\ t2.work[i] = t.work[i]
          BY <1>1, <1>7, <3>1
        <4> QED
          BY <1>0, <2>3, <4>1 DEF LookedOver
      <3>2. CASE i = g
        <4>1. t2.work[i].v = v /\ j \in DOMAIN s /\ j \in Nat
          <5>1. t2.work[g].v = v
            BY <1>1, <1>7
          <5> QED
            <6>1. j \in DOMAIN s
              BY <1>s, <2>3, <3>2, <5>1
            <6>2. DOMAIN s = 1..Len(s)
              BY <1>2
            <6>3. j \in Nat
              BY <6>1, <6>2
            <6> QED
              BY <3>2, <5>1, <6>1, <6>3
        <4>2. CASE looked.waits
          <5>1. t2.work[i].at = stop /\ i # Len(t2.work)
            BY <1>1, <1>4, <1>6, <1>7, <3>2, <4>2
          <5> QED
            BY <1>13, <1>s, <2>3, <4>1, <5>1
        <4>3. CASE ~looked.waits
          <5>1. t2.work[i] = t.work[i] /\ i = Len(t.work)
            BY <1>4, <3>2, <4>3
          <5> QED
            <6>1. j \in DOMAIN ns[t.work[i].v] /\ (j < t.work[i].at \/ j = t.work[i].at)
              BY <2>3, <5>1
            <6>2. <<t.work[i].v, ns[t.work[i].v][j]>> \in E
              BY <1>0, <5>1, <6>1 DEF LookedOver
            <6> QED
              BY <5>1, <6>2
        <4> QED
          BY <4>2, <4>3
      <3>3. i \in 1..(g - 1) \/ i = g
        BY <1>1
      <3> QED
        BY <3>1, <3>2, <3>3
    <2> HIDE DEF E2
    <2> QED
      BY <2>1, <2>2, <2>3 DEF LookedOver
  <1>15. IsSearchIn(V, r, ns, t2, E2, g)
    <2> HIDE DEF E2
    <2> QED
      BY <1>8, <1>10, <1>11, <1>12, <1>14 DEF IsSearchIn
  <1>16. ASSUME looked.waits
         PROVE  /\ Len(t2.work) = g + 1
                /\ \E x \in V : TakenUp(t2) = TakenUp(t) \cup {x} /\ x \notin TakenUp(t) /\ Ended(t2) = Ended(t)
    <2> DEFINE x == s[stop]
    <2>1. x \in V /\ t.index[x] = 0 /\ t2.work[g + 1].v = x /\ Len(t2.work) = g + 1
      <3>1. t2.work[g + 1] = [v |-> x, at |-> 0] /\ Len(t2.work) = g + 1
        BY <1>4, <1>6, <1>16
      <3>2. x \in V /\ t.index[x] = 0
        BY <1>2, <1>3, <1>16
      <3> QED
        BY <3>1, <3>2
    <2>2. DOMAIN t2.work = 1..(g + 1) /\ g + 1 \in 1..(g + 1)
      <3>1. DOMAIN t2.work = 1..Len(t2.work)
        BY <1>7, PlacesOf
      <3> QED
        BY <1>1, <2>1, <3>1
    <2> HIDE DEF x
    <2>3. \A i \in 1..(g + 1) : i \in 1..g \/ i = g + 1
      BY <1>1
    <2>4. \A i \in 1..g : t.index[t.work[i].v] # 0
      <3> SUFFICES ASSUME NEW i \in 1..g PROVE t.index[t.work[i].v] # 0
        OBVIOUS
      <3>1. t.work[i].v \in Held(t) /\ t.work[i].v \in V
        <4>1. Open(t, g)[i] \in Held(t) /\ Open(t, g)[i] = t.work[i].v
          BY <1>0 DEF Typed, Open
        <4> QED
          BY <1>1, <4>1
      <3> QED
        BY <1>0, <1>1, <3>1 DEF Parted
    <2>5. \A y : (\E i \in DOMAIN t2.work : t2.work[i].v = y) <=> (y = x \/ \E i \in DOMAIN t.work : t.work[i].v = y)
      BY <1>1, <1>7, <2>1, <2>2, <2>3
    <2>6. DOMAIN t.index = V /\ x \notin TakenUp(t)
      BY <1>1, <2>1, <2>4 DEF TakenUp
    <2>7. TakenUp(t2) = TakenUp(t) \cup {x}
      <3>1. \A y \in V : (t.index[y] # 0 \/ \E i \in DOMAIN t2.work : t2.work[i].v = y)
                           <=> (y = x \/ t.index[y] # 0 \/ \E i \in DOMAIN t.work : t.work[i].v = y)
        BY <2>5
      <3> QED
        BY <1>4, <2>1, <2>6, <3>1 DEF TakenUp
    <2>8. Ended(t2) = Ended(t)
      <3>1. \A y \in V : (t.index[y] # 0 /\ \A i \in DOMAIN t2.work : t2.work[i].v # y)
                           <=> (t.index[y] # 0 /\ \A i \in DOMAIN t.work : t.work[i].v # y)
        BY <2>1, <2>5
      <3> QED
        BY <1>4, <2>6, <3>1 DEF Ended
    <2> QED
      BY <2>1, <2>6, <2>7, <2>8
  <1>17. ASSUME ~looked.waits
         PROVE  /\ t2.work = t.work /\ TakenUp(t2) = TakenUp(t) /\ Ended(t2) = Ended(t)
                /\ \A e \in r : e[1] = v => e \in E2
    <2>1. t2.work = t.work
      BY <1>4, <1>17
    <2>2. TakenUp(t2) = TakenUp(t) /\ Ended(t2) = Ended(t)
      BY <1>4, <2>1 DEF TakenUp, Ended
    <2>3. ASSUME NEW e \in r, e[1] = v PROVE e \in E2
      <3>1. e = <<v, e[2]>>
        BY <2>3 DEF IsRelationOf
      <3>2. PICK j \in DOMAIN s : s[j] = e[2]
        <4>1. \A y : (\E j \in DOMAIN ns[v] : ns[v][j] = y) <=> <<v, y>> \in r
          BY <1>2 DEF IsRelationOf
        <4>2. <<v, e[2]>> \in r
          BY <2>3, <3>1
        <4> QED
          BY <1>s, <4>1, <4>2
      <3>3. j < stop
        <4>1. stop = Len(s) + 1 /\ j \in 1..Len(s) /\ Len(s) \in Nat
          BY <1>2, <1>3, <1>17
        <4> QED
          BY <4>1
      <3> HIDE DEF E2
      <3>4. <<v, s[j]>> \in E2
        BY <1>13, <3>3
      <3> QED
        BY <3>1, <3>2, <3>4
    <2> QED
      BY <2>1, <2>2, <2>3
  <1> HIDE DEF E2
  <1> QED
    BY <1>15, <1>16, <1>17 DEF HasLooked

(* A sequence is cut at a place: below are those with a lower number. *)
IsCutAt(V, s, ix, at, below, above) ==
  /\ below \in Seq(V) /\ \A i \in DOMAIN below : i \in DOMAIN s /\ below[i] = s[i]
  /\ {below[i] : i \in DOMAIN below} = {w \in {s[i] : i \in DOMAIN s} : ix[w] < ix[s[at]]}
  /\ above = {w \in {s[i] : i \in DOMAIN s} : ~(ix[w] < ix[s[at]])}

LEMMA RestOf ==
  ASSUME NEW T, NEW s \in Seq(T), NEW m \in 1..Len(s)
  PROVE  /\ DOMAIN SubSeq(s, m, Len(s)) = 1..(Len(s) - m + 1)
         /\ \A i \in 1..(Len(s) - m + 1) : SubSeq(s, m, Len(s))[i] = s[i + m - 1]
  OBVIOUS

LEMMA GrowingIsCut ==
  ASSUME NEW V, NEW s \in Seq(V), NEW ix \in [V -> Nat], \A i, j \in DOMAIN s : i < j => ix[s[i]] < ix[s[j]],
         NEW at \in DOMAIN s
  PROVE  IsCutAt(V, s, ix, at, SubSeq(s, 1, at - 1), X!ToSet(SubSeq(s, at, Len(s))))
  <1> DEFINE N == Len(s)
             below == SubSeq(s, 1, at - 1)
             top == SubSeq(s, at, N)
  <1>1. N \in Nat /\ DOMAIN s = 1..N /\ \A i \in DOMAIN s : s[i] \in V /\ ix[s[i]] \in Nat
    <2>1. N \in Nat /\ DOMAIN s = 1..N /\ \A i \in DOMAIN s : s[i] \in V
      BY PlacesOf
    <2> QED
      BY <2>1
  <1>2. at \in Nat /\ at - 1 \in Nat /\ at <= N /\ 1 <= at
    BY <1>1
  <1>3. \A i \in DOMAIN s : ix[s[i]] < ix[s[at]] <=> i < at
    <2> SUFFICES ASSUME NEW i \in DOMAIN s PROVE ix[s[i]] < ix[s[at]] <=> i < at
      OBVIOUS
    <2>1. ix[s[i]] \in Nat /\ ix[s[at]] \in Nat
      BY <1>1
    <2>2. i < at \/ i = at \/ at < i
      BY <1>1, <1>2
    <2>3. (i < at => ix[s[i]] < ix[s[at]]) /\ (at < i => ix[s[at]] < ix[s[i]])
      OBVIOUS
    <2>4. CASE i < at
      BY <2>3, <2>4
    <2>5. CASE i = at
      BY <1>2, <2>1, <2>5
    <2>6. CASE at < i
      <3>1. ~(i < at) /\ ~(ix[s[i]] < ix[s[at]])
        BY <1>1, <1>2, <2>1, <2>3, <2>6
      <3> QED
        BY <3>1
    <2> QED
      BY <2>2, <2>4, <2>5, <2>6
  <1>4. below \in Seq(V) /\ DOMAIN below = 1..(at - 1) /\ \A i \in 1..(at - 1) : below[i] = s[i]
    <2>1. below \in Seq(V)
      BY <1>1, <1>2
    <2>2. below = [i \in 1..(at - 1) |-> s[i]]
      BY <1>1, <1>2
    <2> QED
      BY <2>1, <2>2
  <1>5. DOMAIN top = 1..(N - at + 1) /\ \A i \in 1..(N - at + 1) : top[i] = s[i + at - 1]
    <2>1. at \in 1..Len(s)
      BY <1>1
    <2> QED
      BY <2>1, RestOf
  <1>t. X!ToSet(top) = {top[i] : i \in DOMAIN top}
    BY DEF X!ToSet
  <1> HIDE DEF below, top
  <1>6. /\ \A i \in 1..(at - 1) : i \in DOMAIN s /\ i < at
        /\ \A i \in DOMAIN s : i < at => i \in 1..(at - 1)
    BY <1>1, <1>2
  <1>7. /\ \A i \in 1..(N - at + 1) : i + at - 1 \in DOMAIN s /\ ~(i + at - 1 < at)
        /\ \A i \in DOMAIN s : ~(i < at) => i - at + 1 \in 1..(N - at + 1) /\ (i - at + 1) + at - 1 = i
    <2>1. ASSUME NEW i \in 1..(N - at + 1) PROVE i + at - 1 \in DOMAIN s /\ ~(i + at - 1 < at)
      BY <1>1, <1>2
    <2>2. ASSUME NEW i \in DOMAIN s, ~(i < at) PROVE i - at + 1 \in 1..(N - at + 1) /\ (i - at + 1) + at - 1 = i
      <3>1. i \in Nat /\ i <= N /\ at <= i
        BY <1>1, <1>2, <2>2
      <3> QED
        <4>1. N \in Nat /\ at \in Nat
          BY <1>1, <1>2
        <4> HIDE DEF N
        <4> QED
          BY <3>1, <4>1
    <2> QED
      BY <2>1, <2>2
  <1>8. \A x : (\E i \in DOMAIN below : below[i] = x) <=> (\E i \in DOMAIN s : s[i] = x /\ ix[x] < ix[s[at]])
    <2> SUFFICES ASSUME NEW x
                 PROVE  (\E i \in DOMAIN below : below[i] = x) <=> (\E i \in DOMAIN s : s[i] = x /\ ix[x] < ix[s[at]])
      OBVIOUS
    <2>1. ASSUME NEW i \in DOMAIN below, below[i] = x PROVE \E j \in DOMAIN s : s[j] = x /\ ix[x] < ix[s[at]]
      <3>1. i \in 1..(at - 1) /\ s[i] = x
        BY <1>4, <2>1
      <3>2. i \in DOMAIN s /\ ix[s[i]] < ix[s[at]]
        BY <1>3, <1>6, <3>1
      <3> QED
        BY <3>1, <3>2
    <2>2. ASSUME NEW i \in DOMAIN s, s[i] = x, ix[x] < ix[s[at]] PROVE \E j \in DOMAIN below : below[j] = x
      <3>1. i \in 1..(at - 1)
        BY <1>3, <1>6, <2>2
      <3> QED
        BY <1>4, <2>2, <3>1
    <2> QED
      BY <2>1, <2>2
  <1>9. \A x : (\E i \in DOMAIN top : top[i] = x) <=> (\E i \in DOMAIN s : s[i] = x /\ ~(ix[x] < ix[s[at]]))
    <2> SUFFICES ASSUME NEW x
                 PROVE  (\E i \in DOMAIN top : top[i] = x) <=> (\E i \in DOMAIN s : s[i] = x /\ ~(ix[x] < ix[s[at]]))
      OBVIOUS
    <2>1. ASSUME NEW i \in DOMAIN top, top[i] = x PROVE \E j \in DOMAIN s : s[j] = x /\ ~(ix[x] < ix[s[at]])
      <3> DEFINE k == i + at - 1
      <3>1. k \in DOMAIN s /\ ~(k < at) /\ s[k] = x
        BY <1>5, <1>7, <2>1
      <3> HIDE DEF k
      <3> QED
        BY <1>3, <3>1
    <2>2. ASSUME NEW i \in DOMAIN s, s[i] = x, ~(ix[x] < ix[s[at]]) PROVE \E j \in DOMAIN top : top[j] = x
      <3> DEFINE k == i - at + 1
      <3>1. k \in 1..(N - at + 1) /\ k + at - 1 = i
        BY <1>3, <1>7, <2>2
      <3> HIDE DEF k
      <3>2. top[k] = s[i] /\ k \in DOMAIN top
        BY <1>5, <3>1
      <3> QED
        BY <2>2, <3>2
    <2> QED
      BY <2>1, <2>2
  <1>10. {below[i] : i \in DOMAIN below} = {w \in {s[i] : i \in DOMAIN s} : ix[w] < ix[s[at]]}
    <2> DEFINE C(x) == ix[x] < ix[s[at]]
    <2> HIDE DEF C
    <2>1. \A x : (\E i \in DOMAIN below : below[i] = x) <=> (\E i \in DOMAIN s : s[i] = x /\ C(x))
      BY <1>8 DEF C
    <2>2. {below[i] : i \in DOMAIN below} = {w \in {s[i] : i \in DOMAIN s} : C(w)}
      BY <2>1
    <2> QED
      BY <2>2 DEF C
  <1>11. {top[i] : i \in DOMAIN top} = {w \in {s[i] : i \in DOMAIN s} : ~(ix[w] < ix[s[at]])}
    <2> DEFINE C(x) == ix[x] < ix[s[at]]
    <2> HIDE DEF C
    <2>1. \A x : (\E i \in DOMAIN top : top[i] = x) <=> (\E i \in DOMAIN s : s[i] = x /\ ~C(x))
      BY <1>9 DEF C
    <2>2. {top[i] : i \in DOMAIN top} = {w \in {s[i] : i \in DOMAIN s} : ~C(w)}
      BY <2>1
    <2> QED
      BY <2>2 DEF C
  <1>12. \A i \in DOMAIN below : i \in DOMAIN s /\ below[i] = s[i]
    BY <1>4, <1>6
  <1> QED
    BY <1>4, <1>10, <1>11, <1>12, <1>t DEF below, top, IsCutAt

(* The stack is cut where v is on it: below are the vertices with a lower number. *)
IsCut(V, t, v, below, above, S2) ==
  /\ below \in Seq(V) /\ \A i \in DOMAIN below : i \in DOMAIN t.stack /\ below[i] = t.stack[i]
  /\ {below[i] : i \in DOMAIN below} = S2
  /\ above = Held(t) \ S2
  /\ S2 = {w \in Held(t) : t.index[w] < t.index[v]}

LEMMA StackIsCut ==
  ASSUME NEW V, NEW t, IsState(V, t), Numbered(t), NEW v \in Held(t),
         NEW at, at = CHOOSE i \in DOMAIN t.stack : t.stack[i] = v
  PROVE  IsCut(V, t, v, SubSeq(t.stack, 1, at - 1), X!ToSet(SubSeq(t.stack, at, Len(t.stack))),
               {w \in Held(t) : t.index[w] < t.index[v]})
  <1> DEFINE s == t.stack
             ix == t.index
             below == SubSeq(s, 1, at - 1)
             above == X!ToSet(SubSeq(s, at, Len(s)))
             S == {s[i] : i \in DOMAIN s}
             S2 == {w \in S : ix[w] < ix[v]}
  <1>1. s \in Seq(V) /\ ix \in [V -> Nat] /\ \A i, j \in DOMAIN s : i < j => ix[s[i]] < ix[s[j]]
    BY DEF IsState, Numbered
  <1>2. at \in DOMAIN s /\ s[at] = v
    <2>1. \E i \in DOMAIN s : s[i] = v
      BY DEF Held
    <2> QED
      BY <2>1
  <1>3. Held(t) = S /\ s = t.stack /\ ix = t.index
    BY DEF Held
  <1> HIDE DEF s, ix
  <1> HIDE DEF below, above
  <1>b. below = SubSeq(s, 1, at - 1) /\ above = X!ToSet(SubSeq(s, at, Len(s)))
    BY DEF below, above
  <1>4. IsCutAt(V, s, ix, at, below, above)
    <2>1. IsCutAt(V, s, ix, at, SubSeq(s, 1, at - 1), X!ToSet(SubSeq(s, at, Len(s))))
      BY <1>1, <1>2, GrowingIsCut
    <2> QED
      BY <1>b, <2>1
  <1>5. /\ below \in Seq(V) /\ \A i \in DOMAIN below : i \in DOMAIN s /\ below[i] = s[i]
        /\ {below[i] : i \in DOMAIN below} = S2 /\ above = {w \in S : ~(ix[w] < ix[v])}
    BY <1>2, <1>4 DEF IsCutAt
  <1> HIDE DEF S
  <1>6. above = S \ S2
    BY <1>5
  <1>7. IsCut(V, t, v, below, above, S2)
    BY <1>3, <1>5, <1>6 DEF IsCut
  <1> QED
    BY <1>3, <1>7, <1>b

(* The last open vertex v is closed: l is what the one before it is linked to then. *)
Closes(t, g, v, l, t2) ==
  /\ l \in Nat
  /\ g # 1 => /\ l <= t.low[t.work[g - 1].v] /\ l <= t.low[v] /\ (l = t.low[t.work[g - 1].v] \/ l = t.low[v])
  /\ t2.low = IF g = 1 THEN t.low ELSE [t.low EXCEPT ![t.work[g - 1].v] = l]
  /\ t2.index = t.index /\ t2.next = t.next /\ t2.work = X!Front(t.work)
  /\ IF t.low[v] # t.index[v] THEN t2.stack = t.stack /\ t2.components = t.components
     ELSE LET S2 == {w \in Held(t) : t.index[w] < t.index[v]}
          IN  /\ Held(t2) = S2 /\ \A i \in DOMAIN t2.stack : i \in DOMAIN t.stack /\ t2.stack[i] = t.stack[i]
              /\ t2.components = Append(t.components, Held(t) \ S2)

LEMMA ClosingIsDone ==
  ASSUME NEW V, NEW t, IsState(V, t), Numbered(t), NEW g \in Nat, Len(t.work) = g, g # 0,
         NEW v \in Held(t), v = t.work[g].v, NEW t2, t2 = X!Closed(t, v)
  PROVE  IsState(V, t2) /\ \E l : Closes(t, g, v, l, t2)
  <1> DEFINE at == CHOOSE i \in DOMAIN t.stack : t.stack[i] = v
             below == SubSeq(t.stack, 1, at - 1)
             above == X!ToSet(SubSeq(t.stack, at, Len(t.stack)))
             S2 == {w \in Held(t) : t.index[w] < t.index[v]}
             leaves == t.low[v] # t.index[v]
             popped == IF leaves THEN t ELSE [t EXCEPT !.components = Append(@, above), !.stack = SubSeq(@, 1, at - 1)]
             work == X!Front(t.work)
             u == t.work[g - 1].v
             l == IF g = 1 THEN 0 ELSE X!Min({t.low[u], t.low[v]})
             low2 == IF g = 1 THEN t.low ELSE [t.low EXCEPT ![u] = l]
             stack2 == IF leaves THEN t.stack ELSE below
             components2 == IF leaves THEN t.components ELSE Append(t.components, above)
             low3 == IF work = <<>> THEN t.low ELSE [t.low EXCEPT ![X!Last(work).v] = X!Min({@, t.low[v]})]
  <1>1. t2 = [popped EXCEPT !.work = work, !.low = low3]
    BY Zenon DEF X!Closed
  <1>2. /\ t.work \in Seq([v : V, at : Nat]) /\ t.work # <<>> /\ t.index \in [V -> Nat] /\ t.low \in [V -> Nat]
        /\ t.components \in Seq(SUBSET V) /\ t.stack \in Seq(V) /\ t.next \in Nat /\ v \in V /\ Held(t) \subseteq V
    <2>1. /\ t.work \in Seq([v : V, at : Nat]) /\ t.index \in [V -> Nat] /\ t.low \in [V -> Nat]
          /\ t.components \in Seq(SUBSET V) /\ t.stack \in Seq(V) /\ t.next \in Nat
      BY DEF IsState
    <2>2. Held(t) \subseteq V
      BY <2>1, PlacesOf DEF Held
    <2> QED
      BY <2>1, <2>2
  <1>3. /\ work \in Seq([v : V, at : Nat]) /\ Len(work) = g - 1 /\ g - 1 \in Nat
        /\ \A i \in 1..(g - 1) : work[i] = t.work[i] /\ t.work[i] \in [v : V, at : Nat]
    <2> DEFINE T == [v : V, at : Nat]
               all == t.work
    <2>1. all \in Seq(T) /\ all # <<>> /\ Len(all) = g
      BY <1>2
    <2> HIDE DEF T, all
    <2>2. /\ X!Front(all) \in Seq(T) /\ Len(all) - 1 \in Nat /\ Len(X!Front(all)) = Len(all) - 1
          /\ \A i \in 1..(Len(all) - 1) : X!Front(all)[i] = all[i] /\ i \in DOMAIN all
      BY <2>1, FrontOf
    <2>3. \A i \in DOMAIN all : all[i] \in T
      BY <2>1, PlacesOf
    <2> QED
      BY <2>1, <2>2, <2>3 DEF T, all
  <1> HIDE DEF work
  <1>4. (work = <<>> <=> g = 1) /\ (g # 1 => X!Last(work).v = u /\ u \in V)
    <2>1. work = <<>> <=> Len(work) = 0
      BY <1>3
    <2>2. ASSUME g # 1 PROVE X!Last(work).v = u /\ u \in V
      <3>1. g - 1 \in 1..(g - 1)
        BY <1>3, <2>2
      <3>2. X!Last(work) = work[g - 1]
        BY <1>3 DEF X!Last
      <3>3. work[g - 1] = t.work[g - 1] /\ t.work[g - 1] \in [v : V, at : Nat]
        BY <1>3, <3>1
      <3> QED
        BY <3>2, <3>3
    <2> QED
      BY <1>3, <2>1, <2>2
  <1>5. l \in Nat /\ (g # 1 => l <= t.low[u] /\ l <= t.low[v] /\ (l = t.low[u] \/ l = t.low[v]))
    <2>1. CASE g = 1
      BY <2>1
    <2>2. CASE g # 1
      <3> DEFINE T == {t.low[u], t.low[v]}
      <3>1. T # {} /\ \A x \in T : x \in Nat
        BY <1>2, <1>4, <2>2
      <3>2. t.low[u] \in T /\ t.low[v] \in T /\ \A x \in T : x = t.low[u] \/ x = t.low[v]
        OBVIOUS
      <3>3. l = X!Min(T)
        BY <2>2
      <3> HIDE DEF T, l
      <3>4. X!Min(T) \in T /\ X!Min(T) \in Nat /\ \A x \in T : X!Min(T) <= x
        BY <3>1, LeastOf
      <3> QED
        BY <2>2, <3>2, <3>3, <3>4
    <2> QED
      BY <2>1, <2>2
  <1>c. /\ below \in Seq(V) /\ \A i \in DOMAIN below : i \in DOMAIN t.stack /\ below[i] = t.stack[i]
        /\ {below[i] : i \in DOMAIN below} = S2
        /\ above = Held(t) \ S2
    <2>a. at = CHOOSE i \in DOMAIN t.stack : t.stack[i] = v
      OBVIOUS
    <2> HIDE DEF at
    <2>1. IsCut(V, t, v, below, above, S2)
      BY <2>a, StackIsCut
    <2> HIDE DEF below, above
    <2> QED
      BY <2>1 DEF IsCut
  <1>6. t2 = [index |-> t.index, low |-> low2, next |-> t.next, stack |-> stack2, work |-> work,
              components |-> components2]
    <2>1. popped = [index |-> t.index, low |-> t.low, next |-> t.next, stack |-> stack2, work |-> t.work,
                    components |-> components2]
      <3> HIDE DEF above
      <3>1. CASE leaves
        BY <3>1 DEF IsState
      <3>2. CASE ~leaves
        <4>1. popped = [t EXCEPT !.components = components2, !.stack = stack2]
          BY <3>2 DEF IsState
        <4> HIDE DEF components2, stack2, popped, leaves
        <4> QED
          BY <4>1 DEF IsState
      <3> QED
        BY <3>1, <3>2
    <2>2. low3 = low2
      BY <1>4
    <2> HIDE DEF popped, stack2, components2, low2, low3
    <2>3. t2 = [popped EXCEPT !.work = work, !.low = low2]
      BY <1>1, <2>2
    <2> QED
      BY <2>1, <2>3
  <1>7. low2 \in [V -> Nat]
    BY <1>2, <1>4, <1>5
  <1>8. stack2 \in Seq(V) /\ components2 \in Seq(SUBSET V)
    <2>1. above \in SUBSET V
      BY <1>2, <1>c
    <2> HIDE DEF above, below
    <2> QED
      BY <1>2, <1>c, <2>1
  <1> HIDE DEF low2, stack2, components2, low3
  <1>9. /\ t2.index = t.index /\ t2.low = low2 /\ t2.next = t.next /\ t2.stack = stack2 /\ t2.work = work
        /\ t2.components = components2 /\ IsState(V, t2)
    <2>1. /\ t2.index = t.index /\ t2.low = low2 /\ t2.next = t.next /\ t2.stack = stack2 /\ t2.work = work
          /\ t2.components = components2
      BY <1>6
    <2>2. t.index \in [V -> Nat] /\ t.next \in Nat /\ work \in Seq([v : V, at : Nat])
      BY <1>2, <1>3 DEF IsState
    <2> HIDE DEF work
    <2>3. IsState(V, t2)
      <3> DEFINE Works == Seq([v : V, at : Nat])
                 Stacks == Seq(V)
                 Parts == Seq(SUBSET V)
      <3>1. IsState(V, t2) <=> t2 \in [index : [V -> Nat], low : [V -> Nat], next : Nat, stack : Stacks,
                                       work : Works, components : Parts]
        BY DEF IsState
      <3>2. work \in Works /\ stack2 \in Stacks /\ components2 \in Parts
        BY <1>8, <2>2
      <3> HIDE DEF Works, Stacks, Parts
      <3> QED
        BY <1>6, <1>7, <2>2, <3>1, <3>2
    <2> QED
      BY <2>1, <2>3
  <1>10. t2.low = IF g = 1 THEN t.low ELSE [t.low EXCEPT ![t.work[g - 1].v] = l]
    BY <1>9 DEF low2
  <1> HIDE DEF l
  <1>11. IF leaves THEN t2.stack = t.stack /\ t2.components = t.components
         ELSE /\ Held(t2) = S2 /\ \A i \in DOMAIN t2.stack : i \in DOMAIN t.stack /\ t2.stack[i] = t.stack[i]
              /\ t2.components = Append(t.components, Held(t) \ S2)
    <2>1. CASE leaves
      BY <1>9, <2>1 DEF stack2, components2
    <2>2. CASE ~leaves
      <3>1. t2.stack = below /\ t2.components = Append(t.components, above)
        BY <1>9, <2>2 DEF stack2, components2
      <3>2. Held(t2) = {below[i] : i \in DOMAIN below}
        BY <3>1 DEF Held
      <3> HIDE DEF below, above, S2
      <3> QED
        BY <1>c, <2>2, <3>1, <3>2
    <2> QED
      BY <2>1, <2>2
  <1>12. Closes(t, g, v, l, t2)
    BY <1>5, <1>9, <1>10, <1>11 DEF Closes, work
  <1> QED
    BY <1>9, <1>12

(* What is known of the last open vertex. *)
IsKnown(V, r, ns, t, g, v) ==
  /\ g \in Nat /\ g \in 1..g /\ g - 1 \in Nat /\ v \in Held(t) /\ Held(t) \subseteq V
  /\ DOMAIN t.work = 1..g /\ Open(t, g)[g] = v /\ DOMAIN t.index = V
  /\ \A i \in 1..(g - 1) : /\ i \in 1..g /\ i < g /\ Open(t, g)[i] = t.work[i].v /\ t.work[i].v \in Held(t)
                           /\ t.index[t.work[i].v] < t.index[v] /\ t.work[i].v # v /\ t.work[i].at # 0
  /\ \A i \in 1..g : i = g \/ i \in 1..(g - 1)
  /\ \A w \in Held(t) : t.index[w] \in Nat /\ t.index[w] # 0 /\ t.low[w] \in Nat
  /\ \A i \in 1..g : t.low[t.work[i].v] <= t.index[t.work[i].v]
  /\ g # 1 => g - 1 \in 1..(g - 1) /\ <<t.work[g - 1].v, v>> \in r /\ ns[t.work[g - 1].v][t.work[g - 1].at] = v

LEMMA OpenIsKnown ==
  ASSUME NEW V, NEW r, NEW ns, IsRelationOf(V, r, ns), NEW t, NEW E, NEW g, IsSearchIn(V, r, ns, t, E, g), g # 0,
         Len(t.work) = g, NEW v, v = t.work[g].v
  PROVE  IsKnown(V, r, ns, t, g, v)
  <1> DEFINE vs == Open(t, g)
  <1>0. /\ IsState(V, t) /\ Typed(V, r, E, Held(t), t.index, t.low, vs, g) /\ InOrder(t.index, vs, g)
        /\ LinksReach(r, Held(t), t.index, t.low, vs, g)
        /\ Parted(t) /\ Waiting(ns, t, g) /\ IsSearch(V, r, E, Held(t), t.index, t.low, vs, g)
    BY DEF IsSearchIn, IsSearch
  <1>1. /\ t.work \in Seq([v : V, at : Nat]) /\ t.index \in [V -> Nat] /\ t.low \in [V -> Nat]
    BY <1>0 DEF IsState
  <1>2. DOMAIN t.work = 1..g /\ \A i \in 1..g : t.work[i] \in [v : V, at : Nat]
    BY <1>1, PlacesOf
  <1>3. \A i \in 1..g : vs[i] = t.work[i].v
    BY DEF Open
  <1> HIDE DEF vs
  <1>4. /\ g \in 1..g /\ g - 1 \in Nat /\ vs[g] \in Held(t) /\ g \in Nat
        /\ \A i \in 1..(g - 1) : i \in 1..g /\ i < g /\ vs[i] \in Held(t) /\ t.index[vs[i]] < t.index[vs[g]]
        /\ \A i \in 1..g : i = g \/ i \in 1..(g - 1)
        /\ \A x \in Held(t) : t.index[x] \in Nat /\ t.low[x] \in Nat /\ x \in V
    <2>1. g \in Nat
      BY <1>0 DEF Typed
    <2> QED
      BY <1>0, <2>1, ShorterSearch
  <1>5. \A i \in 1..(g - 1) : vs[i] # vs[g]
    BY <1>4
  <1>6. \A i \in 1..(g - 1) : t.work[i].at \in DOMAIN ns[t.work[i].v] /\ ns[t.work[i].v][t.work[i].at] = t.work[i + 1].v
    BY <1>0 DEF Waiting
  <1>7. \A i \in 1..(g - 1) : t.work[i].v \in V /\ t.work[i].at # 0
    <2> SUFFICES ASSUME NEW i \in 1..(g - 1) PROVE t.work[i].v \in V /\ t.work[i].at # 0
      OBVIOUS
    <2>1. t.work[i].v \in V
      BY <1>3, <1>4
    <2>2. ns[t.work[i].v] \in Seq(V)
      BY <2>1 DEF IsRelationOf
    <2>3. DOMAIN ns[t.work[i].v] = 1..Len(ns[t.work[i].v])
      BY <2>2, PlacesOf
    <2> QED
      BY <1>6, <2>1, <2>3
  <1>8. g # 1 => g - 1 \in 1..(g - 1) /\ <<t.work[g - 1].v, v>> \in r /\ ns[t.work[g - 1].v][t.work[g - 1].at] = v
    <2> SUFFICES ASSUME g # 1
                 PROVE  g - 1 \in 1..(g - 1) /\ <<t.work[g - 1].v, v>> \in r /\ ns[t.work[g - 1].v][t.work[g - 1].at] = v
      OBVIOUS
    <2>1. g - 1 \in 1..(g - 1) /\ (g - 1) + 1 = g
      BY <1>4
    <2> DEFINE u == t.work[g - 1].v
    <2>2. u \in V /\ t.work[g - 1].at \in DOMAIN ns[u] /\ ns[u][t.work[g - 1].at] = v
      BY <1>6, <1>7, <2>1
    <2> HIDE DEF u
    <2>3. <<u, v>> \in r
      BY <2>2 DEF IsRelationOf
    <2> QED
      BY <2>1, <2>2, <2>3 DEF u
  <1>9. \A w \in Held(t) : t.index[w] # 0
    BY <1>0, <1>1, <1>4 DEF Parted
  <1>10. \A i \in 1..g : t.low[t.work[i].v] <= t.index[t.work[i].v]
    BY <1>0, <1>3 DEF LinksReach
  <1> QED
    BY <1>1, <1>2, <1>3, <1>4, <1>5, <1>7, <1>8, <1>9, <1>10 DEF vs, IsKnown

(* All edges of v were looked at. *)
IsLookedOver(r, E, v) == \A e \in r : e[1] = v => e \in E

(* S2 is left on the stack, and the rest is one more component. *)
IsCutOff(t, v, S2, t2) ==
  /\ S2 = {w \in Held(t) : t.index[w] < t.index[v]}
  /\ t2.index = t.index /\ Held(t2) = S2 /\ t2.components = Append(t.components, Held(t) \ S2)

\* What is taken from the stack is one more component.
LEMMA TakenIsComponent ==
  ASSUME NEW V, NEW r, NEW ns, IsRelationOf(V, r, ns), NEW t, NEW E, NEW g, IsSearchIn(V, r, ns, t, E, g), g # 0,
         Len(t.work) = g, NEW v, v = t.work[g].v, IsLookedOver(r, E, v),
         NEW S2, IsTaken(r, E, Held(t), S2), NEW t2, IsCutOff(t, v, S2, t2)
  PROVE  AreComponents(r, t2.components) /\ Parted(t2)
  <1> DEFINE C == Held(t) \ S2
             cs == t2.components
  <1>c. /\ cs = Append(t.components, C) /\ t2.index = t.index /\ t2.components = cs /\ Held(t2) = S2
        /\ S2 = {w \in Held(t) : t.index[w] < t.index[v]} /\ C = Held(t) \ S2
        /\ (\A w, x \in C : Reaches(r, w, x))
        /\ (\A w \in C, x \in Held(t) : <<w, x>> \in E => x \in C)
        /\ \A e \in r : e[1] = v => e \in E
    BY DEF IsCutOff, IsTaken, IsLookedOver
  <1> HIDE DEF C, cs
  <1>0. /\ IsState(V, t) /\ Parted(t) /\ AreComponents(r, t.components) /\ LookedOver(r, ns, t, E, g)
    BY DEF IsSearchIn
  <1>1. /\ g \in Nat /\ v \in Held(t) /\ Held(t) \subseteq V /\ DOMAIN t.index = V
        /\ \A i \in 1..(g - 1) : t.work[i].v \in Held(t) /\ t.index[t.work[i].v] < t.index[v]
        /\ \A i \in 1..g : i = g \/ i \in 1..(g - 1)
        /\ \A w \in Held(t) : t.index[w] \in Nat /\ t.index[w] # 0
    <2>1. IsKnown(V, r, ns, t, g, v)
      BY OpenIsKnown
    <2> QED
      BY <2>1 DEF IsKnown
  <1> DEFINE old == t.components
             m == Len(old)
  <1>2. old \in Seq(SUBSET V) /\ C \in SUBSET V
    BY <1>0, <1>1, <1>c DEF IsState
  <1>3. DOMAIN old = 1..m /\ m \in Nat
    BY <1>2, PlacesOf
  <1>o. old = t.components
    OBVIOUS
  <1> HIDE DEF old
  <1>cs. cs = Append(t.components, C)
    BY <1>c
  <1>4. /\ DOMAIN cs = 1..(m + 1) /\ cs[m + 1] = C
        /\ \A i \in DOMAIN old : cs[i] = old[i] /\ i \in 1..(m + 1)
    BY <1>2, <1>o, <1>cs, PlacesOfAppended
  <1> HIDE DEF m
  <1>5. \A k \in DOMAIN cs : k = m + 1 \/ k \in DOMAIN old
    BY <1>3, <1>4
  <1>6. \A e \in r : e[1] \in C => e[2] \in C \/ \E l \in DOMAIN old : e[2] \in old[l]
    <2> SUFFICES ASSUME NEW e \in r, e[1] \in C PROVE e[2] \in C \/ \E l \in DOMAIN old : e[2] \in old[l]
      OBVIOUS
    <2>1. e = <<e[1], e[2]>> /\ e[1] \in V /\ e[2] \in V
      BY DEF IsRelationOf
    <2>2. e[1] \in Held(t) /\ ~(t.index[e[1]] < t.index[v])
      BY <1>c
    <2>3. e \in E
      <3>1. \A i \in 1..(g - 1) : t.work[i].v # e[1]
        BY <1>1, <2>2
      <3>2. CASE e[1] = v
        BY <1>c, <3>2
      <3>3. CASE e[1] # v
        <4>1. \A i \in 1..g : t.work[i].v # e[1]
          BY <1>1, <3>1, <3>3
        <4> QED
          BY <1>0, <1>1, <2>2, <4>1 DEF LookedOver
      <3> QED
        BY <3>2, <3>3
    <2>4. t.index[e[2]] # 0
      BY <1>0, <2>3 DEF LookedOver
    <2>5. e[2] \in Held(t) \/ \E l \in DOMAIN old : e[2] \in old[l]
      BY <1>0, <1>1, <1>o, <2>1, <2>4 DEF Parted
    <2>6. e[2] \in Held(t) => e[2] \in C
      BY <1>c, <2>1, <2>2, <2>3
    <2> QED
      BY <2>5, <2>6
  <1>7. AreComponents(r, cs)
    <2>1. \A k \in DOMAIN cs : \A e \in r : e[1] \in cs[k] => \E l \in 1..k : e[2] \in cs[l]
      <3> SUFFICES ASSUME NEW k \in DOMAIN cs, NEW e \in r, e[1] \in cs[k] PROVE \E l \in 1..k : e[2] \in cs[l]
        OBVIOUS
      <3>1. CASE k = m + 1
        <4>1. CASE e[2] \in C
          BY <1>3, <1>4, <3>1, <4>1
        <4>2. CASE \E l \in DOMAIN old : e[2] \in old[l]
          BY <1>4, <3>1, <4>2
        <4> QED
          BY <1>4, <1>6, <3>1, <4>1, <4>2
      <3>2. CASE k \in DOMAIN old
        <4>1. PICK l \in 1..k : e[2] \in old[l]
          BY <1>0, <1>4, <1>o, <3>2 DEF AreComponents
        <4>2. l \in DOMAIN old
          BY <1>3, <3>2, <4>1
        <4> QED
          BY <1>4, <4>1, <4>2
      <3> QED
        BY <1>5, <3>1, <3>2
    <2>2. \A k \in DOMAIN cs : \A x, y \in cs[k] : Reaches(r, x, y)
      BY <1>0, <1>c, <1>4, <1>5, <1>o DEF AreComponents
    <2> QED
      BY <2>1, <2>2 DEF AreComponents
  <1>8. \A k \in DOMAIN old : old[k] \cap Held(t) = {}
    BY <1>0, <1>o DEF Parted
  <1>9. \A k, l \in DOMAIN old : k # l => old[k] \cap old[l] = {}
    BY <1>0, <1>o DEF Parted
  <1>10. S2 \subseteq Held(t) /\ C \subseteq Held(t) /\ C \cap S2 = {} /\ Held(t) = C \cup S2
    BY <1>c
  <1>11. Parted(t2)
    <2>1. \A w \in V : (\E k \in DOMAIN cs : w \in cs[k]) <=> (w \in C \/ \E k \in DOMAIN old : w \in old[k])
      <3>1. m + 1 \in DOMAIN cs
        BY <1>3, <1>4
      <3> QED
        BY <1>4, <1>5, <3>1
    <2>2. \A w \in V : t.index[w] # 0 <=> w \in Held(t) \/ \E k \in DOMAIN old : w \in old[k]
      BY <1>0, <1>1, <1>o DEF Parted
    <2>3. \A w \in V : t.index[w] # 0 <=> w \in S2 \/ \E k \in DOMAIN cs : w \in cs[k]
      BY <1>10, <2>1, <2>2
    <2>4. \A k \in DOMAIN cs : cs[k] \cap S2 = {}
      BY <1>4, <1>5, <1>8, <1>10
    <2>5. \A k, l \in DOMAIN cs : k # l => cs[k] \cap cs[l] = {}
      BY <1>4, <1>5, <1>8, <1>9, <1>10
    <2> QED
      BY <1>1, <1>c, <2>3, <2>4, <2>5 DEF Parted
  <1> QED
    BY <1>7, <1>11, <1>c

\* The last open vertex is closed: it belongs to the search of the one that waits for it, or to a component.
LEMMA ClosedIsSearch ==
  ASSUME NEW V, NEW r, NEW ns, IsRelationOf(V, r, ns), NEW t, NEW E, NEW g, IsSearchIn(V, r, ns, t, E, g), g # 0,
         Len(t.work) = g, NEW v, v = t.work[g].v, \A e \in r : e[1] = v => e \in E,
         NEW t2, t2 = X!Closed(t, v)
  PROVE  \E E2 : /\ IsSearchIn(V, r, ns, t2, E2, g - 1)
                 /\ Len(t2.work) = g - 1 /\ (g - 1 # 0 => t2.work[g - 1].at # 0)
                 /\ TakenUp(t2) = TakenUp(t) /\ Ended(t2) = Ended(t) \cup {v} /\ v \in V /\ v \notin Ended(t)
  <1> DEFINE u == t.work[g - 1].v
             More == IF g = 1 THEN {} ELSE {<<u, v>>}
             E2 == E \cup More
             S2 == {w \in Held(t) : t.index[w] < t.index[v]}
             vs == Open(t, g)
             vs2 == WithoutLast(vs, g)
             leaves == t.low[v] # t.index[v]
  <1>0. /\ IsState(V, t) /\ IsSearch(V, r, E, Held(t), t.index, t.low, vs, g)
        /\ Numbered(t) /\ Parted(t) /\ Waiting(ns, t, g) /\ LookedOver(r, ns, t, E, g) /\ AreComponents(r, t.components)
    BY DEF IsSearchIn
  <1>k. IsKnown(V, r, ns, t, g, v)
    BY OpenIsKnown
  <1>1. /\ g \in Nat /\ g \in 1..g /\ g - 1 \in Nat /\ v \in Held(t) /\ Held(t) \subseteq V
        /\ DOMAIN t.work = 1..g /\ vs[g] = v /\ DOMAIN t.index = V
        /\ \A i \in 1..(g - 1) : /\ i \in 1..g /\ i < g /\ vs[i] = t.work[i].v /\ t.work[i].v \in Held(t)
                                 /\ t.index[t.work[i].v] < t.index[v] /\ t.work[i].v # v /\ t.work[i].at # 0
        /\ \A i \in 1..g : i = g \/ i \in 1..(g - 1)
        /\ \A w \in Held(t) : t.index[w] \in Nat /\ t.index[w] # 0 /\ t.low[w] \in Nat
        /\ \A i \in 1..g : t.low[t.work[i].v] <= t.index[t.work[i].v]
        /\ g # 1 => g - 1 \in 1..(g - 1) /\ <<u, v>> \in r /\ ns[u][t.work[g - 1].at] = v
    BY <1>k DEF IsKnown
  <1>2. IsState(V, t2) /\ \E l : Closes(t, g, v, l, t2)
    BY <1>0, <1>1, ClosingIsDone
  <1>3. PICK l : Closes(t, g, v, l, t2)
    BY <1>2
  <1> HIDE DEF vs
  <1>4. /\ l \in Nat
        /\ g # 1 => l <= t.low[u] /\ l <= t.low[v] /\ (l = t.low[u] \/ l = t.low[v])
        /\ t2.low = IF g = 1 THEN t.low ELSE [t.low EXCEPT ![u] = l]
        /\ t2.index = t.index /\ t2.next = t.next /\ t2.work = X!Front(t.work)
        /\ leaves => t2.stack = t.stack /\ t2.components = t.components
        /\ ~leaves => /\ Held(t2) = S2 /\ \A i \in DOMAIN t2.stack : i \in DOMAIN t.stack /\ t2.stack[i] = t.stack[i]
                      /\ t2.components = Append(t.components, Held(t) \ S2)
    BY <1>3 DEF Closes
  <1>5. /\ Len(t2.work) = g - 1 /\ DOMAIN t2.work = 1..(g - 1)
        /\ \A i \in 1..(g - 1) : t2.work[i] = t.work[i]
    <2> DEFINE T == [v : V, at : Nat]
               all == t.work
    <2>1. all \in Seq(T) /\ all # <<>> /\ Len(all) = g
      <3>1. all \in Seq(T)
        BY <1>0 DEF IsState
      <3> HIDE DEF T
      <3> QED
        BY <3>1
    <2> HIDE DEF T, all
    <2>2. /\ X!Front(all) \in Seq(T) /\ Len(X!Front(all)) = Len(all) - 1
          /\ \A i \in 1..(Len(all) - 1) : X!Front(all)[i] = all[i]
      BY <2>1, FrontOf
    <2>3. DOMAIN X!Front(all) = 1..(g - 1)
      BY <2>1, <2>2, PlacesOf
    <2> QED
      <3>1. t2.work = X!Front(all)
        BY <1>4 DEF all
      <3>2. Len(X!Front(all)) = g - 1 /\ \A i \in 1..(g - 1) : X!Front(all)[i] = all[i]
        BY <2>1, <2>2
      <3> QED
        BY <2>3, <3>1, <3>2 DEF all
  <1>6. Open(t2, g - 1) = vs2
    <2>1. \A i \in 1..(g - 1) : t2.work[i].v = vs[i]
      BY <1>1, <1>5
    <2> QED
      BY <2>1 DEF Open, WithoutLast
  <1>7. /\ More \subseteq r /\ E2 \subseteq r
        /\ \A e \in More : g # 1 /\ e = <<vs[g - 1], vs[g]>> /\ e[2] = vs[g] /\ e[1] = u
        /\ g # 1 => <<vs[g - 1], vs[g]>> \in r /\ vs[g - 1] = u
    <2>1. E \subseteq r
      BY <1>0 DEF IsSearch, Typed
    <2>2. CASE g = 1
      BY <2>1, <2>2
    <2>3. CASE g # 1
      <3>1. vs[g - 1] = u /\ <<u, v>> \in r
        BY <1>1, <2>3
      <3> QED
        <4>1. vs[g] = v
          BY <1>1
        <4>2. More = {<<u, v>>} /\ <<u, v>>[1] = u /\ <<u, v>>[2] = v
          BY <2>3
        <4> QED
          BY <2>1, <2>3, <3>1, <4>1, <4>2
    <2> QED
      BY <2>2, <2>3
  <1>d. More \subseteq E2 /\ E \subseteq E2 /\ \A e \in E2 : e \in E \/ e \in More
    OBVIOUS
  <1>e. g # 1 => <<u, v>> \in More
    OBVIOUS
  <1>s. S2 = {w \in Held(t) : t.index[w] < t.index[v]}
    OBVIOUS
  <1> HIDE DEF More, E2, S2, u, leaves, vs2
  <1>8. /\ IsSearch(V, r, E2, Held(t2), t2.index, t2.low, Open(t2, g - 1), g - 1)
        /\ Parted(t2) /\ AreComponents(r, t2.components) /\ Numbered(t2)
    <2>1. CASE leaves
      <3>1. IsLinked(t.low, vs[g - 1], l, t2.low) \/ g = 1
        BY <1>4, <1>7 DEF IsLinked
      <3> DEFINE low3 == [t.low EXCEPT ![vs[g - 1]] = l]
      <3>2. IsLinked(t.low, vs[g - 1], l, low3)
        BY DEF IsLinked
      <3> HIDE DEF low3
      <3>3. t.low[vs[g]] # t.index[vs[g]]
        BY <1>1, <2>1 DEF leaves
      <3>4. g # 1 => l <= t.low[vs[g - 1]] /\ l <= t.low[vs[g]] /\ (l = t.low[vs[g - 1]] \/ l = t.low[vs[g]])
        BY <1>1, <1>4, <1>7
      <3>5. g # 1 /\ IsSearch(V, r, E \cup More, Held(t), t.index, low3, WithoutLast(vs, g), g - 1)
        <4>1. More \subseteq r /\ (\A e \in More : g # 1 /\ e = <<vs[g - 1], vs[g]>>) /\ (g # 1 => <<vs[g - 1], vs[g]>> \in r)
          BY <1>7
        <4>2. IsSearch(V, r, E, Held(t), t.index, t.low, vs, g) /\ l \in Nat
          BY <1>0, <1>4
        <4> QED
          BY <3>2, <3>3, <3>4, <4>1, <4>2, LeavingKeeps
      <3>6. t2.low = low3
        BY <1>4, <1>7, <3>5 DEF low3
      <3>7. Held(t2) = Held(t)
        <4>1. t2.stack = t.stack
          BY <1>4, <2>1
        <4> QED
          BY <4>1 DEF Held
      <3>8. IsSearch(V, r, E2, Held(t2), t2.index, t2.low, Open(t2, g - 1), g - 1)
        BY <1>4, <1>6, <3>5, <3>6, <3>7 DEF E2, vs2
      <3>9. Parted(t2)
        <4>1. t2.index = t.index /\ t2.components = t.components
          BY <1>4, <2>1
        <4> QED
          BY <1>0, <3>7, <4>1 DEF Parted
      <3>10. Numbered(t2)
        <4>1. t2.index = t.index /\ t2.next = t.next /\ t2.stack = t.stack
          BY <1>4, <2>1
        <4> QED
          BY <1>0, <4>1 DEF Numbered
      <3> QED
        BY <1>0, <1>4, <2>1, <3>8, <3>9, <3>10
    <2>2. CASE ~leaves
      <3>1. t.low[vs[g]] = t.index[vs[g]] /\ IsBelow(S2, Held(t), t.index, vs[g])
        BY <1>1, <1>s, <2>2 DEF leaves, IsBelow
      <3>2. /\ IsSearch(V, r, E \cup More, S2, t.index, t.low, WithoutLast(vs, g), g - 1)
            /\ IsTaken(r, E, Held(t), S2)
        <4>1. More \subseteq r /\ \A e \in More : e[2] = vs[g]
          BY <1>7
        <4>2. IsSearch(V, r, E, Held(t), t.index, t.low, vs, g)
          BY <1>0
        <4> QED
          BY <3>1, <4>1, <4>2, TakingKeeps
      <3>3. t2.low = t.low
        <4>1. CASE g = 1
          BY <1>4, <4>1
        <4>2. CASE g # 1
          <5>1. t.low[u] \in Nat /\ t.index[u] \in Nat /\ t.index[v] \in Nat /\ t.low[u] <= t.index[u] /\ t.index[u] < t.index[v]
            BY <1>1, <4>2 DEF u
          <5>2. t.low[v] = t.index[v]
            BY <1>1, <3>1
          <5>3. l = t.low[u]
            <6>1. l \in Nat /\ l <= t.low[u] /\ (l = t.low[u] \/ l = t.low[v])
              BY <1>4, <4>2
            <6> QED
              BY <5>1, <5>2, <6>1
          <5>4. t.low \in [V -> Nat]
            BY <1>0 DEF IsState
          <5> QED
            BY <1>4, <4>2, <5>3, <5>4
        <4> QED
          BY <4>1, <4>2
      <3>4. IsSearch(V, r, E2, Held(t2), t2.index, t2.low, Open(t2, g - 1), g - 1)
        BY <1>4, <1>6, <2>2, <3>2, <3>3 DEF E2, vs2
      <3>6. IsCutOff(t, v, S2, t2)
        BY <1>4, <1>s, <2>2 DEF IsCutOff
      <3>7. AreComponents(r, t2.components) /\ Parted(t2)
        <4>1. IsLookedOver(r, E, v)
          BY DEF IsLookedOver
        <4> QED
          BY <3>2, <3>6, <4>1, TakenIsComponent
      <3>8. Numbered(t2)
        <4>1. t2.index = t.index /\ t2.next = t.next /\ \A i \in DOMAIN t2.stack : i \in DOMAIN t.stack /\ t2.stack[i] = t.stack[i]
          BY <1>4, <2>2
        <4>2. t.next # 0 /\ (\A w \in DOMAIN t.index : t.index[w] < t.next)
              /\ \A i, j \in DOMAIN t.stack : i < j => t.index[t.stack[i]] < t.index[t.stack[j]]
          BY <1>0 DEF Numbered
        <4>3. \A i, j \in DOMAIN t2.stack : i < j => t2.index[t2.stack[i]] < t2.index[t2.stack[j]]
          BY <4>1, <4>2
        <4> QED
          BY <4>1, <4>2, <4>3 DEF Numbered
      <3> QED
        BY <3>4, <3>7, <3>8
    <2> QED
      BY <2>1, <2>2
  <1>9. Waiting(ns, t2, g - 1)
    <2>1. ~(Len(t2.work) = (g - 1) + 1)
      BY <1>1, <1>5
    <2>2. \A i \in 1..(Len(t2.work) - 1) :
            i \in 1..(Len(t.work) - 1) /\ t2.work[i] = t.work[i] /\ t2.work[i + 1] = t.work[i + 1]
      BY <1>1, <1>5
    <2>3. Len(t2.work) \in {g - 1, (g - 1) + 1}
      BY <1>5
    <2>4. \A i \in 1..(Len(t.work) - 1) : /\ t.work[i].at \in DOMAIN ns[t.work[i].v]
                                          /\ ns[t.work[i].v][t.work[i].at] = t.work[i + 1].v
      BY <1>0 DEF Waiting
    <2>5. \A i \in 1..(Len(t2.work) - 1) : /\ t2.work[i].at \in DOMAIN ns[t2.work[i].v]
                                           /\ ns[t2.work[i].v][t2.work[i].at] = t2.work[i + 1].v
      <3> SUFFICES ASSUME NEW i \in 1..(Len(t2.work) - 1)
                   PROVE  t2.work[i].at \in DOMAIN ns[t2.work[i].v] /\ ns[t2.work[i].v][t2.work[i].at] = t2.work[i + 1].v
        OBVIOUS
      <3>1. i \in 1..(Len(t.work) - 1) /\ t2.work[i] = t.work[i] /\ t2.work[i + 1] = t.work[i + 1]
        BY <2>2
      <3> QED
        BY <2>4, <3>1
    <2> QED
      BY <2>1, <2>3, <2>5 DEF Waiting
  <1>10. LookedOver(r, ns, t2, E2, g - 1)
    <2>1. \A e \in E2 : t2.index[e[1]] # 0 /\ t2.index[e[2]] # 0
      <3>1. \A e \in E : t.index[e[1]] # 0 /\ t.index[e[2]] # 0
        BY <1>0 DEF LookedOver
      <3>2. \A e \in More : e[1] \in Held(t) /\ e[2] \in Held(t)
        BY <1>1, <1>7 DEF u
      <3> QED
        BY <1>1, <1>4, <1>d, <3>1, <3>2
    <2>2. ASSUME NEW e \in r, t2.index[e[1]] # 0, \A i \in 1..(g - 1) : t2.work[i].v # e[1] PROVE e \in E2
      <3>1. CASE e[1] = v
        BY <1>d, <3>1
      <3>2. CASE e[1] # v
        <4>1. \A i \in 1..g : t.work[i].v # e[1]
          BY <1>1, <1>5, <2>2, <3>2
        <4> QED
          <5>1. t.index[e[1]] # 0
            BY <1>4, <2>2
          <5>2. e \in E
            BY <1>0, <4>1, <5>1 DEF LookedOver
          <5> QED
            BY <1>d, <5>2
      <3> QED
        BY <3>1, <3>2
    <2>3. ASSUME NEW i \in 1..(g - 1), NEW j \in DOMAIN ns[t2.work[i].v],
                 j < t2.work[i].at \/ (j = t2.work[i].at /\ i = Len(t2.work))
          PROVE  <<t2.work[i].v, ns[t2.work[i].v][j]>> \in E2
      <3>1. t2.work[i] = t.work[i] /\ i \in 1..g
        BY <1>1, <1>5
      <3>2. CASE j < t.work[i].at
        BY <1>0, <1>d, <3>1, <3>2 DEF LookedOver
      <3>3. CASE j = t.work[i].at /\ i = g - 1
        <4>0. g \in Nat /\ i \in 1..(g - 1)
          BY <1>1, <2>3
        <4>1. g # 1
          BY <4>0
        <4> QED
          BY <1>1, <1>d, <1>e, <3>1, <3>3, <4>1 DEF u
      <3> QED
        BY <1>5, <2>3, <3>1, <3>2, <3>3
    <2> QED
      BY <2>1, <2>2, <2>3 DEF LookedOver
  <1>11. IsSearchIn(V, r, ns, t2, E2, g - 1)
    BY <1>2, <1>8, <1>9, <1>10 DEF IsSearchIn
  <1>12. TakenUp(t2) = TakenUp(t)
    <2>1. \A i \in DOMAIN t.work : (i \in DOMAIN t2.work /\ t2.work[i] = t.work[i]) \/ t.work[i].v = v
      BY <1>1, <1>5
    <2>2. \A i \in DOMAIN t2.work : i \in DOMAIN t.work /\ t2.work[i] = t.work[i]
      BY <1>1, <1>5
    <2>3. t.index[v] # 0
      BY <1>1
    <2> QED
      <3>1. t2.index = t.index
        BY <1>4
      <3>2. \A w \in DOMAIN t.index : (t.index[w] # 0 \/ \E i \in DOMAIN t2.work : t2.work[i].v = w)
                                       <=> (t.index[w] # 0 \/ \E i \in DOMAIN t.work : t.work[i].v = w)
        BY <2>1, <2>2, <2>3
      <3> QED
        BY <3>1, <3>2 DEF TakenUp
  <1>13. Ended(t2) = Ended(t) \cup {v} /\ v \in V /\ v \notin Ended(t)
    <2>1. \A i \in DOMAIN t.work : (i \in DOMAIN t2.work /\ t2.work[i] = t.work[i]) \/ t.work[i].v = v
      BY <1>1, <1>5
    <2>2. \A i \in DOMAIN t2.work : i \in DOMAIN t.work /\ t2.work[i] = t.work[i] /\ t.work[i].v # v
      BY <1>1, <1>5
    <2>3. t.index[v] # 0 /\ v \in V /\ v \in DOMAIN t.index /\ g \in DOMAIN t.work /\ t.work[g].v = v
      BY <1>1
    <2>4. Ended(t2) = {w \in DOMAIN t.index : t.index[w] # 0 /\ \A i \in DOMAIN t2.work : t2.work[i].v # w}
      BY <1>4 DEF Ended
    <2>5. Ended(t) = {w \in DOMAIN t.index : t.index[w] # 0 /\ \A i \in DOMAIN t.work : t.work[i].v # w}
      BY DEF Ended
    <2> QED
      <3>1. \A w \in DOMAIN t.index : w # v =>
              ((\A i \in DOMAIN t2.work : t2.work[i].v # w) <=> \A i \in DOMAIN t.work : t.work[i].v # w)
        BY <2>1, <2>2
      <3>2. \A i \in DOMAIN t2.work : t2.work[i].v # v
        BY <2>2
      <3>3. Ended(t2) = Ended(t) \cup {v}
        <4>1. \A w \in DOMAIN t.index : w \in Ended(t2) <=> w \in Ended(t) \/ w = v
          BY <2>3, <2>4, <2>5, <3>1, <3>2
        <4>2. Ended(t2) \subseteq DOMAIN t.index /\ Ended(t) \subseteq DOMAIN t.index
          BY <2>4, <2>5
        <4> QED
          BY <2>3, <4>1, <4>2
      <3>4. v \notin Ended(t)
        BY <2>3, <2>5
      <3> QED
        BY <2>3, <3>3, <3>4
  <1>14. g - 1 # 0 => t2.work[g - 1].at # 0
    <2> SUFFICES ASSUME g - 1 # 0 PROVE t2.work[g - 1].at # 0
      OBVIOUS
    <2>1. g \in Nat /\ g - 1 \in Nat
      BY <1>1
    <2>2. g - 1 \in 1..(g - 1)
      BY <2>1
    <2> QED
      BY <1>1, <1>5, <2>2
  <1> QED
    BY <1>5, <1>11, <1>12, <1>13, <1>14

-----------------------------------------------------------------------------
(* A vertex waits or is begun with. *)
AtRest(t, g) == (Len(t.work) = g /\ g # 0) => t.work[g].at # 0

(* One more vertex was taken up, or was closed. *)
OneMore(V, t, t2) ==
  \E x \in V : \/ TakenUp(t2) = TakenUp(t) \cup {x} /\ x \notin TakenUp(t) /\ Ended(t2) = Ended(t)
               \/ TakenUp(t2) = TakenUp(t) /\ Ended(t2) = Ended(t) \cup {x} /\ x \notin Ended(t)

(* The search goes on. *)
IsSearching(V, r, ns, t) == \E E, g : IsSearchIn(V, r, ns, t, E, g) /\ AtRest(t, g)

\* The last vertex of the work is opened, or gone on with.
LEMMA TopIsOpen ==
  ASSUME NEW V, NEW r, NEW ns, IsRelationOf(V, r, ns), NEW t, t.work # <<>>, IsSearching(V, r, ns, t),
         NEW v, v = X!Last(t.work).v,
         NEW o, o = IF X!Last(t.work).at = 0 THEN X!Opened(t, v) ELSE t
  PROVE  \E E, g : /\ IsSearchIn(V, r, ns, o, E, g) /\ g # 0 /\ Len(o.work) = g /\ v = o.work[g].v /\ v \in V
                   /\ X!Last(t.work).at = o.work[g].at /\ o.work[g].at \in Nat
                   /\ TakenUp(o) = TakenUp(t) /\ Ended(o) = Ended(t)
  <1>1. PICK E, g : IsSearchIn(V, r, ns, t, E, g) /\ AtRest(t, g)
    BY DEF IsSearching
  <1> DEFINE h == Len(t.work)
  <1>2. /\ IsState(V, t) /\ Waiting(ns, t, g) /\ Typed(V, r, E, Held(t), t.index, t.low, Open(t, g), g)
    BY <1>1 DEF IsSearchIn, IsSearch
  <1>3. g \in Nat /\ h \in {g, g + 1} /\ (h = g + 1 => t.work[g + 1].at = 0)
    BY <1>2 DEF Waiting, Typed
  <1>4. h # 0 /\ X!Last(t.work) = t.work[h] /\ t.work[h] \in [v : V, at : Nat]
    <2> DEFINE T == [v : V, at : Nat]
               all == t.work
    <2>1. all \in Seq(T)
      BY <1>2 DEF IsState
    <2> HIDE DEF T
    <2>2. all # <<>>
      OBVIOUS
    <2> HIDE DEF all
    <2>3. Len(all) - 1 \in Nat /\ X!Last(all) = all[Len(all)] /\ Len(all) \in DOMAIN all
      BY <2>1, <2>2, FrontOf
    <2>5. Len(all) # 0
      BY <2>1, <2>2
    <2>4. all[Len(all)] \in T
      BY <2>1, <2>3, PlacesOf
    <2> QED
      BY <2>3, <2>4, <2>5 DEF all, T
  <1>5. v = t.work[h].v /\ v \in V /\ t.work[h].at \in Nat
    BY <1>4
  <1> HIDE DEF h
  <1>h. h = Len(t.work)
    BY DEF h
  <1>6. CASE t.work[h].at = 0
    <2>1. h = g + 1
      BY <1>1, <1>3, <1>4, <1>6, <1>h DEF AtRest
    <2>2. o = X!Opened(t, v) /\ Len(t.work) = g + 1 /\ v = t.work[g + 1].v
      BY <1>4, <1>5, <1>6, <1>h, <2>1
    <2>3. /\ IsSearchIn(V, r, ns, o, E, g + 1)
          /\ o.work = t.work /\ TakenUp(o) = TakenUp(t) /\ Ended(o) = Ended(t)
      BY <1>1, <2>2, OpenedIsSearch
    <2> QED
      BY <1>3, <1>4, <1>5, <1>h, <2>1, <2>3
  <1>7. CASE t.work[h].at # 0
    <2>1. h = g /\ o = t
      BY <1>3, <1>4, <1>7
    <2> QED
      BY <1>1, <1>4, <1>5, <1>h, <2>1
  <1> QED
    BY <1>6, <1>7

LEMMA AdvancedIsSearch ==
  ASSUME NEW V, NEW r, NEW ns, IsRelationOf(V, r, ns), NEW t, t.work # <<>>, IsSearching(V, r, ns, t),
         NEW t2, t2 = X!Advanced(t, ns)
  PROVE  IsSearching(V, r, ns, t2) /\ OneMore(V, t, t2)
  <1> DEFINE v == X!Last(t.work).v
             o == IF X!Last(t.work).at = 0 THEN X!Opened(t, v) ELSE t
             at == X!Last(t.work).at + 1
             looked == X!LookedAt(o, v, ns[v], at)
             t1 == looked.t
  <1>1. t2 = IF looked.waits THEN looked.t ELSE X!Closed(looked.t, v)
    BY Zenon DEF X!Advanced
  <1>2. PICK E, g : /\ IsSearchIn(V, r, ns, o, E, g) /\ g # 0 /\ Len(o.work) = g /\ v = o.work[g].v /\ v \in V
                    /\ X!Last(t.work).at = o.work[g].at /\ o.work[g].at \in Nat
                    /\ TakenUp(o) = TakenUp(t) /\ Ended(o) = Ended(t)
    BY TopIsOpen
  <1>3. at \in Nat /\ at # 0 /\ at = o.work[g].at + 1 /\ IsState(V, o) /\ ns[v] \in Seq(V)
    <2>1. at \in Nat /\ at # 0 /\ at = o.work[g].at + 1
      BY <1>2
    <2>2. IsState(V, o)
      BY <1>2 DEF IsSearchIn
    <2>3. ns[v] \in Seq(V)
      BY <1>2 DEF IsRelationOf
    <2> QED
      BY <2>1, <2>2, <2>3
  <1>l. looked = X!LookedAt(o, v, ns[v], at) /\ t1 = looked.t
    OBVIOUS
  <1> HIDE DEF v, o, at, looked, t1
  <1>4. PICK stop, l : Looks(o, v, ns[v], at, looked, stop, l)
    BY <1>2, <1>3, <1>l, LookingIsDone
  <1>5. PICK E2 : /\ IsSearchIn(V, r, ns, t1, E2, g)
                  /\ looked.waits => /\ Len(t1.work) = g + 1
                                     /\ \E x \in V : /\ TakenUp(t1) = TakenUp(o) \cup {x} /\ x \notin TakenUp(o)
                                                     /\ Ended(t1) = Ended(o)
                  /\ ~looked.waits => /\ t1.work = o.work /\ TakenUp(t1) = TakenUp(o) /\ Ended(t1) = Ended(o)
                                      /\ \A e \in r : e[1] = v => e \in E2
    <2>1. HasLooked(V, r, ns, o, g, v, looked.waits, t1)
      BY <1>2, <1>3, <1>4, <1>l, LookedIsSearch
    <2> QED
      BY <2>1 DEF HasLooked
  <1>6. CASE looked.waits
    <2>1. t2 = t1
      BY <1>1, <1>6, <1>l
    <2>2. g \in Nat
      BY <1>2 DEF IsSearchIn, IsSearch, Typed
    <2>3. AtRest(t1, g)
      BY <1>5, <1>6, <2>2 DEF AtRest
    <2> QED
      BY <1>2, <1>5, <1>6, <2>1, <2>3 DEF IsSearching, OneMore
  <1>7. CASE ~looked.waits
    <2>1. t2 = X!Closed(t1, v)
      BY <1>1, <1>7, <1>l
    <2>2. Len(t1.work) = g /\ v = t1.work[g].v /\ \A e \in r : e[1] = v => e \in E2
      BY <1>2, <1>5, <1>7
    <2>3. PICK E3 : /\ IsSearchIn(V, r, ns, t2, E3, g - 1)
                    /\ Len(t2.work) = g - 1 /\ (g - 1 # 0 => t2.work[g - 1].at # 0)
                    /\ TakenUp(t2) = TakenUp(t1) /\ Ended(t2) = Ended(t1) \cup {v} /\ v \in V /\ v \notin Ended(t1)
      BY <1>2, <1>5, <2>1, <2>2, ClosedIsSearch
    <2>4. AtRest(t2, g - 1)
      BY <2>3 DEF AtRest
    <2> QED
      BY <1>2, <1>5, <1>7, <2>3, <2>4 DEF IsSearching, OneMore
  <1> QED
    BY <1>6, <1>7

(* Nothing is left to do. *)
IsFinished(t) == t.work = <<>> /\ \A v \in DOMAIN t.index : t.index[v] # 0

(* Of the vertices `new` that are left the first is begun with. *)
GoesOn(t, new, t2) == t2 = IF new # {} THEN [t EXCEPT !.work = <<X!Frame(X!Min(new))>>] ELSE t

\* A vertex is begun with when there is no other work.
LEMMA BegunIsSearch ==
  ASSUME NEW n \in Nat, NEW V, V = 1..n, NEW r, NEW ns, IsRelationOf(V, r, ns), NEW t, IsSearching(V, r, ns, t),
         t.work = <<>>, NEW new, new = {v \in 1..n : t.index[v] = 0}, NEW t2, GoesOn(t, new, t2)
  PROVE  IsSearching(V, r, ns, t2) /\ (OneMore(V, t, t2) \/ (IsFinished(t) /\ t2 = t))
  <1>1. PICK E, g : IsSearchIn(V, r, ns, t, E, g) /\ AtRest(t, g)
    BY DEF IsSearching
  <1>2. g = 0 /\ DOMAIN t.index = V
    <2>1. IsState(V, t) /\ Waiting(ns, t, g) /\ Typed(V, r, E, Held(t), t.index, t.low, Open(t, g), g)
      BY <1>1 DEF IsSearchIn, IsSearch
    <2>2. Len(t.work) = 0
      OBVIOUS
    <2>3. g \in Nat /\ Len(t.work) \in {g, g + 1}
      BY <2>1 DEF Waiting, Typed
    <2>4. t.index \in [V -> Nat]
      BY <2>1 DEF IsState
    <2> QED
      BY <2>2, <2>3, <2>4
  <1>3. CASE new = {}
    <2>1. IsFinished(t)
      BY <1>2, <1>3 DEF IsFinished
    <2> QED
      BY <1>3, <2>1 DEF GoesOn
  <1>4. CASE new # {}
    <2> DEFINE v == X!Min(new)
    <2>1. v \in new
      <3>1. \A x \in new : x \in Nat
        OBVIOUS
      <3> QED
        BY <1>4, <3>1, LeastOf
    <2>2. v \in V /\ t.index[v] = 0
      BY <2>1
    <2>3. IsBegun(t, v, t2)
      BY <1>4 DEF GoesOn, IsBegun
    <2> HIDE DEF v
    <2>4. IsSearchIn(V, r, ns, t, E, 0)
      BY <1>1, <1>2
    <2>5. /\ IsSearchIn(V, r, ns, t2, E, 0)
          /\ TakenUp(t2) = TakenUp(t) \cup {v} /\ v \notin TakenUp(t) /\ Ended(t2) = Ended(t)
      BY <2>2, <2>3, <2>4, BeginningIsSearch
    <2>6. AtRest(t2, 0)
      BY DEF AtRest
    <2> QED
      BY <2>2, <2>5, <2>6 DEF IsSearching, OneMore
  <1> QED
    BY <1>3, <1>4

\* So many vertices can be taken up and closed.
LEMMA StepsAreCounted ==
  ASSUME NEW n \in Nat, NEW V, V = 1..n, NEW t, DOMAIN t.index = V
  PROVE  /\ IsFiniteSet(TakenUp(t)) /\ IsFiniteSet(Ended(t))
         /\ Cardinality(TakenUp(t)) \in Nat /\ Cardinality(Ended(t)) \in Nat
         /\ Cardinality(TakenUp(t)) <= n /\ Cardinality(Ended(t)) <= n
  <1>1. IsFiniteSet(V) /\ Cardinality(V) = n
    <2>1. IsFiniteSet(1..n) /\ Cardinality(1..n) = IF 1 > n THEN 0 ELSE n - 1 + 1
      BY FS_Interval
    <2> QED
      BY <2>1
  <1>2. TakenUp(t) \subseteq V /\ Ended(t) \subseteq V
    BY DEF TakenUp, Ended
  <1> QED
    BY <1>1, <1>2, FS_Subset, FS_CardinalityType

LEMMA OneMoreIsCounted ==
  ASSUME NEW n \in Nat, NEW V, V = 1..n, NEW t, DOMAIN t.index = V, NEW t2, DOMAIN t2.index = V, OneMore(V, t, t2)
  PROVE  Cardinality(TakenUp(t2)) + Cardinality(Ended(t2)) = Cardinality(TakenUp(t)) + Cardinality(Ended(t)) + 1
  <1>1. IsFiniteSet(TakenUp(t)) /\ IsFiniteSet(Ended(t)) /\ Cardinality(TakenUp(t)) \in Nat /\ Cardinality(Ended(t)) \in Nat
    BY StepsAreCounted
  <1>2. PICK x \in V : \/ TakenUp(t2) = TakenUp(t) \cup {x} /\ x \notin TakenUp(t) /\ Ended(t2) = Ended(t)
                       \/ TakenUp(t2) = TakenUp(t) /\ Ended(t2) = Ended(t) \cup {x} /\ x \notin Ended(t)
    BY DEF OneMore
  <1>3. \A S : IsFiniteSet(S) /\ x \notin S => Cardinality(S \cup {x}) = Cardinality(S) + 1
    BY FS_AddElement
  <1> QED
    BY <1>1, <1>2, <1>3

(* Disjoint components of all vertices, of which none leads to a later one. *)
AreOrdered(V, r, cs) ==
  /\ cs \in Seq(SUBSET V)
  /\ \A v \in V : \E k \in DOMAIN cs : v \in cs[k]
  /\ \A k, l \in DOMAIN cs : k # l => cs[k] \cap cs[l] = {}
  /\ AreComponents(r, cs)

\* When nothing is left to do, every vertex is of a component.
LEMMA FinishedIsOrdered ==
  ASSUME NEW V, NEW r, NEW ns, IsRelationOf(V, r, ns), NEW t, IsSearching(V, r, ns, t), IsFinished(t)
  PROVE  AreOrdered(V, r, t.components)
  <1>1. PICK E, g : IsSearchIn(V, r, ns, t, E, g)
    BY DEF IsSearching
  <1>2. /\ IsState(V, t) /\ Waiting(ns, t, g) /\ Typed(V, r, E, Held(t), t.index, t.low, Open(t, g), g)
        /\ ReachesOpen(r, Held(t), t.index, Open(t, g), g) /\ Parted(t) /\ AreComponents(r, t.components)
    BY <1>1 DEF IsSearchIn, IsSearch
  <1>3. g = 0 /\ DOMAIN t.index = V /\ t.components \in Seq(SUBSET V)
    <2>1. Len(t.work) = 0
      BY DEF IsFinished
    <2>2. g \in Nat /\ Len(t.work) \in {g, g + 1}
      BY <1>2 DEF Waiting, Typed
    <2>3. t.index \in [V -> Nat] /\ t.components \in Seq(SUBSET V)
      BY <1>2 DEF IsState
    <2> QED
      BY <2>1, <2>2, <2>3
  <1>4. Held(t) = {}
    <2>1. 1..0 = {}
      OBVIOUS
    <2> QED
      BY <1>2, <1>3, <2>1 DEF ReachesOpen
  <1>5. \A v \in V : \E k \in DOMAIN t.components : v \in t.components[k]
    BY <1>2, <1>3, <1>4 DEF Parted, IsFinished
  <1>6. \A k, l \in DOMAIN t.components : k # l => t.components[k] \cap t.components[l] = {}
    BY <1>2 DEF Parted
  <1> QED
    BY <1>2, <1>3, <1>5, <1>6 DEF AreOrdered

\* Every relation is taken apart into the groups of vertices that reach one another, in an order in which
\* none reaches a later one.
LEMMA ComponentsAreRight ==
  ASSUME NEW n \in Nat, NEW V, V = 1..n, NEW r, NEW ns, IsRelationOf(V, r, ns)
  PROVE  AreOrdered(V, r, X!Components(n, ns))
  <1> DEFINE N == 3 * n
             new(t) == {v \in 1..n : t.index[v] = 0}
             step(t) == IF t.work # <<>> THEN X!Advanced(t, ns)
                        ELSE IF new(t) # {} THEN [t EXCEPT !.work = <<X!Frame(X!Min(new(t)))>>]
                        ELSE t
             start == X!Start(n)
             Walks(g) == g = [i \in 0..N |-> IF i = 0 THEN start ELSE step(g[i - 1])]
             f == CHOOSE g : Walks(g)
             States == [index : [V -> Nat], low : [V -> Nat], next : Nat, stack : Seq(V),
                        work : Seq([v : V, at : Nat]), components : Seq(SUBSET V)]
             Good == {t \in States : IsSearching(V, r, ns, t)}
             steps == [i \in 1..N |-> [t \in Good |-> step(t)]]
  <1>1. X!Components(n, ns) = f[N].components
    BY Zenon DEF X!Components
  <1>2. N \in Nat
    OBVIOUS
  <1>g. \A t : IsSearching(V, r, ns, t) => t \in Good /\ DOMAIN t.index = V
    <2> SUFFICES ASSUME NEW t, IsSearching(V, r, ns, t) PROVE t \in Good /\ DOMAIN t.index = V
      OBVIOUS
    <2>1. IsState(V, t)
      BY DEF IsSearching, IsSearchIn
    <2> QED
      BY <2>1 DEF IsState
  <1>3. start \in Good /\ start.work = <<>> /\ start.index = [v \in 1..n |-> 0]
    <2>1. IsSearchIn(V, r, ns, start, {}, 0)
      BY StartIsSearch
    <2>2. start.work = <<>> /\ start.index = [v \in 1..n |-> 0]
      BY DEF X!Start
    <2> HIDE DEF start, Good
    <2>3. AtRest(start, 0)
      BY DEF AtRest
    <2> QED
      BY <1>g, <2>1, <2>2, <2>3 DEF IsSearching
  <1>4. \A t \in Good : IsSearching(V, r, ns, t)
    OBVIOUS
  <1> HIDE DEF Good, start
  <1>5. ASSUME NEW t \in Good PROVE step(t) \in Good /\ (OneMore(V, t, step(t)) \/ (IsFinished(t) /\ step(t) = t))
    <2> DEFINE t2 == step(t)
    <2>1. IsSearching(V, r, ns, t)
      BY <1>4
    <2>2. CASE t.work # <<>>
      <3>1. t2 = X!Advanced(t, ns)
        BY <2>2
      <3> HIDE DEF t2, step
      <3>2. IsSearching(V, r, ns, t2) /\ OneMore(V, t, t2)
        BY <2>1, <2>2, <3>1, AdvancedIsSearch
      <3> QED
        BY <1>g, <3>2 DEF t2
    <2>3. CASE t.work = <<>>
      <3> DEFINE left == new(t)
      <3>1. left = {v \in 1..n : t.index[v] = 0} /\ GoesOn(t, left, t2)
        BY <2>3 DEF GoesOn
      <3> HIDE DEF t2, step, left
      <3>2. IsSearching(V, r, ns, t2) /\ (OneMore(V, t, t2) \/ (IsFinished(t) /\ t2 = t))
        BY <2>1, <2>3, <3>1, BegunIsSearch
      <3> QED
        BY <1>g, <3>2 DEF t2
    <2> QED
      BY <2>2, <2>3
  <1> HIDE DEF N, step, new
  <1>6. \E g : Walks(g)
    <2>1. steps \in [1..N -> [Good -> Good]] /\ \A i \in 1..N : \A t \in Good : steps[i][t] = step(t)
      BY <1>5
    <2> HIDE DEF steps
    <2>2. PICK g : IsWalk(g, N, Good, start, steps)
      BY <1>2, <1>3, <2>1, StepsExist
    <2>3. ASSUME NEW i \in 1..N PROVE g[i] = step(g[i - 1])
      <3>1. i - 1 \in 0..N
        BY <1>2
      <3> QED
        BY <2>1, <2>2, <3>1 DEF IsWalk
    <2>4. Walks(g)
      BY <1>2, <2>2, <2>3 DEF IsWalk
    <2> QED
      BY <2>4
  <1>7. Walks(f)
    <2> HIDE DEF Walks
    <2> QED
      BY <1>6
  <1> HIDE DEF f
  <1>8. f[0] = start /\ \A i \in 1..N : f[i] = step(f[i - 1])
    BY <1>2, <1>7
  <1> HIDE DEF Walks
  <1> DEFINE sum(t) == Cardinality(TakenUp(t)) + Cardinality(Ended(t))
             P == {i \in 0..N : f[i] \in Good /\ (IsFinished(f[i]) \/ sum(f[i]) >= i)}
  <1>s. \A t \in Good : sum(t) \in Nat /\ sum(t) <= n + n
    <2> SUFFICES ASSUME NEW t \in Good PROVE sum(t) \in Nat /\ sum(t) <= n + n
      OBVIOUS
    <2>1. DOMAIN t.index = V
      BY <1>4, <1>g
    <2>2. /\ Cardinality(TakenUp(t)) \in Nat /\ Cardinality(Ended(t)) \in Nat
          /\ Cardinality(TakenUp(t)) <= n /\ Cardinality(Ended(t)) <= n
      BY <2>1, StepsAreCounted
    <2> QED
      BY <2>2
  <1>m. \A t, t2 \in Good : OneMore(V, t, t2) => sum(t2) = sum(t) + 1
    <2> SUFFICES ASSUME NEW t \in Good, NEW t2 \in Good, OneMore(V, t, t2) PROVE sum(t2) = sum(t) + 1
      OBVIOUS
    <2>1. DOMAIN t.index = V /\ DOMAIN t2.index = V
      BY <1>4, <1>g
    <2> QED
      BY <2>1, OneMoreIsCounted
  <1> HIDE DEF sum
  <1>9. 0 \in P
    BY <1>2, <1>3, <1>8, <1>s
  <1>10. ASSUME NEW i \in 1..N, i - 1 \in P PROVE i \in P
    <2>1. f[i - 1] \in Good /\ (IsFinished(f[i - 1]) \/ sum(f[i - 1]) >= i - 1) /\ f[i] = step(f[i - 1]) /\ i \in 0..N
      BY <1>2, <1>8, <1>10
    <2>2. f[i] \in Good /\ (OneMore(V, f[i - 1], f[i]) \/ (IsFinished(f[i - 1]) /\ f[i] = f[i - 1]))
      BY <1>5, <2>1
    <2>3. CASE IsFinished(f[i - 1]) /\ f[i] = f[i - 1]
      BY <2>1, <2>2, <2>3
    <2>4. CASE ~(IsFinished(f[i - 1]) /\ f[i] = f[i - 1]) /\ ~IsFinished(f[i - 1])
      <3>1. sum(f[i]) = sum(f[i - 1]) + 1 /\ sum(f[i - 1]) \in Nat /\ sum(f[i - 1]) >= i - 1
        BY <1>m, <1>s, <2>1, <2>2, <2>4
      <3>2. sum(f[i]) >= i
        BY <3>1
      <3> QED
        BY <2>1, <2>2, <3>2
    <2>5. CASE IsFinished(f[i - 1]) /\ f[i] # f[i - 1]
      <3>1. f[i] = f[i - 1]
        <4>1. DOMAIN f[i - 1].index = V
          BY <1>4, <1>g, <2>1
        <4>2. new(f[i - 1]) = {}
          BY <2>5, <4>1 DEF new, IsFinished
        <4> QED
          BY <2>1, <2>5, <4>2 DEF step, IsFinished
      <3> QED
        BY <2>5, <3>1
    <2> QED
      BY <2>3, <2>4, <2>5
  <1>11. 0..N \subseteq P
    <2> HIDE DEF P
    <2> QED
      BY <1>2, <1>9, <1>10, UpTo
  <1>12. f[N] \in Good /\ IsFinished(f[N])
    <2>1. N \in 0..N
      BY <1>2
    <2>2. f[N] \in Good /\ (IsFinished(f[N]) \/ sum(f[N]) >= N)
      BY <1>11, <2>1
    <2>3. CASE n = 0
      <3>1. f[N] = start
        BY <1>8, <2>3 DEF N
      <3>2. DOMAIN start.index = {}
        BY <1>3, <2>3
      <3> QED
        BY <1>3, <2>2, <3>1, <3>2 DEF IsFinished
    <2>4. CASE n # 0
      <3>1. sum(f[N]) \in Nat /\ sum(f[N]) <= n + n
        BY <1>s, <2>2
      <3>2. ~(sum(f[N]) >= N)
        BY <2>4, <3>1 DEF N
      <3> QED
        BY <2>2, <3>2
    <2> QED
      BY <2>3, <2>4
  <1>13. AreOrdered(V, r, f[N].components)
    BY <1>4, <1>12, FinishedIsOrdered
  <1> QED
    BY <1>1, <1>13

-----------------------------------------------------------------------------
(* What is asked of a relation on the first numbers, and the closure of it.  *)
LEMMA SameCount == ASSUME NEW S PROVE X!Cardinality(S) = Cardinality(S)
  BY Zenon DEF X!Cardinality, Cardinality, IsFiniteSet, X!IsFiniteSet

\* The numbers of a finite set, each at a place of its own.
LEMMA SortedHolds ==
  ASSUME NEW S \in SUBSET Nat, IsFiniteSet(S)
  PROVE  /\ X!Sorted(S) \in Seq(S) /\ DOMAIN X!Sorted(S) = 1..Cardinality(S)
         /\ \A o \in S : \E j \in 1..Cardinality(S) : X!Sorted(S)[j] = o
  <1> DEFINE n == Cardinality(S)
             Before(o) == {p \in S : p < o}
             Of(k) == CHOOSE o \in S : X!Cardinality(Before(o)) = k - 1
             sorted == X!Sorted(S)
  <1>0. \A o \in S : o \in Nat
    OBVIOUS
  <1>1. n \in Nat
    BY FS_CardinalityType
  <1>2. \A T : X!Cardinality(T) = Cardinality(T)
    BY SameCount
  <1>3. sorted = [k \in 1..n |-> Of(k)]
    BY <1>2, Zenon DEF X!Sorted
  <1>4. ASSUME NEW k \in 1..n PROVE Of(k) \in S /\ Cardinality(Before(Of(k))) = k - 1
    <2>1. \E o \in S : X!Cardinality(Before(o)) = k - 1
      BY <1>2, RanksExist
    <2>2. Of(k) \in S /\ X!Cardinality(Before(Of(k))) = k - 1
      BY <2>1
    <2> QED
      BY <1>2, <2>2
  <1> HIDE DEF sorted, Of, n
  <1>5. \A k \in 1..n : sorted[k] \in S /\ Cardinality(Before(sorted[k])) = k - 1
    BY <1>3, <1>4
  <1>6. sorted \in Seq(S) /\ DOMAIN sorted = 1..n
    <2>1. sorted \in [1..n -> S]
      BY <1>3, <1>5
    <2> QED
      BY <1>1, <2>1
  <1>7. \A o : IsFiniteSet(Before(o)) /\ Cardinality(Before(o)) \in Nat
    BY FS_Subset, FS_CardinalityType
  <1>8. ASSUME NEW o \in S, NEW p \in S, o < p PROVE Cardinality(Before(o)) < Cardinality(Before(p))
    <2>0. o \in Nat /\ p \in Nat
      BY <1>0
    <2>1. Before(o) \subseteq Before(p)
      <3>1. ASSUME NEW x \in S, x < o PROVE x < p
        BY <1>0, <1>8, <2>0, <3>1
      <3> QED
        BY <3>1
    <2>2. Before(o) # Before(p)
      <3>1. o \in Before(p) /\ o \notin Before(o)
        BY <1>8, <2>0
      <3> QED
        BY <3>1
    <2> HIDE DEF Before
    <2>3. /\ Cardinality(Before(o)) <= Cardinality(Before(p))
          /\ Cardinality(Before(p)) = Cardinality(Before(o)) => Before(p) = Before(o)
      BY <1>7, <2>1, FS_Subset
    <2> QED
      BY <1>7, <2>2, <2>3
  <1>9. ASSUME NEW o \in S PROVE \E j \in 1..n : sorted[j] = o
    <2> DEFINE j == Cardinality(Before(o)) + 1
    <2>1. o \notin Before(o) /\ Before(o) \cup {o} \subseteq S
      BY <1>0
    <2> HIDE DEF Before
    <2>2. Cardinality(Before(o) \cup {o}) = Cardinality(Before(o)) + 1 /\ Cardinality(Before(o) \cup {o}) <= n
      BY <1>7, <2>1, FS_AddElement, FS_Subset DEF n
    <2>3. j \in 1..n /\ Cardinality(Before(o)) = j - 1
      BY <1>1, <1>7, <2>2
    <2> HIDE DEF j
    <2>4. sorted[j] \in S /\ Cardinality(Before(sorted[j])) = Cardinality(Before(o))
      BY <1>5, <2>3
    <2>5. ~(sorted[j] < o) /\ ~(o < sorted[j])
      <3> DEFINE p == sorted[j]
      <3>1. p \in S /\ Cardinality(Before(p)) = Cardinality(Before(o)) /\ Cardinality(Before(o)) \in Nat
        BY <1>7, <2>4
      <3> HIDE DEF p
      <3>2. p < o => Cardinality(Before(p)) < Cardinality(Before(o))
        BY <1>8, <3>1
      <3>3. o < p => Cardinality(Before(o)) < Cardinality(Before(p))
        BY <1>8, <3>1
      <3>4. ~(p < o) /\ ~(o < p)
        BY <3>1, <3>2, <3>3
      <3> QED
        BY <3>4 DEF p
    <2>6. o \in Nat /\ sorted[j] \in Nat
      BY <1>0, <2>4
    <2>7. sorted[j] = o
      BY <2>5, <2>6
    <2> QED
      BY <2>3, <2>7
  <1> QED
    BY <1>6, <1>9 DEF sorted, n

\* The neighbours of a vertex are listed once each.
LEMMA NeighboursAreListed ==
  ASSUME NEW n \in Nat, NEW V, V = 1..n, NEW r, r \subseteq V \X V
  PROVE  IsRelationOf(V, r, X!Neighbours(n, r))
  <1> DEFINE ns == X!Neighbours(n, r)
             of(v) == {e[2] : e \in {x \in r : x[1] \in {v}}}
  <1>1. ns = [v \in V |-> X!Sorted(of(v))]
    BY Zenon DEF X!Neighbours, X!Image
  <1>2. ASSUME NEW v \in V PROVE \A y : y \in of(v) <=> <<v, y>> \in r
    <2>1. ASSUME NEW y, <<v, y>> \in r PROVE y \in of(v)
      <3>1. <<v, y>>[1] = v /\ <<v, y>>[2] = y
        OBVIOUS
      <3> QED
        BY <2>1, <3>1
    <2>2. ASSUME NEW y \in of(v) PROVE <<v, y>> \in r
      <3>1. PICK e \in r : e[1] = v /\ e[2] = y
        BY <2>2
      <3>2. e = <<e[1], e[2]>>
        OBVIOUS
      <3> QED
        BY <3>1, <3>2
    <2> HIDE DEF of
    <2> QED
      BY <2>1, <2>2
  <1>3. IsFiniteSet(V) /\ V \subseteq Nat
    <2>1. IsFiniteSet(1..n)
      BY FS_Interval
    <2> QED
      BY <2>1
  <1> HIDE DEF ns, of
  <1>4. ASSUME NEW v \in V
        PROVE  ns[v] \in Seq(V) /\ \A y : (\E j \in DOMAIN ns[v] : ns[v][j] = y) <=> <<v, y>> \in r
    <2> DEFINE S == of(v)
    <2>1. S \subseteq V /\ \A y : y \in S <=> <<v, y>> \in r
      <3>1. \A y : y \in S <=> <<v, y>> \in r
        BY <1>2
      <3>2. \A y : <<v, y>> \in r => y \in V
        OBVIOUS
      <3> HIDE DEF S
      <3>3. \A y \in S : y \in V
        BY <3>1, <3>2
      <3> QED
        BY <3>1, <3>3
    <2>2. ns[v] = X!Sorted(S)
      BY <1>1
    <2> HIDE DEF S
    <2>3. S \in SUBSET Nat /\ IsFiniteSet(S)
      BY <1>3, <2>1, FS_Subset
    <2>4. /\ X!Sorted(S) \in Seq(S) /\ DOMAIN X!Sorted(S) = 1..Cardinality(S)
          /\ \A o \in S : \E j \in 1..Cardinality(S) : X!Sorted(S)[j] = o
      BY <2>3, SortedHolds
    <2> DEFINE s == X!Sorted(S)
    <2>s. s = X!Sorted(S)
      OBVIOUS
    <2> HIDE DEF s
    <2>5. \A j \in DOMAIN s : s[j] \in S
      BY <2>4, <2>s, PlacesOf
    <2>6. s \in Seq(V)
      <3>1. s \in Seq(S) /\ \A j \in DOMAIN s : s[j] \in V
        BY <2>1, <2>4, <2>5, <2>s
      <3>2. s \in [1..Len(s) -> V] /\ Len(s) \in Nat
        BY <3>1
      <3> QED
        BY <3>2
    <2>7. \A y : (\E j \in DOMAIN s : s[j] = y) <=> y \in S
      BY <2>4, <2>5, <2>s
    <2> QED
      BY <2>1, <2>2, <2>6, <2>7, <2>s
  <1> QED
    <2>1. ns \in [V -> Seq(V)]
      BY <1>1, <1>4
    <2> QED
      BY <1>4, <2>1 DEF IsRelationOf, ns

-----------------------------------------------------------------------------
(* A path of at least one edge. *)
Joined(r, x, y) == \E z : <<x, z>> \in r /\ Reaches(r, z, y)

LEMMA JoinedReaches == ASSUME NEW r, NEW x, NEW y, Joined(r, x, y) PROVE Reaches(r, x, y)
  BY ReachesAlong, ReachesOn DEF Joined

LEMMA ReachesJoined ==
  ASSUME NEW V, NEW r, r \subseteq V \X V, NEW x, NEW y, Reaches(r, x, y), x # y
  PROVE  Joined(r, x, y)
  <1> DEFINE S == {x} \cup {w \in V : Joined(r, x, w)}
  <1>1. ASSUME NEW e \in r, e[1] \in S PROVE e[2] \in S
    <2>1. e = <<e[1], e[2]>> /\ e[2] \in V
      OBVIOUS
    <2>2. CASE e[1] = x
      <3>1. Reaches(r, e[2], e[2])
        BY ReachesItself
      <3>2. Joined(r, x, e[2])
        BY <2>1, <2>2, <3>1 DEF Joined
      <3> QED
        BY <2>1, <3>2
    <2>3. CASE e[1] # x
      <3>1. PICK z : <<x, z>> \in r /\ Reaches(r, z, e[1])
        BY <1>1, <2>3 DEF Joined
      <3>2. Reaches(r, e[1], e[2])
        BY <2>1, ReachesAlong
      <3>3. Reaches(r, z, e[2])
        BY <3>1, <3>2, ReachesOn
      <3>4. Joined(r, x, e[2])
        BY <3>1, <3>3 DEF Joined
      <3> QED
        BY <2>1, <3>4
    <2> QED
      BY <2>2, <2>3
  <1>2. x \in S /\ (y \in S => Joined(r, x, y))
    OBVIOUS
  <1> HIDE DEF S
  <1>3. y \in S
    BY <1>1, <1>2 DEF Reaches
  <1> QED
    BY <1>2, <1>3

LEMMA ImageOf ==
  ASSUME NEW V, NEW r, r \subseteq V \X V, NEW c, NEW y
  PROVE  y \in X!Image(r, c) <=> \E x \in c : <<x, y>> \in r
  <1>1. ASSUME NEW x \in c, <<x, y>> \in r PROVE y \in X!Image(r, c)
    <2>1. <<x, y>>[1] = x /\ <<x, y>>[2] = y
      OBVIOUS
    <2> QED
      BY <1>1, <2>1 DEF X!Image
  <1>2. ASSUME y \in X!Image(r, c) PROVE \E x \in c : <<x, y>> \in r
    <2>1. PICK e \in r : e[1] \in c /\ e[2] = y
      BY <1>2 DEF X!Image
    <2>2. e = <<e[1], e[2]>>
      OBVIOUS
    <2> QED
      BY <2>1, <2>2
  <1> QED
    BY <1>1, <1>2

-----------------------------------------------------------------------------
(* What the vertices of c reach outside it. *)
Outside(V, r, c) == {y \in V : y \notin c /\ \E x \in c : Reaches(r, x, y)}

\* What is reached from a component is of it or of an earlier one.
LEMMA ReachedIsEarlier ==
  ASSUME NEW V, NEW r, r \subseteq V \X V, NEW cs, AreOrdered(V, r, cs), NEW k \in DOMAIN cs,
         NEW x \in cs[k], NEW y, Reaches(r, x, y)
  PROVE  \E l \in 1..k : l \in DOMAIN cs /\ y \in cs[l]
  <1> DEFINE S == UNION {cs[l] : l \in 1..k}
  <1>1. DOMAIN cs = 1..Len(cs) /\ Len(cs) \in Nat
    BY PlacesOf DEF AreOrdered
  <1>2. \A l \in 1..k : l \in DOMAIN cs /\ \A m \in 1..l : m \in 1..k
    BY <1>1
  <1>3. ASSUME NEW e \in r, e[1] \in S PROVE e[2] \in S
    <2>1. PICK l \in 1..k : e[1] \in cs[l]
      BY <1>3
    <2>2. PICK m \in 1..l : e[2] \in cs[m]
      BY <1>2, <2>1 DEF AreOrdered, AreComponents
    <2> QED
      BY <1>2, <2>2
  <1>4. k \in 1..k
    BY <1>1
  <1>5. x \in S
    BY <1>4
  <1>6. y \in S => \E l \in 1..k : y \in cs[l]
    OBVIOUS
  <1> HIDE DEF S
  <1>7. y \in S
    BY <1>3, <1>5 DEF Reaches
  <1> QED
    BY <1>2, <1>6, <1>7

(* What a component leads to outside it, and the earlier ones of these. *)
LeadsTo(r, cs, k, out, reached) ==
  out = X!Image(r, cs[k]) \ cs[k] /\ reached = {j \in 1..(k - 1) : cs[j] \cap out # {}}

(* What is outside a component, of what it leads to and what these reach. *)
IsFoundFrom(V, r, cs, k, out, reached) ==
  Outside(V, r, cs[k]) = out \cup UNION {cs[j] \cup Outside(V, r, cs[j]) : j \in reached}

\* What is found beyond a component from what is beyond the earlier ones is what it reaches outside it.
LEMMA OutsideIsFound ==
  ASSUME NEW V, NEW r, r \subseteq V \X V, NEW cs, AreOrdered(V, r, cs), NEW k \in DOMAIN cs,
         NEW out, NEW reached, LeadsTo(r, cs, k, out, reached)
  PROVE  IsFoundFrom(V, r, cs, k, out, reached)
  <1> DEFINE found == out \cup UNION {cs[j] \cup Outside(V, r, cs[j]) : j \in reached}
             c == cs[k]
  <1> USE DEF LeadsTo
  <1>1. DOMAIN cs = 1..Len(cs) /\ Len(cs) \in Nat /\ \A j \in DOMAIN cs : cs[j] \subseteq V
    <2>1. DOMAIN cs = 1..Len(cs) /\ Len(cs) \in Nat /\ \A j \in DOMAIN cs : cs[j] \in SUBSET V
      BY PlacesOf DEF AreOrdered
    <2> QED
      BY <2>1
  <1>2. /\ \A i, j \in DOMAIN cs : i # j => cs[i] \cap cs[j] = {}
        /\ \A j \in DOMAIN cs : \A x, y \in cs[j] : Reaches(r, x, y)
    BY DEF AreOrdered, AreComponents
  <1>3. \A j \in reached : j \in DOMAIN cs /\ j # k /\ \E z \in cs[j] : z \in out
    BY <1>1
  <1>4. \A y : y \in out <=> y \notin c /\ \E x \in c : <<x, y>> \in r
    BY ImageOf
  <1>5. \A y \in out : \E j \in reached : y \in cs[j]
    <2> SUFFICES ASSUME NEW y \in out PROVE \E j \in reached : y \in cs[j]
      OBVIOUS
    <2>1. PICK x \in c : <<x, y>> \in r
      BY <1>4
    <2>2. Reaches(r, x, y)
      BY <2>1, ReachesAlong
    <2>3. PICK l \in 1..k : l \in DOMAIN cs /\ y \in cs[l]
      BY <2>1, <2>2, ReachedIsEarlier
    <2>4. l # k
      BY <1>4, <2>3
    <2>5. l \in 1..(k - 1)
      BY <1>1, <2>3, <2>4
    <2> QED
      BY <2>3, <2>5
  <1>6. \A y : y \in found <=> y \in out \/ \E j \in reached : y \in cs[j] \/ y \in Outside(V, r, cs[j])
    OBVIOUS
  <1> HIDE DEF found, c
  <1>c. c = cs[k]
    BY DEF c
  <1>7. ASSUME NEW y \in found PROVE y \in Outside(V, r, c)
    <2>1. PICK j \in reached : y \in cs[j] \/ y \in Outside(V, r, cs[j])
      BY <1>5, <1>6, <1>7
    <2>2. PICK z \in cs[j] : z \in out
      BY <1>3, <2>1
    <2>3. PICK x \in c : <<x, z>> \in r
      BY <1>4, <2>2
    <2>4. PICK w \in cs[j] : Reaches(r, w, y)
      <3>1. CASE y \in cs[j]
        BY <1>2, <1>3, <3>1
      <3>2. CASE y \in Outside(V, r, cs[j])
        BY <3>2 DEF Outside
      <3> QED
        BY <2>1, <3>1, <3>2
    <2>5. Reaches(r, x, z) /\ Reaches(r, z, w)
      BY <1>2, <1>3, <2>2, <2>3, <2>4, ReachesAlong
    <2>6. Reaches(r, x, y)
      BY <2>4, <2>5, ReachesOn
    <2>7. PICK l \in 1..j : l \in DOMAIN cs /\ y \in cs[l]
      BY <1>3, <2>1, <2>4, ReachedIsEarlier
    <2>8. l # k
      BY <1>1, <2>1, <2>7
    <2>9. y \notin c /\ y \in V
      BY <1>1, <1>2, <1>c, <2>7, <2>8
    <2> QED
      BY <2>6, <2>9 DEF Outside
  <1>8. ASSUME NEW y \in Outside(V, r, c) PROVE y \in found
    <2> DEFINE S == c \cup found
    <2>1. PICK x \in c : Reaches(r, x, y) /\ y \notin c
      BY <1>8 DEF Outside
    <2>2. ASSUME NEW e \in r, e[1] \in S PROVE e[2] \in S
      <3>1. e = <<e[1], e[2]>> /\ e[2] \in V
        OBVIOUS
      <3>2. CASE e[1] \in c
        BY <1>4, <1>6, <3>1, <3>2
      <3>3. CASE e[1] \in found
        <4>1. PICK j \in reached : e[1] \in cs[j] \/ e[1] \in Outside(V, r, cs[j])
          BY <1>5, <1>6, <3>3
        <4>2. PICK w \in cs[j] : Reaches(r, w, e[1])
          <5>1. CASE e[1] \in cs[j]
            BY <1>2, <1>3, <5>1
          <5>2. CASE e[1] \in Outside(V, r, cs[j])
            BY <5>2 DEF Outside
          <5> QED
            BY <4>1, <5>1, <5>2
        <4>3. Reaches(r, w, e[2])
          BY <3>1, <4>2, ReachesAlong, ReachesOn
        <4>4. e[2] \in cs[j] \/ e[2] \in Outside(V, r, cs[j])
          BY <3>1, <4>3 DEF Outside
        <4> QED
          BY <1>6, <4>4
      <3> QED
        BY <2>2, <3>2, <3>3
    <2>3. x \in S
      OBVIOUS
    <2>4. y \in S => y \in found
      BY <2>1
    <2> HIDE DEF S
    <2>5. y \in S
      BY <2>1, <2>2, <2>3 DEF Reaches
    <2> QED
      BY <2>4, <2>5
  <1> QED
    BY <1>7, <1>8, <1>c DEF found, IsFoundFrom

LEMMA BeyondIsOutside ==
  ASSUME NEW V, NEW r, r \subseteq V \X V, NEW cs, AreOrdered(V, r, cs)
  PROVE  \A k \in DOMAIN cs : X!Beyond(cs, r)[k] = Outside(V, r, cs[k])
  <1> DEFINE N == Len(cs)
             out(k) == X!Image(r, cs[k]) \ cs[k]
             reached(k) == {j \in 1..(k - 1) : cs[j] \cap out(k) # {}}
             more(k, before) == out(k) \cup UNION {cs[j] \cup before[j] : j \in reached(k)}
             step(k, before) == Append(before, more(k, before))
             Walks(g) == g = [k \in 0..N |-> IF k = 0 THEN <<>> ELSE step(k, g[k - 1])]
             f == CHOOSE g : Walks(g)
             told(k) == [j \in 1..k |-> Outside(V, r, cs[j])]
  <1>1. X!Beyond(cs, r) = f[N]
    BY Zenon DEF X!Beyond
  <1>2. N \in Nat /\ DOMAIN cs = 1..N
    BY PlacesOf DEF AreOrdered
  <1>3. ASSUME NEW k \in 1..N PROVE step(k, told(k - 1)) = told(k)
    <2> DEFINE before == told(k - 1)
    <2>1. more(k, before) = Outside(V, r, cs[k])
      <3> DEFINE o == out(k)
                 q == reached(k)
      <3>1. o = X!Image(r, cs[k]) \ cs[k] /\ q = {j \in 1..(k - 1) : cs[j] \cap o # {}}
        OBVIOUS
      <3>l. LeadsTo(r, cs, k, o, q)
        BY <3>1 DEF LeadsTo
      <3>2. more(k, before) = o \cup UNION {cs[j] \cup before[j] : j \in q}
        OBVIOUS
      <3> HIDE DEF o, q, more, out, reached
      <3>3. \A j \in q : before[j] = Outside(V, r, cs[j])
        BY <3>1
      <3> HIDE DEF before
      <3>4. UNION {cs[j] \cup before[j] : j \in q} = UNION {cs[j] \cup Outside(V, r, cs[j]) : j \in q}
        BY <3>3
      <3>5. Outside(V, r, cs[k]) = o \cup UNION {cs[j] \cup Outside(V, r, cs[j]) : j \in q}
        <4>1. IsFoundFrom(V, r, cs, k, o, q)
          BY <1>2, <3>l, OutsideIsFound
        <4> QED
          BY <4>1 DEF IsFoundFrom
      <3> QED
        BY <3>2, <3>4, <3>5
    <2> HIDE DEF more, out, reached
    <2>2. step(k, before) = Append(before, Outside(V, r, cs[k]))
      BY <2>1
    <2> HIDE DEF step
    <2>3. Append(told(k - 1), Outside(V, r, cs[k])) = told(k)
      <3> DEFINE T == {Outside(V, r, cs[j]) : j \in 1..k}
                 x == Outside(V, r, cs[k])
      <3>1. before \in Seq(T) /\ Len(before) = k - 1 /\ x \in T
        <4>1. k - 1 \in Nat /\ k \in 1..k /\ \A j \in 1..(k - 1) : j \in 1..k
          BY <1>2
        <4>2. before \in [1..(k - 1) -> T]
          BY <4>1
        <4> QED
          BY <4>1, <4>2
      <3> HIDE DEF T
      <3>b. before = told(k - 1)
        OBVIOUS
      <3> HIDE DEF before
      <3>2. /\ Append(before, x) \in Seq(T) /\ DOMAIN Append(before, x) = 1..((k - 1) + 1) /\ Append(before, x)[(k - 1) + 1] = x
            /\ \A i \in DOMAIN before : Append(before, x)[i] = before[i]
        BY <3>1, PlacesOfAppended
      <3>3. (k - 1) + 1 = k /\ DOMAIN before = 1..(k - 1) /\ \A i \in 1..k : i = k \/ i \in 1..(k - 1)
        BY <1>2, <3>b
      <3>4. Append(before, x) = [i \in 1..k |-> Append(before, x)[i]]
        BY <3>2, <3>3
      <3>5. \A i \in 1..k : Append(before, x)[i] = Outside(V, r, cs[i])
        BY <3>2, <3>3, <3>b
      <3> QED
        BY <3>4, <3>5, <3>b
    <2> QED
      BY <2>2, <2>3
  <1> HIDE DEF step
  <1>4. told(0) = <<>>
    <2>1. 1..0 = {}
      OBVIOUS
    <2> QED
      BY <2>1
  <1> HIDE DEF told
  <1>5. \E g : Walks(g)
    <2> DEFINE g == [k \in 0..N |-> told(k)]
    <2>1. ASSUME NEW k \in 0..N PROVE g[k] = IF k = 0 THEN <<>> ELSE step(k, g[k - 1])
      <3>1. CASE k = 0
        BY <1>4, <3>1
      <3>2. CASE k # 0
        <4>1. k \in 1..N /\ k - 1 \in 0..N
          BY <1>2, <3>2
        <4> QED
          BY <1>3, <3>2, <4>1
      <3> QED
        BY <3>1, <3>2
    <2> HIDE DEF g
    <2>2. g = [k \in 0..N |-> g[k]]
      BY DEF g
    <2>3. Walks(g)
      BY <2>1, <2>2
    <2> QED
      BY <2>3
  <1>6. Walks(f)
    <2> HIDE DEF Walks
    <2> QED
      BY <1>5
  <1> HIDE DEF f
  <1>7. f[0] = <<>> /\ \A k \in 1..N : f[k] = step(k, f[k - 1])
    BY <1>2, <1>6
  <1> HIDE DEF Walks
  <1> DEFINE P == {k \in 0..N : f[k] = told(k)}
  <1>8. 0 \in P
    BY <1>2, <1>4, <1>7
  <1>9. \A k \in 1..N : k - 1 \in P => k \in P
    BY <1>2, <1>3, <1>7
  <1>10. 0..N \subseteq P
    <2> HIDE DEF P
    <2> QED
      BY <1>2, <1>8, <1>9, UpTo
  <1>11. f[N] = told(N)
    BY <1>2, <1>10
  <1> QED
    BY <1>1, <1>2, <1>11 DEF told

-----------------------------------------------------------------------------
LEMMA CyclicOf ==
  ASSUME NEW r, NEW c, IsFiniteSet(c)
  PROVE  X!Cyclic(r, c) <=> (\E x, y \in c : x # y) \/ \E v \in c : <<v, v>> \in r
  <1>1. X!Cardinality(c) = Cardinality(c) /\ Cardinality(c) \in Nat
    BY SameCount, FS_CardinalityType
  <1>2. ASSUME Cardinality(c) > 1 PROVE \E x, y \in c : x # y
    <2>1. c # {}
      BY <1>2, FS_EmptySet
    <2>2. PICK x \in c : TRUE
      BY <2>1
    <2>3. c # {x}
      BY <1>2, FS_Singleton
    <2> QED
      BY <2>2, <2>3
  <1>3. ASSUME NEW x \in c, NEW y \in c, x # y PROVE Cardinality(c) > 1
    <2>1. {x} \cup {y} \subseteq c /\ IsFiniteSet({x}) /\ Cardinality({x}) = 1
      BY FS_Singleton
    <2>2. Cardinality({x} \cup {y}) = 2
      BY <1>3, <2>1, FS_AddElement
    <2>3. Cardinality({x} \cup {y}) <= Cardinality(c)
      BY <2>1, FS_Subset
    <2> QED
      BY <1>1, <2>2, <2>3
  <1>4. X!Cyclic(r, c) <=> Cardinality(c) > 1 \/ \E v \in c : <<v, v>> \in r
    BY <1>1 DEF X!Cyclic
  <1> QED
    BY <1>2, <1>3, <1>4

\* A vertex of a component reaches itself by an edge exactly when the component is cyclic.
LEMMA CyclicIsJoined ==
  ASSUME NEW V, IsFiniteSet(V), NEW r, r \subseteq V \X V, NEW cs, AreOrdered(V, r, cs), NEW k \in DOMAIN cs,
         NEW x \in cs[k], NEW y \in cs[k]
  PROVE  X!Cyclic(r, cs[k]) <=> Joined(r, x, y)
  <1>1. DOMAIN cs = 1..Len(cs) /\ Len(cs) \in Nat /\ cs[k] \subseteq V /\ IsFiniteSet(cs[k])
    <2>1. DOMAIN cs = 1..Len(cs) /\ Len(cs) \in Nat /\ cs[k] \in SUBSET V
      BY PlacesOf DEF AreOrdered
    <2> QED
      BY <2>1, FS_Subset
  <1>2. \A v, w \in cs[k] : Reaches(r, v, w)
    BY DEF AreOrdered, AreComponents
  <1>3. X!Cyclic(r, cs[k]) <=> (\E v, w \in cs[k] : v # w) \/ \E v \in cs[k] : <<v, v>> \in r
    BY <1>1, CyclicOf
  <1>4. ASSUME NEW v \in cs[k], NEW w, <<v, w>> \in r, Reaches(r, w, v) PROVE Joined(r, x, y)
    <2>1. Joined(r, v, y)
      <3>1. Reaches(r, w, y)
        BY <1>2, <1>4, ReachesOn
      <3> QED
        BY <1>4, <3>1 DEF Joined
    <2>2. CASE x = v
      BY <2>1, <2>2
    <2>3. CASE x # v
      <3>1. Joined(r, x, v)
        BY <1>2, <2>3, ReachesJoined
      <3>2. PICK z : <<x, z>> \in r /\ Reaches(r, z, v)
        BY <3>1 DEF Joined
      <3>3. Reaches(r, z, y)
        BY <1>2, <3>2, ReachesOn
      <3> QED
        BY <3>2, <3>3 DEF Joined
    <2> QED
      BY <2>2, <2>3
  <1>5. ASSUME X!Cyclic(r, cs[k]) PROVE Joined(r, x, y)
    <2>1. CASE \E v \in cs[k] : <<v, v>> \in r
      BY <1>4, <2>1, ReachesItself
    <2>2. CASE \E v, w \in cs[k] : v # w
      <3>1. PICK v, w \in cs[k] : v # w
        BY <2>2
      <3>2. Joined(r, v, w)
        BY <1>2, <3>1, ReachesJoined
      <3>3. PICK z : <<v, z>> \in r /\ Reaches(r, z, w)
        BY <3>2 DEF Joined
      <3>4. Reaches(r, z, v)
        BY <1>2, <3>1, <3>3, ReachesOn
      <3> QED
        BY <1>4, <3>1, <3>3, <3>4
    <2> QED
      BY <1>3, <1>5, <2>1, <2>2
  <1>6. ASSUME Joined(r, x, y) PROVE X!Cyclic(r, cs[k])
    <2>1. PICK z : <<x, z>> \in r /\ Reaches(r, z, y)
      BY <1>6 DEF Joined
    <2>2. CASE z = x
      BY <1>3, <2>1, <2>2
    <2>3. CASE z # x
      <3>1. z \in V
        BY <2>1
      <3>2. PICK l \in 1..k : l \in DOMAIN cs /\ z \in cs[l]
        BY <2>1, ReachesAlong, ReachedIsEarlier
      <3>3. PICK m \in 1..l : m \in DOMAIN cs /\ y \in cs[m]
        BY <2>1, <3>2, ReachedIsEarlier
      <3>4. m = k
        BY <3>3 DEF AreOrdered
      <3>5. l = k
        BY <1>1, <3>2, <3>3, <3>4
      <3> QED
        BY <1>3, <2>3, <3>2, <3>5
    <2> QED
      BY <2>2, <2>3
  <1> QED
    BY <1>5, <1>6

(* The pairs of which a path leads from the one to the other. *)
JoinedPairs(V, r) == {p \in V \X V : Joined(r, p[1], p[2])}

\* The closure joins two vertices exactly when a path leads from one to the other.
LEMMA ClosureIsJoined ==
  ASSUME NEW n \in Nat, NEW V, V = 1..n, NEW r, r \subseteq V \X V
  PROVE  X!Closure(n, r) = JoinedPairs(V, r)
  <1> DEFINE cs == X!Components(n, X!Neighbours(n, r))
             beyond == X!Beyond(cs, r)
             of(k) == beyond[k] \cup IF X!Cyclic(r, cs[k]) THEN cs[k] ELSE {}
  <1>1. X!Closure(n, r) = UNION {cs[k] \X of(k) : k \in DOMAIN cs}
    BY Zenon DEF X!Closure
  <1>2. AreOrdered(V, r, cs)
    BY NeighboursAreListed, ComponentsAreRight
  <1> HIDE DEF cs
  <1>3. \A k \in DOMAIN cs : beyond[k] = Outside(V, r, cs[k])
    BY <1>2, BeyondIsOutside
  <1> HIDE DEF beyond
  <1>4. IsFiniteSet(V)
    BY FS_Interval
  <1>5. \A k \in DOMAIN cs : cs[k] \subseteq V
    <2>1. \A k \in DOMAIN cs : cs[k] \in SUBSET V
      BY <1>2, PlacesOf DEF AreOrdered
    <2> QED
      BY <2>1
  <1>6. ASSUME NEW k \in DOMAIN cs, NEW x \in cs[k], NEW y
        PROVE  y \in of(k) <=> y \in V /\ Joined(r, x, y)
    <2>1. y \in of(k) <=> y \in Outside(V, r, cs[k]) \/ (X!Cyclic(r, cs[k]) /\ y \in cs[k])
      BY <1>3
    <2> HIDE DEF of
    <2>2. \A v, w \in cs[k] : Reaches(r, v, w)
      BY <1>2 DEF AreOrdered, AreComponents
    <2>3. CASE y \in cs[k]
      <3>1. X!Cyclic(r, cs[k]) <=> Joined(r, x, y)
        BY <1>2, <1>4, <2>3, CyclicIsJoined
      <3>2. y \notin Outside(V, r, cs[k]) /\ y \in V
        BY <1>5, <2>3 DEF Outside
      <3> QED
        BY <2>1, <2>3, <3>1, <3>2
    <2>4. CASE y \notin cs[k]
      <3>1. y \in Outside(V, r, cs[k]) => y \in V /\ Reaches(r, x, y)
        BY <2>2, ReachesOn DEF Outside
      <3>2. y \in V /\ Reaches(r, x, y) => y \in Outside(V, r, cs[k])
        BY <2>4 DEF Outside
      <3>3. Reaches(r, x, y) => Joined(r, x, y)
        BY <2>4, ReachesJoined
      <3>4. Joined(r, x, y) => Reaches(r, x, y)
        BY JoinedReaches
      <3> QED
        BY <2>1, <2>4, <3>1, <3>2, <3>3, <3>4
    <2> QED
      BY <2>3, <2>4
  <1> HIDE DEF of
  <1>7. ASSUME NEW p \in X!Closure(n, r) PROVE p \in V \X V /\ Joined(r, p[1], p[2])
    <2>1. PICK k \in DOMAIN cs : p \in cs[k] \X of(k)
      BY <1>1, <1>7
    <2>2. p = <<p[1], p[2]>> /\ p[1] \in cs[k] /\ p[2] \in of(k)
      BY <2>1
    <2>3. p[1] \in V /\ p[2] \in V /\ Joined(r, p[1], p[2])
      BY <1>5, <1>6, <2>2
    <2>4. <<p[1], p[2]>> \in V \X V
      BY <2>3
    <2> QED
      BY <2>2, <2>3, <2>4
  <1>8. ASSUME NEW p \in V \X V, Joined(r, p[1], p[2]) PROVE p \in X!Closure(n, r)
    <2>1. p = <<p[1], p[2]>> /\ p[1] \in V /\ p[2] \in V
      OBVIOUS
    <2>2. PICK k \in DOMAIN cs : p[1] \in cs[k]
      BY <1>2, <2>1 DEF AreOrdered
    <2>3. p[2] \in of(k)
      BY <1>6, <1>8, <2>1, <2>2
    <2>4. <<p[1], p[2]>> \in cs[k] \X of(k)
      BY <2>2, <2>3
    <2>5. p \in cs[k] \X of(k)
      BY <2>1, <2>4
    <2> QED
      BY <1>1, <2>5
  <1> QED
    BY <1>7, <1>8 DEF JoinedPairs

-----------------------------------------------------------------------------
(* Paths, by their length.                                                   *)

\* From each vertex all that it is joined to is found in as many steps as vertices lead on.
LEMMA StepsReachAll ==
  ASSUME NEW n \in Nat, NEW V, V = 1..n, NEW r, r \subseteq V \X V,
         NEW sources, sources = {e[1] : e \in r}, NEW N, N = Cardinality(sources), NEW x
  PROVE  /\ N \in Nat
         /\ \E f : /\ \A y : y \in f[0] <=> <<x, y>> \in r
                   /\ \A k \in 1..N : \A y : y \in f[k] => y \in f[k - 1] \/ \E a \in f[k - 1] : <<a, y>> \in r
                   /\ \A y : Joined(r, x, y) => y \in f[N]
  <1> DEFINE after(a) == {e[2] : e \in {d \in r : d[1] = a}}
             gives == [a \in sources |-> after(a)]
             start == after(x)
             step(s) == s \cup UNION {gives[a] : a \in s \cap sources}
             States == SUBSET V
             steps == [k \in 1..N |-> [s \in States |-> step(s)]]
  <1>1. \A a, y : y \in after(a) <=> <<a, y>> \in r
    <2> SUFFICES ASSUME NEW a, NEW y PROVE y \in after(a) <=> <<a, y>> \in r
      OBVIOUS
    <2>1. <<a, y>>[1] = a /\ <<a, y>>[2] = y
      OBVIOUS
    <2>2. \A e \in r : e = <<e[1], e[2]>>
      OBVIOUS
    <2> QED
      BY <2>1, <2>2
  <1>2. \A a, y : <<a, y>> \in r => a \in sources /\ a \in V /\ y \in V
    <2> SUFFICES ASSUME NEW a, NEW y, <<a, y>> \in r PROVE a \in sources /\ a \in V /\ y \in V
      OBVIOUS
    <2>1. <<a, y>>[1] = a
      OBVIOUS
    <2> QED
      BY <2>1
  <1>3. IsFiniteSet(sources) /\ N \in Nat
    <2>1. IsFiniteSet(V)
      BY FS_Interval
    <2>2. sources \subseteq V
      OBVIOUS
    <2> QED
      BY <2>1, <2>2, FS_Subset, FS_CardinalityType
  <1> HIDE DEF after
  <1>4. \A a : after(a) \subseteq V
    BY <1>1, <1>2
  <1>5. ASSUME NEW s \in States PROVE step(s) \in States
    <2>1. \A a \in s \cap sources : gives[a] \subseteq V
      BY <1>4
    <2> HIDE DEF gives
    <2>2. \A y \in step(s) : y \in s \/ \E a \in s \cap sources : y \in gives[a]
      OBVIOUS
    <2>3. \A y \in step(s) : y \in V
      BY <2>1, <2>2
    <2> QED
      BY <2>3
  <1>6. start \in States
    BY <1>4
  <1>u. \A s : \A y \in step(s) : y \in s \/ \E a \in s \cap sources : y \in after(a)
    OBVIOUS
  <1> HIDE DEF step, start
  <1>7. steps \in [1..N -> [States -> States]] /\ \A k \in 1..N : \A s \in States : steps[k][s] = step(s)
    BY <1>5
  <1> HIDE DEF steps, States
  <1>8. PICK f : IsWalk(f, N, States, start, steps)
    BY <1>3, <1>6, <1>7, StepsExist
  <1>9. f[0] = start /\ \A k \in 1..N : f[k] = step(f[k - 1])
    <2>1. \A k \in 1..N : k - 1 \in 0..N
      BY <1>3
    <2> QED
      BY <1>7, <1>8, <2>1 DEF IsWalk
  <1>10. IsClosure(f[N], start, sources, gives)
    <2>1. f[0] = start /\ \A k \in 1..N : f[k] = f[k - 1] \cup UNION {gives[a] : a \in f[k - 1] \cap sources}
      BY <1>9 DEF step
    <2>2. Cardinality(sources) <= N
      BY <1>3
    <2> HIDE DEF gives
    <2> QED
      BY <1>3, <2>1, <2>2, Saturates
  <1>11. ASSUME NEW y, Joined(r, x, y) PROVE y \in f[N]
    <2>1. PICK z : <<x, z>> \in r /\ Reaches(r, z, y)
      BY <1>11 DEF Joined
    <2>2. z \in f[N]
      BY <1>1, <1>10, <2>1 DEF IsClosure, start
    <2>3. ASSUME NEW e \in r, e[1] \in f[N] PROVE e[2] \in f[N]
      <3>1. e = <<e[1], e[2]>>
        OBVIOUS
      <3>2. e[1] \in sources
        BY <1>2, <3>1
      <3>3. gives[e[1]] \subseteq f[N]
        BY <1>10, <2>3, <3>2 DEF IsClosure
      <3>4. e[2] \in after(e[1])
        BY <1>1, <3>1
      <3> QED
        BY <3>2, <3>3, <3>4
    <2> QED
      BY <2>1, <2>2, <2>3 DEF Reaches
  <1>12. ASSUME NEW k \in 1..N, NEW y, y \in f[k] PROVE y \in f[k - 1] \/ \E a \in f[k - 1] : <<a, y>> \in r
    <2>1. y \in f[k - 1] \/ \E a \in f[k - 1] \cap sources : y \in after(a)
      BY <1>9, <1>12, <1>u
    <2> QED
      BY <1>1, <2>1
  <1>13. \A y : y \in f[0] <=> <<x, y>> \in r
    BY <1>1, <1>9 DEF start
  <1> QED
    BY <1>3, <1>11, <1>12, <1>13

\* The pairs joined by paths of twice the length, and twice that, are in the end all that are joined.
LEMMA PathsAreJoined ==
  ASSUME NEW n \in Nat, NEW V, V = 1..n, NEW r, r \subseteq V \X V
  PROVE  X!Paths(r) = JoinedPairs(V, r)
  <1> DEFINE sources == {e[1] : e \in r}
             N == Cardinality(sources)
             step(p) == p \cup UNION {{e[1]} \X X!Image(p, {e[2]}) : e \in p}
             Walks(g) == g = [k \in 0..N |-> IF k = 0 THEN r ELSE step(g[k - 1])]
             f == CHOOSE g : Walks(g)
             Pairs == SUBSET (V \X V)
             steps == [k \in 1..N |-> [p \in Pairs |-> step(p)]]
  <1>1. X!Paths(r) = f[N]
    <2>1. X!Cardinality(sources) = N
      BY SameCount
    <2> QED
      BY <2>1, Zenon DEF X!Paths
  <1>2. N \in Nat
    <2>1. \A x : N \in Nat
      BY StepsReachAll
    <2> QED
      BY <2>1
  <1>3. ASSUME NEW p \in Pairs
        PROVE  /\ step(p) \in Pairs /\ p \subseteq step(p)
               /\ \A x, y : <<x, y>> \in step(p) <=> <<x, y>> \in p \/ \E a : <<x, a>> \in p /\ <<a, y>> \in p
    <2>1. \A a, y : y \in X!Image(p, {a}) <=> <<a, y>> \in p
      <3> SUFFICES ASSUME NEW a, NEW y PROVE y \in X!Image(p, {a}) <=> <<a, y>> \in p
        OBVIOUS
      <3> DEFINE c == {a}
      <3>0. p \subseteq V \X V
        OBVIOUS
      <3>c. \A x : x \in c <=> x = a
        OBVIOUS
      <3> HIDE DEF c
      <3>1. y \in X!Image(p, c) <=> \E x \in c : <<x, y>> \in p
        BY <3>0, ImageOf
      <3>2. y \in X!Image(p, c) <=> <<a, y>> \in p
        BY <3>1, <3>c
      <3> QED
        BY <3>2 DEF c
    <2>2. \A q : q \in step(p) <=> q \in p \/ \E e \in p : q \in {e[1]} \X X!Image(p, {e[2]})
      OBVIOUS
    <2>3. \A e \in p : e = <<e[1], e[2]>> /\ e[1] \in V /\ e[2] \in V
      OBVIOUS
    <2> HIDE DEF step
    <2>4. ASSUME NEW x, NEW y PROVE <<x, y>> \in step(p) <=> <<x, y>> \in p \/ \E a : <<x, a>> \in p /\ <<a, y>> \in p
      <3>1. ASSUME NEW e \in p, <<x, y>> \in {e[1]} \X X!Image(p, {e[2]}) PROVE <<x, e[2]>> \in p /\ <<e[2], y>> \in p
        <4>1. x = e[1] /\ y \in X!Image(p, {e[2]})
          BY <3>1
        <4> QED
          BY <2>1, <2>3, <4>1
      <3>2. ASSUME NEW a, <<x, a>> \in p, <<a, y>> \in p PROVE \E e \in p : <<x, y>> \in {e[1]} \X X!Image(p, {e[2]})
        <4> DEFINE e == <<x, a>>
        <4>1. e[1] = x /\ e[2] = a
          OBVIOUS
        <4>2. y \in X!Image(p, {a})
          BY <2>1, <3>2
        <4>3. <<x, y>> \in {e[1]} \X X!Image(p, {e[2]})
          BY <4>1, <4>2
        <4> QED
          BY <3>2, <4>3
      <3> QED
        BY <2>2, <3>1, <3>2
    <2>5. ASSUME NEW q \in step(p) PROVE q \in V \X V
      <3>1. CASE q \in p
        BY <3>1
      <3>2. CASE q \notin p
        <4>1. PICK e \in p : q \in {e[1]} \X X!Image(p, {e[2]})
          BY <2>2, <2>5, <3>2
        <4>2. q = <<e[1], q[2]>> /\ q[2] \in X!Image(p, {e[2]})
          BY <4>1
        <4>3. <<e[2], q[2]>> \in p
          BY <2>1, <4>2
        <4>4. e[1] \in V /\ q[2] \in V
          BY <2>3, <4>3
        <4> QED
          BY <4>2, <4>4
      <3> QED
        BY <3>1, <3>2
    <2> QED
      BY <2>2, <2>4, <2>5
  <1> HIDE DEF step, N
  <1>4. r \in Pairs
    OBVIOUS
  <1>5. \E g : Walks(g)
    <2>1. steps \in [1..N -> [Pairs -> Pairs]] /\ \A k \in 1..N : \A p \in Pairs : steps[k][p] = step(p)
      BY <1>3
    <2> HIDE DEF steps, Pairs
    <2>2. PICK g : IsWalk(g, N, Pairs, r, steps)
      BY <1>2, <1>4, <2>1, StepsExist
    <2>3. ASSUME NEW k \in 1..N PROVE g[k] = step(g[k - 1])
      <3>1. k - 1 \in 0..N
        BY <1>2
      <3> QED
        BY <2>1, <2>2, <3>1 DEF IsWalk
    <2>4. Walks(g)
      BY <1>2, <2>2, <2>3 DEF IsWalk
    <2> QED
      BY <2>4
  <1>6. Walks(f)
    <2> HIDE DEF Walks
    <2> QED
      BY <1>5
  <1> HIDE DEF f
  <1>7. f[0] = r /\ \A k \in 1..N : f[k] = step(f[k - 1])
    BY <1>2, <1>6
  <1> HIDE DEF Walks, Pairs
  <1> DEFINE Sound(p) == \A x, y : <<x, y>> \in p => Joined(r, x, y)
             P == {k \in 0..N : f[k] \in Pairs /\ r \subseteq f[k] /\ Sound(f[k])}
  <1>8. 0 \in P
    <2>1. Sound(r)
      BY ReachesItself DEF Joined
    <2> QED
      BY <1>2, <1>4, <1>7, <2>1
  <1>9. ASSUME NEW k \in 1..N, k - 1 \in P PROVE k \in P
    <2> DEFINE p == f[k - 1]
    <2>1. p \in Pairs /\ r \subseteq p /\ Sound(p) /\ f[k] = step(p) /\ k \in 0..N
      BY <1>2, <1>7, <1>9
    <2> HIDE DEF p
    <2>2. /\ step(p) \in Pairs /\ p \subseteq step(p)
          /\ \A x, y : <<x, y>> \in step(p) <=> <<x, y>> \in p \/ \E a : <<x, a>> \in p /\ <<a, y>> \in p
      BY <1>3, <2>1
    <2>3. Sound(step(p))
      <3> SUFFICES ASSUME NEW x, NEW y, <<x, y>> \in step(p) PROVE Joined(r, x, y)
        OBVIOUS
      <3>1. CASE <<x, y>> \in p
        BY <2>1, <3>1
      <3>2. CASE \E a : <<x, a>> \in p /\ <<a, y>> \in p
        <4>1. PICK a : <<x, a>> \in p /\ <<a, y>> \in p
          BY <3>2
        <4>2. Joined(r, x, a) /\ Joined(r, a, y)
          BY <2>1, <4>1
        <4>3. PICK z : <<x, z>> \in r /\ Reaches(r, z, a)
          BY <4>2 DEF Joined
        <4>4. Reaches(r, z, y)
          BY <4>2, <4>3, JoinedReaches, ReachesOn
        <4> QED
          BY <4>3, <4>4 DEF Joined
      <3> QED
        BY <2>2, <3>1, <3>2
    <2> QED
      BY <2>1, <2>2, <2>3
  <1>10. 0..N \subseteq P
    <2> HIDE DEF P
    <2> QED
      BY <1>2, <1>8, <1>9, UpTo
  <1>11. \A k \in 0..N : f[k] \in Pairs /\ r \subseteq f[k] /\ Sound(f[k])
    BY <1>10
  <1>12. ASSUME NEW x, NEW y, Joined(r, x, y) PROVE <<x, y>> \in f[N]
    <2>1. PICK s : /\ \A w : w \in s[0] <=> <<x, w>> \in r
                   /\ \A k \in 1..N : \A w : w \in s[k] => w \in s[k - 1] \/ \E a \in s[k - 1] : <<a, w>> \in r
                   /\ \A w : Joined(r, x, w) => w \in s[N]
      BY StepsReachAll DEF N
    <2> DEFINE Q == {k \in 0..N : \A w \in s[k] : <<x, w>> \in f[k]}
    <2>2. 0 \in Q
      BY <1>2, <1>7, <2>1
    <2>3. ASSUME NEW k \in 1..N, k - 1 \in Q PROVE k \in Q
      <3> SUFFICES ASSUME NEW w \in s[k] PROVE <<x, w>> \in f[k]
        BY <1>2
      <3> DEFINE p == f[k - 1]
      <3>1. k - 1 \in 0..N /\ p \in Pairs /\ r \subseteq p /\ f[k] = step(p) /\ \A v \in s[k - 1] : <<x, v>> \in p
        BY <1>2, <1>7, <1>11, <2>3
      <3> HIDE DEF p
      <3>2. w \in s[k - 1] \/ \E a \in s[k - 1] : <<a, w>> \in r
        BY <2>1
      <3>3. <<x, w>> \in p \/ \E a : <<x, a>> \in p /\ <<a, w>> \in p
        BY <3>1, <3>2
      <3>4. <<x, w>> \in step(p) <=> <<x, w>> \in p \/ \E a : <<x, a>> \in p /\ <<a, w>> \in p
        BY <1>3, <3>1
      <3> QED
        BY <3>1, <3>3, <3>4
    <2>4. 0..N \subseteq Q
      <3> HIDE DEF Q
      <3> QED
        BY <1>2, <2>2, <2>3, UpTo
    <2> QED
      BY <1>2, <1>12, <2>1, <2>4
  <1>13. f[N] \in Pairs /\ Sound(f[N])
    BY <1>2, <1>11
  <1>14. ASSUME NEW p \in f[N] PROVE p \in V \X V /\ Joined(r, p[1], p[2])
    <2>1. p \in V \X V
      BY <1>13 DEF Pairs
    <2>2. p = <<p[1], p[2]>>
      BY <2>1
    <2> QED
      BY <1>13, <2>1, <2>2
  <1>15. ASSUME NEW p \in V \X V, Joined(r, p[1], p[2]) PROVE p \in f[N]
    <2>1. p = <<p[1], p[2]>>
      OBVIOUS
    <2> QED
      BY <1>12, <1>15, <2>1
  <1> QED
    BY <1>1, <1>14, <1>15 DEF JoinedPairs

(* A question of the family "closure": a relation on the first numbers. *)
IsRelationQuestion(q) == q.size \in Nat /\ q.relation \subseteq (1..q.size) \X (1..q.size)

(* For any relation on any number of vertices: the closure that the callers    *)
(* and the cycles of modules are read from (relation.rs, transitive_closure)    *)
(* joins two of them exactly when a path does, and no component that the        *)
(* search closes leads to a later one.                                          *)
THEOREM ClosuresAreRight ==
  ASSUME NEW q, IsRelationQuestion(q)
  PROVE  X!ClosureIsReach(q)
  <1> DEFINE n == q.size
             V == 1..n
             r == q.relation
             cs == X!Components(n, X!Neighbours(n, r))
  <1>1. n \in Nat /\ r \subseteq V \X V
    BY DEF IsRelationQuestion
  <1>2. V = 1..n
    OBVIOUS
  <1>3. X!ClosureIsReach(q) <=> /\ X!Closure(n, r) = X!Paths(r)
                                /\ \A i \in DOMAIN cs, k \in DOMAIN cs : i < k => cs[k] \cap X!Image(r, cs[i]) = {}
    BY Zenon DEF X!ClosureIsReach
  <1> HIDE DEF n, V, r, cs
  <1>4. X!Closure(n, r) = X!Paths(r)
    BY <1>1, <1>2, ClosureIsJoined, PathsAreJoined
  <1>5. AreOrdered(V, r, cs)
    BY <1>1, <1>2, NeighboursAreListed, ComponentsAreRight DEF cs
  <1>6. ASSUME NEW i \in DOMAIN cs, NEW k \in DOMAIN cs, i < k PROVE cs[k] \cap X!Image(r, cs[i]) = {}
    <2> SUFFICES ASSUME NEW y \in cs[k], y \in X!Image(r, cs[i]) PROVE FALSE
      OBVIOUS
    <2>1. PICK x \in cs[i] : <<x, y>> \in r
      BY <1>1, ImageOf
    <2>2. PICK l \in 1..i : l \in DOMAIN cs /\ y \in cs[l]
      BY <1>1, <1>5, <2>1, ReachesAlong, ReachedIsEarlier
    <2>3. l = k
      BY <1>5, <2>2 DEF AreOrdered
    <2>4. DOMAIN cs = 1..Len(cs) /\ Len(cs) \in Nat
      BY <1>5, PlacesOf DEF AreOrdered
    <2> QED
      BY <1>6, <2>2, <2>3, <2>4
  <1> QED
    BY <1>3, <1>4, <1>5, <1>6
=============================================================================
