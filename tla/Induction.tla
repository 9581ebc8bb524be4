------------------------------ MODULE Induction ------------------------------
(***************************************************************************)
(* Facts about numbers and finite sets that the proofs about recursive     *)
(* functions rest on.  What is computed in N steps is a function over      *)
(* 0..N, and what holds of all of it is proved by induction over the set   *)
(* of the steps at which it holds.                                         *)
(***************************************************************************)
EXTENDS Naturals, FiniteSets, FiniteSetTheorems, TLAPS

-----------------------------------------------------------------------------
(* The least of a set of numbers; induction over the first numbers, and      *)
(* walks of a given length.                                                  *)

LEMMA LeastExists ==
  ASSUME NEW T \in SUBSET Nat, T # {}
  PROVE \E x \in T : \A y \in T : x <= y
  <1> DEFINE U == {0..x : x \in T}
  <1>1. U # {} /\ U \subseteq FiniteSubsetsOf(Nat)
    <2>1. ASSUME NEW x \in T PROVE 0..x \in FiniteSubsetsOf(Nat)
      <3>1. IsFiniteSet(0..x) /\ 0..x \subseteq Nat
        BY FS_Interval
      <3> QED
        BY <3>1 DEF FiniteSubsetsOf
    <2> QED
      BY <2>1
  <1>2. IsWellFoundedOn(StrictSubsetOrdering(Nat), FiniteSubsetsOf(Nat))
    BY FS_StrictSubsetOrderingWellFounded
  <1> HIDE DEF U
  <1>3. PICK u \in U : \A v \in U : <<v, u>> \notin StrictSubsetOrdering(Nat)
    BY <1>1, <1>2, WFMin
  <1>4. PICK x \in T : u = 0..x
    BY DEF U
  <1>5. ASSUME NEW y \in T, y < x PROVE FALSE
    <2>1. 0..y \in U BY DEF U
    <2>2. 0..y \subseteq 0..x /\ x \in 0..x /\ x \notin 0..y BY <1>5
    <2>3. 0..y \subseteq Nat /\ 0..x \subseteq Nat OBVIOUS
    <2>4. <<0..y, 0..x>> \in StrictSubsetOrdering(Nat)
      BY <2>2, <2>3 DEF StrictSubsetOrdering
    <2> QED BY <1>3, <1>4, <2>1, <2>4
  <1> QED BY <1>5

\* What holds at the first step and of each step after one at which it holds, holds of all.
LEMMA UpTo ==
  ASSUME NEW N \in Nat, NEW P, 0 \in P, \A n \in 1..N : n - 1 \in P => n \in P
  PROVE  0..N \subseteq P
  <1> SUFFICES ASSUME ~(0..N \subseteq P) PROVE FALSE
    OBVIOUS
  <1> DEFINE T == (0..N) \ P
  <1>1. PICK n \in T : \A k \in T : n <= k
    <2>1. T \in SUBSET Nat /\ T # {}
      OBVIOUS
    <2> QED
      BY <2>1, LeastExists
  <1>2. n \in 1..N /\ n - 1 \in 0..N /\ ~(n <= n - 1)
    BY <1>1
  <1>3. n - 1 \in P
    BY <1>1, <1>2
  <1> QED
    BY <1>1, <1>2, <1>3

(* N steps, from s0 on. *)
IsWalk(f, N, S, s0, step) == f \in [0..N -> S] /\ f[0] = s0 /\ \A n \in 1..N : f[n] = step[n][f[n - 1]]

\* There is a walk of every length.
LEMMA StepsExist ==
  ASSUME NEW N \in Nat, NEW S, NEW s0 \in S, NEW step \in [1..N -> [S -> S]]
  PROVE  \E f : IsWalk(f, N, S, s0, step)
  <1> DEFINE Walks(n, f) == f \in [0..n -> S] /\ f[0] = s0 /\ \A k \in 1..n : f[k] = step[k][f[k - 1]]
             P == {n \in 0..N : \E f : Walks(n, f)}
  <1> HIDE DEF Walks
  <1>1. 0 \in P
    <2>1. Walks(0, [n \in 0..0 |-> s0])
      BY DEF Walks
    <2> QED
      BY <2>1
  <1>2. ASSUME NEW n \in 1..N, n - 1 \in P PROVE n \in P
    <2>1. PICK f : Walks(n - 1, f)
      BY <1>2
    <2> DEFINE g == [k \in 0..n |-> IF k = n THEN step[n][f[n - 1]] ELSE f[k]]
    <2>2. Walks(n, g)
      <3>1. n - 1 \in 0..(n - 1) /\ 0 \in 0..n /\ 0 # n
        OBVIOUS
      <3>2. g \in [0..n -> S] /\ g[0] = s0
        BY <2>1, <3>1 DEF Walks
      <3>3. ASSUME NEW k \in 1..n PROVE g[k] = step[k][g[k - 1]]
        <4>1. CASE k = n
          BY <4>1
        <4>2. CASE k # n
          <5>1. k \in 1..(n - 1) /\ k - 1 \in 0..n /\ k - 1 # n /\ k \in 0..n
            BY <4>2
          <5> QED
            BY <2>1, <4>2, <5>1 DEF Walks
        <4> QED
          BY <4>1, <4>2
      <3> QED
        BY <3>2, <3>3 DEF Walks
    <2> QED
      BY <2>2
  <1> HIDE DEF P
  <1>3. N \in P
    <2>1. 0..N \subseteq P
      BY <1>1, <1>2, UpTo
    <2> QED
      BY <2>1
  <1>4. PICK f : Walks(N, f)
    BY <1>3 DEF P
  <1>5. IsWalk(f, N, S, s0, step)
    BY <1>4 DEF Walks, IsWalk
  <1> QED
    BY <1>5

(* The least set that holds `start` and what each of its members leads to. *)
IsClosure(Y, start, Givers, gives) ==
  /\ start \subseteq Y
  /\ \A a \in Y \cap Givers : gives[a] \subseteq Y
  /\ \A S : start \subseteq S /\ (\A a \in S \cap Givers : gives[a] \subseteq S) => Y \subseteq S

\* What is gathered from `start` in as many steps as there are members of `Givers` that lead on is the
\* least set that holds `start` and what each of its members leads to.
LEMMA Saturates ==
  ASSUME NEW Givers, IsFiniteSet(Givers), NEW gives, NEW N \in Nat, Cardinality(Givers) <= N, NEW start, NEW f,
         f[0] = start, \A n \in 1..N : f[n] = f[n - 1] \cup UNION {gives[a] : a \in f[n - 1] \cap Givers}
  PROVE  IsClosure(f[N], start, Givers, gives)
  <1> DEFINE Closed(Y) == \A a \in Y \cap Givers : gives[a] \subseteq Y
             P == {n \in 0..N : start \subseteq f[n] /\ (Closed(f[n]) \/ Cardinality(f[n] \cap Givers) >= n + 1)}
  <1>0. \A Y : IsFiniteSet(Y \cap Givers) /\ Cardinality(Y \cap Givers) \in Nat /\ Cardinality(Y \cap Givers) <= Cardinality(Givers)
                 /\ Cardinality(Givers) \in Nat
    <2> TAKE Y
    <2>1. Y \cap Givers \subseteq Givers
      OBVIOUS
    <2> QED
      BY <2>1, FS_Subset, FS_CardinalityType
  <1> HIDE DEF Closed
  <1>1. 0 \in P
    <2>1. CASE f[0] \cap Givers = {}
      BY <2>1 DEF Closed
    <2>2. CASE f[0] \cap Givers # {}
      <3>1. Cardinality(f[0] \cap Givers) # 0
        BY <1>0, <2>2, FS_EmptySet
      <3> QED
        BY <1>0, <3>1
    <2> QED
      BY <2>1, <2>2
  <1>2. ASSUME NEW n \in 1..N, n - 1 \in P PROVE n \in P
    <2>1. f[n - 1] \subseteq f[n] /\ \A a \in f[n - 1] \cap Givers : gives[a] \subseteq f[n]
      OBVIOUS
    <2>2. CASE Closed(f[n - 1])
      <3>1. UNION {gives[a] : a \in f[n - 1] \cap Givers} \subseteq f[n - 1]
        BY <2>2 DEF Closed
      <3>2. f[n] = f[n - 1] \cup UNION {gives[a] : a \in f[n - 1] \cap Givers}
        OBVIOUS
      <3>3. f[n] = f[n - 1]
        BY <3>1, <3>2
      <3> QED
        BY <1>2, <2>2, <3>3
    <2>3. CASE Cardinality(f[n - 1] \cap Givers) >= n
      <3>1. CASE f[n] \cap Givers = f[n - 1] \cap Givers
        BY <1>2, <2>1, <3>1 DEF Closed
      <3>2. CASE f[n] \cap Givers # f[n - 1] \cap Givers
        <4>1. f[n - 1] \cap Givers \subseteq f[n] \cap Givers
          BY <2>1
        <4>2. Cardinality(f[n - 1] \cap Givers) <= Cardinality(f[n] \cap Givers)
          BY <1>0, <4>1, FS_Subset
        <4>3. Cardinality(f[n - 1] \cap Givers) # Cardinality(f[n] \cap Givers)
          BY <1>0, <3>2, <4>1, FS_Subset
        <4>4. Cardinality(f[n - 1] \cap Givers) \in Nat /\ Cardinality(f[n] \cap Givers) \in Nat
          BY <1>0
        <4>5. Cardinality(f[n] \cap Givers) >= n + 1
          BY <2>3, <4>2, <4>3, <4>4
        <4> QED
          BY <1>2, <2>1, <4>5
      <3> QED
        BY <3>1, <3>2
    <2> QED
      BY <1>2, <2>2, <2>3
  <1>3. N \in P
    <2> HIDE DEF P
    <2> QED
      BY <1>1, <1>2, UpTo
  <1>4. Closed(f[N])
    <2>1. Cardinality(f[N] \cap Givers) \in Nat /\ Cardinality(f[N] \cap Givers) <= N
      BY <1>0
    <2>2. Closed(f[N]) \/ Cardinality(f[N] \cap Givers) >= N + 1
      BY <1>3
    <2> QED
      BY <2>1, <2>2
  <1>5. ASSUME NEW S, start \subseteq S, \A a \in S \cap Givers : gives[a] \subseteq S
        PROVE  f[N] \subseteq S
    <2> DEFINE Q == {n \in 0..N : f[n] \subseteq S}
    <2>1. 0 \in Q
      BY <1>5
    <2>2. ASSUME NEW n \in 1..N, n - 1 \in Q PROVE n \in Q
      BY <1>5, <2>2
    <2> HIDE DEF Q
    <2>3. N \in Q
      BY <2>1, <2>2, UpTo
    <2> QED
      BY <2>3 DEF Q
  <1> QED
    BY <1>3, <1>4, <1>5 DEF Closed, IsClosure

\* Among finitely many numbers there is one with i - 1 before it, for every i up to their count.
LEMMA RanksExist ==
  ASSUME NEW S \in SUBSET Nat, IsFiniteSet(S), NEW i \in 1..Cardinality(S)
  PROVE  \E o \in S : Cardinality({p \in S : p < o}) = i - 1
  <1> DEFINE N == Cardinality(S)
             Before(o) == {p \in S : p < o}
             P == {k \in 0..N : k = 0 \/ \E o \in S : Cardinality(Before(o)) = k - 1}
  <1>0. \A o \in S : o \in Nat
    OBVIOUS
  <1>1. N \in Nat
    BY FS_CardinalityType
  <1>2. \A o : IsFiniteSet(Before(o)) /\ Cardinality(Before(o)) \in Nat
    BY FS_Subset, FS_CardinalityType
  <1>3. 0 \in P
    BY <1>1
  <1>4. ASSUME NEW k \in 1..N, k - 1 \in P PROVE k \in P
    <2>1. CASE k = 1
      <3>1. S # {}
        BY <1>4, <2>1, FS_EmptySet
      <3>2. PICK o \in S : \A p \in S : o <= p
        BY <3>1, LeastExists
      <3>3. Before(o) = {}
        <4>1. \A p \in S : o \in Nat /\ p \in Nat /\ o <= p
          BY <1>0, <3>2
        <4>2. \A p \in S : ~(p < o)
          BY <4>1
        <4> QED
          BY <4>2
      <3>4. Cardinality(Before(o)) = k - 1
        BY <2>1, <3>3, FS_EmptySet
      <3>5. k \in 0..N
        BY <1>1, <1>4
      <3> HIDE DEF Before
      <3> QED
        BY <3>4, <3>5
    <2>2. CASE k # 1
      <3>1. PICK o \in S : Cardinality(Before(o)) = (k - 1) - 1
        BY <1>4, <2>2
      <3> HIDE DEF Before
      <3>2. Cardinality(Before(o) \cup {o}) = k - 1
        <4>1. o \notin Before(o)
          BY <1>0 DEF Before
        <4>2. Cardinality(Before(o) \cup {o}) = Cardinality(Before(o)) + 1
          BY <1>2, <4>1, FS_AddElement
        <4> QED
          BY <1>1, <1>4, <3>1, <4>2
      <3> DEFINE After == {p \in S : o < p}
      <3>3. After # {}
        <4>1. After = {} => S = Before(o) \cup {o}
          <5>1. \A p \in S : p < o \/ p = o \/ o < p
            BY <1>0
          <5> QED
            BY <5>1 DEF Before
        <4>2. CASE After = {}
          <5>1. N = k - 1
            BY <3>2, <4>1, <4>2
          <5> QED
            BY <1>1, <1>4, <5>1
        <4> QED
          BY <4>2
      <3>4. PICK next \in After : \A p \in After : next <= p
        <4>1. After \in SUBSET Nat
          BY <1>0
        <4> HIDE DEF After
        <4> QED
          BY <3>3, <4>1, LeastExists
      <3>5. Before(next) = Before(o) \cup {o}
        <4>1. \A p \in S : p < next <=> p < o \/ p = o
          BY <1>0, <3>4
        <4> QED
          BY <4>1 DEF Before
      <3>6. next \in S /\ Cardinality(Before(next)) = k - 1
        BY <3>2, <3>4, <3>5
      <3> QED
        BY <1>4, <3>6
    <2> QED
      BY <2>1, <2>2
  <1>5. i \in P
    <2> HIDE DEF P
    <2> QED
      BY <1>1, <1>3, <1>4, UpTo
  <1> QED
    BY <1>1, <1>5
=============================================================================
