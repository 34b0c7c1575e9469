-------------------------------- MODULE Sums --------------------------------
(***************************************************************************)
(* Sums over finite sets, as the modules write them: MapThenSumSet adds    *)
(* the elements in the order CHOOSE gives them.  What the proofs need is   *)
(* that the order does not matter.                                         *)
(***************************************************************************)
EXTENDS Integers, FiniteSets, FiniteSetsExt, FiniteSetTheorems, WellFoundedInduction, TLAPS

\* The sum of f over S.
SumOf(f, S) == MapThenSumSet(LAMBDA x : f[x], S)

\* Induction over the naturals, on the set of those that have a property.
LEMMA SetOfNaturals ==
  ASSUME NEW S, 0 \in S, \A n \in Nat : n \in S => n + 1 \in S
  PROVE  \A n \in Nat : n \in S
<1> DEFINE T == {n \in Nat : n \notin S}
<1>1. SUFFICES ASSUME T # {} PROVE FALSE
  OBVIOUS
<1>2. PICK m \in T : \A k \in T : ~ (<<k, m>> \in OpToRel(<, Nat))
  BY <1>1, NatLessThanWellFounded, WFMin
<1>3. \A k \in T : ~ (k < m)
  BY <1>2 DEF OpToRel
<1>4. m \in Nat /\ m # 0 /\ m - 1 \in Nat /\ m - 1 < m
  OBVIOUS
<1>5. m - 1 \in S
  BY <1>3, <1>4
<1> QED
  BY <1>4, <1>5

LEMMA OneLess ==
  ASSUME NEW T, IsFiniteSet(T), NEW n \in Nat, Cardinality(T) = n + 1, NEW a \in T
  PROVE  Cardinality(T \ {a}) = n
BY FS_RemoveElement

\* Induction over a finite set, on the set of its subsets that have a property.
LEMMA SetOfSubsets ==
  ASSUME NEW S, IsFiniteSet(S), NEW X, {} \in X,
         \A T \in SUBSET S : \A a \in S \ T : T \in X => T \cup {a} \in X
  PROVE  S \in X
<1> DEFINE N == {n \in Nat : \A T \in SUBSET S : Cardinality(T) = n => T \in X}
<1>1. \A T \in SUBSET S : IsFiniteSet(T) /\ Cardinality(T) \in Nat
  BY FS_Subset, FS_CardinalityType
<1>2. 0 \in N
  BY <1>1, FS_EmptySet
<1>3. ASSUME NEW n \in Nat, n \in N
      PROVE  n + 1 \in N
  <2>1. ASSUME NEW T \in SUBSET S, Cardinality(T) = n + 1
        PROVE  T \in X
    <3>1. T # {}
      BY <2>1, FS_EmptySet
    <3>2. PICK a \in T : TRUE
      BY <3>1
    <3>3. T \ {a} \in SUBSET S /\ Cardinality(T \ {a}) = n
      BY <1>1, <2>1, OneLess
    <3>4. T \ {a} \in X
      BY <1>3, <3>3
    <3>5. (T \ {a}) \cup {a} = T /\ a \in S \ (T \ {a})
      OBVIOUS
    <3> QED
      BY <3>3, <3>4, <3>5
  <2> QED
    BY <2>1
<1> HIDE DEF N
<1>4. \A n \in Nat : n \in N
  BY <1>2, <1>3, SetOfNaturals
<1> QED
  BY <1>1, <1>4 DEF N

-----------------------------------------------------------------------------
\* The element taken first, and what a step of the sum is.
FirstOf(s) == CHOOSE x \in s : TRUE

StepOf(f, g, s) == IF s = {} THEN 0 ELSE f[FirstOf(s)] + g[s \ {FirstOf(s)}]

\* g has the sums of f over the subsets of S.
Adds(g, f, S) == g = [s \in SUBSET S |-> StepOf(f, g, s)]

LEMMA FirstIn ==
  ASSUME NEW s, s # {}
  PROVE  FirstOf(s) \in s
BY DEF FirstOf

LEMMA SumIsChosen ==
  ASSUME NEW f, NEW S
  PROVE  SumOf(f, S) = (CHOOSE g : Adds(g, f, S))[S]
BY DEF SumOf, MapThenSumSet, MapThenFoldSet, Adds, StepOf, FirstOf

LEMMA AddsAt ==
  ASSUME NEW f, NEW g, NEW S, Adds(g, f, S), NEW s \in SUBSET S
  PROVE  g[s] = StepOf(f, g, s)
BY DEF Adds

\* There is such a function.
LEMMA AddsExists ==
  ASSUME NEW f, NEW S, IsFiniteSet(S)
  PROVE  \E g : Adds(g, f, S)
<1> DEFINE Upto(g, n) ==
             /\ g = [s \in SUBSET S |-> g[s]]
             /\ \A s \in SUBSET S : Cardinality(s) <= n => g[s] = StepOf(f, g, s)
           N == {n \in Nat : \E g : Upto(g, n)}
<1>1. \A s \in SUBSET S : IsFiniteSet(s) /\ Cardinality(s) \in Nat
  BY FS_Subset, FS_CardinalityType
<1>2. 0 \in N
  <2> DEFINE g == [s \in SUBSET S |-> 0]
  <2>1. ASSUME NEW s \in SUBSET S, Cardinality(s) <= 0
        PROVE  g[s] = StepOf(f, g, s)
    <3>1. s = {}
      BY <1>1, <2>1, FS_EmptySet
    <3> QED
      BY <3>1 DEF StepOf
  <2>2. Upto(g, 0)
    BY <2>1
  <2> QED
    BY <2>2
<1>3. ASSUME NEW n \in Nat, n \in N
      PROVE  n + 1 \in N
  <2>1. PICK g : Upto(g, n)
    BY <1>3
  <2> DEFINE h == [s \in SUBSET S |-> StepOf(f, g, s)]
  <2>2. ASSUME NEW s \in SUBSET S, Cardinality(s) <= n
        PROVE  h[s] = g[s]
    BY <2>1, <2>2
  <2>3. ASSUME NEW s \in SUBSET S, Cardinality(s) <= n + 1
        PROVE  h[s] = StepOf(f, h, s)
    <3>1. CASE s = {}
      BY <3>1 DEF StepOf
    <3>2. CASE s # {}
      <4> DEFINE t == s \ {FirstOf(s)}
      <4>1. FirstOf(s) \in s
        BY <3>2, FirstIn
      <4>2. t \in SUBSET S /\ Cardinality(t) <= n
        BY <1>1, <2>3, <4>1, FS_RemoveElement
      <4>3. h[t] = g[t]
        BY <2>2, <4>2
      <4>4. h[s] = f[FirstOf(s)] + g[t] /\ StepOf(f, h, s) = f[FirstOf(s)] + h[t]
        BY <3>2 DEF StepOf
      <4> QED
        BY <4>3, <4>4
    <3> QED
      BY <3>1, <3>2
  <2>4. Upto(h, n + 1)
    BY <2>3
  <2> HIDE DEF Upto, h
  <2> QED
    BY <2>4
<1> HIDE DEF N
<1>4. \A n \in Nat : n \in N
  BY <1>2, <1>3, SetOfNaturals
<1>5. Cardinality(S) \in N
  BY <1>1, <1>4
<1>6. PICK g : Upto(g, Cardinality(S))
  BY <1>5 DEF N
<1>7. \A s \in SUBSET S : g[s] = StepOf(f, g, s)
  BY <1>1, <1>6, FS_Subset
<1> QED
  BY <1>6, <1>7 DEF Adds

\* Two of them agree, whatever sets they are for.
LEMMA AddsAgree ==
  ASSUME NEW f, NEW g, NEW S, NEW h, NEW T, Adds(g, f, S), Adds(h, f, T),
         T \subseteq S, IsFiniteSet(T)
  PROVE  g[T] = h[T]
<1> DEFINE N == {n \in Nat : \A s \in SUBSET T : Cardinality(s) = n => g[s] = h[s]}
<1>1. \A s \in SUBSET T : /\ IsFiniteSet(s) /\ Cardinality(s) \in Nat
                          /\ g[s] = StepOf(f, g, s) /\ h[s] = StepOf(f, h, s)
  BY FS_Subset, FS_CardinalityType, AddsAt
<1>2. 0 \in N
  <2>1. ASSUME NEW s \in SUBSET T, Cardinality(s) = 0
        PROVE  g[s] = h[s]
    BY <1>1, <2>1, FS_EmptySet DEF StepOf
  <2> QED
    BY <2>1
<1>3. ASSUME NEW n \in Nat, n \in N
      PROVE  n + 1 \in N
  <2>1. ASSUME NEW s \in SUBSET T, Cardinality(s) = n + 1
        PROVE  g[s] = h[s]
    <3>1. s # {}
      BY <2>1, FS_EmptySet
    <3>2. FirstOf(s) \in s
      BY <3>1, FirstIn
    <3> DEFINE t == s \ {FirstOf(s)}
    <3>3. t \in SUBSET T /\ Cardinality(t) = n
      BY <1>1, <2>1, <3>2, OneLess
    <3>4. g[t] = h[t]
      BY <1>3, <3>3
    <3>5. g[s] = f[FirstOf(s)] + g[t] /\ h[s] = f[FirstOf(s)] + h[t]
      BY <1>1, <3>1 DEF StepOf
    <3> QED
      BY <3>4, <3>5
  <2> QED
    BY <2>1
<1> HIDE DEF N
<1>4. \A n \in Nat : n \in N
  BY <1>2, <1>3, SetOfNaturals
<1>5. Cardinality(T) \in N
  BY <1>1, <1>4
<1> QED
  BY <1>5 DEF N

\* Any function that has the sums has that of S.
LEMMA SumOfAdds ==
  ASSUME NEW f, NEW g, NEW S, IsFiniteSet(S), Adds(g, f, S), NEW T \in SUBSET S
  PROVE  SumOf(f, T) = g[T]
<1>1. IsFiniteSet(T)
  BY FS_Subset
<1> DEFINE h == CHOOSE k : Adds(k, f, T)
<1>2. Adds(h, f, T)
  BY <1>1, AddsExists
<1>3. SumOf(f, T) = h[T]
  BY SumIsChosen
<1> HIDE DEF h
<1> QED
  BY <1>1, <1>2, <1>3, AddsAgree

\* One step of a sum.
LEMMA SumStep ==
  ASSUME NEW f, NEW S, IsFiniteSet(S)
  PROVE  SumOf(f, S) = IF S = {} THEN 0 ELSE f[FirstOf(S)] + SumOf(f, S \ {FirstOf(S)})
<1>1. PICK g : Adds(g, f, S)
  BY AddsExists
<1>2. S \in SUBSET S /\ S \ {FirstOf(S)} \in SUBSET S
  OBVIOUS
<1>3. SumOf(f, S) = g[S] /\ SumOf(f, S \ {FirstOf(S)}) = g[S \ {FirstOf(S)}]
  BY <1>1, <1>2, SumOfAdds
<1> QED
  BY <1>1, <1>2, <1>3, AddsAt DEF StepOf

\* The sum of integers is an integer, and an element can be taken out anywhere.
LEMMA SumAdd ==
  ASSUME NEW f, NEW U, IsFiniteSet(U), \A x \in U : f[x] \in Int
  PROVE  \A S \in SUBSET U : /\ SumOf(f, S) \in Int
                             /\ \A a \in U \ S : SumOf(f, S \cup {a}) = f[a] + SumOf(f, S)
<1> DEFINE P(S) == /\ SumOf(f, S) \in Int
                   /\ \A a \in U \ S : SumOf(f, S \cup {a}) = f[a] + SumOf(f, S)
           N == {n \in Nat : \A S \in SUBSET U : Cardinality(S) = n => P(S)}
<1>1. \A S \in SUBSET U : IsFiniteSet(S) /\ Cardinality(S) \in Nat
  BY FS_Subset, FS_CardinalityType
<1>2. 0 \in N
  <2>1. SumOf(f, {}) = 0
    BY FS_EmptySet, SumStep
  <2>2. ASSUME NEW a \in U
        PROVE  SumOf(f, {} \cup {a}) = f[a] + SumOf(f, {})
    <3>1. IsFiniteSet({a}) /\ FirstOf({a}) = a /\ {a} # {} /\ {a} \ {a} = {}
      BY FS_Singleton DEF FirstOf
    <3>2. SumOf(f, {a}) = f[a] + SumOf(f, {})
      BY <3>1, SumStep
    <3> QED
      BY <3>2
  <2>3. ASSUME NEW S \in SUBSET U, Cardinality(S) = 0
        PROVE  S = {}
    BY <1>1, <2>3, FS_EmptySet
  <2>4. P({})
    BY <2>1, <2>2
  <2> HIDE DEF P
  <2> QED
    BY <2>3, <2>4
<1>3. ASSUME NEW n \in Nat, n \in N
      PROVE  n + 1 \in N
  <2>1. ASSUME NEW S \in SUBSET U, Cardinality(S) = n + 1
        PROVE  P(S)
    <3>1. S # {} /\ FirstOf(S) \in S
      BY <2>1, FS_EmptySet, FirstIn
    <3> DEFINE b == FirstOf(S)
               R == S \ {b}
    <3>2. R \in SUBSET U /\ Cardinality(R) = n /\ b \in U \ R /\ f[b] \in Int
      BY <1>1, <2>1, <3>1, OneLess
    <3>3. P(R)
      BY <1>3, <3>2
    <3>4. SumOf(f, S) = f[b] + SumOf(f, R)
      BY <1>1, <3>1, SumStep
    <3> HIDE DEF b
    <3>5. ASSUME NEW a \in U \ S
          PROVE  SumOf(f, S \cup {a}) = f[a] + SumOf(f, S)
      <4> DEFINE V == S \cup {a}
                 c == FirstOf(V)
      <4>1. V \in SUBSET U /\ V # {} /\ c \in V
        BY FirstIn
      <4>2. SumOf(f, V) = f[c] + SumOf(f, V \ {c})
        BY <1>1, <4>1, SumStep
      <4> HIDE DEF c
      <4>3. CASE c = a
        <5>1. V \ {c} = S
          BY <4>3
        <5> QED
          BY <4>2, <4>3, <5>1
      <4>4. CASE c # a
        <5> DEFINE Q == S \ {c}
        <5>1. c \in S /\ Q \in SUBSET U /\ c \in U \ Q /\ a \in U \ Q
          BY <4>1, <4>4
        <5>2. Cardinality(Q) = n
          BY <1>1, <2>1, <5>1, FS_RemoveElement
        <5>3. P(Q)
          BY <1>3, <5>1, <5>2
        <5>4. V \ {c} = Q \cup {a} /\ S = Q \cup {c}
          BY <4>4, <5>1
        <5>5. SumOf(f, V \ {c}) = f[a] + SumOf(f, Q) /\ SumOf(f, S) = f[c] + SumOf(f, Q)
          BY <5>1, <5>3, <5>4
        <5>6. f[a] \in Int /\ f[c] \in Int /\ SumOf(f, Q) \in Int
          BY <5>1, <5>3
        <5> QED
          BY <4>2, <5>5, <5>6
      <4> QED
        BY <4>3, <4>4
    <3>6. SumOf(f, R) \in Int
      BY <3>3
    <3>7. SumOf(f, S) \in Int
      BY <3>2, <3>4, <3>6
    <3> QED
      BY <3>5, <3>7
  <2> QED
    BY <2>1
<1> HIDE DEF N
<1>4. \A n \in Nat : n \in N
  BY <1>2, <1>3, SetOfNaturals
<1> QED
  BY <1>1, <1>4 DEF N

\* Taking out one element.
LEMMA SumSplit ==
  ASSUME NEW f, NEW S, IsFiniteSet(S), \A x \in S : f[x] \in Int, NEW a \in S
  PROVE  SumOf(f, S) = f[a] + SumOf(f, S \ {a}) /\ SumOf(f, S) \in Int /\ SumOf(f, S \ {a}) \in Int
<1> DEFINE R == S \ {a}
<1>1. R \in SUBSET S /\ S \in SUBSET S /\ a \in S \ R /\ R \cup {a} = S
  OBVIOUS
<1> HIDE DEF R
<1>2. SumOf(f, R) \in Int /\ SumOf(f, S) \in Int /\ SumOf(f, R \cup {a}) = f[a] + SumOf(f, R)
  BY <1>1, SumAdd
<1> QED
  BY <1>1, <1>2 DEF R

LEMMA SumEmpty ==
  ASSUME NEW f
  PROVE  SumOf(f, {}) = 0
BY FS_EmptySet, SumStep

\* A sum of naturals is a natural.
LEMMA SumNat ==
  ASSUME NEW f, NEW S, IsFiniteSet(S), \A x \in S : f[x] \in Nat
  PROVE  SumOf(f, S) \in Nat
<1> DEFINE X == {T \in SUBSET S : SumOf(f, T) \in Nat}
<1>1. {} \in X
  BY SumEmpty
<1>2. ASSUME NEW T \in SUBSET S, NEW a \in S \ T, T \in X
      PROVE  T \cup {a} \in X
  <2>1. \A x \in S : f[x] \in Int
    OBVIOUS
  <2>2. SumOf(f, T \cup {a}) = f[a] + SumOf(f, T)
    BY <2>1, SumAdd
  <2>3. SumOf(f, T) \in Nat /\ f[a] \in Nat /\ T \cup {a} \in SUBSET S
    BY <1>2
  <2> QED
    BY <2>2, <2>3
<1> HIDE DEF X
<1>3. S \in X
  BY <1>1, <1>2, SetOfSubsets
<1> QED
  BY <1>3 DEF X

\* No element of a sum of naturals is above it.
LEMMA SumBounds ==
  ASSUME NEW f, NEW S, IsFiniteSet(S), \A x \in S : f[x] \in Nat, NEW a \in S
  PROVE  SumOf(f, S) \in Nat /\ f[a] <= SumOf(f, S)
<1>1. IsFiniteSet(S \ {a})
  BY FS_RemoveElement
<1>2. SumOf(f, S \ {a}) \in Nat
  BY <1>1, SumNat
<1>3. SumOf(f, S) = f[a] + SumOf(f, S \ {a})
  BY SumSplit
<1> QED
  BY <1>2, <1>3

\* A sum is that of the elements, whatever function they are read from.
LEMMA SumSame ==
  ASSUME NEW f, NEW h, NEW S, IsFiniteSet(S), \A x \in S : f[x] = h[x]
  PROVE  SumOf(f, S) = SumOf(h, S)
<1>1. PICK g : Adds(g, f, S)
  BY AddsExists
<1>2. ASSUME NEW s \in SUBSET S
      PROVE  StepOf(f, g, s) = StepOf(h, g, s)
  BY FirstIn DEF StepOf
<1>3. Adds(g, h, S)
  BY <1>1, <1>2 DEF Adds
<1> QED
  BY <1>1, <1>3, SumOfAdds
=============================================================================
