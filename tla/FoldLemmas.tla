------------------------------ MODULE FoldLemmas ------------------------------
(***************************************************************************)
(* Lemmas about natural numbers and folds over sequences and over finite   *)
(* sets, which the proofs about the record of a match, the fast board and  *)
(* the expansion of a state need.  An operator cannot be passed to a lemma *)
(* and still be proved about here, so induction is stated of sets, and the *)
(* operator that is folded is given as a function.                         *)
(***************************************************************************)
EXTENDS Integers, Sequences, SequencesExt, WellFoundedInduction, FiniteSetTheorems, TLAPS

\* A set of natural numbers that is not empty has a least one.
LEMMA LeastNumber ==
  ASSUME NEW T \in SUBSET Nat, T # {}
  PROVE  \E m \in T : \A k \in T : m <= k
<1>1. PICK m \in T : \A k \in T : <<k, m>> \notin OpToRel(<, Nat)
  BY NatLessThanWellFounded, WFMin
<1>2. \A k \in T : ~ (k < m)
  BY <1>1 DEF OpToRel
<1> QED
  BY <1>2

\* Induction up to a number: T holds of 0, and of the number after each it holds of.
LEMMA InductionUpTo ==
  ASSUME NEW n \in Nat, NEW T, 0 \in T, \A k \in 0..(n - 1) : k \in T => k + 1 \in T
  PROVE  \A k \in 0..n : k \in T
<1> DEFINE Bad == {k \in 0..n : k \notin T}
<1>1. SUFFICES ASSUME Bad # {} PROVE FALSE
  OBVIOUS
<1>2. PICK m \in Bad : \A k \in Bad : m <= k
  <2>1. Bad \in SUBSET Nat
    OBVIOUS
  <2> HIDE DEF Bad
  <2> QED
    BY <1>1, <2>1, LeastNumber
<1>3. m # 0 /\ m - 1 \in 0..(n - 1) /\ m - 1 \notin Bad
  BY <1>2
<1> QED
  BY <1>2, <1>3

\* The largest element of a set of numbers is one of them.
LEMMA MaxOfRange ==
  ASSUME NEW n \in Nat, NEW S \in SUBSET (1..n), S # {}
  PROVE  Max(S) \in S /\ \A k \in S : k <= Max(S)
<1> DEFINE T == {i \in 0..(n - 1) : n - i \in S}
<1>1. T # {} /\ T \in SUBSET Nat
  <2>1. PICK k \in S : TRUE
    OBVIOUS
  <2>2. n - k \in 0..(n - 1) /\ n - (n - k) = k
    BY <2>1
  <2>3. n - k \in T
    BY <2>1, <2>2
  <2>4. T \in SUBSET Nat
    OBVIOUS
  <2> QED
    BY <2>3, <2>4
<1>2. PICK i \in T : \A k \in T : i <= k
  BY <1>1, LeastNumber
<1>3. \A k \in S : k <= n - i
  <2> TAKE k \in S
  <2>1. n - k \in T
    OBVIOUS
  <2> QED
    BY <1>2, <2>1
<1>4. \E m \in S : \A k \in S : m >= k
  BY <1>2, <1>3
<1> QED
  BY <1>4 DEF Max

LEMMA MaxOfInitial ==
  ASSUME NEW n \in Nat, NEW k \in 1..n
  PROVE  /\ 1..k # {} /\ 1..k \in SUBSET (1..n) /\ k - 1 \in 0..n
         /\ Max(1..k) = k /\ (1..k) \ {k} = 1..(k - 1)
<1>1. 1..k \in SUBSET (1..k) /\ 1..k # {} /\ k \in Nat /\ k \in 1..k
  OBVIOUS
<1>2. Max(1..k) \in 1..k /\ \A i \in 1..k : i <= Max(1..k)
  BY <1>1, MaxOfRange
<1>3. Max(1..k) = k
  BY <1>1, <1>2
<1>4. 1..k \in SUBSET (1..n) /\ k - 1 \in 0..n /\ (1..k) \ {k} = 1..(k - 1)
  OBVIOUS
<1> QED
  BY <1>1, <1>3, <1>4

\* g is what a fold over n elements goes through: from base, F[k] for the k-th element.
IsFold(V, n, base, F, g) ==
  /\ g \in [SUBSET (1..n) -> V]
  /\ \A S \in SUBSET (1..n) : g[S] = IF S = {} THEN base ELSE F[Max(S)][g[S \ {Max(S)}]]

\* There is such a function, whatever is folded.
LEMMA FoldExists ==
  ASSUME NEW V, NEW base \in V, NEW n \in Nat, NEW F \in [1..n -> [V -> V]]
  PROVE  \E g : IsFold(V, n, base, F, g)
<1> DEFINE Good(k, g) ==
             \A S \in SUBSET (1..k) :
               g[S] = IF S = {} THEN base ELSE F[Max(S)][g[S \ {Max(S)}]]
           T == {k \in Nat : \E g \in [SUBSET (1..n) -> V] : Good(k, g)}
<1>1. 0 \in T
  <2>1. [S \in SUBSET (1..n) |-> base] \in [SUBSET (1..n) -> V]
    OBVIOUS
  <2>2. \A S \in SUBSET (1..0) : S = {} /\ S \in SUBSET (1..n)
    OBVIOUS
  <2>3. Good(0, [S \in SUBSET (1..n) |-> base])
    BY <2>2
  <2> QED
    BY <2>1, <2>3
<1>2. ASSUME NEW k \in 0..(n - 1), k \in T PROVE k + 1 \in T
  <2>1. PICK f \in [SUBSET (1..n) -> V] : Good(k, f)
    BY <1>2
  <2> DEFINE g == [S \in SUBSET (1..n) |->
                     IF k + 1 \in S /\ S \ {k + 1} \subseteq 1..k
                       THEN F[k + 1][f[S \ {k + 1}]] ELSE f[S]]
  <2>2. g \in [SUBSET (1..n) -> V]
    OBVIOUS
  <2>3. ASSUME NEW S \in SUBSET (1..(k + 1))
        PROVE  g[S] = IF S = {} THEN base ELSE F[Max(S)][g[S \ {Max(S)}]]
    <3>1. S \in SUBSET (1..n)
      OBVIOUS
    <3>2. CASE k + 1 \in S
      <4>1. Max(S) = k + 1
        <5>1. k + 1 \in Nat /\ S # {}
          BY <3>2
        <5>2. Max(S) \in S /\ \A i \in S : i <= Max(S)
          BY <5>1, MaxOfRange
        <5>3. Max(S) \in 1..(k + 1) /\ Max(S) >= k + 1
          BY <3>2, <5>2
        <5> QED
          BY <5>3
      <4>2. S \ {k + 1} \in SUBSET (1..k)
        OBVIOUS
      <4>3. g[S] = F[k + 1][f[S \ {k + 1}]]
        BY <3>1, <3>2, <4>2
      <4>4. g[S \ {k + 1}] = f[S \ {k + 1}]
        BY <3>1
      <4> QED
        BY <3>2, <4>1, <4>3, <4>4
    <3>3. CASE k + 1 \notin S
      <4>1. S \in SUBSET (1..k)
        BY <3>3
      <4>2. g[S] = f[S]
        BY <3>1, <3>3
      <4>4. g[S \ {Max(S)}] = f[S \ {Max(S)}]
        BY <3>1, <3>3
      <4> QED
        BY <2>1, <4>1, <4>2, <4>4
    <3> QED
      BY <3>2, <3>3
  <2> HIDE DEF g
  <2>4. Good(k + 1, g)
    BY <2>3
  <2> HIDE DEF Good
  <2> QED
    BY <2>2, <2>4
<1>3. n \in T
  <2>1. \A k \in 0..(n - 1) : k \in T => k + 1 \in T
    BY <1>2
  <2> HIDE DEF T
  <2>2. \A k \in 0..n : k \in T
    BY <1>1, <2>1, InductionUpTo
  <2> QED
    BY <2>2
<1>4. PICK g \in [SUBSET (1..n) -> V] : Good(n, g)
  BY <1>3
<1> QED
  BY <1>4 DEF IsFold

\* The values that such a function takes on the first elements.
LEMMA FoldValues ==
  ASSUME NEW n \in Nat, NEW V, NEW h, h[{}] \in V,
         \A k \in 1..n : h[1..(k - 1)] \in V => h[1..k] \in V
  PROVE  \A k \in 0..n : h[1..k] \in V
<1> DEFINE T == {k \in 0..n : h[1..k] \in V}
<1>1. 0 \in T
  <2>1. 1..0 = {}
    OBVIOUS
  <2> QED
    BY <2>1
<1>2. ASSUME NEW k \in 0..(n - 1), k \in T PROVE k + 1 \in T
  <2>1. k + 1 \in 1..n /\ (k + 1) - 1 = k
    OBVIOUS
  <2>2. h[1..(k + 1)] \in V
    BY <1>2, <2>1
  <2> QED
    BY <2>1, <2>2
<1>3. \A k \in 0..n : k \in T
  <2>1. \A k \in 0..(n - 1) : k \in T => k + 1 \in T
    BY <1>2
  <2> HIDE DEF T
  <2> QED
    BY <1>1, <2>1, InductionUpTo
<1> QED
  BY <1>3

\* The same, for values that depend on how far the fold has come: those of the first k
\* elements, or of some of them, are in V[k].
LEMMA FoldExistsInOrder ==
  ASSUME NEW W, NEW n \in Nat, NEW V \in [0..n -> SUBSET W], NEW base \in V[0],
         \A k \in 0..(n - 1) : V[k] \subseteq V[k + 1],
         NEW F \in [1..n -> [W -> W]],
         \A k \in 0..(n - 1) : \A u \in V[k] : F[k + 1][u] \in V[k + 1]
  PROVE  \E g : /\ IsFold(W, n, base, F, g)
                /\ \A k \in 0..n : \A S \in SUBSET (1..k) : g[S] \in V[k]
<1>1. base \in W /\ 0 \in 0..n
  OBVIOUS
<1>2. PICK g : IsFold(W, n, base, F, g)
  BY <1>1, FoldExists
<1> DEFINE T == {k \in 0..n : \A S \in SUBSET (1..k) : g[S] \in V[k]}
<1>3. 0 \in T
  <2>1. \A S \in SUBSET (1..0) : S = {} /\ S \in SUBSET (1..n)
    OBVIOUS
  <2> QED
    BY <1>1, <1>2, <2>1 DEF IsFold
<1>4. ASSUME NEW k \in 0..(n - 1), k \in T PROVE k + 1 \in T
  <2>1. k + 1 \in 0..n /\ k + 1 \in Nat
    OBVIOUS
  <2>2. ASSUME NEW S \in SUBSET (1..(k + 1)) PROVE g[S] \in V[k + 1]
    <3>1. S \in SUBSET (1..n)
      OBVIOUS
    <3>2. CASE k + 1 \in S
      <4>1. Max(S) = k + 1
        <5>1. Max(S) \in S /\ \A i \in S : i <= Max(S)
          BY <2>1, <3>2, MaxOfRange
        <5>2. Max(S) \in 1..(k + 1) /\ Max(S) >= k + 1
          BY <3>2, <5>1
        <5> QED
          BY <2>1, <5>2
      <4>2. S \ {k + 1} \in SUBSET (1..k)
        OBVIOUS
      <4>3. g[S \ {k + 1}] \in V[k]
        BY <1>4, <4>2
      <4>4. g[S] = F[k + 1][g[S \ {k + 1}]]
        BY <1>2, <3>1, <3>2, <4>1 DEF IsFold
      <4> QED
        BY <4>3, <4>4
    <3>3. CASE k + 1 \notin S
      <4>1. S \in SUBSET (1..k)
        <5>1. \A i \in S : i \in 1..k
          BY <3>3
        <5> QED
          BY <5>1
      <4>2. g[S] \in V[k]
        BY <1>4, <4>1
      <4> QED
        BY <4>2
    <3> QED
      BY <3>2, <3>3
  <2> QED
    BY <2>1, <2>2
<1>5. \A k \in 0..n : k \in T
  <2>1. \A k \in 0..(n - 1) : k \in T => k + 1 \in T
    BY <1>4
  <2> HIDE DEF T
  <2> QED
    BY <1>3, <2>1, InductionUpTo
<1> QED
  BY <1>2, <1>5

-----------------------------------------------------------------------------
(***************************************************************************)
(* Folds over finite sets, an element of each set chosen.                  *)
(***************************************************************************)
Chosen(s) == CHOOSE x \in s : TRUE

\* A set of a finite one and its elements but the one chosen.
LEMMA ChosenApart ==
  ASSUME NEW S, IsFiniteSet(S), NEW s \in SUBSET S, s # {}
  PROVE  /\ Chosen(s) \in s /\ s \ {Chosen(s)} \in SUBSET S
         /\ Cardinality(s) \in Nat /\ Cardinality(s) <= Cardinality(S)
         /\ Cardinality(s \ {Chosen(s)}) = Cardinality(s) - 1
<1>1. Chosen(s) \in s
  BY DEF Chosen
<1>2. IsFiniteSet(s) /\ Cardinality(s) <= Cardinality(S) /\ Cardinality(s) \in Nat
  BY FS_Subset, FS_CardinalityType
<1>3. Cardinality(s \ {Chosen(s)}) = Cardinality(s) - 1
  BY <1>1, <1>2, FS_RemoveElement
<1> QED
  BY <1>1, <1>2, <1>3

\* What holds of the empty set, and of a set when it does without the element chosen.
LEMMA InductionOnSets ==
  ASSUME NEW S, IsFiniteSet(S), NEW T, {} \in T,
         \A s \in SUBSET S : s # {} /\ s \ {Chosen(s)} \in T => s \in T
  PROVE  \A s \in SUBSET S : s \in T
<1> DEFINE n == Cardinality(S)
           Upto == {k \in 0..n : \A s \in SUBSET S : Cardinality(s) <= k => s \in T}
<1>1. n \in Nat
  BY FS_CardinalityType
<1>2. \A s \in SUBSET S : /\ Cardinality(s) \in Nat /\ Cardinality(s) <= n
                          /\ Cardinality(s) = 0 => s = {}
  BY FS_Subset, FS_CardinalityType, FS_EmptySet
<1>3. 0 \in Upto
  <2>1. ASSUME NEW s \in SUBSET S, Cardinality(s) <= 0 PROVE s \in T
    <3>1. Cardinality(s) = 0
      BY <1>2, <2>1
    <3> QED
      BY <1>2, <3>1
  <2> QED
    BY <1>1, <2>1
<1>4. ASSUME NEW k \in 0..(n - 1), k \in Upto PROVE k + 1 \in Upto
  <2>1. ASSUME NEW s \in SUBSET S, Cardinality(s) <= k + 1 PROVE s \in T
    <3>1. CASE s = {}
      BY <3>1
    <3>2. CASE s # {}
      <4>1. s \ {Chosen(s)} \in SUBSET S /\ Cardinality(s \ {Chosen(s)}) <= k
        BY <1>2, <2>1, <3>2, ChosenApart
      <4> QED
        BY <1>4, <3>2, <4>1
    <3> QED
      BY <3>1, <3>2
  <2>2. k + 1 \in 0..n
    BY <1>1
  <2> QED
    BY <2>1, <2>2
<1>5. n \in Upto
  <2>1. \A k \in 0..(n - 1) : k \in Upto => k + 1 \in Upto
    BY <1>4
  <2> HIDE DEF Upto
  <2>2. \A k \in 0..n : k \in Upto
    BY <1>1, <1>3, <2>1, InductionUpTo
  <2> QED
    BY <1>1, <2>2
<1> QED
  BY <1>2, <1>5

\* g is the fold of F, from base, over the subsets of S.
IsSetFold(V, S, base, F, g) ==
  /\ g \in [SUBSET S -> V]
  /\ \A s \in SUBSET S : g[s] = IF s = {} THEN base ELSE F[Chosen(s)][g[s \ {Chosen(s)}]]

\* There is such a function, whatever is folded.
LEMMA SetFoldExists ==
  ASSUME NEW V, NEW base \in V, NEW S, IsFiniteSet(S), NEW F \in [S -> [V -> V]]
  PROVE  \E g : IsSetFold(V, S, base, F, g)
<1> DEFINE n == Cardinality(S)
           Small(k) == {s \in SUBSET S : Cardinality(s) <= k}
           Right(g, s) == g[s] = IF s = {} THEN base ELSE F[Chosen(s)][g[s \ {Chosen(s)}]]
           T == {k \in 0..n : \E g \in [SUBSET S -> V] : \A s \in Small(k) : Right(g, s)}
<1>1. n \in Nat
  BY FS_CardinalityType
<1>2. \A s \in SUBSET S : /\ Cardinality(s) \in Nat /\ Cardinality(s) <= n
                          /\ Cardinality(s) = 0 => s = {}
  BY FS_Subset, FS_CardinalityType, FS_EmptySet
<1>3. 0 \in T
  <2> DEFINE g == [s \in SUBSET S |-> base]
  <2>1. g \in [SUBSET S -> V]
    OBVIOUS
  <2>2. \A s \in Small(0) : s = {}
    BY <1>2
  <2>3. \A s \in Small(0) : Right(g, s)
    BY <2>2
  <2> HIDE DEF g, Right, Small
  <2> QED
    BY <1>1, <2>1, <2>3
<1>4. ASSUME NEW k \in 0..(n - 1), k \in T PROVE k + 1 \in T
  <2>1. PICK f \in [SUBSET S -> V] : \A s \in Small(k) : Right(f, s)
    BY <1>4
  <2> DEFINE g == [s \in SUBSET S |->
                     IF Cardinality(s) = k + 1
                       THEN F[Chosen(s)][f[s \ {Chosen(s)}]] ELSE f[s]]
  <2>2. g \in [SUBSET S -> V]
    <3>1. ASSUME NEW s \in SUBSET S, Cardinality(s) = k + 1
          PROVE  F[Chosen(s)][f[s \ {Chosen(s)}]] \in V
      <4>1. Cardinality({}) = 0 /\ k + 1 # 0
        BY FS_EmptySet
      <4>2. Chosen(s) \in S /\ s \ {Chosen(s)} \in SUBSET S
        BY <3>1, <4>1, ChosenApart
      <4>3. F[Chosen(s)] \in [V -> V] /\ f[s \ {Chosen(s)}] \in V
        BY <4>2
      <4> QED
        BY <4>3
    <3> QED
      BY <3>1
  <2>3. ASSUME NEW s \in Small(k + 1) PROVE Right(g, s)
    <3>1. CASE s = {}
      <4>1. Cardinality(s) = 0
        BY <3>1, FS_EmptySet
      <4>2. s \in Small(k) /\ g[s] = f[s]
        BY <4>1
      <4> QED
        BY <2>1, <3>1, <4>2
    <3>2. CASE s # {}
      <4> DEFINE t == s \ {Chosen(s)}
      <4>1. t \in SUBSET S /\ Cardinality(t) = Cardinality(s) - 1
        BY <3>2, ChosenApart
      <4>2. g[t] = f[t]
        BY <1>2, <2>3, <4>1
      <4>3. CASE Cardinality(s) = k + 1
        BY <3>2, <4>2, <4>3
      <4>4. CASE Cardinality(s) # k + 1
        <5>1. s \in Small(k) /\ g[s] = f[s]
          BY <1>2, <2>3, <4>4
        <5> QED
          BY <2>1, <3>2, <4>2, <5>1
      <4> QED
        BY <4>3, <4>4
    <3> QED
      BY <3>1, <3>2
  <2>4. k + 1 \in 0..n
    BY <1>1
  <2> HIDE DEF g, Right, Small
  <2> QED
    BY <2>2, <2>3, <2>4
<1>5. n \in T
  <2>1. \A k \in 0..(n - 1) : k \in T => k + 1 \in T
    BY <1>4
  <2> HIDE DEF T
  <2>2. \A k \in 0..n : k \in T
    BY <1>1, <1>3, <2>1, InductionUpTo
  <2> QED
    BY <1>1, <2>2
<1>6. PICK g \in [SUBSET S -> V] : \A s \in Small(n) : Right(g, s)
  <2> HIDE DEF Right, Small
  <2> QED
    BY <1>5
<1>7. \A s \in SUBSET S : Right(g, s)
  <2>1. \A s \in SUBSET S : s \in Small(n)
    BY <1>2
  <2> QED
    BY <1>6, <2>1
<1> QED
  BY <1>7 DEF IsSetFold
=============================================================================
