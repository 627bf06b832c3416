------------------------------ MODULE FoldLemmas ------------------------------
(***************************************************************************)
(* Lemmas about folds: Fold(H, base, q), the left fold of a sequence by a   *)
(* function H, which FoldLeft and SumSeq of the community modules compute,  *)
(* and SumFunction, MapThenSumSet, the sum over a finite set in any order.  *)
(* Their induction is over sets of numbers and of subsets, so that no      *)
(* lemma takes an operator as a parameter.                                 *)
(***************************************************************************)
EXTENDS Integers, SequencesExt, SequenceTheorems, FiniteSetTheorems, WellFoundedInduction, TLAPS

\* Induction over the naturals, about a set instead of a predicate.
LEMMA NatSetInduction ==
  ASSUME NEW T \in SUBSET Nat, 0 \in T, \A n \in T : n + 1 \in T
  PROVE  T = Nat
  <1> DEFINE U == Nat \ T
             R == OpToRel(<, Nat)
  <1>1. SUFFICES ASSUME U # {} PROVE FALSE
    OBVIOUS
  <1>2. PICK x \in U : \A y \in U : ~ (<<y, x>> \in R)
    <2>1. IsWellFoundedOn(R, Nat)
      BY NatLessThanWellFounded
    <2>2. U \subseteq Nat
      OBVIOUS
    <2> HIDE DEF U, R
    <2> QED BY <1>1, <2>1, <2>2, WFMin
  <1>3. x # 0 /\ x \in Nat
    OBVIOUS
  <1>4. x - 1 \in T
    <2>1. <<x - 1, x>> \in R
      BY <1>3 DEF OpToRel
    <2>2. x - 1 \in Nat
      BY <1>3
    <2> QED BY <1>2, <2>1, <2>2
  <1>5. (x - 1) + 1 = x
    BY <1>3
  <1> HIDE DEF R
  <1> QED BY <1>2, <1>4, <1>5

\* Subsets of S with at most k elements.
Small(S, k) == {s \in SUBSET S : Cardinality(s) <= k}

LEMMA SmallSubsets ==
  ASSUME NEW S, IsFiniteSet(S)
  PROVE  /\ \A s \in SUBSET S : Cardinality(s) \in Nat
         /\ Small(S, 0) = {{}}
         /\ \A k \in Nat : \A s \in Small(S, k + 1) : \A x \in s : s \ {x} \in Small(S, k)
         /\ \A k \in Nat : Small(S, k) \subseteq Small(S, k + 1)
         /\ Small(S, Cardinality(S)) = SUBSET S
  <1>1. \A s \in SUBSET S : IsFiniteSet(s) /\ Cardinality(s) \in Nat /\ Cardinality(s) <= Cardinality(S)
    BY FS_Subset, FS_CardinalityType
  <1>2. Small(S, 0) = {{}}
    <2>1. \A s \in SUBSET S : Cardinality(s) <= 0 <=> s = {}
      BY <1>1, FS_EmptySet
    <2> QED BY <2>1 DEF Small
  <1>3. ASSUME NEW k \in Nat, NEW s \in Small(S, k + 1), NEW x \in s
        PROVE  s \ {x} \in Small(S, k)
    <2>1. s \in SUBSET S /\ Cardinality(s) <= k + 1
      BY DEF Small
    <2>2. Cardinality(s \ {x}) = Cardinality(s) - 1
      BY <1>1, <2>1, FS_RemoveElement
    <2>3. s \ {x} \in SUBSET S /\ Cardinality(s) \in Nat
      BY <1>1, <2>1
    <2> QED BY <2>1, <2>2, <2>3 DEF Small
  <1>4. \A k \in Nat : Small(S, k) \subseteq Small(S, k + 1)
    BY <1>1 DEF Small
  <1> QED BY <1>1, <1>2, <1>3, <1>4 DEF Small

\* What a fold over the set S does with its subsets: c chooses the element that
\* is taken out first, H puts it to the value of the rest.
FoldsOn(g, D, base, c, H) ==
    \A s \in D : g[s] = IF s = {} THEN base ELSE H[<<c[s], g[s \ {c[s]}]>>]

\* g is the fold of the subsets of S, with values in V; h folds in the same way
\* as far as its values are in V.
Folding(S, V, base, c, H, g, h) ==
    /\ IsFiniteSet(S) /\ base \in V /\ H \in [S \X V -> V]
    /\ \A s \in SUBSET S : s # {} => c[s] \in s
    /\ g \in [SUBSET S -> V] /\ FoldsOn(g, SUBSET S, base, c, H)
    /\ h[{}] = base
    /\ \A s \in SUBSET S : s # {} /\ h[s \ {c[s]}] \in V => h[s] = H[<<c[s], h[s \ {c[s]}]>>]

LEMMA FoldExists ==
  ASSUME NEW S, IsFiniteSet(S), NEW V, NEW base \in V,
         NEW c, \A s \in SUBSET S : s # {} => c[s] \in s,
         NEW H \in [S \X V -> V]
  PROVE  \E g \in [SUBSET S -> V] : FoldsOn(g, SUBSET S, base, c, H)
  <1> DEFINE T == {k \in Nat : \E g \in [Small(S, k) -> V] : FoldsOn(g, Small(S, k), base, c, H)}
  <1>1. 0 \in T
    <2>1. Small(S, 0) = {{}}
      BY SmallSubsets
    <2>2. [s \in {{}} |-> base] \in [Small(S, 0) -> V] /\ FoldsOn([s \in {{}} |-> base], Small(S, 0), base, c, H)
      BY <2>1 DEF FoldsOn
    <2> QED BY <2>2
  <1>2. ASSUME NEW k \in T PROVE k + 1 \in T
    <2>1. k \in Nat
      OBVIOUS
    <2>2. PICK g \in [Small(S, k) -> V] : FoldsOn(g, Small(S, k), base, c, H)
      OBVIOUS
    <2> DEFINE h == [s \in Small(S, k + 1) |-> IF s = {} THEN base ELSE H[<<c[s], g[s \ {c[s]}]>>]]
    <2>3. ASSUME NEW s \in Small(S, k + 1), s # {}
          PROVE  c[s] \in S /\ s \ {c[s]} \in Small(S, k)
      BY <2>1, <2>3, SmallSubsets DEF Small
    <2>4. h \in [Small(S, k + 1) -> V]
      <3>1. ASSUME NEW s \in Small(S, k + 1) PROVE h[s] \in V
        <4>1. CASE s = {}
          BY <4>1
        <4>2. CASE s # {}
          BY <2>3, <4>2
        <4> QED BY <4>1, <4>2
      <3> QED BY <3>1
    <2>5. \A s \in Small(S, k) : h[s] = g[s]
      <3>1. Small(S, k) \subseteq Small(S, k + 1)
        BY <2>1, SmallSubsets
      <3> QED BY <2>2, <3>1 DEF FoldsOn
    <2>6. FoldsOn(h, Small(S, k + 1), base, c, H)
      BY <2>3, <2>5 DEF FoldsOn
    <2> HIDE DEF h
    <2> QED BY <2>1, <2>4, <2>6
  <1>3. T = Nat
    <2>1. T \in SUBSET Nat
      OBVIOUS
    <2> HIDE DEF T
    <2> QED BY <1>1, <1>2, <2>1, NatSetInduction
  <1>4. Cardinality(S) \in T /\ Small(S, Cardinality(S)) = SUBSET S
    BY <1>3, SmallSubsets, FS_CardinalityType
  <1> QED BY <1>4

\* Whatever else folds in the same way, as far as its values are in V, has the
\* same values.
LEMMA FoldUnique ==
  ASSUME NEW S, NEW V, NEW base, NEW c, NEW H, NEW g, NEW h, Folding(S, V, base, c, H, g, h)
  PROVE  \A s \in SUBSET S : h[s] = g[s]
  <1> USE DEF Folding
  <1> DEFINE T == {k \in Nat : \A s \in Small(S, k) : h[s] = g[s]}
  <1>1. 0 \in T
    <2>1. Small(S, 0) = {{}}
      BY SmallSubsets
    <2> QED BY <2>1 DEF FoldsOn
  <1>2. ASSUME NEW k \in T PROVE k + 1 \in T
    <2>1. k \in Nat /\ \A s \in Small(S, k) : h[s] = g[s]
      OBVIOUS
    <2>2. ASSUME NEW s \in Small(S, k + 1) PROVE h[s] = g[s]
      <3>1. CASE s = {}
        BY <3>1 DEF FoldsOn
      <3>2. CASE s # {}
        <4>1. s \in SUBSET S /\ c[s] \in s
          BY <3>2 DEF Small
        <4>2. s \ {c[s]} \in Small(S, k) /\ s \ {c[s]} \in SUBSET S
          BY <2>1, <4>1, SmallSubsets
        <4>3. h[s \ {c[s]}] = g[s \ {c[s]}] /\ g[s \ {c[s]}] \in V
          BY <2>1, <4>2
        <4> QED BY <3>2, <4>1, <4>3 DEF FoldsOn
      <3> QED BY <3>1, <3>2
    <2> QED BY <2>1, <2>2
  <1>3. T = Nat
    <2>1. T \in SUBSET Nat
      OBVIOUS
    <2> HIDE DEF T
    <2> QED BY <1>1, <1>2, <2>1, NatSetInduction
  <1>4. Cardinality(S) \in T /\ Small(S, Cardinality(S)) = SUBSET S
    BY <1>3, SmallSubsets, FS_CardinalityType
  <1> QED BY <1>4

-----------------------------------------------------------------------------
(* Folds of sequences from the left.                                       *)

\* The values that a fold of q goes through.
Through(g, q, base, H) ==
    /\ DOMAIN g = 0 .. Len(q)
    /\ g[0] = base
    /\ \A i \in 1 .. Len(q) : g[i] = H[<<q[i], g[i - 1]>>]

Fold(H, base, q) == (CHOOSE g : Through(g, q, base, H))[Len(q)]

\* H folds sequences over E from base, with values in V.
Foldable(E, V, base, H) == base \in V /\ H \in [E \X V -> V]

LEMMA ThroughUnique ==
  ASSUME NEW q, Len(q) \in Nat, NEW base, NEW H,
         NEW g, Through(g, q, base, H), NEW h, Through(h, q, base, H)
  PROVE  \A i \in 0 .. Len(q) : g[i] = h[i]
  <1> DEFINE T == {i \in Nat : i <= Len(q) => g[i] = h[i]}
  <1>1. 0 \in T
    BY DEF Through
  <1>2. ASSUME NEW i \in T PROVE i + 1 \in T
    <2>1. i \in Nat /\ (i <= Len(q) => g[i] = h[i])
      OBVIOUS
    <2>2. ASSUME i + 1 <= Len(q) PROVE g[i + 1] = h[i + 1]
      <3>1. g[i] = h[i]
        BY <2>1, <2>2
      <3>2. PICK j \in 1 .. Len(q) : j = i + 1 /\ j - 1 = i
        BY <2>1, <2>2
      <3>3. g[j] = H[<<q[j], g[j - 1]>>] /\ h[j] = H[<<q[j], h[j - 1]>>]
        BY <3>2 DEF Through
      <3> QED BY <3>1, <3>2, <3>3
    <2> QED BY <2>1, <2>2
  <1>3. T = Nat
    <2>1. T \in SUBSET Nat
      OBVIOUS
    <2> HIDE DEF T
    <2> QED BY <1>1, <1>2, <2>1, NatSetInduction
  <1> QED BY <1>3

LEMMA MaxOfFinite ==
  ASSUME NEW n \in Nat
  PROVE  /\ \A s \in SUBSET (1 .. n) : s # {} => Max(s) \in s /\ \A y \in s : y <= Max(s)
         /\ \A k \in 1 .. n : Max(1 .. k) = k
  <1>1. ASSUME NEW s \in SUBSET (1 .. n), s # {}
        PROVE  \E x \in s : \A y \in s : y <= x
    <2> DEFINE U == {u \in Nat : n - u \in s}
               R == OpToRel(<, Nat)
    <2>1. U \subseteq Nat
      OBVIOUS
    <2>2. ASSUME NEW y \in s PROVE n - y \in U
      <3>1. y \in 1 .. n
        OBVIOUS
      <3>2. n - y \in Nat /\ n - (n - y) = y
        BY <3>1
      <3> QED BY <3>2
    <2>3. U # {}
      BY <1>1, <2>2
    <2>4. IsWellFoundedOn(R, Nat)
      BY NatLessThanWellFounded
    <2>5. PICK u \in U : \A v \in U : ~ (<<v, u>> \in R)
      <3> HIDE DEF U, R
      <3> QED BY <2>1, <2>3, <2>4, WFMin
    <2>6. \A v \in U : ~ (v < u)
      BY <2>1, <2>5 DEF OpToRel
    <2> HIDE DEF R
    <2>7. \A y \in s : y <= n - u
      <3> SUFFICES ASSUME NEW y \in s PROVE y <= n - u
        OBVIOUS
      <3>1. ~ (n - y < u) /\ y \in 1 .. n /\ u \in Nat
        BY <2>1, <2>2, <2>6
      <3> QED BY <3>1
    <2> QED BY <2>7
  <1>2. ASSUME NEW s \in SUBSET (1 .. n), s # {}
        PROVE  Max(s) \in s /\ \A y \in s : y <= Max(s)
    <2>1. \E x \in s : \A y \in s : x >= y
      BY <1>1, <1>2
    <2> QED BY <2>1 DEF Max
  <1>3. ASSUME NEW k \in 1 .. n PROVE Max(1 .. k) = k
    <2>1. 1 .. k \in SUBSET (1 .. n) /\ k \in 1 .. k /\ 1 .. k # {}
      OBVIOUS
    <2>2. Max(1 .. k) \in 1 .. k /\ k <= Max(1 .. k)
      BY <1>2, <2>1
    <2> QED BY <2>2
  <1> QED BY <1>2, <1>3

\* g is what MapThenFoldSet computes for FoldLeft: it takes out the greatest index.
FoldsIndices(g, q, base, H) ==
    g = [s \in SUBSET DOMAIN q |-> IF s = {} THEN base ELSE H[<<q[Max(s)], g[s \ {Max(s)}]>>]]

\* h folds q from its greatest index down, as far as its values are in V.
ByIndex(h, q, base, V, H) ==
    /\ h[{}] = base
    /\ \A s \in SUBSET DOMAIN q : s # {} /\ h[s \ {Max(s)}] \in V => h[s] = H[<<q[Max(s)], h[s \ {Max(s)}]>>]

\* All such folds of q have the value of Fold.
Determined(q, base, V, H) == \A h : ByIndex(h, q, base, V, H) => h[DOMAIN q] = Fold(H, base, q)

LEMMA FoldMaster ==
  ASSUME NEW E, NEW V, NEW base, NEW H, Foldable(E, V, base, H), NEW q \in Seq(E)
  PROVE  /\ \E g \in [SUBSET DOMAIN q -> V] : FoldsIndices(g, q, base, H)
         /\ Fold(H, base, q) \in V
         /\ Determined(q, base, V, H)
  <1> DEFINE S == DOMAIN q
             c == [s \in SUBSET S |-> Max(s)]
             K == [p \in S \X V |-> H[<<q[p[1]], p[2]>>]]
  <1> USE DEF Foldable, ByIndex, Determined
  <1>1. S = 1 .. Len(q) /\ Len(q) \in Nat /\ IsFiniteSet(S) /\ \A i \in S : q[i] \in E
    BY LenProperties, FS_Interval
  <1>2. K \in [S \X V -> V]
    BY <1>1
  <1>3. \A s \in SUBSET S : s # {} => c[s] \in s /\ c[s] = Max(s)
    BY <1>1, MaxOfFinite
  <1>4. PICK g \in [SUBSET S -> V] : FoldsOn(g, SUBSET S, base, c, K)
    <2> HIDE DEF c, K, S
    <2> QED BY <1>1, <1>2, <1>3, FoldExists
  <1>5. \A s \in SUBSET S : g[s] = IF s = {} THEN base ELSE H[<<q[Max(s)], g[s \ {Max(s)}]>>]
    BY <1>3, <1>4 DEF FoldsOn
  <1>6. g[S] = Fold(H, base, q)
    <2> DEFINE t == [i \in 0 .. Len(q) |-> g[1 .. i]]
               u == CHOOSE t_1 : Through(t_1, q, base, H)
    <2>1. Through(t, q, base, H)
      <3>1. \A i \in 0 .. Len(q) : 1 .. i \in SUBSET S
        BY <1>1
      <3>2. 1 .. 0 = {}
        OBVIOUS
      <3>3. \A i \in 1 .. Len(q) : 1 .. i # {} /\ (1 .. i) \ {i} = 1 .. (i - 1) /\ Max(1 .. i) = i
        <4>1. \A i \in 1 .. Len(q) : Max(1 .. i) = i
          BY <1>1, MaxOfFinite
        <4>2. ASSUME NEW i \in 1 .. Len(q) PROVE i \in 1 .. i /\ (1 .. i) \ {i} = 1 .. (i - 1)
          BY <1>1
        <4> QED BY <4>1, <4>2
      <3>4. t[0] = base
        <4>1. t[0] = g[1 .. 0] /\ 1 .. 0 \in SUBSET S
          BY <1>1, <3>1
        <4> HIDE DEF t, S
        <4> QED BY <1>5, <3>2, <4>1
      <3>5. ASSUME NEW i \in 1 .. Len(q) PROVE t[i] = H[<<q[i], t[i - 1]>>]
        <4>1. i \in 0 .. Len(q) /\ i - 1 \in 0 .. Len(q)
          BY <1>1
        <4>2. g[1 .. i] = H[<<q[i], g[1 .. (i - 1)]>>]
          BY <1>5, <3>1, <3>3, <4>1
        <4> QED BY <4>1, <4>2
      <3>6. DOMAIN t = 0 .. Len(q)
        OBVIOUS
      <3> HIDE DEF t
      <3> QED BY <3>4, <3>5, <3>6 DEF Through
    <2>2. Through(u, q, base, H)
      BY <2>1
    <2>3. t[Len(q)] = u[Len(q)]
      <3> HIDE DEF t, u
      <3>1. Len(q) \in 0 .. Len(q)
        BY <1>1
      <3> QED BY <1>1, <2>1, <2>2, <3>1, ThroughUnique
    <2>4. t[Len(q)] = g[S]
      BY <1>1
    <2> HIDE DEF t
    <2> QED BY <2>3, <2>4 DEF Fold
  <1>7. ASSUME NEW h, h[{}] = base,
               \A s \in SUBSET S : s # {} /\ h[s \ {Max(s)}] \in V => h[s] = H[<<q[Max(s)], h[s \ {Max(s)}]>>]
        PROVE  h[S] = g[S]
    <2>1. ASSUME NEW s \in SUBSET S, s # {}, h[s \ {c[s]}] \in V
          PROVE  h[s] = K[<<c[s], h[s \ {c[s]}]>>]
      <3>1. c[s] \in S /\ c[s] = Max(s)
        BY <1>3, <2>1
      <3>2. K[<<c[s], h[s \ {c[s]}]>>] = H[<<q[c[s]], h[s \ {c[s]}]>>]
        <4> HIDE DEF c
        <4> QED BY <2>1, <3>1
      <3> HIDE DEF c, K
      <3> QED BY <1>7, <2>1, <3>1, <3>2
    <2> HIDE DEF c, K, S
    <2>2. \A s \in SUBSET S : h[s] = g[s]
      <3>1. h[{}] = base
        BY <1>7
      <3>2. \A s \in SUBSET S : s # {} => c[s] \in s
        BY <1>3
      <3>3. IsFiniteSet(S) /\ FoldsOn(g, SUBSET S, base, c, K)
        BY <1>1, <1>4
      <3>4. \A s \in SUBSET S : s # {} /\ h[s \ {c[s]}] \in V => h[s] = K[<<c[s], h[s \ {c[s]}]>>]
        BY <2>1
      <3>5. base \in V /\ g \in [SUBSET S -> V]
        OBVIOUS
      <3>6. Folding(S, V, base, c, K, g, h)
        BY <1>2, <3>1, <3>2, <3>3, <3>4, <3>5 DEF Folding
      <3> QED BY <3>6, FoldUnique
    <2> QED BY <2>2
  <1>8. FoldsIndices(g, q, base, H)
    <2> HIDE DEF S
    <2>1. g = [s \in SUBSET S |-> IF s = {} THEN base ELSE H[<<q[Max(s)], g[s \ {Max(s)}]>>]]
      BY <1>5
    <2> QED BY <2>1 DEF FoldsIndices, S
  <1>9. Fold(H, base, q) \in V
    <2>1. g[S] \in V
      OBVIOUS
    <2> QED BY <1>6, <2>1
  <1> QED BY <1>6, <1>7, <1>8, <1>9

LEMMA FoldThrough ==
  ASSUME NEW E, NEW V, NEW base, NEW H, Foldable(E, V, base, H), NEW q \in Seq(E)
  PROVE  \E t \in [0 .. Len(q) -> V] : Through(t, q, base, H) /\ Fold(H, base, q) = t[Len(q)]
  <1>1. PICK g \in [SUBSET DOMAIN q -> V] : FoldsIndices(g, q, base, H)
    BY FoldMaster
  <1> USE DEF FoldsIndices
  <1>2. Len(q) \in Nat /\ DOMAIN q = 1 .. Len(q)
    BY LenProperties
  <1> DEFINE t == [i \in 0 .. Len(q) |-> g[1 .. i]]
  <1>3. \A i \in 0 .. Len(q) : 1 .. i \in SUBSET DOMAIN q
    BY <1>2
  <1>4. t \in [0 .. Len(q) -> V]
    BY <1>1, <1>3
  <1>5. t[0] = base
    <2>1. t[0] = g[1 .. 0] /\ 1 .. 0 = {} /\ 1 .. 0 \in SUBSET DOMAIN q
      BY <1>2, <1>3
    <2> QED BY <1>1, <2>1
  <1>6. ASSUME NEW i \in 1 .. Len(q) PROVE t[i] = H[<<q[i], t[i - 1]>>]
    <2>1. i \in 0 .. Len(q) /\ i - 1 \in 0 .. Len(q) /\ 1 .. i # {} /\ (1 .. i) \ {i} = 1 .. (i - 1)
      BY <1>2
    <2>2. Max(1 .. i) = i
      BY <1>2, MaxOfFinite
    <2>3. g[1 .. i] = H[<<q[Max(1 .. i)], g[(1 .. i) \ {Max(1 .. i)}]>>]
      BY <1>1, <1>3, <2>1
    <2>4. g[1 .. i] = H[<<q[i], g[1 .. (i - 1)]>>]
      BY <2>1, <2>2, <2>3
    <2> QED BY <2>1, <2>4
  <1> HIDE DEF t
  <1>7. Through(t, q, base, H)
    BY <1>4, <1>5, <1>6 DEF Through
  <1>8. Fold(H, base, q) = t[Len(q)]
    <2> DEFINE u == CHOOSE t_1 : Through(t_1, q, base, H)
    <2>1. Through(u, q, base, H)
      BY <1>7
    <2> HIDE DEF u
    <2>2. Len(q) \in 0 .. Len(q)
      BY <1>2
    <2>3. u[Len(q)] = t[Len(q)]
      BY <1>2, <1>7, <2>1, <2>2, ThroughUnique
    <2> QED BY <2>3 DEF u, Fold
  <1> QED BY <1>4, <1>7, <1>8

LEMMA FoldIs ==
  ASSUME NEW E, NEW V, NEW base, NEW H, Foldable(E, V, base, H), NEW q \in Seq(E),
         NEW t, Through(t, q, base, H)
  PROVE  t[Len(q)] = Fold(H, base, q)
  <1>1. PICK u \in [0 .. Len(q) -> V] : Through(u, q, base, H) /\ Fold(H, base, q) = u[Len(q)]
    BY FoldThrough
  <1>2. Len(q) \in Nat /\ Len(q) \in 0 .. Len(q)
    BY LenProperties
  <1> QED BY <1>1, <1>2, ThroughUnique

\* The fold of the empty sequence, and of a sequence that is one element longer.
LEMMA FoldSteps ==
  ASSUME NEW E, NEW V, NEW base, NEW H, Foldable(E, V, base, H)
  PROVE  /\ Fold(H, base, <<>>) = base
         /\ \A q \in Seq(E) : Fold(H, base, q) \in V
         /\ \A q \in Seq(E) : \A x \in E : Fold(H, base, Append(q, x)) = H[<<x, Fold(H, base, q)>>]
  <1>1. Fold(H, base, <<>>) = base
    <2>1. <<>> \in Seq(E) /\ Len(<<>>) = 0
      BY EmptySeq
    <2>2. PICK q \in Seq(E) : q = <<>>
      BY <2>1
    <2>3. PICK t \in [0 .. Len(q) -> V] : Through(t, q, base, H) /\ Fold(H, base, q) = t[Len(q)]
      BY FoldThrough
    <2> QED BY <2>1, <2>2, <2>3 DEF Through
  <1>2. ASSUME NEW q \in Seq(E) PROVE Fold(H, base, q) \in V
    <2>1. Len(q) \in 0 .. Len(q)
      BY LenProperties
    <2> QED BY <2>1, FoldThrough
  <1>3. ASSUME NEW q \in Seq(E), NEW x \in E
        PROVE  Fold(H, base, Append(q, x)) = H[<<x, Fold(H, base, q)>>]
    <2> DEFINE p == Append(q, x)
    <2>1. /\ p \in Seq(E) /\ Len(p) = Len(q) + 1 /\ Len(q) \in Nat
          /\ \A i \in 1 .. Len(q) : p[i] = q[i]
          /\ p[Len(q) + 1] = x
      BY AppendProperties, LenProperties
    <2> HIDE DEF p
    <2>2. PICK t \in [0 .. Len(p) -> V] : Through(t, p, base, H) /\ Fold(H, base, p) = t[Len(p)]
      BY <2>1, FoldThrough
    <2> DEFINE u == [i \in 0 .. Len(q) |-> t[i]]
    <2>3. Through(u, q, base, H)
      <3>1. u[0] = base
        BY <2>1, <2>2 DEF Through
      <3>2. ASSUME NEW i \in 1 .. Len(q) PROVE u[i] = H[<<q[i], u[i - 1]>>]
        <4>1. i \in 1 .. Len(p) /\ i \in 0 .. Len(q) /\ i - 1 \in 0 .. Len(q)
          BY <2>1
        <4>2. t[i] = H[<<p[i], t[i - 1]>>] /\ p[i] = q[i]
          BY <2>1, <2>2, <4>1 DEF Through
        <4> QED BY <4>1, <4>2
      <3>3. DOMAIN u = 0 .. Len(q)
        OBVIOUS
      <3> HIDE DEF u
      <3> QED BY <3>1, <3>2, <3>3 DEF Through
    <2>4. u[Len(q)] = Fold(H, base, q)
      <3> HIDE DEF u
      <3> QED BY <2>3, FoldIs
    <2>5. u[Len(q)] = t[Len(q)]
      BY <2>1
    <2>6. t[Len(q) + 1] = H[<<x, t[Len(q)]>>]
      <3>1. PICK i \in 1 .. Len(p) : i = Len(q) + 1 /\ i - 1 = Len(q)
        BY <2>1
      <3>2. t[i] = H[<<p[i], t[i - 1]>>]
        BY <2>2 DEF Through
      <3> QED BY <2>1, <3>1, <3>2
    <2> QED BY <2>1, <2>2, <2>4, <2>5, <2>6 DEF p
  <1> QED BY <1>1, <1>2, <1>3

-----------------------------------------------------------------------------
(* Sums over finite sets.                                                  *)

\* g sums the weights w of the elements of D's subsets.
Sums(g, D, w) ==
    /\ g \in [SUBSET D -> Int]
    /\ g[{}] = 0
    /\ \A s \in SUBSET D : \A x \in s : g[s] = w[x] + g[s \ {x}]

\* What MapThenSumSet computes for the subsets of S.
SumBody(h, S, w) ==
    [s \in SUBSET S |-> IF s = {} THEN 0
                        ELSE w[CHOOSE x \in s : TRUE] + h[s \ {CHOOSE x \in s : TRUE}]]

\* A set can be summed, and in any order.
LEMMA SumExists ==
  ASSUME NEW D, IsFiniteSet(D), NEW w \in [D -> Int]
  PROVE  \E g : Sums(g, D, w)
  <1> DEFINE c == [s \in SUBSET D |-> CHOOSE x \in s : TRUE]
             H == [p \in D \X Int |-> w[p[1]] + p[2]]
  <1>1. \A s \in SUBSET D : s # {} => c[s] \in s
    OBVIOUS
  <1>2. H \in [D \X Int -> Int]
    OBVIOUS
  <1>3. PICK g \in [SUBSET D -> Int] : FoldsOn(g, SUBSET D, 0, c, H)
    <2> HIDE DEF c, H
    <2>1. 0 \in Int
      OBVIOUS
    <2> QED BY <1>1, <1>2, <2>1, FoldExists
  <1>4. \A s \in SUBSET D : s # {} => c[s] \in s /\ g[s] = w[c[s]] + g[s \ {c[s]}]
    <2> SUFFICES ASSUME NEW s \in SUBSET D, s # {}
                 PROVE  c[s] \in s /\ g[s] = w[c[s]] + g[s \ {c[s]}]
      OBVIOUS
    <2>1. c[s] \in s /\ c[s] \in D /\ s \ {c[s]} \in SUBSET D
      BY <1>1
    <2>2. g[s] = H[<<c[s], g[s \ {c[s]}]>>]
      BY <1>3 DEF FoldsOn
    <2>3. g[s \ {c[s]}] \in Int
      BY <2>1
    <2> HIDE DEF c
    <2> QED BY <2>1, <2>2, <2>3
  <1>5. g[{}] = 0
    BY <1>3 DEF FoldsOn
  <1> HIDE DEF c, H
  <1> DEFINE T == {k \in Nat : \A s \in Small(D, k) : \A x \in s : g[s] = w[x] + g[s \ {x}]}
  <1>6. 0 \in T
    <2>1. Small(D, 0) = {{}}
      BY SmallSubsets
    <2> QED BY <2>1
  <1>7. ASSUME NEW k \in T PROVE k + 1 \in T
    <2>1. k \in Nat /\ \A s \in Small(D, k) : \A x \in s : g[s] = w[x] + g[s \ {x}]
      OBVIOUS
    <2>2. ASSUME NEW s \in Small(D, k + 1), NEW x \in s
          PROVE  g[s] = w[x] + g[s \ {x}]
      <3> DEFINE y == c[s]
      <3>1. s \in SUBSET D /\ y \in s /\ g[s] = w[y] + g[s \ {y}]
        BY <1>4 DEF Small
      <3> HIDE DEF y
      <3>2. CASE x = y
        BY <3>1, <3>2
      <3>3. CASE x # y
        <4>1. s \ {y} \in Small(D, k) /\ s \ {x} \in Small(D, k)
          BY <2>1, <3>1, SmallSubsets
        <4>2. g[s \ {y}] = w[x] + g[(s \ {y}) \ {x}]
          BY <2>1, <3>3, <4>1
        <4>3. g[s \ {x}] = w[y] + g[(s \ {x}) \ {y}]
          BY <2>1, <3>1, <3>3, <4>1
        <4>4. PICK z \in SUBSET D : z = (s \ {y}) \ {x} /\ z = (s \ {x}) \ {y}
          BY <3>1
        <4>5. g[s \ {y}] = w[x] + g[z] /\ g[s \ {x}] = w[y] + g[z]
          BY <4>2, <4>3, <4>4
        <4>6. g[z] \in Int /\ w[x] \in Int /\ w[y] \in Int
          BY <3>1
        <4> QED BY <3>1, <4>5, <4>6
      <3> QED BY <3>2, <3>3
    <2> QED BY <2>1, <2>2
  <1>8. T = Nat
    <2>1. T \in SUBSET Nat
      OBVIOUS
    <2> HIDE DEF T
    <2> QED BY <1>6, <1>7, <2>1, NatSetInduction
  <1>9. Cardinality(D) \in T /\ Small(D, Cardinality(D)) = SUBSET D
    BY <1>8, SmallSubsets, FS_CardinalityType
  <1> QED BY <1>5, <1>9 DEF Sums

\* There is such a function, and its value at S is v.
SumIs(v, S, w) ==
    /\ \E h : h = SumBody(h, S, w)
    /\ \A h : h = SumBody(h, S, w) => h[S] = v

\* MapThenSumSet computes that sum.
LEMMA SumMaster ==
  ASSUME NEW D, IsFiniteSet(D), NEW w \in [D -> Int], NEW g, Sums(g, D, w), NEW S \in SUBSET D
  PROVE  SumIs(g[S], S, w)
  <1> DEFINE c == [s \in SUBSET S |-> CHOOSE x \in s : TRUE]
             H == [p \in S \X Int |-> w[p[1]] + p[2]]
             r == [s \in SUBSET S |-> g[s]]
  <1>1. \A s \in SUBSET S : c[s] = CHOOSE x \in s : TRUE
    OBVIOUS
  <1>2. \A s \in SUBSET S : s # {} => c[s] \in s /\ s \ {c[s]} \in SUBSET S
    OBVIOUS
  <1>3. H \in [S \X Int -> Int] /\ r \in [SUBSET S -> Int] /\ IsFiniteSet(S)
    BY FS_Subset DEF Sums
  <1>4. \A x \in S, v \in Int : H[<<x, v>>] = w[x] + v
    OBVIOUS
  <1>5. \A s \in SUBSET S : s # {} => r[s] = w[c[s]] + r[s \ {c[s]}]
    <2> SUFFICES ASSUME NEW s \in SUBSET S, s # {} PROVE r[s] = w[c[s]] + r[s \ {c[s]}]
      OBVIOUS
    <2>1. s \in SUBSET D /\ c[s] \in s /\ s \ {c[s]} \in SUBSET S
      BY <1>2
    <2> HIDE DEF c
    <2> QED BY <2>1 DEF Sums
  <1>6. r[{}] = 0
    BY DEF Sums
  <1>7. FoldsOn(r, SUBSET S, 0, c, H)
    <2> HIDE DEF c, H, r
    <2> QED BY <1>2, <1>3, <1>4, <1>5, <1>6 DEF FoldsOn
  <1>8. r = SumBody(r, S, w)
    <2>1. \A s \in SUBSET S : SumBody(r, S, w)[s] = IF s = {} THEN 0 ELSE w[c[s]] + r[s \ {c[s]}]
      BY <1>1 DEF SumBody
    <2>2. \A s \in SUBSET S : r[s] = SumBody(r, S, w)[s]
      <3> HIDE DEF c, r
      <3> QED BY <1>5, <1>6, <2>1
    <2>3. DOMAIN SumBody(r, S, w) = SUBSET S /\ SumBody(r, S, w) = [s \in DOMAIN SumBody(r, S, w) |-> SumBody(r, S, w)[s]]
      BY DEF SumBody
    <2>4. r = [s \in SUBSET S |-> r[s]]
      OBVIOUS
    <2> HIDE DEF c, r
    <2> QED BY <2>2, <2>3, <2>4
  <1>9. ASSUME NEW h, h = SumBody(h, S, w)
        PROVE  h[S] = g[S]
    <2>1. \A s \in SUBSET S : h[s] = IF s = {} THEN 0 ELSE w[c[s]] + h[s \ {c[s]}]
      <3>1. \A s \in SUBSET S : SumBody(h, S, w)[s] = IF s = {} THEN 0 ELSE w[c[s]] + h[s \ {c[s]}]
        BY <1>1 DEF SumBody
      <3> QED BY <1>9, <3>1
    <2>2. h[{}] = 0 /\ \A s \in SUBSET S : s # {} /\ h[s \ {c[s]}] \in Int => h[s] = H[<<c[s], h[s \ {c[s]}]>>]
      <3> HIDE DEF c, H
      <3> QED BY <1>2, <1>4, <2>1
    <2>3. Folding(S, Int, 0, c, H, r, h)
      <3>1. 0 \in Int
        OBVIOUS
      <3> HIDE DEF c, H, r
      <3> QED BY <1>2, <1>3, <1>7, <2>2, <3>1 DEF Folding
    <2>4. h[S] = r[S]
      <3>1. S \in SUBSET S
        OBVIOUS
      <3> HIDE DEF c, H, r
      <3> QED BY <2>3, <3>1, FoldUnique
    <2> QED BY <2>4
  <1> HIDE DEF r
  <1> QED BY <1>8, <1>9 DEF SumIs

-----------------------------------------------------------------------------
(* FoldLeft computes Fold.                                                 *)

\* g is such a fold, and it takes its values from E to V.
FoldsByIndex(g, q, E, V, base, H) ==
    /\ g = [s \in SUBSET DOMAIN q |-> g[s]]
    /\ g[{}] = base
    /\ \A s \in SUBSET DOMAIN q : s # {} =>
          /\ Max(s) \in DOMAIN q /\ q[Max(s)] \in E /\ g[s \ {Max(s)}] \in V
          /\ g[s] = H[<<q[Max(s)], g[s \ {Max(s)}]>>]

LEMMA FoldByIndex ==
  ASSUME NEW E, NEW V, NEW base, NEW H, Foldable(E, V, base, H), NEW q \in Seq(E)
  PROVE  /\ \E g : FoldsByIndex(g, q, E, V, base, H)
         /\ \A h : ByIndex(h, q, base, V, H) => h[DOMAIN q] = Fold(H, base, q)
  <1>1. DOMAIN q = 1 .. Len(q) /\ Len(q) \in Nat /\ \A i \in DOMAIN q : q[i] \in E
    BY LenProperties
  <1>2. \A s \in SUBSET DOMAIN q : s # {} => Max(s) \in s /\ Max(s) \in DOMAIN q /\ s \ {Max(s)} \in SUBSET DOMAIN q
    BY <1>1, MaxOfFinite
  <1>3. PICK g \in [SUBSET DOMAIN q -> V] : FoldsIndices(g, q, base, H)
    BY FoldMaster
  <1>4. g[{}] = base /\ \A s \in SUBSET DOMAIN q : s # {} => g[s] = H[<<q[Max(s)], g[s \ {Max(s)}]>>]
    BY <1>3 DEF FoldsIndices
  <1>5. FoldsByIndex(g, q, E, V, base, H)
    BY <1>1, <1>2, <1>3, <1>4 DEF FoldsByIndex
  <1>6. Determined(q, base, V, H)
    BY FoldMaster
  <1> QED BY <1>5, <1>6 DEF Determined

-----------------------------------------------------------------------------
(* SumFunction and SumFunctionOnSet.                                       *)

\* Induction over the subsets of a finite set.
LEMMA SubsetInduction ==
  ASSUME NEW D, IsFiniteSet(D), NEW T \in SUBSET SUBSET D, {} \in T,
         \A s \in SUBSET D : \A x \in s : s \ {x} \in T => s \in T
  PROVE  T = SUBSET D
  <1> DEFINE U == {k \in Nat : Small(D, k) \subseteq T}
  <1>1. 0 \in U
    BY SmallSubsets
  <1>2. ASSUME NEW k \in U PROVE k + 1 \in U
    <2>1. k \in Nat /\ Small(D, k) \subseteq T
      OBVIOUS
    <2>2. ASSUME NEW s \in Small(D, k + 1) PROVE s \in T
      <3>1. s \in SUBSET D
        BY DEF Small
      <3>2. CASE s = {}
        BY <3>2
      <3>3. ASSUME NEW x \in s PROVE s \in T
        <4>1. s \ {x} \in Small(D, k)
          BY <2>1, SmallSubsets
        <4> QED BY <2>1, <3>1, <4>1
      <3> QED BY <3>2, <3>3
    <2> QED BY <2>1, <2>2
  <1>3. U = Nat
    <2>1. U \in SUBSET Nat
      OBVIOUS
    <2> HIDE DEF U
    <2> QED BY <1>1, <1>2, <2>1, NatSetInduction
  <1>4. Cardinality(D) \in U
    BY <1>3, FS_CardinalityType
  <1> QED BY <1>4, SmallSubsets

LEMMA SumOnIs ==
  ASSUME NEW D, IsFiniteSet(D), NEW w \in [D -> Int], NEW g, Sums(g, D, w), NEW S \in SUBSET D
  PROVE  SumFunctionOnSet(w, S) = g[S]
  <1> DEFINE iter == CHOOSE h : h = SumBody(h, S, w)
  <1>1. SumFunctionOnSet(w, S) = iter[S]
    BY DEF SumFunctionOnSet, FoldFunctionOnSet, MapThenFoldSet, SumBody
  <1>2. SumIs(g[S], S, w)
    BY SumMaster
  <1>3. iter = SumBody(iter, S, w)
    BY <1>2 DEF SumIs
  <1> HIDE DEF iter
  <1> QED BY <1>1, <1>2, <1>3 DEF SumIs

\* A sum over a set takes one element after the other, in any order.
LEMMA SumOnSteps ==
  ASSUME NEW D, IsFiniteSet(D), NEW w \in [D -> Int]
  PROVE  /\ SumFunctionOnSet(w, {}) = 0
         /\ \A s \in SUBSET D : SumFunctionOnSet(w, s) \in Int
         /\ \A s \in SUBSET D : \A x \in s : SumFunctionOnSet(w, s) = w[x] + SumFunctionOnSet(w, s \ {x})
         /\ SumFunction(w) = SumFunctionOnSet(w, D)
  <1>1. PICK g : Sums(g, D, w)
    BY SumExists
  <1>2. \A s \in SUBSET D : SumFunctionOnSet(w, s) = g[s]
    BY <1>1, SumOnIs
  <1>3. SumFunction(w) = SumFunctionOnSet(w, D)
    BY DEF SumFunction
  <1> HIDE DEF Sums
  <1>4. /\ g[{}] = 0 /\ \A s \in SUBSET D : g[s] \in Int
        /\ \A s \in SUBSET D : \A x \in s : g[s] = w[x] + g[s \ {x}]
    BY <1>1 DEF Sums
  <1> QED BY <1>2, <1>3, <1>4

LEMMA SumAdds ==
  ASSUME NEW D, IsFiniteSet(D), NEW u \in [D -> Int], NEW v \in [D -> Int], NEW w \in [D -> Int],
         \A x \in D : w[x] = u[x] + v[x]
  PROVE  SumFunction(w) = SumFunction(u) + SumFunction(v)
  <1> DEFINE Adds(s) == SumFunctionOnSet(w, s) = SumFunctionOnSet(u, s) + SumFunctionOnSet(v, s)
             T == {s \in SUBSET D : Adds(s)}
  <1>1. {} \in T
    BY SumOnSteps
  <1>2. ASSUME NEW s \in SUBSET D, NEW x \in s, s \ {x} \in T PROVE s \in T
    <2> DEFINE r == s \ {x}
    <2>1. r \in SUBSET D /\ Adds(r) /\ x \in D
      BY <1>2
    <2>2. /\ SumFunctionOnSet(w, s) = w[x] + SumFunctionOnSet(w, r)
          /\ SumFunctionOnSet(u, s) = u[x] + SumFunctionOnSet(u, r)
          /\ SumFunctionOnSet(v, s) = v[x] + SumFunctionOnSet(v, r)
      <3>1. SumFunctionOnSet(w, s) = w[x] + SumFunctionOnSet(w, r)
        BY SumOnSteps
      <3>2. SumFunctionOnSet(u, s) = u[x] + SumFunctionOnSet(u, r)
        BY SumOnSteps
      <3>3. SumFunctionOnSet(v, s) = v[x] + SumFunctionOnSet(v, r)
        BY SumOnSteps
      <3> QED BY <3>1, <3>2, <3>3
    <2>3. SumFunctionOnSet(w, r) \in Int /\ SumFunctionOnSet(u, r) \in Int /\ SumFunctionOnSet(v, r) \in Int
      BY <2>1, SumOnSteps
    <2>4. u[x] \in Int /\ v[x] \in Int /\ w[x] = u[x] + v[x]
      BY <2>1
    <2> HIDE DEF r
    <2> QED BY <2>1, <2>2, <2>3, <2>4
  <1> HIDE DEF Adds
  <1>3. T = SUBSET D
    <2>1. T \in SUBSET SUBSET D
      OBVIOUS
    <2> HIDE DEF T
    <2> QED BY <1>1, <1>2, <2>1, SubsetInduction
  <1>4. D \in T
    BY <1>3
  <1>5. Adds(D)
    BY <1>4
  <1> QED BY <1>5, SumOnSteps DEF Adds

LEMMA SumGrows ==
  ASSUME NEW D, IsFiniteSet(D), NEW u \in [D -> Int], NEW w \in [D -> Int],
         \A x \in D : u[x] <= w[x]
  PROVE  SumFunction(u) <= SumFunction(w)
  <1> DEFINE Grows(s) == SumFunctionOnSet(u, s) <= SumFunctionOnSet(w, s)
             T == {s \in SUBSET D : Grows(s)}
  <1>1. {} \in T
    BY SumOnSteps
  <1>2. ASSUME NEW s \in SUBSET D, NEW x \in s, s \ {x} \in T PROVE s \in T
    <2> DEFINE r == s \ {x}
    <2>1. r \in SUBSET D /\ Grows(r) /\ x \in D
      BY <1>2
    <2>2. /\ SumFunctionOnSet(w, s) = w[x] + SumFunctionOnSet(w, r)
          /\ SumFunctionOnSet(u, s) = u[x] + SumFunctionOnSet(u, r)
      BY SumOnSteps
    <2>3. SumFunctionOnSet(w, r) \in Int /\ SumFunctionOnSet(u, r) \in Int
      BY <2>1, SumOnSteps
    <2>4. u[x] \in Int /\ w[x] \in Int /\ u[x] <= w[x]
      BY <2>1
    <2> HIDE DEF r
    <2> QED BY <2>1, <2>2, <2>3, <2>4
  <1> HIDE DEF Grows
  <1>3. T = SUBSET D
    <2>1. T \in SUBSET SUBSET D
      OBVIOUS
    <2> HIDE DEF T
    <2> QED BY <1>1, <1>2, <2>1, SubsetInduction
  <1>4. D \in T
    BY <1>3
  <1>5. Grows(D)
    BY <1>4
  <1> QED BY <1>5, SumOnSteps DEF Grows

\* A sum of naturals is no less than one of them, or than two.
LEMMA SumContains ==
  ASSUME NEW D, IsFiniteSet(D), NEW w \in [D -> Nat]
  PROVE  /\ SumFunction(w) \in Nat
         /\ \A x \in D : w[x] <= SumFunction(w)
         /\ \A x, y \in D : x # y => w[x] + w[y] <= SumFunction(w)
  <1> DEFINE Sum(s) == SumFunctionOnSet(w, s)
             T == {s \in SUBSET D : Sum(s) >= 0}
  <1>0. w \in [D -> Int]
    OBVIOUS
  <1>1. Sum({}) = 0 /\ \A s \in SUBSET D : Sum(s) \in Int
    BY <1>0, SumOnSteps
  <1>2. ASSUME NEW s \in SUBSET D, NEW x \in s PROVE Sum(s) = w[x] + Sum(s \ {x})
    BY <1>0, SumOnSteps
  <1>3. SumFunction(w) = Sum(D)
    BY <1>0, SumOnSteps
  <1> HIDE DEF Sum
  <1>4. \A s \in SUBSET D : Sum(s) \in Nat
    <2>1. {} \in T
      BY <1>1
    <2>2. ASSUME NEW s \in SUBSET D, NEW x \in s, s \ {x} \in T PROVE s \in T
      <3>1. Sum(s) = w[x] + Sum(s \ {x}) /\ Sum(s \ {x}) \in Int /\ Sum(s \ {x}) >= 0 /\ w[x] \in Nat
        BY <1>1, <1>2, <2>2
      <3> QED BY <3>1
    <2>3. T \in SUBSET SUBSET D
      OBVIOUS
    <2>4. T = SUBSET D
      <3> HIDE DEF T
      <3> QED BY <2>1, <2>2, <2>3, SubsetInduction
    <2> QED BY <1>1, <2>4
  <1>5. ASSUME NEW x \in D PROVE w[x] <= Sum(D)
    <2>1. D \in SUBSET D /\ D \ {x} \in SUBSET D
      OBVIOUS
    <2>2. Sum(D) = w[x] + Sum(D \ {x}) /\ Sum(D \ {x}) \in Nat /\ w[x] \in Nat
      BY <1>2, <1>4, <2>1
    <2> QED BY <2>2
  <1>6. ASSUME NEW x \in D, NEW y \in D, x # y PROVE w[x] + w[y] <= Sum(D)
    <2>1. D \in SUBSET D /\ D \ {x} \in SUBSET D /\ y \in D \ {x} /\ (D \ {x}) \ {y} \in SUBSET D
      BY <1>6
    <2>2. Sum(D) = w[x] + Sum(D \ {x}) /\ Sum(D \ {x}) = w[y] + Sum((D \ {x}) \ {y})
      BY <1>2, <2>1
    <2>3. Sum((D \ {x}) \ {y}) \in Nat /\ w[x] \in Nat /\ w[y] \in Nat
      BY <1>4, <2>1
    <2> QED BY <2>2, <2>3
  <1> QED BY <1>3, <1>4, <1>5, <1>6

\* Zeros do not count.
LEMMA SumRestrict ==
  ASSUME NEW D, IsFiniteSet(D), NEW E \in SUBSET D, NEW w \in [D -> Int], \A x \in D \ E : w[x] = 0,
         NEW v \in [E -> Int], \A x \in E : v[x] = w[x]
  PROVE  SumFunction(w) = SumFunction(v)
  <1> DEFINE Same(s) == SumFunctionOnSet(w, s) = SumFunctionOnSet(v, s \cap E)
             T == {s \in SUBSET D : Same(s)}
  <1>0. IsFiniteSet(E)
    BY FS_Subset
  <1>1. {} \in T
    <2>1. {} \cap E = {}
      OBVIOUS
    <2>2. SumFunctionOnSet(v, {}) = 0 /\ SumFunctionOnSet(w, {}) = 0
      BY <1>0, SumOnSteps
    <2> QED BY <2>1, <2>2
  <1>2. ASSUME NEW s \in SUBSET D, NEW x \in s, s \ {x} \in T PROVE s \in T
    <2> DEFINE r == s \ {x}
    <2>1. r \in SUBSET D /\ Same(r) /\ x \in D
      BY <1>2
    <2>2. SumFunctionOnSet(w, s) = w[x] + SumFunctionOnSet(w, r) /\ SumFunctionOnSet(w, r) \in Int
      BY <2>1, SumOnSteps
    <2>3. CASE x \in E
      <3> DEFINE e == s \cap E
      <3>1. e \in SUBSET E /\ x \in e /\ e \ {x} = r \cap E
        BY <2>3
      <3> HIDE DEF e
      <3>2. SumFunctionOnSet(v, e) = v[x] + SumFunctionOnSet(v, e \ {x})
        BY <1>0, <3>1, SumOnSteps
      <3>3. SumFunctionOnSet(v, e) = w[x] + SumFunctionOnSet(w, r)
        BY <2>1, <2>3, <3>1, <3>2
      <3> QED BY <2>2, <3>3 DEF e
    <2>4. CASE x \notin E
      <3>1. s \cap E = r \cap E
        BY <2>4
      <3>2. w[x] = 0
        BY <2>1, <2>4
      <3>3. SumFunctionOnSet(w, s) = SumFunctionOnSet(w, r)
        BY <2>2, <3>2
      <3> QED BY <2>1, <3>1, <3>3
    <2> QED BY <2>3, <2>4
  <1> HIDE DEF Same
  <1>3. T = SUBSET D
    <2>1. T \in SUBSET SUBSET D
      OBVIOUS
    <2> HIDE DEF T
    <2> QED BY <1>1, <1>2, <2>1, SubsetInduction
  <1>4. Same(D)
    <2>1. D \in T
      BY <1>3
    <2> QED BY <2>1
  <1>5. D \cap E = E
    OBVIOUS
  <1>6. SumFunction(w) = SumFunctionOnSet(w, D)
    BY SumOnSteps
  <1>7. SumFunction(v) = SumFunctionOnSet(v, E)
    BY <1>0, SumOnSteps
  <1> QED BY <1>4, <1>5, <1>6, <1>7 DEF Same

\* The elements may have other names.
LEMMA SumRenamed ==
  ASSUME NEW D, IsFiniteSet(D), NEW E, IsFiniteSet(E), NEW w \in [D -> Int], NEW v \in [E -> Int],
         NEW h \in [D -> E], \A x, y \in D : h[x] = h[y] => x = y, \A e \in E : \E x \in D : h[x] = e,
         \A x \in D : v[h[x]] = w[x]
  PROVE  SumFunction(w) = SumFunction(v)
  <1> DEFINE Im(s) == {h[x] : x \in s}
             Same(s) == SumFunctionOnSet(w, s) = SumFunctionOnSet(v, Im(s))
             T == {s \in SUBSET D : Same(s)}
  <1>1. {} \in T
    <2>1. Im({}) = {}
      OBVIOUS
    <2>2. SumFunctionOnSet(v, {}) = 0 /\ SumFunctionOnSet(w, {}) = 0
      BY SumOnSteps
    <2> QED BY <2>1, <2>2
  <1>2. ASSUME NEW s \in SUBSET D, NEW x \in s, s \ {x} \in T PROVE s \in T
    <2> DEFINE r == s \ {x}
               e == Im(s)
    <2>1. r \in SUBSET D /\ Same(r) /\ x \in D
      BY <1>2
    <2>2. SumFunctionOnSet(w, s) = w[x] + SumFunctionOnSet(w, r)
      BY SumOnSteps
    <2>3. e \in SUBSET E /\ h[x] \in e /\ e \ {h[x]} = Im(r)
      <3>1. \A y \in s : y \in D /\ (h[y] = h[x] <=> y = x)
        BY <2>1
      <3> QED BY <3>1
    <2> HIDE DEF e
    <2>4. SumFunctionOnSet(v, e) = v[h[x]] + SumFunctionOnSet(v, e \ {h[x]})
      BY <2>3, SumOnSteps
    <2>5. SumFunctionOnSet(w, r) = SumFunctionOnSet(v, Im(r)) /\ v[h[x]] = w[x]
      BY <2>1
    <2> HIDE DEF Im, r
    <2>6. SumFunctionOnSet(w, s) = SumFunctionOnSet(v, e)
      BY <2>2, <2>3, <2>4, <2>5
    <2> QED BY <2>6 DEF e
  <1> HIDE DEF Same
  <1>3. T = SUBSET D
    <2>1. T \in SUBSET SUBSET D
      OBVIOUS
    <2> HIDE DEF T
    <2> QED BY <1>1, <1>2, <2>1, SubsetInduction
  <1>4. Same(D)
    <2>1. D \in T
      BY <1>3
    <2> QED BY <2>1
  <1>5. Im(D) = E
    OBVIOUS
  <1>6. SumFunction(w) = SumFunctionOnSet(w, D)
    BY SumOnSteps
  <1>7. SumFunction(v) = SumFunctionOnSet(v, E)
    BY SumOnSteps
  <1> HIDE DEF Im
  <1> QED BY <1>4, <1>5, <1>6, <1>7 DEF Same

\* Rows first or columns first.
LEMMA SumSwap ==
  ASSUME NEW D, IsFiniteSet(D), NEW E, IsFiniteSet(E), NEW a \in [D -> [E -> Int]]
  PROVE  SumFunction([d \in D |-> SumFunction(a[d])]) = SumFunction([e \in E |-> SumFunction([d \in D |-> a[d][e]])])
  <1> DEFINE rows == [d \in D |-> SumFunction(a[d])]
             Col(e) == [d \in D |-> a[d][e]]
             part(s) == [e \in E |-> SumFunctionOnSet(Col(e), s)]
             Same(s) == SumFunctionOnSet(rows, s) = SumFunction(part(s))
             T == {s \in SUBSET D : Same(s)}
  <1>0. rows \in [D -> Int]
    <2>1. \A d \in D : a[d] \in [E -> Int] /\ E \in SUBSET E
      OBVIOUS
    <2>2. \A d \in D : SumFunction(a[d]) \in Int
      BY <2>1, SumOnSteps
    <2> QED BY <2>2
  <1>1. \A e \in E : /\ Col(e) \in [D -> Int] /\ SumFunctionOnSet(Col(e), {}) = 0
                     /\ SumFunction(Col(e)) = SumFunctionOnSet(Col(e), D)
    <2>1. \A e \in E : Col(e) \in [D -> Int]
      OBVIOUS
    <2> HIDE DEF Col
    <2> QED BY <2>1, SumOnSteps
  <1>2. \A e \in E, s \in SUBSET D : /\ SumFunctionOnSet(Col(e), s) \in Int
                                     /\ \A x \in s : SumFunctionOnSet(Col(e), s) = a[x][e] + SumFunctionOnSet(Col(e), s \ {x})
    <2>1. \A e \in E : \A x \in D : Col(e)[x] = a[x][e]
      OBVIOUS
    <2> HIDE DEF Col
    <2> QED BY <1>1, <2>1, SumOnSteps
  <1> HIDE DEF rows, Col
  <1>3. \A s \in SUBSET D : part(s) \in [E -> Int]
    BY <1>2
  <1>4. {} \in T
    <2> DEFINE p == part({})
    <2>1. p \in [E -> Int] /\ \A e \in E : p[e] = 0
      BY <1>1, <1>3
    <2>2. SumFunctionOnSet(rows, {}) = 0
      BY <1>0, SumOnSteps
    <2> HIDE DEF p
    <2>3. SumFunction(p) = 0
      <3>1. \A e \in E : p[e] = p[e] + p[e]
        BY <2>1
      <3>2. SumFunction(p) = SumFunction(p) + SumFunction(p)
        BY <2>1, <3>1, SumAdds
      <3>3. SumFunction(p) \in Int
        BY <2>1, SumOnSteps
      <3> QED BY <3>2, <3>3
    <2> QED BY <2>2, <2>3 DEF p
  <1>5. ASSUME NEW s \in SUBSET D, NEW x \in s, s \ {x} \in T PROVE s \in T
    <2> DEFINE r == s \ {x}
               p == part(s)
               q == part(r)
    <2>1. r \in SUBSET D /\ Same(r) /\ x \in D
      BY <1>5
    <2>2. SumFunctionOnSet(rows, s) = rows[x] + SumFunctionOnSet(rows, r) /\ rows[x] = SumFunction(a[x])
      BY <1>0, <2>1, SumOnSteps DEF rows
    <2>3. p \in [E -> Int] /\ q \in [E -> Int] /\ a[x] \in [E -> Int]
      BY <1>3, <2>1
    <2>4. \A e \in E : p[e] = a[x][e] + q[e]
      BY <1>2
    <2> HIDE DEF p, q
    <2>5. SumFunction(p) = SumFunction(a[x]) + SumFunction(q)
      BY <2>3, <2>4, SumAdds
    <2> QED BY <2>1, <2>2, <2>5 DEF p, q
  <1> HIDE DEF Same
  <1>6. T = SUBSET D
    <2>1. T \in SUBSET SUBSET D
      OBVIOUS
    <2> HIDE DEF T
    <2> QED BY <1>4, <1>5, <2>1, SubsetInduction
  <1>7. Same(D)
    <2>1. D \in T
      BY <1>6
    <2> QED BY <2>1
  <1>8. SumFunction(rows) = SumFunctionOnSet(rows, D)
    BY <1>0, SumOnSteps
  <1>9. part(D) = [e \in E |-> SumFunction(Col(e))]
    BY <1>1
  <1> QED BY <1>7, <1>8, <1>9 DEF Same, rows, Col
=============================================================================
