----------------------------- MODULE FoldTheorems ------------------------------
(***************************************************************************)
(* Induction over the natural numbers without a predicate as a parameter,  *)
(* and with it what a fold over a sequence computes. The operators of the  *)
(* model that are folds are proved about from here: MapThenFoldSet() of    *)
(* the community modules is a recursive function on sets of indices.       *)
(***************************************************************************)
EXTENDS Integers, FiniteSetsExt, SequencesExt, FiniteSetTheorems, SequenceTheorems, TLAPS

-----------------------------------------------------------------------------
(* Induction over numbers, from the theorem that the subset order on finite *)
(* sets is well-founded.                                                   *)

LEMMA MinimalSubset ==
    ASSUME NEW X, X # {}, X \subseteq FiniteSubsetsOf(Nat)
    PROVE  \E T \in X : \A U \in X : U \subseteq T => U = T
<1>1. PICK T \in X : \A U \in X : <<U, T>> \notin StrictSubsetOrdering(Nat)
  BY FS_StrictSubsetOrderingWellFounded, WFMin
<1>2. ASSUME NEW U \in X, U \subseteq T PROVE U = T
  <2>1. <<U, T>> \notin StrictSubsetOrdering(Nat)
    BY <1>1
  <2>. QED BY <2>1, <1>2 DEF StrictSubsetOrdering, FiniteSubsetsOf
<1>. QED BY <1>2

\* Induction over the natural numbers, for a set in the place of a predicate.
LEMMA NaturalInduction ==
    ASSUME NEW P, 0 \in P, \A n \in Nat : n \in P => n + 1 \in P
    PROVE  \A n \in Nat : n \in P
<1>. SUFFICES ASSUME NEW n \in Nat, n \notin P PROVE FALSE
  OBVIOUS
<1>. DEFINE X == { 0..k : k \in { k \in Nat : k \notin P } }
<1>1. PICK I \in X : \A U \in X : U \subseteq I => U = I
  <2>1. ASSUME NEW U \in X PROVE U \in FiniteSubsetsOf(Nat)
    <3>1. PICK k \in Nat : U = 0..k
      OBVIOUS
    <3>. QED BY <3>1, FS_Interval DEF FiniteSubsetsOf
  <2>2. X # {}
    OBVIOUS
  <2>. HIDE DEF X
  <2>. QED BY <2>1, <2>2, MinimalSubset
<1>2. PICK k \in Nat : k \notin P /\ I = 0..k
  OBVIOUS
<1>3. k # 0 /\ k - 1 \in Nat
  BY <1>2
<1>4. k - 1 \notin P
  BY <1>2, <1>3
<1>5. 0..(k-1) \in X /\ 0..(k-1) \subseteq I
  BY <1>2, <1>3, <1>4
<1>6. 0..(k-1) = 0..k
  BY <1>1, <1>2, <1>5
<1>. QED BY <1>6, <1>3

-----------------------------------------------------------------------------
(* Folds over a sequence. FoldLeft() removes the largest index of a set of *)
(* indices and folds the rest; its recursion is on all subsets.            *)

LEMMA MaxIsLast ==
    ASSUME NEW k \in Nat, NEW T \in SUBSET (1..k + 1), k + 1 \in T
    PROVE  Max(T) = k + 1
<1>1. \A y \in T : k + 1 >= y
  OBVIOUS
<1>2. ASSUME NEW x \in T, \A y \in T : x >= y PROVE x = k + 1
  BY <1>2
<1>. QED BY <1>1, <1>2 DEF Max

LEMMA MaxOfIndices ==
    ASSUME NEW n \in Nat, NEW T \in SUBSET (1..n), T # {}
    PROVE  Max(T) \in T
<1>. DEFINE HasMax(U) == \E x \in U : \A y \in U : x >= y
            P == { k \in Nat : \A U \in SUBSET (1..k) : U # {} => HasMax(U) }
<1>1. 0 \in P
  BY 1..0 = {}
<1>2. ASSUME NEW k \in Nat, k \in P PROVE k + 1 \in P
  <2>. SUFFICES ASSUME NEW U \in SUBSET (1..k + 1), U # {} PROVE HasMax(U)
    OBVIOUS
  <2>1. CASE k + 1 \in U
    <3>1. \A y \in U : k + 1 >= y
      OBVIOUS
    <3>. QED BY <2>1, <3>1
  <2>2. CASE k + 1 \notin U
    <3>1. U \in SUBSET (1..k)
      BY <2>2
    <3>. QED BY <1>2, <3>1
  <2>. QED BY <2>1, <2>2
<1>3. HasMax(T)
  <2>1. \A k \in Nat : k \in P
    <3>. HIDE DEF P
    <3>. QED BY <1>1, <1>2, NaturalInduction
  <2>2. n \in P
    BY <2>1
  <2>. QED BY <2>2
<1>. QED BY <1>3 DEF Max

\* The function on sets of indices that the recursion asks for.
Folds(g, base, step, k) ==
    \A T \in SUBSET (1..k) : g[T] = IF T = {} THEN base ELSE step[Max(T)][g[T \ {Max(T)}]]

\* There is one: what a set with k + 1 folds to is one step from what is before.
LEMMA FoldExists ==
    ASSUME NEW n \in Nat, NEW D, NEW base \in D, NEW step \in [1..n -> [D -> D]]
    PROVE  \E g \in [SUBSET (1..n) -> D] : Folds(g, base, step, n)
<1>. DEFINE Has(k) == \E g \in [SUBSET (1..k) -> D] : Folds(g, base, step, k)
            P == { k \in Nat : k <= n => Has(k) }
<1>1. Has(0)
  <2>. DEFINE g == [T \in SUBSET (1..0) |-> base]
  <2>1. g \in [SUBSET (1..0) -> D]
    OBVIOUS
  <2>2. Folds(g, base, step, 0)
    BY 1..0 = {} DEF Folds
  <2>. QED BY <2>1, <2>2
<1>2. ASSUME NEW k \in Nat, k + 1 <= n, Has(k) PROVE Has(k + 1)
  <2>1. PICK g \in [SUBSET (1..k) -> D] : Folds(g, base, step, k)
    BY <1>2
  <2>. DEFINE h == [T \in SUBSET (1..k + 1) |->
                      IF k + 1 \in T THEN step[k + 1][g[T \ {k + 1}]] ELSE g[T]]
  <2>2. h \in [SUBSET (1..k + 1) -> D]
    <3>1. step[k + 1] \in [D -> D]
      BY <1>2
    <3>2. ASSUME NEW T \in SUBSET (1..k + 1) PROVE h[T] \in D
      <4>1. T \ {k + 1} \in SUBSET (1..k)
        OBVIOUS
      <4>2. g[T \ {k + 1}] \in D
        BY <4>1
      <4>3. k + 1 \notin T => T \in SUBSET (1..k)
        OBVIOUS
      <4>. QED BY <3>1, <4>2, <4>3
    <3>. QED BY <3>2
  <2>3. ASSUME NEW T \in SUBSET (1..k + 1)
        PROVE  h[T] = IF T = {} THEN base ELSE step[Max(T)][h[T \ {Max(T)}]]
    <3>1. CASE k + 1 \in T
      <4>1. Max(T) = k + 1
        BY <3>1, MaxIsLast
      <4>2. T \ {k + 1} \in SUBSET (1..k + 1) /\ k + 1 \notin T \ {k + 1}
        OBVIOUS
      <4>3. h[T \ {k + 1}] = g[T \ {k + 1}]
        BY <4>2
      <4>. QED BY <3>1, <4>1, <4>3
    <3>2. CASE k + 1 \notin T
      <4>1. T \in SUBSET (1..k)
        BY <3>2
      <4>2. h[T] = g[T]
        BY <3>2
      <4>3. g[T] = IF T = {} THEN base ELSE step[Max(T)][g[T \ {Max(T)}]]
        BY <2>1, <4>1 DEF Folds
      <4>4. T \ {Max(T)} \in SUBSET (1..k + 1) /\ k + 1 \notin T \ {Max(T)}
        BY <3>2
      <4>5. h[T \ {Max(T)}] = g[T \ {Max(T)}]
        BY <4>4
      <4>. HIDE DEF h
      <4>. QED BY <4>2, <4>3, <4>5
    <3>. QED BY <3>1, <3>2
  <2>. HIDE DEF h
  <2>4. Folds(h, base, step, k + 1)
    BY <2>3 DEF Folds
  <2>. QED BY <2>2, <2>4
<1>3. \A k \in Nat : k \in P
  <2>. HIDE DEF Has
  <2>1. 0 \in P /\ \A k \in Nat : k \in P => k + 1 \in P
    BY <1>1, <1>2
  <2>. HIDE DEF P
  <2>. QED BY <2>1, NaturalInduction
<1>4. Has(n)
  <2>. HIDE DEF Has
  <2>. QED BY <1>3
<1>. QED BY <1>4

\* What holds of the base and is kept from each index to the next holds of the fold.
LEMMA FoldStays ==
    ASSUME NEW n \in Nat, NEW D, NEW g, g[{}] \in D,
           \A k \in 1..n : g[(1..k) \ {Max(1..k)}] \in D => g[1..k] \in D
    PROVE  g[1..n] \in D
<1>. DEFINE P == { k \in Nat : k <= n => g[1..k] \in D }
<1>1. 0 \in P
  BY 1..0 = {}
<1>2. ASSUME NEW k \in Nat, k \in P PROVE k + 1 \in P
  <2>. SUFFICES ASSUME k + 1 <= n PROVE g[1..k + 1] \in D
    OBVIOUS
  <2>1. Max(1..k + 1) = k + 1
    BY MaxIsLast
  <2>2. (1..k + 1) \ {k + 1} = 1..k
    OBVIOUS
  <2>3. g[(1..k + 1) \ {Max(1..k + 1)}] \in D
    <3>1. g[1..k] \in D
      BY <1>2
    <3>. QED BY <2>1, <2>2, <3>1
  <2>4. k + 1 \in 1..n
    OBVIOUS
  <2>. QED BY <2>3, <2>4
<1>3. \A k \in Nat : k \in P
  <2>. HIDE DEF P
  <2>. QED BY <1>1, <1>2, NaturalInduction
<1>. QED BY <1>3

LEMMA LastIndex ==
    ASSUME NEW n \in Nat, NEW k \in 1..n
    PROVE  /\ Max(1..k) = k /\ (1..k) \ {k} = 1..(k - 1)
           /\ 1..k \in SUBSET (1..n) /\ 1..k # {}
<1>1. k \in Nat /\ k - 1 \in Nat /\ (k - 1) + 1 = k /\ k \in 1..k /\ k <= n
  OBVIOUS
<1>2. Max(1..k) = k
  BY <1>1, MaxIsLast
<1>3. (1..k) \ {k} = 1..(k - 1)
  BY <1>1
<1>4. 1..k \in SUBSET (1..n) /\ 1..k # {}
  BY <1>1
<1>. QED BY <1>2, <1>3, <1>4

\* What a fold comes to index by index, from its first to its last.
Along(g, base, step, n) ==
    g[{}] = base /\ \A k \in 1..n : g[1..k] = step[k][g[1..(k - 1)]]

\* Two folds that take the same steps up to n have come to the same.
LEMMA FoldsAgree ==
    ASSUME NEW n \in Nat, NEW m \in Nat, n <= m, NEW base, NEW step, NEW longer, NEW g, NEW h,
           Along(g, base, step, n), Along(h, base, longer, m),
           \A k \in 1..n : step[k] = longer[k]
    PROVE  g[1..n] = h[1..n]
<1>. DEFINE P == { k \in Nat : k <= n => g[1..k] = h[1..k] }
<1>1. 0 \in P
  BY 1..0 = {} DEF Along
<1>2. ASSUME NEW k \in Nat, k \in P, k + 1 <= n PROVE g[1..k + 1] = h[1..k + 1]
  <2>1. k + 1 \in 1..n /\ k + 1 \in 1..m /\ (k + 1) - 1 = k
    BY <1>2
  <2>2. g[1..k + 1] = step[k + 1][g[1..k]] /\ h[1..k + 1] = longer[k + 1][h[1..k]]
    BY <2>1 DEF Along
  <2>3. step[k + 1] = longer[k + 1] /\ g[1..k] = h[1..k]
    BY <1>2, <2>1
  <2>. QED BY <2>2, <2>3
<1>3. \A k \in Nat : k \in P => k + 1 \in P
  BY <1>2
<1>4. \A k \in Nat : k \in P
  <2>. HIDE DEF P
  <2>. QED BY <1>1, <1>3, NaturalInduction
<1>. QED BY <1>4

\* An invariant of a fold that may tell of the index it has come to.
LEMMA FoldKeeps ==
    ASSUME NEW n \in Nat, NEW g, NEW J, g[{}] \in J[0],
           \A k \in 1..n : g[1..(k - 1)] \in J[k - 1] => g[1..k] \in J[k]
    PROVE  g[1..n] \in J[n]
<1>. DEFINE P == { k \in Nat : k <= n => g[1..k] \in J[k] }
<1>1. 0 \in P
  BY 1..0 = {}
<1>2. ASSUME NEW k \in Nat, k \in P, k + 1 <= n PROVE g[1..k + 1] \in J[k + 1]
  <2>1. k + 1 \in 1..n /\ (k + 1) - 1 = k
    BY <1>2
  <2>2. g[1..k] \in J[k]
    BY <1>2
  <2>. QED BY <2>1, <2>2
<1>3. \A k \in Nat : k \in P => k + 1 \in P
  BY <1>2
<1>4. \A k \in Nat : k \in P
  <2>. HIDE DEF P
  <2>. QED BY <1>1, <1>3, NaturalInduction
<1>. QED BY <1>4

-----------------------------------------------------------------------------
(* Flattening, whose recursion is on the index.                            *)

\* The recursion of FlattenSeq() has a solution, whose last value it returns.
LEMMA FlattenFolds ==
    ASSUME NEW X, NEW s \in Seq(Seq(X)), Len(s) # 0
    PROVE  \E f : /\ \A i \in 1..Len(s) : f[i] \in Seq(X)
                  /\ f[1] = s[1]
                  /\ \A i \in 1..Len(s) : i # 1 => f[i] = f[i - 1] \o s[i]
                  /\ FlattenSeq(s) = f[Len(s)]
<1>. DEFINE n == Len(s)
            Solves(f, m) == f = [i \in 1..m |-> IF i = 1 THEN s[i] ELSE f[i - 1] \o s[i]]
            Has(m) == \E f \in [1..m -> Seq(X)] : Solves(f, m)
            P == { m \in Nat : m <= n => Has(m) }
<1>1. n \in Nat /\ n >= 1 /\ \A i \in 1..n : s[i] \in Seq(X)
  BY LenProperties, ElementOfSeq
<1>2. Has(0)
  <2>. DEFINE f == [i \in 1..0 |-> <<>>]
  <2>1. 1..0 = {}
    OBVIOUS
  <2>2. f \in [1..0 -> Seq(X)] /\ Solves(f, 0)
    BY <2>1
  <2>. QED BY <2>2
<1>3. ASSUME NEW m \in Nat, m + 1 <= n, Has(m) PROVE Has(m + 1)
  <2>1. PICK f \in [1..m -> Seq(X)] : Solves(f, m)
    BY <1>3
  <2>. DEFINE h == [i \in 1..m + 1 |->
                      IF i = m + 1 THEN (IF m = 0 THEN s[1] ELSE f[m] \o s[m + 1]) ELSE f[i]]
  <2>2. m + 1 \in 1..n /\ (m + 1) - 1 = m
    BY <1>3
  <2>3. m # 0 => f[m] \in Seq(X) /\ f[m] \o s[m + 1] \in Seq(X)
    <3>. SUFFICES ASSUME m # 0 PROVE f[m] \in Seq(X) /\ f[m] \o s[m + 1] \in Seq(X)
      OBVIOUS
    <3>1. f[m] \in Seq(X) /\ s[m + 1] \in Seq(X)
      BY <1>1, <2>2
    <3>. QED BY <3>1, ConcatProperties
  <2>4. h \in [1..m + 1 -> Seq(X)]
    <3>1. ASSUME NEW i \in 1..m + 1 PROVE h[i] \in Seq(X)
      <4>1. CASE i = m + 1
        BY <1>1, <2>2, <2>3, <4>1
      <4>2. CASE i # m + 1
        BY <4>2
      <4>. QED BY <4>1, <4>2
    <3>. QED BY <3>1
  <2>5. ASSUME NEW i \in 1..m + 1
        PROVE  h[i] = IF i = 1 THEN s[i] ELSE h[i - 1] \o s[i]
    <3>1. CASE i = m + 1
      <4>1. CASE m = 0
        BY <3>1, <4>1
      <4>2. CASE m # 0
        <5>1. i # 1 /\ i - 1 = m /\ m \in 1..m + 1 /\ m # m + 1
          BY <3>1, <4>2
        <5>2. h[m] = f[m] /\ h[i] = f[m] \o s[i]
          BY <3>1, <4>2, <5>1
        <5>. HIDE DEF h
        <5>. QED BY <5>1, <5>2
      <4>. QED BY <4>1, <4>2
    <3>2. CASE i # m + 1
      <4>1. i \in 1..m /\ (i # 1 => i - 1 \in 1..m + 1 /\ i - 1 # m + 1)
        BY <3>2
      <4>2. h[i] = f[i] /\ (i # 1 => h[i - 1] = f[i - 1])
        BY <4>1, <3>2
      <4>3. f[i] = IF i = 1 THEN s[i] ELSE f[i - 1] \o s[i]
        BY <2>1, <4>1
      <4>. HIDE DEF h, Solves
      <4>. QED BY <4>2, <4>3
    <3>. QED BY <3>1, <3>2
  <2>6. h = [i \in 1..m + 1 |-> h[i]]
    OBVIOUS
  <2>. HIDE DEF h
  <2>7. Solves(h, m + 1)
    BY <2>5, <2>6
  <2>. QED BY <2>4, <2>7
<1>4. \A m \in Nat : m \in P
  <2>. HIDE DEF Has, n
  <2>1. 0 \in P /\ \A m \in Nat : m \in P => m + 1 \in P
    BY <1>1, <1>2, <1>3
  <2>. HIDE DEF P
  <2>. QED BY <2>1, NaturalInduction
<1>5. Has(n)
  <2>. HIDE DEF Has, n
  <2>. QED BY <1>1, <1>4
<1>. DEFINE f == CHOOSE f : Solves(f, n)
<1>6. Solves(f, n)
  BY <1>5
<1>7. FlattenSeq(s) = f[n]
  BY DEF FlattenSeq
<1>. HIDE DEF f, n, Has
<1>8. \A i \in 1..n : f[i] = IF i = 1 THEN s[i] ELSE f[i - 1] \o s[i]
  BY <1>6
<1>9. \A i \in 1..n : f[i] \in Seq(X)
  <2>. DEFINE Q == { m \in Nat : m + 1 <= n => f[m + 1] \in Seq(X) }
  <2>1. 0 \in Q
    BY <1>1, <1>8
  <2>2. ASSUME NEW m \in Nat, m \in Q, (m + 1) + 1 <= n PROVE f[(m + 1) + 1] \in Seq(X)
    <3>1. (m + 1) + 1 \in 1..n /\ (m + 1) + 1 # 1 /\ ((m + 1) + 1) - 1 = m + 1 /\ m + 1 <= n
      BY <1>1, <2>2
    <3>2. f[(m + 1) + 1] = f[m + 1] \o s[(m + 1) + 1]
      BY <1>8, <3>1
    <3>3. f[m + 1] \in Seq(X) /\ s[(m + 1) + 1] \in Seq(X)
      BY <1>1, <2>2, <3>1
    <3>. QED BY <3>2, <3>3, ConcatProperties
  <2>3. \A m \in Nat : m \in Q
    <3>1. \A m \in Nat : m \in Q => m + 1 \in Q
      BY <2>2
    <3>. HIDE DEF Q
    <3>. QED BY <2>1, <3>1, NaturalInduction
  <2>4. ASSUME NEW i \in 1..n PROVE f[i] \in Seq(X)
    <3>1. i - 1 \in Nat /\ (i - 1) + 1 = i /\ i <= n
      BY <1>1
    <3>2. i - 1 \in Q
      BY <2>3, <3>1
    <3>. QED BY <3>1, <3>2
  <2>. QED BY <2>4
<1>10. 1 \in 1..n
  BY <1>1
<1>. QED BY <1>7, <1>8, <1>9, <1>10 DEF n

LEMMA FlattenTyped ==
    ASSUME NEW X, NEW s \in Seq(Seq(X))
    PROVE  FlattenSeq(s) \in Seq(X)
<1>1. CASE Len(s) = 0
  <2>1. s = <<>> /\ FlattenSeq(s) = s
    BY <1>1, EmptySeq DEF FlattenSeq
  <2>. QED BY <2>1, EmptySeq
<1>2. CASE Len(s) # 0
  <2>1. Len(s) \in Nat /\ Len(s) \in 1..Len(s)
    BY <1>2, LenProperties
  <2>. QED BY <1>2, <2>1, FlattenFolds
<1>. QED BY <1>1, <1>2

\* Flattening goes from the front to the back.
LEMMA FlattenMore ==
    ASSUME NEW X, NEW s \in Seq(Seq(X)), NEW x \in Seq(X)
    PROVE  FlattenSeq(Append(s, x)) = FlattenSeq(s) \o x
<1>. DEFINE n == Len(s)
            t == Append(s, x)
<1>1. n \in Nat /\ t \in Seq(Seq(X)) /\ Len(t) = n + 1 /\ t[n + 1] = x /\ \A i \in 1..n : t[i] = s[i]
  BY LenProperties, AppendProperties
<1>. HIDE DEF t
<1>2. PICK f : /\ \A i \in 1..n + 1 : f[i] \in Seq(X)
               /\ f[1] = t[1]
               /\ \A i \in 1..n + 1 : i # 1 => f[i] = f[i - 1] \o t[i]
               /\ FlattenSeq(t) = f[n + 1]
  <2>. HIDE DEF n
  <2>1. Len(t) # 0 /\ Len(t) = n + 1 /\ t \in Seq(Seq(X))
    BY <1>1
  <2>2. PICK f : /\ \A i \in 1..Len(t) : f[i] \in Seq(X)
                 /\ f[1] = t[1]
                 /\ \A i \in 1..Len(t) : i # 1 => f[i] = f[i - 1] \o t[i]
                 /\ FlattenSeq(t) = f[Len(t)]
    BY <2>1, FlattenFolds
  <2>3. Len(t) = n + 1
    BY <1>1
  <2>4. \A i \in 1..n + 1 : i \in 1..Len(t)
    BY <2>3
  <2>5. /\ \A i \in 1..n + 1 : f[i] \in Seq(X)
        /\ \A i \in 1..n + 1 : i # 1 => f[i] = f[i - 1] \o t[i]
    BY <2>2, <2>4
  <2>6. f[1] = t[1] /\ FlattenSeq(t) = f[n + 1]
    BY <2>2, <2>3
  <2>. QED BY <2>5, <2>6
<1>3. CASE n = 0
  <2>1. s = <<>> /\ FlattenSeq(s) = <<>>
    BY <1>3, EmptySeq DEF FlattenSeq
  <2>2. FlattenSeq(t) = x
    BY <1>1, <1>2, <1>3
  <2>. QED BY <2>1, <2>2, ConcatProperties DEF t
<1>4. CASE n # 0
  <2>1. PICK g : /\ \A i \in 1..n : g[i] \in Seq(X)
                 /\ g[1] = s[1]
                 /\ \A i \in 1..n : i # 1 => g[i] = g[i - 1] \o s[i]
                 /\ FlattenSeq(s) = g[n]
    BY <1>4, FlattenFolds
  <2>. HIDE DEF n
  <2>. DEFINE Q == { m \in Nat : m + 1 <= n => g[m + 1] = f[m + 1] }
  <2>2. 0 \in Q
    BY <1>1, <1>2, <2>1
  <2>3. ASSUME NEW m \in Nat, m \in Q, (m + 1) + 1 <= n PROVE g[(m + 1) + 1] = f[(m + 1) + 1]
    <3>. DEFINE i == (m + 1) + 1
    <3>1. i \in 1..n /\ i \in 1..n + 1 /\ i # 1 /\ i - 1 = m + 1 /\ m + 1 <= n
      BY <1>1, <2>3
    <3>2. g[m + 1] = f[m + 1]
      BY <2>3, <3>1
    <3>. HIDE DEF i, Q
    <3>3. g[i] = g[m + 1] \o s[i] /\ f[i] = f[m + 1] \o t[i] /\ t[i] = s[i]
      BY <1>1, <1>2, <2>1, <3>1
    <3>4. g[i] = f[i]
      BY <3>2, <3>3
    <3>. QED BY <3>4 DEF i
  <2>4. \A m \in Nat : m \in Q
    <3>1. \A m \in Nat : m \in Q => m + 1 \in Q
      BY <2>3
    <3>. HIDE DEF Q
    <3>. QED BY <2>2, <3>1, NaturalInduction
  <2>5. g[n] = f[n]
    <3>1. n - 1 \in Nat /\ (n - 1) + 1 = n
      BY <1>1, <1>4
    <3>2. n - 1 \in Q
      BY <2>4, <3>1
    <3>. QED BY <3>1, <3>2
  <2>6. f[n + 1] = f[n] \o x
    <3>0. n \in Nat
      BY <1>1
    <3>1. n + 1 \in 1..n + 1 /\ n + 1 # 1 /\ (n + 1) - 1 = n
      BY <3>0, <1>4
    <3>. QED BY <1>1, <1>2, <3>1
  <2>. QED BY <1>2, <2>1, <2>5, <2>6 DEF t
<1>. QED BY <1>3, <1>4

LEMMA FlattenNone == FlattenSeq(<<>>) = <<>>
BY DEF FlattenSeq

\* What two sequences of sequences flatten to, one behind the other.
LEMMA FlattenBoth ==
    ASSUME NEW X
    PROVE  \A s, t \in Seq(Seq(X)) : FlattenSeq(s \o t) = FlattenSeq(s) \o FlattenSeq(t)
<1>assoc. \A p, q, r \in Seq(X) : (p \o q) \o r = p \o (q \o r)
  BY ConcatAssociative
<1>. SUFFICES ASSUME NEW s \in Seq(Seq(X)), NEW t \in Seq(Seq(X))
              PROVE  FlattenSeq(s \o t) = FlattenSeq(s) \o FlattenSeq(t)
  OBVIOUS
<1>. DEFINE Holds(u) == FlattenSeq(s \o u) = FlattenSeq(s) \o FlattenSeq(u)
            Q == { m \in Nat : \A u \in Seq(Seq(X)) : Len(u) = m => Holds(u) }
<1>0. FlattenSeq(s) \in Seq(X)
  BY FlattenTyped
<1>1. 0 \in Q
  <2>. SUFFICES ASSUME NEW u \in Seq(Seq(X)), Len(u) = 0 PROVE Holds(u)
    OBVIOUS
  <2>1. u = <<>>
    BY EmptySeq
  <2>2. s \o u = s /\ FlattenSeq(s) \o <<>> = FlattenSeq(s)
    BY <1>0, <2>1, ConcatProperties
  <2>. QED BY <2>1, <2>2, FlattenNone
<1>2. ASSUME NEW m \in Nat, m \in Q PROVE m + 1 \in Q
  <2>. SUFFICES ASSUME NEW u \in Seq(Seq(X)), Len(u) = m + 1 PROVE Holds(u)
    OBVIOUS
  <2>. DEFINE v == SubSeq(u, 1, m)
              x == u[m + 1]
  <2>1. x \in Seq(X) /\ v \in Seq(Seq(X)) /\ Len(v) = m /\ u = Append(v, x)
    <3>1. m + 1 \in 1..Len(u)
      OBVIOUS
    <3>2. x \in Seq(X)
      BY <3>1, ElementOfSeq
    <3>3. v \in Seq(Seq(X)) /\ Len(v) = m /\ \A i \in 1..m : v[i] = u[i]
      BY SubSeqProperties
    <3>. HIDE DEF v, x
    <3>4. Append(v, x) \in Seq(Seq(X)) /\ Len(Append(v, x)) = m + 1
      BY <3>2, <3>3, AppendProperties
    <3>5. \A i \in 1..m + 1 : Append(v, x)[i] = u[i]
      BY <3>2, <3>3, AppendProperties DEF x
    <3>6. u = Append(v, x)
      BY <3>4, <3>5, SeqEqual
    <3>. QED BY <3>2, <3>3, <3>6
  <2>. HIDE DEF v, x
  <2>2. FlattenSeq(s \o v) = FlattenSeq(s) \o FlattenSeq(v)
    BY <1>2, <2>1
  <2>3. s \o u = Append(s \o v, x) /\ s \o v \in Seq(Seq(X))
    <3>1. s \o v \in Seq(Seq(X)) /\ <<x>> \in Seq(Seq(X))
      BY <2>1, ConcatProperties
    <3>2. u = v \o <<x>> /\ Append(s \o v, x) = (s \o v) \o <<x>>
      BY <2>1, <3>1, AppendIsConcat
    <3>3. (s \o v) \o <<x>> = s \o (v \o <<x>>)
      BY <2>1, <3>1, ConcatAssociative
    <3>. QED BY <3>1, <3>2, <3>3
  <2>4. FlattenSeq(s \o u) = (FlattenSeq(s) \o FlattenSeq(v)) \o x
    BY <2>1, <2>2, <2>3, FlattenMore
  <2>5. FlattenSeq(u) = FlattenSeq(v) \o x /\ FlattenSeq(v) \in Seq(X)
    BY <2>1, FlattenMore, FlattenTyped
  <2>6. (FlattenSeq(s) \o FlattenSeq(v)) \o x = FlattenSeq(s) \o (FlattenSeq(v) \o x)
    <3>. DEFINE a == FlattenSeq(s)
                c == FlattenSeq(v)
    <3>1. a \in Seq(X) /\ c \in Seq(X) /\ x \in Seq(X)
      BY <1>0, <2>1, <2>5
    <3>. HIDE DEF a, c, Q, Holds
    <3>2. (a \o c) \o x = a \o (c \o x)
      BY <1>assoc, <3>1
    <3>. QED BY <3>2 DEF a, c
  <2>. QED BY <2>4, <2>5, <2>6
<1>3. \A m \in Nat : m \in Q
  <2>. HIDE DEF Q
  <2>. QED BY <1>1, <1>2, NaturalInduction
<1>4. Len(t) \in Q
  BY <1>3, LenProperties
<1>. QED BY <1>4

\* What one element more in the last of the sequences adds.
LEMMA FlattenLonger ==
    ASSUME NEW X, NEW s \in Seq(Seq(X)), s # <<>>, NEW x \in X
    PROVE  LET t == [s EXCEPT ![Len(s)] = Append(@, x)] IN
           t \in Seq(Seq(X)) /\ FlattenSeq(t) = FlattenSeq(s) \o <<x>>
<1>. DEFINE n == Len(s)
            l == s[Len(s)]
            m == Append(l, x)
            t == [s EXCEPT ![Len(s)] = Append(@, x)]
<1>1. n \in Nat /\ n \in 1..n /\ l \in Seq(X)
  <2>1. n \in Nat /\ n # 0
    BY EmptySeq, LenProperties
  <2>2. n \in 1..Len(s)
    BY <2>1
  <2>. HIDE DEF n
  <2>3. Len(s) \in 1..Len(s)
    BY <2>2 DEF n
  <2>. QED BY <2>1, <2>2, <2>3, ElementOfSeq
<1>2. m \in Seq(X) /\ m = l \o <<x>> /\ <<x>> \in Seq(X)
  <2>1. l \in Seq(X)
    BY <1>1
  <2>. HIDE DEF l
  <2>. QED BY <2>1, AppendProperties, AppendIsConcat
<1>3. t = [s EXCEPT ![n] = m]
  OBVIOUS
<1>4. t \in Seq(Seq(X)) /\ Len(t) = n /\ \A j \in 1..n : t[j] = IF j = n THEN m ELSE s[j]
  <2>1. n \in 1..Len(s)
    BY <1>1
  <2>2. t = [s EXCEPT ![n] = m]
    BY <1>3
  <2>3. Len(s) = n
    OBVIOUS
  <2>. HIDE DEF t, n, m
  <2>4. /\ [s EXCEPT ![n] = m] \in Seq(Seq(X)) /\ Len([s EXCEPT ![n] = m]) = Len(s)
        /\ \A j \in 1..Len(s) : [s EXCEPT ![n] = m][j] = IF j = n THEN m ELSE s[j]
    BY <1>2, <2>1, ExceptSeq
  <2>. QED BY <2>2, <2>3, <2>4
<1>5. PICK f \in Seq(Seq(X)), e \in Seq(X) : s = Append(f, e)
  BY SequenceEmptyOrAppend
<1>6. Len(s) = Len(f) + 1 /\ Len(f) \in Nat /\ s[Len(f) + 1] = e /\ \A i \in 1..Len(f) : s[i] = f[i]
  BY <1>5, AppendProperties, LenProperties
<1>7. e = l /\ n = Len(f) + 1
  BY <1>6
<1>. HIDE DEF l, n, t, m
<1>8. t = Append(f, m)
  <2>1. /\ Append(f, m) \in Seq(Seq(X)) /\ Len(Append(f, m)) = Len(f) + 1
        /\ \A i \in 1..Len(f) : Append(f, m)[i] = f[i]
        /\ Append(f, m)[Len(f) + 1] = m
    BY <1>2, AppendProperties
  <2>2. ASSUME NEW i \in 1..n PROVE t[i] = Append(f, m)[i]
    <3>1. CASE i = n
      BY <1>4, <1>7, <2>1, <3>1
    <3>2. CASE i # n
      <4>1. i \in 1..Len(f)
        BY <1>6, <1>7, <3>2
      <4>. QED BY <1>4, <1>6, <2>1, <3>2, <4>1
    <3>. QED BY <3>1, <3>2
  <2>3. Len(t) = Len(Append(f, m)) /\ \A i \in 1..Len(t) : t[i] = Append(f, m)[i]
    BY <1>4, <1>7, <2>1, <2>2
  <2>. QED BY <1>4, <2>1, <2>3, SeqEqual
<1>9. FlattenSeq(t) = FlattenSeq(f) \o m /\ FlattenSeq(s) = FlattenSeq(f) \o e
  BY <1>2, <1>5, <1>8, FlattenMore
<1>10. FlattenSeq(f) \in Seq(X)
  BY FlattenTyped
<1>11. (FlattenSeq(f) \o e) \o <<x>> = FlattenSeq(f) \o (e \o <<x>>)
  <2>1. <<x>> \in Seq(X)
    BY <1>2
  <2>. QED BY <1>10, <2>1, ConcatAssociative
<1>12. FlattenSeq(t) = FlattenSeq(s) \o <<x>>
  BY <1>2, <1>7, <1>9, <1>11
<1>. QED BY <1>4, <1>12 DEF t

\* One element behind two sequences.
LEMMA ConcatOne ==
    ASSUME NEW X, NEW s \in Seq(X), NEW t \in Seq(X), NEW x \in X
    PROVE  (s \o t) \o <<x>> = s \o (t \o <<x>>)
BY <<x>> \in Seq(X), ConcatAssociative

-----------------------------------------------------------------------------
(* Sequences of numbers that rise, and sequences that list a set.          *)

\* A sequence of numbers that rises, and one that lists a set, each member once.
Rises(t) == \A j, k \in DOMAIN t : j < k => t[j] < t[k]

Lists(t, S) ==
    /\ t \in Seq(Nat) /\ ToSet(t) = S
    /\ IsFiniteSet(S) /\ Len(t) = Cardinality(S)

LEMMA ListsNone == Lists(<<>>, {}) /\ Rises(<<>>)
<1>1. <<>> \in Seq(Nat) /\ Len(<<>>) = 0 /\ DOMAIN <<>> = {}
  OBVIOUS
<1>. QED BY <1>1, FS_EmptySet DEF Lists, Rises, ToSet

\* What is listed in two parts.
LEMMA ListsBoth ==
    ASSUME NEW t, NEW u, NEW S, NEW T, Lists(t, S), Lists(u, T), S \cap T = {}
    PROVE  Lists(t \o u, S \cup T)
<1>. DEFINE n == Len(t)
            m == Len(u)
            both == t \o u
<1>1. /\ t \in Seq(Nat) /\ u \in Seq(Nat) /\ n \in Nat /\ m \in Nat
      /\ DOMAIN t = 1..n /\ DOMAIN u = 1..m
      /\ n = Cardinality(S) /\ m = Cardinality(T) /\ IsFiniteSet(S) /\ IsFiniteSet(T)
      /\ S = { t[i] : i \in 1..n } /\ T = { u[i] : i \in 1..m }
  BY LenProperties DEF Lists, ToSet
<1>2. /\ both \in Seq(Nat) /\ Len(both) = n + m
      /\ \A k \in 1..n + m : both[k] = IF k <= n THEN t[k] ELSE u[k - n]
  <2>1. t \in Seq(Nat) /\ u \in Seq(Nat)
    BY <1>1
  <2>. QED BY <2>1, ConcatProperties
<1>0. n \in Nat /\ m \in Nat
  BY <1>1
<1>. HIDE DEF both, n, m
<1>3. DOMAIN both = 1..n + m
  BY <1>2, LenProperties
<1>4. ToSet(both) = S \cup T
  <2>1. ASSUME NEW k \in 1..n + m PROVE both[k] \in S \cup T
    <3>1. CASE k <= n
      <4>1. k \in 1..n
        BY <1>0, <3>1
      <4>. QED BY <1>1, <1>2, <3>1, <4>1
    <3>2. CASE ~(k <= n)
      <4>1. k - n \in 1..m
        BY <1>0, <3>2
      <4>. QED BY <1>1, <1>2, <3>2, <4>1
    <3>. QED BY <3>1, <3>2
  <2>2. ASSUME NEW k \in 1..n PROVE \E j \in 1..n + m : both[j] = t[k]
    <3>1. k \in 1..n + m /\ k <= n
      BY <1>0
    <3>. QED BY <1>2, <3>1
  <2>3. ASSUME NEW k \in 1..m PROVE \E j \in 1..n + m : both[j] = u[k]
    <3>. DEFINE j == k + n
    <3>1. j \in 1..n + m /\ ~(j <= n) /\ j - n = k
      BY <1>0
    <3>. HIDE DEF j
    <3>2. both[j] = u[k]
      BY <1>2, <3>1
    <3>. QED BY <3>1, <3>2
  <2>4. S = { t[i] : i \in 1..n } /\ T = { u[i] : i \in 1..m }
    BY <1>1
  <2>5. ToSet(both) = { both[i] : i \in 1..n + m }
    BY <1>3 DEF ToSet
  <2>. QED BY <2>1, <2>2, <2>3, <2>4, <2>5
<1>5. IsFiniteSet(S \cup T) /\ Cardinality(S \cup T) = Cardinality(S) + Cardinality(T)
  <2>1. /\ IsFiniteSet(S \cup T) /\ Cardinality(S \cap T) = 0 /\ Cardinality(S) \in Nat /\ Cardinality(T) \in Nat
        /\ Cardinality(S \cup T) = Cardinality(S) + Cardinality(T) - Cardinality(S \cap T)
    BY <1>1, FS_Union, FS_EmptySet, FS_CardinalityType
  <2>. QED BY <2>1
<1>6. Lists(both, S \cup T)
  BY <1>1, <1>2, <1>4, <1>5 DEF Lists
<1>. QED BY <1>6 DEF both

LEMMA ListsOne ==
    ASSUME NEW i \in Nat
    PROVE  Lists(<<i>>, {i}) /\ Rises(<<i>>)
<1>. DEFINE t == <<i>>
<1>1. t \in Seq(Nat) /\ Len(t) = 1 /\ DOMAIN t = 1..1 /\ t[1] = i
  OBVIOUS
<1>2. \A j \in 1..1 : j = 1
  OBVIOUS
<1>3. 1 \in 1..1
  OBVIOUS
<1>4. IsFiniteSet({i}) /\ Cardinality({i}) = 1
  BY FS_Singleton
<1>. HIDE DEF t
<1>5. ToSet(t) = {i}
  BY <1>1, <1>2, <1>3 DEF ToSet
<1>6. Rises(t)
  BY <1>1, <1>2 DEF Rises
<1>. QED BY <1>1, <1>4, <1>5, <1>6 DEF Lists, t

\* A rising sequence goes on with what is larger than its last element.
LEMMA RisesOn ==
    ASSUME NEW t \in Seq(Nat), NEW i \in Nat, Rises(t), \A k \in DOMAIN t : t[k] < i
    PROVE  Rises(t \o <<i>>)
<1>. DEFINE more == Append(t, i)
            n == Len(t)
<1>1. /\ n \in Nat /\ DOMAIN t = 1..n /\ more \in Seq(Nat) /\ Len(more) = n + 1
      /\ \A k \in 1..n : more[k] = t[k]
      /\ more[n + 1] = i /\ more = t \o <<i>>
  BY LenProperties, AppendProperties, AppendIsConcat
<1>. HIDE DEF more, n
<1>2. DOMAIN more = 1..n + 1
  BY <1>1, LenProperties
<1>3. ASSUME NEW j \in 1..n + 1, NEW k \in 1..n + 1, j < k PROVE more[j] < more[k]
  <2>1. j \in 1..n
    BY <1>1, <1>3
  <2>2. CASE k = n + 1
    BY <1>1, <2>1, <2>2
  <2>3. CASE k # n + 1
    <3>1. k \in 1..n
      BY <1>1, <2>3
    <3>. QED BY <1>1, <1>3, <2>1, <3>1 DEF Rises
  <2>. QED BY <2>2, <2>3
<1>. QED BY <1>1, <1>2, <1>3 DEF Rises

\* A rising list begins with the least and ends with the largest member.
LEMMA ListEnds ==
    ASSUME NEW t, NEW S, Lists(t, S), Rises(t), t # <<>>
    PROVE  /\ t[1] \in S /\ \A x \in S : t[1] <= x
           /\ t[Len(t)] \in S /\ \A x \in S : x <= t[Len(t)]
<1>. DEFINE n == Len(t)
<1>1. t \in Seq(Nat) /\ n \in Nat /\ n # 0 /\ DOMAIN t = 1..n /\ S = { t[i] : i \in 1..n }
  BY LenProperties, EmptySeq DEF Lists, ToSet
<1>2. 1 \in 1..n /\ n \in 1..n
  BY <1>1
<1>3. \A k \in 1..n : t[k] \in Nat
  BY <1>1, ElementOfSeq
<1>. HIDE DEF n
<1>4. ASSUME NEW k \in 1..n PROVE t[1] <= t[k] /\ t[k] <= t[n]
  <2>1. k = 1 \/ 1 < k
    BY <1>1
  <2>2. k = n \/ k < n
    BY <1>1
  <2>3. 1 < k => t[1] < t[k]
    BY <1>1, <1>2 DEF Rises
  <2>4. k < n => t[k] < t[n]
    BY <1>1, <1>2 DEF Rises
  <2>5. t[1] \in Nat /\ t[k] \in Nat /\ t[n] \in Nat
    BY <1>2, <1>3
  <2>6. t[1] <= t[k]
    BY <2>1, <2>3, <2>5
  <2>7. t[k] <= t[n]
    BY <2>2, <2>4, <2>5
  <2>. QED BY <2>6, <2>7
<1>. QED BY <1>1, <1>2, <1>4 DEF n

=============================================================================
