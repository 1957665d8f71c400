---------------------------- MODULE FoldTheorems -----------------------------
(***************************************************************************)
(* Facts about the folds of the community modules, for sets and sequences  *)
(* of every size.  A fold is a CHOOSE of a function that satisfies a       *)
(* recursion; that there is one, and what it returns, takes induction,     *)
(* which is stated here over sets: a set of naturals, or of subsets, takes *)
(* the place of the predicate.                                             *)
(***************************************************************************)
EXTENDS Integers, Sequences, FiniteSets, FiniteSetsExt, SequencesExt, FiniteSetTheorems,
        WellFoundedInduction, TLAPS

(* Induction *)

\* A set of naturals with 0 in it, and with every successor, is all of them.
LEMMA NatSetInduction ==
    ASSUME NEW G, 0 \in G, \A n \in Nat : n \in G => n + 1 \in G
    PROVE  Nat \subseteq G
<1> DEFINE bad == Nat \ G
<1>1. SUFFICES ASSUME bad # {} PROVE FALSE
  OBVIOUS
<1>2. bad \subseteq Nat
  OBVIOUS
<1> HIDE DEF bad
<1>3. \E m \in bad : \A k \in bad : ~ (<<k, m>> \in OpToRel(<, Nat))
  BY <1>1, <1>2, NatLessThanWellFounded, WFMin
<1>4. PICK m \in bad : \A k \in bad : ~ (k < m)
  BY <1>2, <1>3 DEF OpToRel
<1>5. m \in Nat /\ m \notin G
  BY <1>2 DEF bad
<1>6. m # 0 /\ m - 1 \in Nat
  BY <1>5
<1>7. m - 1 \in G
  BY <1>4, <1>6, <1>5 DEF bad
<1> QED
  BY <1>5, <1>6, <1>7

\* A set that has a subset of S whenever it has all smaller ones has them all.
LEMMA SubsetInduction ==
    ASSUME NEW S, IsFiniteSet(S), NEW G,
           \A T \in SUBSET S : (\A U \in SUBSET T : U # T => U \in G) => T \in G
    PROVE  \A T \in SUBSET S : T \in G
<1> DEFINE bad == {T \in SUBSET S : T \notin G}
<1>1. SUFFICES ASSUME bad # {} PROVE FALSE
  OBVIOUS
<1>2. bad \subseteq FiniteSubsetsOf(S)
  <2>1. \A T \in SUBSET S : IsFiniteSet(T)
    BY FS_Subset
  <2>2. QED
    BY <2>1 DEF FiniteSubsetsOf
<1>3. bad \subseteq SUBSET S
  OBVIOUS
<1>4. IsWellFoundedOn(StrictSubsetOrdering(S), FiniteSubsetsOf(S))
  BY FS_StrictSubsetOrderingWellFounded
<1> HIDE DEF bad
<1>5. \E T \in bad : \A U \in bad : ~ (<<U, T>> \in StrictSubsetOrdering(S))
  BY <1>1, <1>2, <1>4, WFMin
<1>6. PICK T \in bad : \A U \in bad : ~ (<<U, T>> \in StrictSubsetOrdering(S))
  BY <1>5
<1>7. ASSUME NEW U \in SUBSET T, U # T PROVE U \in G
  <2>1. U \in SUBSET S /\ T \in SUBSET S
    BY <1>3, <1>6
  <2>2. <<U, T>> \in StrictSubsetOrdering(S)
    BY <1>7, <2>1 DEF StrictSubsetOrdering
  <2>3. QED
    BY <1>6, <2>1, <2>2 DEF bad
<1>8. QED
  BY <1>3, <1>6, <1>7 DEF bad
-----------------------------------------------------------------------------
(* A recursion over the subsets of a finite set has a solution *)

\* iter folds the subsets of S: from base, picking one element after another.
Folds(iter, S, base, pick, next) ==
    \A s \in SUBSET S :
       iter[s] = IF s = {} THEN base ELSE next[<<pick[s], iter[s \ {pick[s]}]>>]

LEMMA FoldExists ==
    ASSUME NEW S, IsFiniteSet(S), NEW V, NEW base \in V,
           NEW pick, \A s \in SUBSET S : s # {} => pick[s] \in s,
           NEW next \in [S \X V -> V]
    PROVE  \E iter \in [SUBSET S -> V] : Folds(iter, S, base, pick, next)
<1> DEFINE Small(n) == {s \in SUBSET S : Cardinality(s) <= n}
           Solves(it, n) ==
              /\ it \in [Small(n) -> V]
              /\ \A s \in Small(n) :
                    it[s] = IF s = {} THEN base ELSE next[<<pick[s], it[s \ {pick[s]}]>>]
           G == {n \in Nat : \E it : Solves(it, n)}
<1>1. \A s \in SUBSET S : IsFiniteSet(s) /\ Cardinality(s) \in Nat
  BY FS_Subset, FS_CardinalityType
<1>2. \A s \in SUBSET S : s # {} =>
         s \ {pick[s]} \in SUBSET S /\ Cardinality(s \ {pick[s]}) = Cardinality(s) - 1
  BY <1>1, FS_RemoveElement
<1>3. 0 \in G
  <2>1. Small(0) = {{}}
    <3>1. \A s \in SUBSET S : Cardinality(s) = 0 <=> s = {}
      BY <1>1, FS_EmptySet
    <3>2. \A s \in SUBSET S : Cardinality(s) <= 0 <=> s = {}
      BY <1>1, <3>1
    <3>3. QED
      BY <3>2
  <2>2. Solves([s \in Small(0) |-> base], 0)
    BY <2>1
  <2>3. QED
    BY <2>2
<1>4. ASSUME NEW n \in Nat, n \in G PROVE n + 1 \in G
  <2>1. PICK it : Solves(it, n)
    BY <1>4
  <2> DEFINE longer == [s \in Small(n + 1) |->
                           IF s \in Small(n) THEN it[s]
                           ELSE next[<<pick[s], it[s \ {pick[s]}]>>]]
  <2>2. ASSUME NEW s \in Small(n + 1), s # {}
        PROVE  s \ {pick[s]} \in Small(n) /\ pick[s] \in S
    <3>1. s \in SUBSET S /\ Cardinality(s) <= n + 1 /\ Cardinality(s) \in Nat
      BY <1>1
    <3>2. QED
      BY <1>2, <2>2, <3>1
  <2>3. Small(n) \subseteq Small(n + 1)
    BY <1>1
  <2>4. {} \in Small(n)
    BY FS_EmptySet
  <2> HIDE DEF Small
  <2>5. ASSUME NEW s \in Small(n + 1)
        PROVE  longer[s] \in V
    BY <2>1, <2>2, <2>4
  <2>6. ASSUME NEW s \in Small(n + 1)
        PROVE  longer[s] = IF s = {} THEN base ELSE next[<<pick[s], longer[s \ {pick[s]}]>>]
    <3>1. CASE s = {}
      BY <2>1, <2>4, <3>1
    <3>2. CASE s # {}
      <4>1. s \ {pick[s]} \in Small(n) /\ s \ {pick[s]} \in Small(n + 1)
        BY <2>2, <2>3, <3>2
      <4>2. longer[s \ {pick[s]}] = it[s \ {pick[s]}]
        BY <4>1
      <4>3. CASE s \in Small(n)
        BY <2>1, <3>2, <4>2, <4>3
      <4>4. CASE s \notin Small(n)
        BY <3>2, <4>2, <4>4
      <4>5. QED
        BY <4>3, <4>4
    <3>3. QED
      BY <3>1, <3>2
  <2>7. Solves(longer, n + 1)
    BY <2>5, <2>6
  <2>8. \E other : Solves(other, n + 1)
    BY <2>7
  <2> HIDE DEF Solves
  <2>9. QED
    BY <2>8
<1> HIDE DEF G
<1>5. Nat \subseteq G
  BY <1>3, <1>4, NatSetInduction
<1>6. Cardinality(S) \in G
  BY <1>1, <1>5
<1> USE DEF G
<1>7. PICK it : Solves(it, Cardinality(S))
  BY <1>6
<1>8. Small(Cardinality(S)) = SUBSET S
  BY FS_Subset
<1>9. QED
  BY <1>7, <1>8 DEF Folds
-----------------------------------------------------------------------------
(* Sums *)

\* iter sums v over the subsets of S: whichever element is taken first.
SumsUp(iter, v, S) ==
    /\ iter \in [SUBSET S -> Nat]
    /\ iter[{}] = 0
    /\ \A T \in SUBSET S : \A x \in T : iter[T] = v[x] + iter[T \ {x}]

\* A recursion that takes the elements in some order sums them up: the order
\* does not matter.
LEMMA AnyOrder ==
    ASSUME NEW S, IsFiniteSet(S), NEW v \in [S -> Nat], NEW pick, NEW it,
           \A s \in SUBSET S : s # {} => pick[s] \in s,
           it = [s \in SUBSET S |-> IF s = {} THEN 0 ELSE v[pick[s]] + it[s \ {pick[s]}]]
    PROVE  SumsUp(it, v, S)
<1> DEFINE Typed == {T \in SUBSET S : it[T] \in Nat}
           Free == {T \in SUBSET S : \A x \in T : it[T] = v[x] + it[T \ {x}]}
<1>1. /\ it[{}] = 0
      /\ \A T \in SUBSET S : T # {} =>
            /\ it[T] = v[pick[T]] + it[T \ {pick[T]}]
            /\ pick[T] \in T /\ pick[T] \in S
            /\ T \ {pick[T]} \in SUBSET T /\ T \ {pick[T]} # T
  <2>1. \A T \in SUBSET S : it[T] = IF T = {} THEN 0 ELSE v[pick[T]] + it[T \ {pick[T]}]
    OBVIOUS
  <2>2. QED
    BY <2>1
<1>2. \A T \in SUBSET S : T \in Typed
  <2>1. ASSUME NEW T \in SUBSET S, \A U \in SUBSET T : U # T => U \in Typed
        PROVE  T \in Typed
    <3>1. CASE T = {}
      BY <1>1, <3>1
    <3>2. CASE T # {}
      <4>1. it[T \ {pick[T]}] \in Nat /\ v[pick[T]] \in Nat
        BY <1>1, <2>1, <3>2
      <4>2. it[T] = v[pick[T]] + it[T \ {pick[T]}]
        BY <1>1, <3>2
      <4>3. it[T] \in Nat
        BY <4>1, <4>2
      <4>4. QED
        BY <4>3
    <3>3. QED
      BY <3>1, <3>2
  <2> HIDE DEF Typed
  <2>2. QED
    BY <2>1, SubsetInduction
<1>3. \A T \in SUBSET S : T \in Free
  <2>1. ASSUME NEW T \in SUBSET S, \A U \in SUBSET T : U # T => U \in Free
        PROVE  T \in Free
    <3> SUFFICES ASSUME NEW x \in T PROVE it[T] = v[x] + it[T \ {x}]
      OBVIOUS
    <3> DEFINE p == pick[T]
    <3>1. it[T] = v[p] + it[T \ {p}] /\ p \in T
      BY <1>1
    <3>2. CASE x = p
      BY <3>1, <3>2
    <3>3. CASE x # p
      <4>1. T \ {p} \in Free /\ x \in T \ {p}
        BY <1>1, <2>1, <3>1, <3>3
      <4>2. it[T \ {p}] = v[x] + it[(T \ {p}) \ {x}]
        BY <4>1
      <4>3. T \ {x} \in Free /\ p \in T \ {x}
        <5>1. T \ {x} \in SUBSET T /\ T \ {x} # T
          OBVIOUS
        <5>2. QED
          BY <2>1, <3>1, <3>3, <5>1
      <4>4. it[T \ {x}] = v[p] + it[(T \ {x}) \ {p}]
        BY <4>3
      <4>5. (T \ {x}) \ {p} = (T \ {p}) \ {x}
        OBVIOUS
      <4>6. /\ v[p] \in Nat /\ v[x] \in Nat /\ it[(T \ {p}) \ {x}] \in Nat
        <5>1. (T \ {p}) \ {x} \in Typed
          BY <1>2
        <5>2. QED
          BY <3>1, <5>1
      <4>7. it[T] = v[p] + (v[x] + it[(T \ {p}) \ {x}])
        BY <3>1, <4>2
      <4>8. it[T \ {x}] = v[p] + it[(T \ {p}) \ {x}]
        BY <4>4, <4>5
      <4> HIDE DEF p
      <4>9. QED
        BY <4>6, <4>7, <4>8
    <3>4. QED
      BY <3>2, <3>3
  <2> HIDE DEF Free
  <2>2. QED
    BY <2>1, SubsetInduction
<1>4. it \in [SUBSET S -> Nat]
  <2>1. \A T \in SUBSET S : it[T] \in Nat
    BY <1>2
  <2>2. it = [T \in SUBSET S |-> it[T]]
    OBVIOUS
  <2>3. QED
    BY <2>1, <2>2
<1>5. QED
  BY <1>1, <1>3, <1>4 DEF SumsUp

\* MapThenSumSet sums the values of a function up.
LEMMA SumIs ==
    ASSUME NEW S, IsFiniteSet(S), NEW v \in [S -> Nat]
    PROVE  \E iter : SumsUp(iter, v, S) /\ MapThenSumSet(LAMBDA x : v[x], S) = iter[S]
<1> DEFINE pick == [s \in SUBSET S |-> CHOOSE x \in s : TRUE]
           next == [p \in S \X Nat |-> v[p[1]] + p[2]]
           Rec(it) == it = [s \in SUBSET S |->
                               IF s = {} THEN 0
                               ELSE v[CHOOSE x \in s : TRUE] + it[s \ {CHOOSE x \in s : TRUE}]]
           sum == CHOOSE it : Rec(it)
<1>1. \A s \in SUBSET S : pick[s] = CHOOSE x \in s : TRUE
  OBVIOUS
<1>2. \A s \in SUBSET S : s # {} => pick[s] \in s
  BY <1>1
<1>3. next \in [S \X Nat -> Nat]
  OBVIOUS
<1>4. \E iter \in [SUBSET S -> Nat] : Folds(iter, S, 0, pick, next)
  <2> HIDE DEF pick, next
  <2>1. QED
    BY <1>2, <1>3, FoldExists
<1>5. PICK iter \in [SUBSET S -> Nat] : Folds(iter, S, 0, pick, next)
  BY <1>4
<1>6. \A s \in SUBSET S : iter[s] = IF s = {} THEN 0 ELSE v[pick[s]] + iter[s \ {pick[s]}]
  <2>1. \A x \in S : \A n \in Nat : next[<<x, n>>] = v[x] + n
    OBVIOUS
  <2> HIDE DEF pick, next
  <2>2. \A s \in SUBSET S : s # {} => pick[s] \in S /\ iter[s \ {pick[s]}] \in Nat
    BY <1>2
  <2>3. QED
    BY <1>5, <2>1, <2>2 DEF Folds
<1>7. Rec(iter)
  BY <1>1, <1>6
<1>8. Rec(sum)
  BY <1>7
<1> HIDE DEF sum
<1>9. sum = [s \in SUBSET S |-> IF s = {} THEN 0 ELSE v[pick[s]] + sum[s \ {pick[s]}]]
  BY <1>8
<1>10. MapThenSumSet(LAMBDA x : v[x], S) = sum[S]
  BY DEF MapThenSumSet, MapThenFoldSet, sum
<1> HIDE DEF pick
<1>11. SumsUp(sum, v, S)
  BY <1>2, <1>9, AnyOrder
<1>12. QED
  BY <1>10, <1>11

\* Sums of equal values over the same elements are equal.
LEMMA SumsAgree ==
    ASSUME NEW S, NEW v, NEW it, SumsUp(it, v, S),
           NEW R, NEW w, NEW other, SumsUp(other, w, R),
           NEW T, T \subseteq S, T \subseteq R, IsFiniteSet(T), \A x \in T : v[x] = w[x]
    PROVE  it[T] = other[T]
<1> DEFINE G == {U \in SUBSET T : it[U] = other[U]}
<1>1. ASSUME NEW U \in SUBSET T, \A W \in SUBSET U : W # U => W \in G
      PROVE  U \in G
  <2>1. CASE U = {}
    BY <2>1 DEF SumsUp
  <2>2. CASE U # {}
    <3>1. PICK x \in U : TRUE
      BY <2>2
    <3>2. U \in SUBSET S /\ U \in SUBSET R /\ v[x] = w[x]
      OBVIOUS
    <3>3. it[U] = v[x] + it[U \ {x}] /\ other[U] = w[x] + other[U \ {x}]
      BY <3>1, <3>2 DEF SumsUp
    <3>4. U \ {x} \in G
      BY <1>1, <3>1
    <3>5. QED
      BY <3>2, <3>3, <3>4
  <2>3. QED
    BY <2>1, <2>2
<1> HIDE DEF G
<1>2. T \in G
  BY <1>1, SubsetInduction
<1>3. QED
  BY <1>2 DEF G

\* Where one term differs, so does the sum, by as much.
LEMMA OneTermDiffers ==
    ASSUME NEW S, IsFiniteSet(S), NEW v, NEW w, NEW it, NEW other,
           SumsUp(it, v, S), SumsUp(other, w, S),
           NEW c \in S, \A x \in S \ {c} : v[x] = w[x]
    PROVE  /\ it[S \ {c}] \in Nat
           /\ it[S] = v[c] + it[S \ {c}]
           /\ other[S] = w[c] + it[S \ {c}]
<1>1. S \in SUBSET S /\ S \ {c} \in SUBSET S /\ IsFiniteSet(S \ {c})
  BY FS_Subset
<1>2. it[S] = v[c] + it[S \ {c}] /\ other[S] = w[c] + other[S \ {c}]
  BY <1>1 DEF SumsUp
<1>3. it[S \ {c}] = other[S \ {c}]
  BY <1>1, SumsAgree
<1>4. it[S \ {c}] \in Nat
  BY <1>1 DEF SumsUp
<1> QED
  BY <1>2, <1>3, <1>4

\* Terms that are nothing can be left out of a sum.
LEMMA SumOnSupport ==
    ASSUME NEW S, IsFiniteSet(S), NEW v, NEW it, SumsUp(it, v, S),
           NEW R \in SUBSET S, NEW w, NEW other, SumsUp(other, w, R),
           \A x \in R : v[x] = w[x], \A x \in S \ R : v[x] = 0
    PROVE  it[S] = other[R]
<1> DEFINE G == {U \in SUBSET S : it[U] = other[U \intersect R]}
<1>1. ASSUME NEW U \in SUBSET S, \A W \in SUBSET U : W # U => W \in G
      PROVE  U \in G
  <2>1. CASE U = {}
    <3>1. U \intersect R = {} /\ it[{}] = 0 /\ other[{}] = 0
      BY <2>1 DEF SumsUp
    <3> QED
      BY <2>1, <3>1
  <2>2. CASE U # {}
    <3>1. PICK x \in U : TRUE
      BY <2>2
    <3>2. it[U] = v[x] + it[U \ {x}] /\ it[U \ {x}] \in Nat
      BY <3>1 DEF SumsUp
    <3>3. it[U \ {x}] = other[(U \ {x}) \intersect R]
      BY <1>1, <3>1
    <3>4. CASE x \in R
      <4>1. U \intersect R \in SUBSET R /\ x \in U \intersect R
        BY <3>1, <3>4
      <4>2. other[U \intersect R] = w[x] + other[(U \intersect R) \ {x}]
        BY <4>1 DEF SumsUp
      <4>3. (U \intersect R) \ {x} = (U \ {x}) \intersect R /\ v[x] = w[x]
        BY <3>4
      <4>4. it[U] = other[U \intersect R]
        BY <3>2, <3>3, <4>2, <4>3
      <4> QED
        BY <4>4
    <3>5. CASE x \notin R
      <4>1. v[x] = 0 /\ (U \ {x}) \intersect R = U \intersect R
        BY <3>1, <3>5
      <4>2. it[U] = it[U \ {x}]
        BY <3>2, <4>1
      <4>3. it[U] = other[U \intersect R]
        BY <3>3, <4>1, <4>2
      <4> QED
        BY <4>3
    <3> QED
      BY <3>4, <3>5
  <2> QED
    BY <2>1, <2>2
<1> HIDE DEF G
<1>2. S \in G
  BY <1>1, SubsetInduction
<1>3. S \intersect R = R
  OBVIOUS
<1> QED
  BY <1>2, <1>3 DEF G

\* Two sums together are at most the number of their terms times a bound on the
\* two terms of each element.
LEMMA PairBound ==
    ASSUME NEW S, IsFiniteSet(S), NEW v, NEW w, NEW it, NEW other,
           SumsUp(it, v, S), SumsUp(other, w, S), NEW B \in Nat, NEW T \in SUBSET S,
           \A x \in T : v[x] \in Nat /\ w[x] \in Nat /\ v[x] + w[x] <= B
    PROVE  it[T] + other[T] <= Cardinality(T) * B
<1> DEFINE G == {U \in SUBSET T : it[U] + other[U] <= Cardinality(U) * B}
<1>1. IsFiniteSet(T)
  BY FS_Subset
<1>2. ASSUME NEW U \in SUBSET T, \A W \in SUBSET U : W # U => W \in G
      PROVE  U \in G
  <2>1. CASE U = {}
    <3>1. it[{}] = 0 /\ other[{}] = 0 /\ Cardinality({}) = 0
      BY FS_EmptySet DEF SumsUp
    <3> QED
      BY <2>1, <3>1
  <2>2. CASE U # {}
    <3>1. PICK x \in U : TRUE
      BY <2>2
    <3>2. /\ it[U] = v[x] + it[U \ {x}] /\ it[U \ {x}] \in Nat
          /\ other[U] = w[x] + other[U \ {x}] /\ other[U \ {x}] \in Nat
      BY <3>1 DEF SumsUp
    <3>3. it[U \ {x}] + other[U \ {x}] <= Cardinality(U \ {x}) * B
      BY <1>2, <3>1
    <3>4. IsFiniteSet(U) /\ Cardinality(U) \in Nat /\ Cardinality(U \ {x}) = Cardinality(U) - 1
      BY <1>1, <3>1, FS_Subset, FS_RemoveElement, FS_CardinalityType
    <3>5. \A k \in Nat : (k - 1) * B + B = k * B /\ (k - 1) * B \in Int
      OBVIOUS
    <3>6. (Cardinality(U) - 1) * B + B = Cardinality(U) * B /\ (Cardinality(U) - 1) * B \in Int
      BY <3>4, <3>5
    <3>7. it[U \ {x}] + other[U \ {x}] <= (Cardinality(U) - 1) * B
      BY <3>3, <3>4
    <3>8. v[x] \in Nat /\ w[x] \in Nat /\ v[x] + w[x] <= B
      BY <3>1
    <3>9. \A m \in Int : \A p, q, a, b \in Nat :
             p + q <= m /\ a + b <= B => (a + p) + (b + q) <= m + B
      OBVIOUS
    <3>10. it[U] + other[U] <= (Cardinality(U) - 1) * B + B
      BY <3>2, <3>6, <3>7, <3>8, <3>9
    <3> QED
      BY <3>6, <3>10
  <2> QED
    BY <2>1, <2>2
<1> HIDE DEF G
<1>3. T \in G
  BY <1>1, <1>2, SubsetInduction
<1> QED
  BY <1>3 DEF G
-----------------------------------------------------------------------------
(* Extremes *)

\* A finite set of naturals that is not empty has a largest and a least element.
LEMMA Extremes ==
    ASSUME NEW S, IsFiniteSet(S), S \subseteq Nat, S # {}
    PROVE  /\ Max(S) \in S /\ \A x \in S : x <= Max(S)
           /\ Min(S) \in S /\ \A x \in S : Min(S) <= x
<1> DEFINE G == {T \in SUBSET S : T # {} =>
                    /\ \E x \in T : \A y \in T : x >= y
                    /\ \E x \in T : \A y \in T : x <= y}
<1>1. ASSUME NEW T \in SUBSET S, \A U \in SUBSET T : U # T => U \in G
      PROVE  T \in G
  <2> SUFFICES ASSUME T # {}
               PROVE  /\ \E x \in T : \A y \in T : x >= y
                      /\ \E x \in T : \A y \in T : x <= y
    OBVIOUS
  <2>1. PICK x \in T : TRUE
    OBVIOUS
  <2>2. T \ {x} \in G
    BY <1>1, <2>1
  <2>3. CASE T \ {x} = {}
    BY <2>1, <2>3
  <2>4. CASE T \ {x} # {}
    <3>1. PICK h \in T \ {x} : \A y \in T \ {x} : h >= y
      BY <2>2, <2>4
    <3>2. PICK l \in T \ {x} : \A y \in T \ {x} : l <= y
      BY <2>2, <2>4
    <3>3. \A y \in T : (IF h >= x THEN h ELSE x) >= y
      BY <3>1
    <3>4. \A y \in T : (IF l <= x THEN l ELSE x) <= y
      BY <3>2
    <3>5. QED
      BY <2>1, <3>3, <3>4
  <2>5. QED
    BY <2>3, <2>4
<1> HIDE DEF G
<1>2. S \in G
  BY <1>1, SubsetInduction
<1>3. (\E x \in S : \A y \in S : x >= y) /\ (\E x \in S : \A y \in S : x <= y)
  BY <1>2 DEF G
<1>4. Max(S) \in S /\ \A y \in S : Max(S) >= y
  BY <1>3 DEF Max
<1>5. Min(S) \in S /\ \A y \in S : Min(S) =< y
  BY <1>3 DEF Min
<1>6. QED
  BY <1>4, <1>5
=============================================================================
