-------------------------------- MODULE Sums --------------------------------
(***************************************************************************)
(* Finite sums as the specifications write them: a fold of + over a set,   *)
(* one arbitrary element at a time.  The lemmas say that the fold is       *)
(* defined on every finite set and does not depend on the order, in a form *)
(* without operator parameters: the summands are a function w.             *)
(***************************************************************************)
EXTENDS Integers, FiniteSets, FiniteSetTheorems, WellFoundedInduction, TLAPS

Pick(U) == CHOOSE x \in U : TRUE

\* g is the fold of w over every subset of S
IsTotal(g, w, S) ==
    g = [U \in SUBSET S |->
            IF U = {} THEN 0 ELSE w[Pick(U)] + g[U \ {Pick(U)}]]

Total(w, S) == (CHOOSE g : IsTotal(g, w, S))[S]

(***************************************************************************)
(* Induction over the naturals and over finite sets, for a set of cases    *)
(* instead of a predicate.                                                 *)
(***************************************************************************)

LEMMA SubsetsInduction ==
    ASSUME NEW S, IsFiniteSet(S), NEW B,
           \A U \in SUBSET S :
               (\A V \in SUBSET S : V \subseteq U /\ V # U => V \in B) => U \in B
    PROVE  SUBSET S \subseteq B
<1> DEFINE Bad == {U \in SUBSET S : U \notin B}
<1>1. SUFFICES ASSUME Bad # {} PROVE FALSE
  BY <1>1
<1>2. Bad \subseteq FiniteSubsetsOf(S)
  BY FS_FiniteSubsetsOfFinite
<1>3. PICK U \in Bad : \A V \in Bad : ~(<<V, U>> \in StrictSubsetOrdering(S))
  <2> HIDE DEF Bad
  <2>1. QED
    BY <1>1, <1>2, FS_StrictSubsetOrderingWellFounded, WFMin
<1>4. \A V \in SUBSET S : V \subseteq U /\ V # U => V \in B
  BY <1>3 DEF StrictSubsetOrdering
<1>5. QED
  BY <1>3, <1>4

LEMMA LeastNumber ==
    ASSUME NEW B \in SUBSET Nat, B # {}
    PROVE  \E m \in B : \A n \in B : m <= n
<1> DEFINE T == {0 .. n : n \in B}
<1>1. T \subseteq FiniteSubsetsOf(Nat)
  <2>1. \A n \in B : IsFiniteSet(0 .. n) /\ 0 .. n \in SUBSET Nat
    BY FS_Interval
  <2>2. QED
    BY <2>1 DEF FiniteSubsetsOf
<1>2. PICK I \in T : \A J \in T : ~(<<J, I>> \in StrictSubsetOrdering(Nat))
  <2>1. T # {}
    OBVIOUS
  <2> HIDE DEF T
  <2>2. QED
    BY <1>1, <2>1, FS_StrictSubsetOrderingWellFounded, WFMin
<1>3. PICK m \in B : I = 0 .. m
  BY <1>2
<1>4. ASSUME NEW n \in B, n < m PROVE FALSE
  <2>1. 0 .. n \subseteq 0 .. m /\ 0 .. n # 0 .. m
    <3>1. n \in Nat /\ m \in Nat
      OBVIOUS
    <3>2. m \in 0 .. m /\ m \notin 0 .. n
      BY <1>4, <3>1
    <3>3. QED
      BY <1>4, <3>1, <3>2
  <2>2. 0 .. n \in SUBSET Nat /\ 0 .. m \in SUBSET Nat
    OBVIOUS
  <2>3. <<0 .. n, 0 .. m>> \in StrictSubsetOrdering(Nat)
    BY <2>1, <2>2 DEF StrictSubsetOrdering
  <2>4. QED
    BY <1>2, <1>3, <2>3
<1>5. QED
  BY <1>4

LEMMA CountUp ==
    ASSUME NEW B, 0 \in B, \A n \in Nat : n \in B => n + 1 \in B
    PROVE  Nat \subseteq B
<1>1. SUFFICES ASSUME {n \in Nat : n \notin B} # {} PROVE FALSE
  BY <1>1
<1>2. PICK m \in Nat : m \notin B /\ \A n \in Nat : n \notin B => m <= n
  BY <1>1, LeastNumber
<1>3. m # 0
  BY <1>2
<1>4. m - 1 \in Nat /\ m - 1 \in B
  BY <1>2, <1>3
<1>5. QED
  BY <1>2, <1>4

(***************************************************************************)
(* The fold exists, and there is only one.                                 *)
(***************************************************************************)

LEMMA PickIn == \A U : U # {} => Pick(U) \in U
BY DEF Pick

LEMMA TotalExists ==
    ASSUME NEW S, IsFiniteSet(S), NEW w
    PROVE  \E g : IsTotal(g, w, S)
<1> DEFINE Upto(n) == {U \in SUBSET S : Cardinality(U) <= n}
           Step(h, U) == IF U = {} THEN 0 ELSE w[Pick(U)] + h[U \ {Pick(U)}]
           B == {n \in Nat : \E h : h = [U \in Upto(n) |-> Step(h, U)]}
<1>1. \A U \in SUBSET S : Cardinality(U) \in Nat /\ IsFiniteSet(U)
  BY FS_Subset, FS_CardinalityType
<1>2. \A U \in SUBSET S : Cardinality(U) = 0 => U = {}
  BY <1>1, FS_EmptySet
<1>3. \A U \in SUBSET S : U # {} =>
          /\ Pick(U) \in U /\ U \ {Pick(U)} \in SUBSET S
          /\ Cardinality(U \ {Pick(U)}) = Cardinality(U) - 1
  BY <1>1, FS_RemoveElement, PickIn
<1>4. 0 \in B
  <2> DEFINE h == [U \in Upto(0) |-> 0]
  <2>1. \A U \in Upto(0) : U = {}
    BY <1>1, <1>2
  <2>2. h = [U \in Upto(0) |-> Step(h, U)]
    BY <2>1
  <2>3. QED
    BY <2>2
<1>5. ASSUME NEW n \in Nat, n \in B PROVE n + 1 \in B
  <2>1. PICK h : h = [U \in Upto(n) |-> Step(h, U)]
    BY <1>5
  <2> DEFINE k == [U \in Upto(n + 1) |-> Step(h, U)]
  <2>2. \A U \in Upto(n) : U \in Upto(n + 1)
    BY <1>1
  <2>3. \A U \in Upto(n) : k[U] = h[U]
    BY <2>1, <2>2
  <2>4. \A U \in Upto(n + 1) : U # {} => U \ {Pick(U)} \in Upto(n)
    BY <1>1, <1>3
  <2>5. \A U \in Upto(n + 1) : Step(h, U) = Step(k, U)
    <3> HIDE DEF k, Upto
    <3>1. QED
      BY <2>3, <2>4
  <2>6. k = [U \in Upto(n + 1) |-> Step(k, U)]
    <3>1. k = [U \in Upto(n + 1) |-> Step(h, U)]
      OBVIOUS
    <3> HIDE DEF k, Upto, Step
    <3>2. QED
      BY <2>5, <3>1
  <2>7. \E j : j = [U \in Upto(n + 1) |-> Step(j, U)]
    BY <2>6
  <2>8. n + 1 \in Nat
    OBVIOUS
  <2> HIDE DEF k, Upto, Step
  <2>9. QED
    BY <2>7, <2>8
<1>6. Cardinality(S) \in B
  <2>1. Nat \subseteq B
    <3> HIDE DEF B
    <3>1. QED
      BY <1>4, <1>5, CountUp
  <2>2. QED
    BY <1>1, <2>1
<1>7. Upto(Cardinality(S)) = SUBSET S
  BY <1>1, FS_Subset
<1>8. PICK g : g = [U \in SUBSET S |-> Step(g, U)]
  <2>1. PICK g : g = [U \in Upto(Cardinality(S)) |-> Step(g, U)]
    BY <1>6
  <2> HIDE DEF Upto, Step
  <2>2. QED
    BY <1>7, <2>1
<1>9. QED
  BY <1>8 DEF IsTotal

\* Two folds of summands that agree on a common set agree there.
LEMMA TotalUnique ==
    ASSUME NEW S, IsFiniteSet(S), NEW S1, NEW S2,
           S \subseteq S1, S \subseteq S2,
           NEW w1, NEW w2, \A x \in S : w1[x] = w2[x],
           NEW g1, IsTotal(g1, w1, S1), NEW g2, IsTotal(g2, w2, S2)
    PROVE  g1[S] = g2[S]
<1> DEFINE B == {U \in SUBSET S : g1[U] = g2[U]}
<1>1. ASSUME NEW U \in SUBSET S,
             \A V \in SUBSET S : V \subseteq U /\ V # U => V \in B
      PROVE  U \in B
  <2>1. U \in SUBSET S1 /\ U \in SUBSET S2
    OBVIOUS
  <2>2. /\ g1[U] = IF U = {} THEN 0 ELSE w1[Pick(U)] + g1[U \ {Pick(U)}]
        /\ g2[U] = IF U = {} THEN 0 ELSE w2[Pick(U)] + g2[U \ {Pick(U)}]
    BY <2>1 DEF IsTotal
  <2>3. U # {} => Pick(U) \in U
    BY PickIn
  <2>4. U # {} => U \ {Pick(U)} \in B /\ w1[Pick(U)] = w2[Pick(U)]
    BY <1>1, <2>3
  <2>5. QED
    BY <2>2, <2>4
<1>2. SUBSET S \subseteq B
  <2> HIDE DEF B
  <2>1. QED
    BY <1>1, SubsetsInduction
<1>3. QED
  BY <1>2

LEMMA TotalIs ==
    ASSUME NEW S, IsFiniteSet(S), NEW w, NEW g, IsTotal(g, w, S)
    PROVE  Total(w, S) = g[S]
<1> DEFINE t == CHOOSE h : IsTotal(h, w, S)
<1>1. IsTotal(t, w, S)
  OBVIOUS
<1> HIDE DEF t
<1>2. t[S] = g[S]
  BY <1>1, TotalUnique
<1>3. QED
  BY <1>2 DEF Total, t

\* Only the summands of the set count.
LEMMA TotalCong ==
    ASSUME NEW S, IsFiniteSet(S), NEW w1, NEW w2, \A x \in S : w1[x] = w2[x]
    PROVE  Total(w1, S) = Total(w2, S)
<1>1. PICK g1 : IsTotal(g1, w1, S)
  BY TotalExists
<1>2. PICK g2 : IsTotal(g2, w2, S)
  BY TotalExists
<1>3. g1[S] = g2[S]
  BY <1>1, <1>2, TotalUnique
<1>4. Total(w1, S) = g1[S] /\ Total(w2, S) = g2[S]
  BY <1>1, <1>2, TotalIs
<1>5. QED
  BY <1>3, <1>4

LEMMA TotalEmpty == \A w : Total(w, {}) = 0
<1> TAKE w
<1>1. IsFiniteSet({})
  BY FS_EmptySet
<1>2. PICK g : IsTotal(g, w, {})
  BY <1>1, TotalExists
<1>3. g[{}] = 0
  BY <1>2 DEF IsTotal
<1>4. QED
  BY <1>1, <1>2, <1>3, TotalIs

\* A fold gives every subset its own sum.
LEMMA TotalOfSubset ==
    ASSUME NEW S, IsFiniteSet(S), NEW w, NEW g, IsTotal(g, w, S),
           NEW U \in SUBSET S
    PROVE  Total(w, U) = g[U]
<1>1. IsFiniteSet(U)
  BY FS_Subset
<1>2. PICK h : IsTotal(h, w, U)
  BY <1>1, TotalExists
<1>3. h[U] = g[U]
  BY <1>1, <1>2, TotalUnique
<1>4. QED
  BY <1>1, <1>2, <1>3, TotalIs

LEMMA TotalInt ==
    ASSUME NEW S, IsFiniteSet(S), NEW w, \A x \in S : w[x] \in Int
    PROVE  Total(w, S) \in Int
<1>1. PICK g : IsTotal(g, w, S)
  BY TotalExists
<1> DEFINE B == {U \in SUBSET S : g[U] \in Int}
<1>2. ASSUME NEW U \in SUBSET S,
             \A V \in SUBSET S : V \subseteq U /\ V # U => V \in B
      PROVE  U \in B
  <2>1. g[U] = IF U = {} THEN 0 ELSE w[Pick(U)] + g[U \ {Pick(U)}]
    BY <1>1 DEF IsTotal
  <2>2. U # {} => Pick(U) \in U
    BY PickIn
  <2>3. U # {} => g[U \ {Pick(U)}] \in Int /\ w[Pick(U)] \in Int
    BY <1>2, <2>2
  <2>4. QED
    BY <2>1, <2>3
<1>3. SUBSET S \subseteq B
  <2> HIDE DEF B
  <2>1. QED
    BY <1>2, SubsetsInduction
<1>4. QED
  BY <1>1, <1>3, TotalIs

\* Any element can be taken out first.
LEMMA TotalRemove ==
    ASSUME NEW S, IsFiniteSet(S), NEW w, \A x \in S : w[x] \in Int,
           NEW x \in S
    PROVE  Total(w, S) = w[x] + Total(w, S \ {x})
<1>1. PICK g : IsTotal(g, w, S)
  BY TotalExists
<1>2. \A U \in SUBSET S :
          g[U] = IF U = {} THEN 0 ELSE w[Pick(U)] + g[U \ {Pick(U)}]
  BY <1>1 DEF IsTotal
<1>3. \A U \in SUBSET S : g[U] \in Int
  <2>1. ASSUME NEW U \in SUBSET S PROVE g[U] \in Int
    <3>1. IsFiniteSet(U) /\ \A y \in U : w[y] \in Int
      BY FS_Subset
    <3>2. Total(w, U) \in Int
      BY <3>1, TotalInt
    <3>3. QED
      BY <1>1, <3>2, TotalOfSubset
  <2>2. QED
    BY <2>1
<1> DEFINE B == {U \in SUBSET S : \A y \in U : g[U] = w[y] + g[U \ {y}]}
<1>4. ASSUME NEW U \in SUBSET S,
             \A V \in SUBSET S : V \subseteq U /\ V # U => V \in B
      PROVE  U \in B
  <2>1. ASSUME NEW y \in U PROVE g[U] = w[y] + g[U \ {y}]
    <3> DEFINE p == Pick(U)
    <3>1. p \in U
      BY PickIn
    <3>2. g[U] = w[p] + g[U \ {p}]
      BY <1>2
    <3> HIDE DEF p
    <3>3. CASE p = y
      BY <3>2, <3>3
    <3>4. CASE p # y
      <4> DEFINE W == (U \ {p}) \ {y}
      <4>1. W = (U \ {y}) \ {p}
        OBVIOUS
      <4>2. g[U \ {p}] = w[y] + g[W]
        BY <1>4, <3>1, <3>4
      <4>3. g[U \ {y}] = w[p] + g[W]
        <5>1. U \ {y} \in B /\ p \in U \ {y}
          BY <1>4, <3>1, <3>4
        <5>2. g[U \ {y}] = w[p] + g[(U \ {y}) \ {p}]
          BY <5>1
        <5>3. QED
          BY <4>1, <5>2
      <4>4. w[p] \in Int /\ w[y] \in Int /\ g[W] \in Int
        BY <1>3, <3>1
      <4> HIDE DEF W
      <4>5. QED
        BY <3>2, <4>2, <4>3, <4>4
    <3>5. QED
      BY <3>3, <3>4
  <2>2. QED
    BY <2>1
<1>5. SUBSET S \subseteq B
  <2> HIDE DEF B
  <2>1. QED
    BY <1>4, SubsetsInduction
<1>6. g[S] = w[x] + g[S \ {x}]
  BY <1>5
<1>7. Total(w, S) = g[S] /\ Total(w, S \ {x}) = g[S \ {x}]
  BY <1>1, TotalIs, TotalOfSubset
<1>8. QED
  BY <1>6, <1>7

LEMMA TotalAdd ==
    ASSUME NEW S, IsFiniteSet(S), NEW x, x \notin S,
           NEW w, \A y \in S \cup {x} : w[y] \in Int
    PROVE  Total(w, S \cup {x}) = w[x] + Total(w, S)
<1>1. IsFiniteSet(S \cup {x})
  BY FS_AddElement
<1>2. (S \cup {x}) \ {x} = S
  OBVIOUS
<1>3. Total(w, S \cup {x}) = w[x] + Total(w, (S \cup {x}) \ {x})
  BY <1>1, TotalRemove
<1>4. QED
  BY <1>2, <1>3

\* When one summand changes, the sum changes by as much.
LEMMA TotalChange ==
    ASSUME NEW S, IsFiniteSet(S), NEW x \in S, NEW w1, NEW w2,
           \A y \in S : w1[y] \in Int /\ w2[y] \in Int,
           \A y \in S \ {x} : w2[y] = w1[y]
    PROVE  Total(w2, S) = Total(w1, S) + w2[x] - w1[x]
<1> DEFINE R == S \ {x}
<1>1. IsFiniteSet(R)
  BY FS_RemoveElement
<1>2. Total(w1, R) = Total(w2, R)
  BY <1>1, TotalCong
<1>3. /\ Total(w1, S) = w1[x] + Total(w1, R)
      /\ Total(w2, S) = w2[x] + Total(w2, R)
  BY TotalRemove
<1>4. Total(w1, R) \in Int
  BY <1>1, TotalInt
<1> HIDE DEF R
<1>5. QED
  BY <1>2, <1>3, <1>4

\* Nothing adds up to nothing.
LEMMA TotalZero ==
    ASSUME NEW S, IsFiniteSet(S), NEW w, \A x \in S : w[x] = 0
    PROVE  Total(w, S) = 0
<1> DEFINE B == {U \in SUBSET S : Total(w, U) = 0}
<1>1. ASSUME NEW U \in SUBSET S,
             \A V \in SUBSET S : V \subseteq U /\ V # U => V \in B
      PROVE  U \in B
  <2>1. CASE U = {}
    BY <2>1, TotalEmpty
  <2>2. ASSUME NEW x \in U PROVE U \in B
    <3>1. U \ {x} \in B
      BY <1>1
    <3>2. IsFiniteSet(U) /\ \A y \in U : w[y] \in Int
      BY FS_Subset
    <3>3. Total(w, U) = w[x] + Total(w, U \ {x})
      BY <3>2, TotalRemove
    <3>4. QED
      BY <3>1, <3>3
  <2>3. QED
    BY <2>1, <2>2
<1>2. SUBSET S \subseteq B
  <2> HIDE DEF B
  <2>1. QED
    BY <1>1, SubsetsInduction
<1>3. QED
  BY <1>2

LEMMA Distributes == \A a, b, c \in Int : c * (a + b) = c * a + c * b
OBVIOUS

\* A common factor comes out.
LEMMA TotalScaled ==
    ASSUME NEW S, IsFiniteSet(S), NEW c \in Int, NEW w, NEW v,
           \A x \in S : w[x] \in Int /\ v[x] = c * w[x]
    PROVE  Total(v, S) = c * Total(w, S)
<1> DEFINE B == {U \in SUBSET S : Total(v, U) = c * Total(w, U)}
<1>1. ASSUME NEW U \in SUBSET S,
             \A V \in SUBSET S : V \subseteq U /\ V # U => V \in B
      PROVE  U \in B
  <2>1. CASE U = {}
    BY <2>1, TotalEmpty
  <2>2. ASSUME NEW x \in U PROVE U \in B
    <3>1. U \ {x} \in B /\ U \ {x} \in SUBSET S
      BY <1>1
    <3>2. IsFiniteSet(U) /\ \A y \in U : w[y] \in Int /\ v[y] \in Int
      BY FS_Subset
    <3>3. /\ Total(v, U) = v[x] + Total(v, U \ {x})
          /\ Total(w, U) = w[x] + Total(w, U \ {x})
      BY <3>2, TotalRemove
    <3>4. IsFiniteSet(U \ {x})
      BY <3>1, FS_Subset
    <3>5. Total(w, U \ {x}) \in Int /\ w[x] \in Int
      BY <3>2, <3>4, TotalInt
    <3>6. /\ Total(v, U \ {x}) = c * Total(w, U \ {x}) /\ v[x] = c * w[x]
      BY <3>1
    <3>7. Total(v, U) = c * Total(w, U)
      BY <3>3, <3>5, <3>6, Distributes
    <3>8. QED
      BY <3>7
  <2>3. QED
    BY <2>1, <2>2
<1>2. SUBSET S \subseteq B
  <2> HIDE DEF B
  <2>1. QED
    BY <1>1, SubsetsInduction
<1>3. QED
  BY <1>2

\* Larger summands have a larger sum.
LEMMA TotalMonotone ==
    ASSUME NEW S, IsFiniteSet(S), NEW w1, NEW w2,
           \A x \in S : w1[x] \in Int /\ w2[x] \in Int /\ w1[x] <= w2[x]
    PROVE  Total(w1, S) <= Total(w2, S)
<1> DEFINE B == {U \in SUBSET S : Total(w1, U) <= Total(w2, U)}
<1>1. ASSUME NEW U \in SUBSET S,
             \A V \in SUBSET S : V \subseteq U /\ V # U => V \in B
      PROVE  U \in B
  <2>1. CASE U = {}
    BY <2>1, TotalEmpty
  <2>2. ASSUME NEW x \in U PROVE U \in B
    <3>1. U \ {x} \in B /\ U \ {x} \in SUBSET S
      BY <1>1
    <3>2. IsFiniteSet(U) /\ \A y \in U : w1[y] \in Int /\ w2[y] \in Int
      BY FS_Subset
    <3>3. /\ Total(w1, U) = w1[x] + Total(w1, U \ {x})
          /\ Total(w2, U) = w2[x] + Total(w2, U \ {x})
      BY <3>2, TotalRemove
    <3>4. IsFiniteSet(U \ {x})
      BY <3>1, FS_Subset
    <3>5. Total(w1, U \ {x}) \in Int /\ Total(w2, U \ {x}) \in Int
      BY <3>2, <3>4, TotalInt
    <3>6. Total(w1, U \ {x}) <= Total(w2, U \ {x}) /\ w1[x] <= w2[x]
      BY <3>1
    <3>7. Total(w1, U) <= Total(w2, U)
      BY <3>2, <3>3, <3>5, <3>6
    <3>8. QED
      BY <3>7
  <2>3. QED
    BY <2>1, <2>2
<1>2. SUBSET S \subseteq B
  <2> HIDE DEF B
  <2>1. QED
    BY <1>1, SubsetsInduction
<1>3. QED
  BY <1>2
=============================================================================
