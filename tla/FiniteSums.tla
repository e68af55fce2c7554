----------------------------- MODULE FiniteSums -----------------------------
(***************************************************************************)
(* What the proofs need of numbers and of sums over finite sets:           *)
(* induction, which here is a statement about a set of numbers, and bounds *)
(* of MapThenSumSet.                                                       *)
(***************************************************************************)
EXTENDS Integers, FiniteSets, FiniteSetsExt, FiniteSetTheorems,
        WellFoundedInduction, TLAPS

-----------------------------------------------------------------------------
(* Induction over the natural numbers, by a least counterexample.          *)

LEMMA LeastNumber ==
  ASSUME NEW S, S \subseteq Nat, S # {}
  PROVE  \E x \in S : \A y \in S : x <= y
<1>1. PICK x \in S : \A y \in S : <<y, x>> \notin OpToRel(<, Nat)
  BY WFMin, NatLessThanWellFounded
<1>2. \A y \in S : ~(y < x)
  BY <1>1, Zenon DEF OpToRel
<1> QED
  BY <1>2

LEMMA NumbersInduction ==
  ASSUME NEW X, X \subseteq Nat, 0 \in X, \A n \in X : n + 1 \in X
  PROVE  Nat \subseteq X
<1> SUFFICES ASSUME Nat \ X # {} PROVE FALSE
  OBVIOUS
<1>1. PICK x \in Nat \ X : \A y \in Nat \ X : x <= y
  BY LeastNumber
<1>2. x # 0 /\ x - 1 \in Nat /\ x - 1 \notin Nat \ X
  BY <1>1
<1>3. (x - 1) + 1 \in X
  BY <1>2
<1> QED
  BY <1>1, <1>3

-----------------------------------------------------------------------------
(* What a batch is charged: the sum over a set of bounded costs.           *)

\* One element of a nonempty set: the one the sum takes next.
OneOf(s) == CHOOSE x \in s : TRUE

\* f sums cost over every set of the family D.
Sums(f, cost, D) ==
  \A s \in D : f[s] = IF s = {} THEN 0 ELSE cost[OneOf(s)] + f[s \ {OneOf(s)}]

Small(S, n) == {s \in SUBSET S : Cardinality(s) <= n}

LEMMA WithoutOne ==
  ASSUME NEW S, IsFiniteSet(S), NEW s \in SUBSET S, s # {}
  PROVE  /\ OneOf(s) \in s /\ s \ {OneOf(s)} \in SUBSET S
         /\ IsFiniteSet(s) /\ Cardinality(s) \in Nat
         /\ Cardinality(s \ {OneOf(s)}) = Cardinality(s) - 1
<1>1. OneOf(s) \in s /\ IsFiniteSet(s)
  BY FS_Subset DEF OneOf
<1> QED
  BY <1>1, FS_CardinalityType, FS_RemoveElement

\* The recursion over subsets has a solution: larger sets build on smaller ones.
LEMMA SumsExist ==
  ASSUME NEW S, IsFiniteSet(S), NEW cost \in [S -> Nat]
  PROVE  \E f : f \in [SUBSET S -> Nat] /\ Sums(f, cost, SUBSET S)
<1> DEFINE Solved(n) == \E f \in [SUBSET S -> Nat] : Sums(f, cost, Small(S, n))
           X == {n \in Nat : Solved(n)}
<1>1. Solved(0)
  <2> DEFINE f == [s \in SUBSET S |-> 0]
  <2>1. f \in [SUBSET S -> Nat]
    OBVIOUS
  <2>2. ASSUME NEW s \in Small(S, 0) PROVE s = {}
    <3>1. IsFiniteSet(s) /\ Cardinality(s) \in Nat /\ Cardinality(s) <= 0
      BY FS_Subset, FS_CardinalityType DEF Small
    <3> QED
      BY <3>1, FS_EmptySet
  <2>3. Sums(f, cost, Small(S, 0))
    BY <2>2 DEF Sums, Small
  <2> QED
    BY <2>1, <2>3
<1>2. ASSUME NEW n \in X PROVE n + 1 \in X
  <2>1. PICK f \in [SUBSET S -> Nat] : Sums(f, cost, Small(S, n))
    BY <1>2
  <2> DEFINE g == [s \in SUBSET S |->
                     IF Cardinality(s) <= n THEN f[s]
                     ELSE cost[OneOf(s)] + f[s \ {OneOf(s)}]]
  <2>2. ASSUME NEW s \in SUBSET S, ~(Cardinality(s) <= n)
        PROVE  s # {} /\ cost[OneOf(s)] + f[s \ {OneOf(s)}] \in Nat
    <3>1. Cardinality({}) = 0 /\ n \in Nat
      BY FS_EmptySet
    <3>2. s # {}
      <4>1. s = {} => Cardinality(s) = 0
        BY <3>1
      <4> QED
        BY <2>2, <3>1, <4>1
    <3>3. OneOf(s) \in S /\ s \ {OneOf(s)} \in SUBSET S
      BY <3>2, WithoutOne
    <3>4. cost[OneOf(s)] \in Nat /\ f[s \ {OneOf(s)}] \in Nat
      BY <2>1, <3>3
    <3> QED
      BY <3>2, <3>4
  <2>3. g \in [SUBSET S -> Nat]
    BY <2>1, <2>2
  <2>4. ASSUME NEW s \in Small(S, n + 1), s # {}
        PROVE  g[s] = cost[OneOf(s)] + g[s \ {OneOf(s)}]
    <3>1. /\ s \in SUBSET S /\ Cardinality(s) \in Nat /\ Cardinality(s) <= n + 1
          /\ s \ {OneOf(s)} \in SUBSET S
          /\ Cardinality(s \ {OneOf(s)}) = Cardinality(s) - 1
      BY <2>4, WithoutOne DEF Small
    <3>2. Cardinality(s \ {OneOf(s)}) <= n
      BY <3>1
    <3>3. g[s \ {OneOf(s)}] = f[s \ {OneOf(s)}]
      BY <3>1, <3>2
    <3>4. CASE Cardinality(s) <= n
      <4>1. f[s] = cost[OneOf(s)] + f[s \ {OneOf(s)}]
        BY <2>1, <2>4, <3>1, <3>4 DEF Sums, Small
      <4> QED
        BY <3>1, <3>3, <3>4, <4>1
    <3>5. CASE ~(Cardinality(s) <= n)
      BY <3>1, <3>3, <3>5
    <3> QED
      BY <3>4, <3>5
  <2>5. g[{}] = 0
    <3>1. Cardinality({}) = 0 /\ {} \in SUBSET S
      BY FS_EmptySet
    <3>2. f[{}] = 0
      BY <2>1, <3>1 DEF Sums, Small
    <3> QED
      BY <3>1, <3>2
  <2> HIDE DEF g
  <2>6. Sums(g, cost, Small(S, n + 1))
    BY <2>4, <2>5 DEF Sums
  <2> QED
    BY <2>3, <2>6
<1>3. Nat \subseteq X
  <2>1. 0 \in X /\ X \subseteq Nat
    BY <1>1
  <2> HIDE DEF X
  <2> QED
    BY <1>2, <2>1, NumbersInduction
<1>4. PICK f \in [SUBSET S -> Nat] : Sums(f, cost, Small(S, Cardinality(S)))
  BY <1>3, FS_CardinalityType
<1>5. Small(S, Cardinality(S)) = SUBSET S
  BY FS_Subset DEF Small
<1> QED
  BY <1>4, <1>5

LEMMA SumsBounded ==
  ASSUME NEW S, IsFiniteSet(S), NEW most \in Nat, NEW cost \in [S -> 0..most],
         NEW f, Sums(f, cost, SUBSET S)
  PROVE  \A s \in SUBSET S : f[s] \in Nat /\ f[s] <= Cardinality(s) * most
<1> DEFINE Bounded(n) == \A s \in Small(S, n) :
                           f[s] \in Nat /\ f[s] <= Cardinality(s) * most
           X == {n \in Nat : Bounded(n)}
<1>1. Bounded(0)
  <2>1. ASSUME NEW s \in Small(S, 0) PROVE f[s] = 0 /\ Cardinality(s) = 0
    <3>1. IsFiniteSet(s) /\ Cardinality(s) \in Nat /\ Cardinality(s) <= 0
      BY FS_Subset, FS_CardinalityType DEF Small
    <3>2. s = {} /\ Cardinality(s) = 0
      BY <3>1, FS_EmptySet
    <3> QED
      BY <3>2 DEF Sums
  <2> QED
    BY <2>1
<1>2. ASSUME NEW n \in X PROVE n + 1 \in X
  <2>1. Bounded(n)
    BY <1>2
  <2>2. ASSUME NEW s \in Small(S, n + 1) PROVE f[s] \in Nat /\ f[s] <= Cardinality(s) * most
    <3>1. CASE s = {}
      <4>1. Cardinality(s) = 0 /\ f[s] = 0
        BY <3>1, FS_EmptySet DEF Sums, Small
      <4> QED
        BY <4>1
    <3>2. CASE s # {}
      <4> DEFINE r == s \ {OneOf(s)}
                 k == Cardinality(s)
      <4>1. /\ OneOf(s) \in S /\ r \in SUBSET S /\ k \in Nat /\ k <= n + 1
            /\ Cardinality(r) = k - 1
        BY <2>2, <3>2, WithoutOne DEF Small
      <4>2. r \in Small(S, n)
        BY <4>1 DEF Small
      <4>3. f[r] \in Nat /\ f[r] <= (k - 1) * most
        BY <2>1, <4>1, <4>2
      <4>4. f[s] = cost[OneOf(s)] + f[r]
        BY <2>2, <3>2 DEF Sums, Small
      <4>5. cost[OneOf(s)] \in 0..most
        BY <4>1
      <4> HIDE DEF r, k
      <4>6. (k - 1) * most = k * most - most
        BY <4>1
      <4>7. f[s] \in Nat /\ f[s] <= k * most
        BY <4>1, <4>3, <4>4, <4>5, <4>6
      <4> QED
        BY <4>7 DEF k
    <3> QED
      BY <3>1, <3>2
  <2> QED
    BY <2>2
<1>3. Nat \subseteq X
  <2>1. 0 \in X /\ X \subseteq Nat
    BY <1>1
  <2> HIDE DEF X
  <2> QED
    BY <1>2, <2>1, NumbersInduction
<1>4. ASSUME NEW s \in SUBSET S PROVE f[s] \in Nat /\ f[s] <= Cardinality(s) * most
  <2>1. Cardinality(s) \in Nat /\ s \in Small(S, Cardinality(s))
    BY FS_Subset, FS_CardinalityType DEF Small
  <2> QED
    BY <1>3, <2>1
<1> QED
  BY <1>4

\* Where every term is at most the other, so is the sum.
LEMMA SumsOrdered ==
  ASSUME NEW S, IsFiniteSet(S), NEW cost \in [S -> Nat], NEW price \in [S -> Nat],
         \A x \in S : cost[x] <= price[x],
         NEW f, Sums(f, cost, SUBSET S), NEW g, Sums(g, price, SUBSET S)
  PROVE  \A s \in SUBSET S : f[s] \in Nat /\ g[s] \in Nat /\ f[s] <= g[s]
<1> DEFINE Ordered(n) == \A s \in Small(S, n) : f[s] \in Nat /\ g[s] \in Nat /\ f[s] <= g[s]
           X == {n \in Nat : Ordered(n)}
<1>1. Ordered(0)
  <2>1. ASSUME NEW s \in Small(S, 0) PROVE f[s] = 0 /\ g[s] = 0
    <3>1. IsFiniteSet(s) /\ Cardinality(s) \in Nat /\ Cardinality(s) <= 0
      BY FS_Subset, FS_CardinalityType DEF Small
    <3>2. s = {}
      BY <3>1, FS_EmptySet
    <3> QED
      BY <3>2 DEF Sums
  <2> QED
    BY <2>1
<1>2. ASSUME NEW n \in X PROVE n + 1 \in X
  <2>1. Ordered(n)
    BY <1>2
  <2>2. ASSUME NEW s \in Small(S, n + 1) PROVE f[s] \in Nat /\ g[s] \in Nat /\ f[s] <= g[s]
    <3>1. CASE s = {}
      <4>1. f[s] = 0 /\ g[s] = 0
        BY <2>2, <3>1 DEF Sums, Small
      <4> QED
        BY <4>1
    <3>2. CASE s # {}
      <4> DEFINE r == s \ {OneOf(s)}
      <4>1. /\ OneOf(s) \in S /\ r \in SUBSET S /\ Cardinality(s) \in Nat
            /\ Cardinality(s) <= n + 1 /\ Cardinality(r) = Cardinality(s) - 1
        BY <2>2, <3>2, WithoutOne DEF Small
      <4>2. r \in Small(S, n)
        BY <4>1 DEF Small
      <4>3. f[r] \in Nat /\ g[r] \in Nat /\ f[r] <= g[r]
        BY <2>1, <4>2
      <4>4. f[s] = cost[OneOf(s)] + f[r] /\ g[s] = price[OneOf(s)] + g[r]
        BY <2>2, <3>2 DEF Sums, Small
      <4>5. /\ cost[OneOf(s)] \in Nat /\ price[OneOf(s)] \in Nat
            /\ cost[OneOf(s)] <= price[OneOf(s)]
        BY <4>1
      <4> QED
        BY <4>3, <4>4, <4>5
    <3> QED
      BY <3>1, <3>2
  <2> QED
    BY <2>2
<1>3. Nat \subseteq X
  <2>1. 0 \in X /\ X \subseteq Nat
    BY <1>1
  <2> HIDE DEF X
  <2> QED
    BY <1>2, <2>1, NumbersInduction
<1>4. ASSUME NEW s \in SUBSET S PROVE f[s] \in Nat /\ g[s] \in Nat /\ f[s] <= g[s]
  <2>1. Cardinality(s) \in Nat /\ s \in Small(S, Cardinality(s))
    BY FS_Subset, FS_CardinalityType DEF Small
  <2> QED
    BY <1>3, <2>1
<1> QED
  BY <1>4

SameTerms(S, cost, price) == \A x \in S : cost[x] = price[x]

\* Sums of the same terms are the same.
LEMMA SumsAgree ==
  ASSUME NEW S, NEW T, NEW f, NEW g, NEW cost, NEW price,
         IsFiniteSet(S), S \subseteq T,
         Sums(f, cost, SUBSET S), Sums(g, price, SUBSET T),
         SameTerms(S, cost, price)
  PROVE  f[S] = g[S]
<1> DEFINE Agree(n) == \A s \in Small(S, n) : f[s] = g[s]
           X == {n \in Nat : Agree(n)}
<1>1. Agree(0)
  <2>1. ASSUME NEW s \in Small(S, 0) PROVE f[s] = g[s]
    <3>1. IsFiniteSet(s) /\ Cardinality(s) \in Nat /\ Cardinality(s) <= 0
      BY FS_Subset, FS_CardinalityType DEF Small
    <3>2. s = {} /\ s \in SUBSET S /\ s \in SUBSET T
      BY <3>1, FS_EmptySet
    <3> QED
      BY <3>2 DEF Sums
  <2> QED
    BY <2>1
<1>2. ASSUME NEW n \in X PROVE n + 1 \in X
  <2>1. Agree(n)
    BY <1>2
  <2>2. ASSUME NEW s \in Small(S, n + 1) PROVE f[s] = g[s]
    <3>1. CASE s = {}
      BY <3>1 DEF Sums
    <3>2. CASE s # {}
      <4> DEFINE r == s \ {OneOf(s)}
      <4>1. /\ OneOf(s) \in S /\ r \in SUBSET S /\ Cardinality(s) \in Nat
            /\ Cardinality(s) <= n + 1 /\ Cardinality(r) = Cardinality(s) - 1
        BY <2>2, <3>2, WithoutOne DEF Small
      <4>2. r \in Small(S, n)
        BY <4>1 DEF Small
      <4>3. f[s] = cost[OneOf(s)] + f[r] /\ g[s] = price[OneOf(s)] + g[r]
        BY <2>2, <3>2 DEF Sums, Small
      <4> QED
        BY <2>1, <4>1, <4>2, <4>3 DEF SameTerms
    <3> QED
      BY <3>1, <3>2
  <2> QED
    BY <2>2
<1>3. Nat \subseteq X
  <2>1. 0 \in X /\ X \subseteq Nat
    BY <1>1
  <2> HIDE DEF X
  <2> QED
    BY <1>2, <2>1, NumbersInduction
<1>4. ASSUME NEW s \in SUBSET S PROVE f[s] = g[s]
  <2>1. Cardinality(s) \in Nat /\ s \in Small(S, Cardinality(s))
    BY FS_Subset, FS_CardinalityType DEF Small
  <2> QED
    BY <1>3, <2>1
<1> QED
  BY <1>4

\* Any element can be taken out of a sum, not only the one it takes next.
LEMMA SumsWithout ==
  ASSUME NEW S, NEW cost, NEW f, NEW m,
         IsFiniteSet(S), cost \in [S -> Nat], f \in [SUBSET S -> Nat],
         Sums(f, cost, SUBSET S), m \in S
  PROVE  f[S] = cost[m] + f[S \ {m}]
<1> DEFINE Taken(n) == \A s \in Small(S, n) : \A x \in s : f[s] = cost[x] + f[s \ {x}]
           X == {n \in Nat : Taken(n)}
<1>1. Taken(0)
  <2>1. ASSUME NEW s \in Small(S, 0) PROVE s = {}
    <3>1. IsFiniteSet(s) /\ Cardinality(s) \in Nat /\ Cardinality(s) <= 0
      BY FS_Subset, FS_CardinalityType DEF Small
    <3> QED
      BY <3>1, FS_EmptySet
  <2> QED
    BY <2>1
<1>2. ASSUME NEW n \in X PROVE n + 1 \in X
  <2>1. Taken(n)
    BY <1>2
  <2>2. ASSUME NEW s \in Small(S, n + 1), NEW x \in s PROVE f[s] = cost[x] + f[s \ {x}]
    <3> DEFINE o == OneOf(s)
    <3>1. /\ o \in s /\ s \in SUBSET S /\ IsFiniteSet(s) /\ Cardinality(s) \in Nat
          /\ Cardinality(s) <= n + 1
      BY <2>2, WithoutOne DEF Small
    <3>2. f[s] = cost[o] + f[s \ {o}]
      BY <3>1, <2>2 DEF Sums
    <3> HIDE DEF o
    <3>3. CASE x = o
      BY <3>2, <3>3
    <3>4. CASE x # o
      <4>1. /\ Cardinality(s \ {o}) = Cardinality(s) - 1
            /\ Cardinality(s \ {x}) = Cardinality(s) - 1
        BY <3>1, FS_RemoveElement
      <4>2. s \ {o} \in Small(S, n) /\ s \ {x} \in Small(S, n)
        BY <3>1, <4>1 DEF Small
      <4>3. f[s \ {o}] = cost[x] + f[(s \ {o}) \ {x}]
        BY <2>1, <2>2, <3>4, <4>2
      <4>4. f[s \ {x}] = cost[o] + f[(s \ {x}) \ {o}]
        BY <2>1, <3>1, <3>4, <4>2
      <4>5. (s \ {o}) \ {x} = (s \ {x}) \ {o} /\ (s \ {o}) \ {x} \in SUBSET S
        BY <3>1
      <4>6. f[(s \ {o}) \ {x}] \in Nat /\ cost[x] \in Nat /\ cost[o] \in Nat
        BY <2>2, <3>1, <4>5
      <4>7. f[(s \ {x}) \ {o}] = f[(s \ {o}) \ {x}]
        BY <4>5
      <4> QED
        BY <3>2, <4>3, <4>4, <4>6, <4>7
    <3> QED
      BY <3>3, <3>4
  <2> QED
    BY <2>2
<1>3. Nat \subseteq X
  <2>1. 0 \in X /\ X \subseteq Nat
    BY <1>1
  <2> HIDE DEF X
  <2> QED
    BY <1>2, <2>1, NumbersInduction
<1>4. ASSUME NEW s \in SUBSET S PROVE \A x \in s : f[s] = cost[x] + f[s \ {x}]
  <2>1. Cardinality(s) \in Nat /\ s \in Small(S, Cardinality(s))
    BY FS_Subset, FS_CardinalityType DEF Small
  <2> QED
    BY <1>3, <2>1
<1> QED
  BY <1>4

\* The sum the model writes is such an f at the whole set.
LEMMA SumOfTerms ==
  ASSUME NEW S, IsFiniteSet(S), NEW cost \in [S -> Nat]
  PROVE  \E f : /\ Sums(f, cost, SUBSET S)
                /\ MapThenSumSet(LAMBDA m : cost[m], S) = f[S]
<1> DEFINE Solves(iter) ==
             iter = [s \in SUBSET S |->
               IF s = {} THEN 0 ELSE cost[OneOf(s)] + iter[s \ {OneOf(s)}]]
           sum == CHOOSE iter : Solves(iter)
<1>1. MapThenSumSet(LAMBDA m : cost[m], S) = sum[S]
  BY DEF MapThenSumSet, MapThenFoldSet, OneOf
<1>2. PICK f : f \in [SUBSET S -> Nat] /\ Sums(f, cost, SUBSET S)
  BY SumsExist
<1>3. Solves(f)
  BY <1>2 DEF Sums
<1>4. Solves(sum)
  BY <1>3
<1> HIDE DEF sum
<1>5. Sums(sum, cost, SUBSET S)
  BY <1>4 DEF Sums
<1> QED
  BY <1>1, <1>5

\* A sum is at most the number of its terms times the largest.
LEMMA SumAtMost ==
  ASSUME NEW S, IsFiniteSet(S), NEW most \in Nat, NEW cost \in [S -> 0..most]
  PROVE  /\ MapThenSumSet(LAMBDA m : cost[m], S) \in Nat
         /\ MapThenSumSet(LAMBDA m : cost[m], S) <= Cardinality(S) * most
<1>1. cost \in [S -> Nat]
  OBVIOUS
<1>2. PICK f : Sums(f, cost, SUBSET S) /\ MapThenSumSet(LAMBDA m : cost[m], S) = f[S]
  BY <1>1, SumOfTerms
<1>3. f[S] \in Nat /\ f[S] <= Cardinality(S) * most
  BY <1>2, SumsBounded
<1> QED
  BY <1>2, <1>3

\* Of two sums over one set, the one whose terms are at most the other's.
LEMMA SumsCompare ==
  ASSUME NEW S, IsFiniteSet(S), NEW cost \in [S -> Nat], NEW price \in [S -> Nat],
         \A x \in S : cost[x] <= price[x]
  PROVE  /\ MapThenSumSet(LAMBDA m : cost[m], S) \in Nat
         /\ MapThenSumSet(LAMBDA m : cost[m], S) <= MapThenSumSet(LAMBDA m : price[m], S)
<1>1. PICK f : Sums(f, cost, SUBSET S) /\ MapThenSumSet(LAMBDA m : cost[m], S) = f[S]
  BY SumOfTerms
<1>2. PICK g : Sums(g, price, SUBSET S) /\ MapThenSumSet(LAMBDA m : price[m], S) = g[S]
  BY SumOfTerms
<1>3. f[S] \in Nat /\ f[S] <= g[S]
  BY <1>1, <1>2, SumsOrdered
<1> QED
  BY <1>1, <1>2, <1>3

=============================================================================
