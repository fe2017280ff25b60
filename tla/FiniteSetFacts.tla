--------------------------- MODULE FiniteSetFacts ---------------------------
(***************************************************************************)
(* Facts about finite sets that the proofs about the models share: smallest*)
(* members, sizes, and the sums that MapThenSumSet computes.               *)
(*                                                                         *)
(* The induction on finite sets is the choice of a smallest counterexample *)
(* (SmallestSet).                                                          *)
(***************************************************************************)
EXTENDS Naturals, FiniteSetsExt, FiniteSetTheorems, WellFoundedInduction, TLAPS

(* Smallest sets *)

\* A property that some subset of a finite set has, a smallest subset has.
LEMMA SmallestSet ==
    ASSUME NEW S, IsFiniteSet(S), NEW C \in SUBSET (SUBSET S), C # {}
    PROVE  \E s \in C : \A t \in C : t \subseteq s => t = s
<1>1. IsWellFoundedOn(StrictSubsetOrdering(S), SUBSET S)
  BY FS_StrictSubsetOrderingWellFounded, FS_FiniteSubsetsOfFinite
<1>2. PICK s \in C : \A t \in C : <<t, s>> \notin StrictSubsetOrdering(S)
  BY <1>1, WFMin
<1>3. \A t \in C : t \subseteq s => t = s
  BY <1>2 DEF StrictSubsetOrdering
<1> QED
  BY <1>3

\* A set of natural numbers has a least member.
LEMMA LeastIn ==
    ASSUME NEW S \in SUBSET Nat, S # {}
    PROVE  \E n \in S : \A m \in S : n <= m
<1>1. OpToRel(<, Nat) = {ss \in Nat \X Nat : ss[1] < ss[2]}
  BY Zenon DEF OpToRel
<1>2. PICK x \in S : \A y \in S : <<y, x>> \notin {ss \in Nat \X Nat : ss[1] < ss[2]}
  <2>1. IsWellFoundedOn({ss \in Nat \X Nat : ss[1] < ss[2]}, Nat)
    BY <1>1, NatLessThanWellFounded
  <2> QED
    BY <2>1, WFMin
<1>3. ASSUME NEW y \in S
      PROVE  x <= y
  <2>1. ~(<<y, x>>[1] < <<y, x>>[2]) /\ x \in Nat /\ y \in Nat
    BY <1>2
  <2> QED
    BY <2>1
<1> QED
  BY <1>3

\* The smallest of a set of natural numbers is one of them.
LEMMA MinIn ==
    ASSUME NEW S \in SUBSET Nat, S # {}
    PROVE  Min(S) \in S
BY LeastIn DEF Min

LEMMA MaxOfTwo ==
    ASSUME NEW x \in Nat, NEW y \in Nat
    PROVE  Max({x, y}) \in {x, y} /\ Max({x, y}) >= x /\ Max({x, y}) >= y
<1>1. \E z \in {x, y} : \A w \in {x, y} : z >= w
  BY x >= y \/ y >= x
<1> QED
  BY <1>1 DEF Max

\* Sets of identifiers counted from 1 are finite.
LEMMA IdsFinite ==
    ASSUME NEW n \in Nat, NEW S \in SUBSET (1..n)
    PROVE  IsFiniteSet(S) /\ Cardinality(S) \in Nat /\ Cardinality(S) <= n
<1>1. IsFiniteSet(1..n) /\ Cardinality(1..n) = n
  BY FS_Interval
<1>2. IsFiniteSet(S) /\ Cardinality(S) <= Cardinality(1..n)
  BY <1>1, FS_Subset
<1> QED
  BY <1>1, <1>2, FS_CardinalityType

(* Sums over a finite set *)

Chosen(s) == CHOOSE x \in s : TRUE

\* sum gives each part of T the sum of w over it, element after element.
Adds(w, sum, T) ==
    sum = [s \in SUBSET T |-> IF s = {} THEN 0 ELSE w[Chosen(s)] + sum[s \ {Chosen(s)}]]

Sum(w, S) == MapThenSumSet(LAMBDA x : w[x], S)

LEMMA SumDef ==
    ASSUME NEW w, NEW S
    PROVE  Sum(w, S) = (CHOOSE sum : Adds(w, sum, S))[S]
  BY Zenon DEF Sum, MapThenSumSet, MapThenFoldSet, Adds, Chosen

LEMMA ChosenIn ==
    ASSUME NEW s, s # {}
    PROVE  Chosen(s) \in s
  BY DEF Chosen

\* What Adds says of one set.
LEMMA AddsStep ==
    ASSUME NEW w, NEW sum, NEW T, Adds(w, sum, T)
    PROVE  /\ sum[{}] = 0
           /\ \A s \in SUBSET T : s # {} => sum[s] = w[Chosen(s)] + sum[s \ {Chosen(s)}]
<1> DEFINE value(s) == IF s = {} THEN 0 ELSE w[Chosen(s)] + sum[s \ {Chosen(s)}]
<1>1. sum = [s \in SUBSET T |-> value(s)]
  BY DEF Adds
<1>2. \A s \in SUBSET T : sum[s] = value(s)
  <2> HIDE DEF value
  <2> QED
    BY ONLY <1>1, Zenon
<1> QED
  BY <1>2

\* There is one way to add.
LEMMA AddsAgree ==
    ASSUME NEW w, NEW A, NEW B, IsFiniteSet(A), NEW f, NEW g, Adds(w, f, A), Adds(w, g, B),
           NEW S, S \subseteq A, S \subseteq B
    PROVE  f[S] = g[S]
<1> DEFINE Bad == {s \in SUBSET A : s \subseteq B /\ f[s] # g[s]}
<1> SUFFICES ASSUME Bad # {} PROVE FALSE
  OBVIOUS
<1>1. PICK s \in Bad : \A t \in Bad : t \subseteq s => t = s
  <2>1. Bad \in SUBSET (SUBSET A)
    OBVIOUS
  <2> HIDE DEF Bad
  <2> QED
    BY <2>1, SmallestSet
<1>2. s # {}
  BY <1>1, AddsStep
<1>3. Chosen(s) \in s
  BY <1>2, ChosenIn
<1>4. f[s \ {Chosen(s)}] = g[s \ {Chosen(s)}]
  BY <1>1, <1>3
<1>5. s \in SUBSET A /\ s \in SUBSET B
  OBVIOUS
<1>6. /\ f[s] = w[Chosen(s)] + f[s \ {Chosen(s)}]
      /\ g[s] = w[Chosen(s)] + g[s \ {Chosen(s)}]
  BY <1>2, <1>5, AddsStep
<1> QED
  BY <1>1, <1>4, <1>6

\* There is a way to add.
LEMMA AddsExists ==
    ASSUME NEW w, NEW A, IsFiniteSet(A)
    PROVE  \E f : Adds(w, f, A)
<1> DEFINE Bad == {s \in SUBSET A : ~\E f : Adds(w, f, s)}
<1> SUFFICES ASSUME Bad # {} PROVE FALSE
  OBVIOUS
<1>1. PICK m \in Bad : \A t \in Bad : t \subseteq m => t = m
  <2>1. Bad \in SUBSET (SUBSET A)
    OBVIOUS
  <2> HIDE DEF Bad
  <2> QED
    BY <2>1, SmallestSet
<1> DEFINE F(s) == CHOOSE f : Adds(w, f, s)
           less(s) == s \ {Chosen(s)}
           G == [s \in SUBSET m |-> IF s = {} THEN 0 ELSE w[Chosen(s)] + F(less(s))[less(s)]]
<1>2. ASSUME NEW s, s \subseteq m, s # m
      PROVE  Adds(w, F(s), s)
  <2>1. \E f : Adds(w, f, s)
    BY <1>1, <1>2
  <2> QED
    BY <2>1, Zenon
<1>3. \A s \in SUBSET m : s # {} => less(s) \subseteq s /\ less(s) # s
  BY ChosenIn
<1>4. ASSUME NEW s, s \subseteq m, s # m
      PROVE  F(s)[s] = G[s]
  <2>1. Adds(w, F(s), s)
    BY <1>2, <1>4
  <2>2. CASE s = {}
    BY <2>1, <2>2, AddsStep
  <2>3. CASE s # {}
    <3>1. less(s) \subseteq s /\ less(s) # s /\ less(s) \subseteq m /\ less(s) # m
      BY <1>3, <1>4, <2>3
    <3>2. Adds(w, F(less(s)), less(s))
      BY <1>2, <3>1
    <3>3. IsFiniteSet(s)
      BY <1>4, FS_Subset
    <3>4. F(s)[less(s)] = F(less(s))[less(s)]
      <4> HIDE DEF F, less
      <4> QED
        BY <2>1, <3>1, <3>2, <3>3, AddsAgree
    <3>5. F(s)[s] = w[Chosen(s)] + F(s)[less(s)]
      <4> HIDE DEF F
      <4> QED
        BY <2>1, <2>3, AddsStep
    <3>6. G[s] = w[Chosen(s)] + F(less(s))[less(s)]
      <4> HIDE DEF F, less
      <4> QED
        BY <1>4, <2>3
    <3> QED
      BY <3>4, <3>5, <3>6
  <2> QED
    BY <2>2, <2>3
<1>5. G = [s \in SUBSET m |-> IF s = {} THEN 0 ELSE w[Chosen(s)] + G[less(s)]]
  <2>1. \A s \in SUBSET m : s # {} => F(less(s))[less(s)] = G[less(s)]
    <3> HIDE DEF G, F
    <3> QED
      BY <1>3, <1>4
  <2>2. \A s \in SUBSET m :
            (IF s = {} THEN 0 ELSE w[Chosen(s)] + F(less(s))[less(s)])
          = (IF s = {} THEN 0 ELSE w[Chosen(s)] + G[less(s)])
    <3> HIDE DEF G, F, less
    <3> QED
      BY <2>1
  <2> DEFINE a(s) == IF s = {} THEN 0 ELSE w[Chosen(s)] + F(less(s))[less(s)]
             b(s) == IF s = {} THEN 0 ELSE w[Chosen(s)] + G[less(s)]
  <2>3. G = [s \in SUBSET m |-> a(s)] /\ \A s \in SUBSET m : a(s) = b(s)
    BY <2>2, Zenon
  <2>4. G = [s \in SUBSET m |-> b(s)]
    <3> HIDE DEF a, b, G
    <3> QED
      BY <2>3
  <2> QED
    BY <2>4, Zenon
<1>6. Adds(w, G, m)
  <2> HIDE DEF G
  <2> QED
    BY <1>5 DEF Adds
<1> QED
  BY <1>1, <1>6

\* Sum is what every way to add gives.
LEMMA SumOf ==
    ASSUME NEW w, NEW A, IsFiniteSet(A), NEW f, Adds(w, f, A), NEW S \in SUBSET A
    PROVE  Sum(w, S) = f[S]
<1> DEFINE g == CHOOSE sum : Adds(w, sum, S)
<1>1. IsFiniteSet(S)
  BY FS_Subset
<1>2. Adds(w, g, S)
  <2>1. \E sum : Adds(w, sum, S)
    BY <1>1, AddsExists
  <2> QED
    BY <2>1, Zenon
<1>3. g[S] = f[S]
  <2> HIDE DEF g
  <2>1. S \subseteq S /\ S \subseteq A
    OBVIOUS
  <2> QED
    BY <1>1, <1>2, <2>1, AddsAgree
<1> QED
  BY <1>3, SumDef

\* Adding up natural numbers: nothing, one element first, and the type.
LEMMA SumSteps ==
    ASSUME NEW w, NEW A, IsFiniteSet(A)
    PROVE  /\ Sum(w, {}) = 0
           /\ \A S \in SUBSET A : S # {} => Sum(w, S) = w[Chosen(S)] + Sum(w, S \ {Chosen(S)})
<1>1. PICK f : Adds(w, f, A)
  BY AddsExists
<1>2. \A S \in SUBSET A : Sum(w, S) = f[S]
  BY <1>1, SumOf
<1>3. Sum(w, {}) = f[{}] /\ f[{}] = 0
  BY <1>1, <1>2, AddsStep
<1>4. ASSUME NEW S \in SUBSET A, S # {}
      PROVE  Sum(w, S) = w[Chosen(S)] + Sum(w, S \ {Chosen(S)})
  <2>1. f[S] = w[Chosen(S)] + f[S \ {Chosen(S)}]
    BY <1>1, <1>4, AddsStep
  <2>2. S \ {Chosen(S)} \in SUBSET A
    OBVIOUS
  <2> QED
    BY <1>2, <2>1, <2>2
<1> QED
  BY <1>3, <1>4

LEMMA SumType ==
    ASSUME NEW D, NEW w \in [D -> Nat], NEW A \in SUBSET D, IsFiniteSet(A)
    PROVE  Sum(w, A) \in Nat
<1> DEFINE Bad == {s \in SUBSET A : Sum(w, s) \notin Nat}
<1> SUFFICES ASSUME Bad # {} PROVE FALSE
  OBVIOUS
<1>1. PICK s \in Bad : \A t \in Bad : t \subseteq s => t = s
  <2>1. Bad \in SUBSET (SUBSET A)
    OBVIOUS
  <2> HIDE DEF Bad
  <2> QED
    BY <2>1, SmallestSet
<1>2. s # {}
  <2>1. Sum(w, {}) = 0
    BY SumSteps
  <2> QED
    BY <2>1
<1>3. Chosen(s) \in s
  BY <1>2, ChosenIn
<1>4. Sum(w, s) = w[Chosen(s)] + Sum(w, s \ {Chosen(s)})
  BY <1>2, SumSteps
<1>5. Sum(w, s \ {Chosen(s)}) \in Nat
  BY <1>1, <1>3
<1>6. w[Chosen(s)] \in Nat
  BY <1>3
<1> QED
  BY <1>4, <1>5, <1>6

\* Any element can be added last.
LEMMA SumPart ==
    ASSUME NEW D, NEW w \in [D -> Nat], NEW A \in SUBSET D, IsFiniteSet(A), NEW x \in A
    PROVE  Sum(w, A) = w[x] + Sum(w, A \ {x})
<1> DEFINE Bad == {s \in SUBSET A : \E z \in s : Sum(w, s) # w[z] + Sum(w, s \ {z})}
<1> SUFFICES ASSUME Bad # {} PROVE FALSE
  OBVIOUS
<1>1. PICK s \in Bad : \A t \in Bad : t \subseteq s => t = s
  <2>1. Bad \in SUBSET (SUBSET A)
    OBVIOUS
  <2> HIDE DEF Bad
  <2> QED
    BY <2>1, SmallestSet
<1>0. PICK z \in s : Sum(w, s) # w[z] + Sum(w, s \ {z})
  OBVIOUS
<1> DEFINE y == Chosen(s)
<1>2. y \in s /\ z \in s /\ s \in SUBSET A
  BY ChosenIn
<1>3. Sum(w, s) = w[y] + Sum(w, s \ {y})
  BY <1>2, SumSteps
<1> HIDE DEF y
<1>4. y # z
  BY <1>0, <1>3
<1>5. ASSUME NEW a \in s, NEW b \in s, a # b
      PROVE  Sum(w, s \ {a}) = w[b] + Sum(w, (s \ {a}) \ {b})
  <2> DEFINE r == s \ {a}
  <2>1. r \in SUBSET A /\ r \subseteq s /\ r # s /\ b \in r
    BY <1>5
  <2>2. r \notin Bad
    BY <1>1, <2>1
  <2> HIDE DEF r
  <2>3. Sum(w, r) = w[b] + Sum(w, r \ {b})
    BY <2>1, <2>2
  <2> QED
    BY <2>3 DEF r
<1>6. (s \ {y}) \ {z} = (s \ {z}) \ {y}
  OBVIOUS
<1>7. /\ Sum(w, s \ {z}) = w[y] + Sum(w, (s \ {z}) \ {y})
      /\ Sum(w, s \ {y}) = w[z] + Sum(w, (s \ {y}) \ {z})
  BY <1>2, <1>4, <1>5
<1>8. /\ w[z] \in Nat /\ w[y] \in Nat
      /\ Sum(w, (s \ {z}) \ {y}) \in Nat
  <2>1. IsFiniteSet((s \ {z}) \ {y}) /\ (s \ {z}) \ {y} \in SUBSET D
    BY <1>2, FS_Subset
  <2> QED
    BY <1>2, <2>1, SumType
<1> QED
  BY <1>0, <1>3, <1>6, <1>7, <1>8
=============================================================================
