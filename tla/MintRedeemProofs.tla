-------------------------- MODULE MintRedeemProofs --------------------------
(***************************************************************************)
(* Theorems about MintRedeem, for any vaults, users, limits and fees that  *)
(* satisfy its assumptions.                                                *)
(***************************************************************************)
EXTENDS MintRedeem, FiniteSetTheorems, TLAPS

-----------------------------------------------------------------------------
(***************************************************************************)
(* Arithmetic.                                                             *)
(***************************************************************************)

\* A quotient rounded down, times the divisor, is at most the dividend.
LEMMA FloorBound ==
  ASSUME NEW n \in Nat, NEW d \in Nat \ {0}
  PROVE  n \div d \in Nat /\ (n \div d) * d <= n
OBVIOUS

\* A product of naturals is a natural and grows with its factors.
LEMMA ProductMonotone ==
  ASSUME NEW a \in Nat, NEW b \in Nat, NEW c \in Nat, a <= b
  PROVE  /\ a * c \in Nat /\ b * c \in Nat
         /\ a * c <= b * c /\ c * a <= c * b
OBVIOUS

\* A number whose multiple is at most another's is at most it.
LEMMA ProductCancel ==
  ASSUME NEW a \in Nat, NEW b \in Nat, NEW c \in Nat \ {0}, a * c <= b * c
  PROVE  a <= b
OBVIOUS

\* What mul_div_floor yields.
LEMMA MulDivFloorBound ==
  ASSUME NEW a \in Nat, NEW b \in Nat, NEW d \in Nat \ {0}
  PROVE  MulDivFloor(a, b, d) \in Nat /\ MulDivFloor(a, b, d) * d <= a * b
<1>1. a * b \in Nat
  OBVIOUS
<1>2. QED
  BY <1>1, FloorBound DEF MulDivFloor

\* A part of a number is at most the number.
LEMMA PartBound ==
  ASSUME NEW a \in Nat, NEW d \in Nat \ {0}, NEW b \in 0..d
  PROVE  MulDivFloor(a, b, d) \in Nat /\ MulDivFloor(a, b, d) <= a
<1>1. MulDivFloor(a, b, d) \in Nat /\ MulDivFloor(a, b, d) * d <= a * b
  BY MulDivFloorBound
<1>2. a * b <= a * d
  BY ProductMonotone
<1>3. MulDivFloor(a, b, d) * d <= a * d
  BY <1>1, <1>2
<1>4. QED
  BY <1>1, <1>3, ProductCancel

\* What mul_div_ceil yields is a natural.
LEMMA MulDivCeilType ==
  ASSUME NEW a \in Nat, NEW b \in Nat, NEW d \in Nat \ {0}
  PROVE  MulDivCeil(a, b, d) \in Nat
<1>1. a * b \in Nat
  OBVIOUS
<1>2. a * b + d - 1 \in Nat
  BY <1>1
<1>3. QED
  BY <1>2, FloorBound DEF MulDivCeil

\* A part of a number is at most the number, rounded up too.
LEMMA PartUpBound ==
  ASSUME NEW a \in Nat, NEW d \in Nat \ {0}, NEW b \in 0..d
  PROVE  MulDivCeil(a, b, d) <= a
<1> DEFINE n == a * b + d - 1
           q == MulDivCeil(a, b, d)
<1>1. a * b \in Nat /\ a * d \in Nat /\ a * b <= a * d
  BY ProductMonotone
<1>2. q \in Nat /\ q * d <= n
  <2>1. n \in Nat
    BY <1>1
  <2> HIDE DEF n
  <2>2. n \div d \in Nat /\ (n \div d) * d <= n
    BY <2>1, FloorBound
  <2>3. QED
    BY <2>2 DEF MulDivCeil, n
<1>3. SUFFICES ASSUME q >= a + 1
               PROVE  FALSE
  BY <1>2
<1> HIDE DEF q
<1>4. (a + 1) * d <= q * d
  BY <1>2, <1>3, ProductMonotone
<1>5. (a + 1) * d = a * d + d
  OBVIOUS
<1>6. QED
  BY <1>1, <1>2, <1>4, <1>5

-----------------------------------------------------------------------------
(***************************************************************************)
(* Sums. The library defines SumFunction by a recursive function on sets   *)
(* of indices; its theorems of induction take an operator and cannot be    *)
(* used, but a least counterexample of a set of them always exists.        *)
(***************************************************************************)

\* Induction on the naturals, on a set instead of a predicate.
LEMMA NaturalsInduct ==
  ASSUME NEW Q, 0 \in Q, \A n \in Nat : n \in Q => n + 1 \in Q
  PROVE  Nat \subseteq Q
<1> DEFINE less == {p \in Nat \X Nat : p[1] < p[2]}
<1>1. IsWellFoundedOn(less, Nat)
  <2>1. OpToRel(<, Nat) = less
    BY Zenon DEF OpToRel
  <2>2. QED
    BY <2>1, NatLessThanWellFounded
<1>2. SUFFICES ASSUME Nat \ Q # {}
               PROVE  FALSE
  OBVIOUS
<1>3. PICK n \in Nat \ Q : \A m \in Nat \ Q : <<m, n>> \notin less
  <2>1. Nat \ Q \subseteq Nat
    OBVIOUS
  <2> HIDE DEF less
  <2>2. QED
    BY <1>1, <1>2, <2>1, WFMin
<1>4. n # 0 /\ n - 1 \in Nat
  OBVIOUS
<1>5. n - 1 \in Q
  <2>1. <<n - 1, n>> \in less
    BY <1>4
  <2>2. QED
    BY <1>3, <1>4, <2>1
<1>6. (n - 1) + 1 \in Q
  BY <1>4, <1>5
<1>7. QED
  BY <1>3, <1>6

\* Induction on the subsets of a finite set, by taking an element away.
LEMMA SubsetsInduct ==
  ASSUME NEW D, IsFiniteSet(D), NEW Q,
         \A s \in SUBSET D : (\A x \in s : s \ {x} \in Q) => s \in Q
  PROVE  SUBSET D \subseteq Q
<1> DEFINE T == (SUBSET D) \ Q
<1>1. SUFFICES ASSUME T # {}
               PROVE  FALSE
  OBVIOUS
<1>2. IsWellFoundedOn(StrictSubsetOrdering(D), SUBSET D)
  BY FS_StrictSubsetOrderingWellFounded, FS_FiniteSubsetsOfFinite
<1>3. PICK s \in T : \A t \in T : <<t, s>> \notin StrictSubsetOrdering(D)
  <2>1. T \subseteq SUBSET D
    OBVIOUS
  <2> HIDE DEF T
  <2>2. QED
    BY <1>1, <1>2, <2>1, WFMin
<1>4. \A x \in s : s \ {x} \in Q
  <2>1. SUFFICES ASSUME NEW x \in s, s \ {x} \notin Q
                 PROVE  FALSE
    OBVIOUS
  <2>2. s \ {x} \in T
    BY <2>1
  <2>3. <<s \ {x}, s>> \in StrictSubsetOrdering(D)
    BY DEF StrictSubsetOrdering
  <2>4. QED
    BY <1>3, <2>2, <2>3
<1>5. s \in SUBSET D /\ s \notin Q
  OBVIOUS
<1>6. QED
  BY <1>4, <1>5

\* The element with which the fold over s begins.
Pick(s) == CHOOSE x \in s : TRUE

\* The value of a sum over s, from those over less.
SumFrom(f, g, s) == IF s = {} THEN 0 ELSE f[Pick(s)] + g[s \ {Pick(s)}]

\* The sums over all subsets, as a function of them.
IsSum(f, g, D) == g = [s \in SUBSET D |-> SumFrom(f, g, s)]

\* A sum is the value, at the whole set, of such a function.
LEMMA SumIs ==
  ASSUME NEW f, NEW D
  PROVE  SumFunctionOnSet(f, D) = (CHOOSE g : IsSum(f, g, D))[D]
BY DEF SumFunctionOnSet, FoldFunctionOnSet, MapThenFoldSet, IsSum, SumFrom, Pick

\* A set that is not empty has the member Pick.
LEMMA PickIn ==
  ASSUME NEW s, s # {}
  PROVE  Pick(s) \in s
BY DEF Pick

\* Over a finite set such a function exists.
LEMMA SumExists ==
  ASSUME NEW f, NEW D, IsFiniteSet(D)
  PROVE  \E g : IsSum(f, g, D)
<1> DEFINE UpTo(g, n) == \A s \in SUBSET D : Cardinality(s) <= n => g[s] = SumFrom(f, g, s)
           Q == {n \in Nat : \E g : UpTo(g, n)}
           next(g) == [s \in SUBSET D |-> SumFrom(f, g, s)]
<1>1. ASSUME NEW s \in SUBSET D
      PROVE  /\ IsFiniteSet(s) /\ Cardinality(s) \in Nat
             /\ Cardinality(s) <= 0 => s = {}
             /\ s # {} => /\ s \ {Pick(s)} \in SUBSET D
                          /\ Cardinality(s \ {Pick(s)}) = Cardinality(s) - 1
  <2>1. IsFiniteSet(s)
    BY FS_Subset
  <2>2. Cardinality(s) \in Nat
    BY <2>1, FS_CardinalityType
  <2>3. Cardinality(s) <= 0 => s = {}
    BY <2>1, <2>2, FS_EmptySet
  <2>4. s # {} => Cardinality(s \ {Pick(s)}) = Cardinality(s) - 1
    BY <2>1, FS_RemoveElement, PickIn
  <2>5. QED
    BY <2>1, <2>2, <2>3, <2>4
<1>2. 0 \in Q
  <2>1. UpTo(next([s \in {} |-> 0]), 0)
    BY <1>1 DEF SumFrom
  <2>2. QED
    BY <2>1
<1>3. ASSUME NEW n \in Nat, n \in Q
      PROVE  n + 1 \in Q
  <2>1. PICK g : UpTo(g, n)
    BY <1>3
  <2>2. ASSUME NEW s \in SUBSET D, Cardinality(s) <= n + 1
        PROVE  next(g)[s] = SumFrom(f, next(g), s)
    <3>1. CASE s = {}
      BY <3>1 DEF SumFrom
    <3>2. CASE s # {}
      <4> DEFINE r == s \ {Pick(s)}
      <4>1. r \in SUBSET D /\ Cardinality(r) <= n
        <5>1. Cardinality(s) \in Nat /\ Cardinality(r) = Cardinality(s) - 1
          BY <1>1, <3>2
        <5>2. QED
          BY <2>2, <5>1
      <4>2. g[r] = next(g)[r]
        BY <2>1, <4>1
      <4>3. QED
        BY <3>2, <4>2 DEF SumFrom
    <3>3. QED
      BY <3>1, <3>2
  <2>3. UpTo(next(g), n + 1)
    BY <2>2
  <2>4. \E h : UpTo(h, n + 1)
    <3> HIDE DEF UpTo
    <3>1. QED
      BY <2>3
  <2>5. QED
    BY <2>4
<1>4. Cardinality(D) \in Q
  <2> HIDE DEF Q
  <2>1. QED
    BY <1>2, <1>3, NaturalsInduct, FS_CardinalityType
<1>5. PICK g : UpTo(g, Cardinality(D))
  BY <1>4
<1>6. \A s \in SUBSET D : g[s] = SumFrom(f, g, s)
  BY <1>5, FS_Subset
<1>7. \A s \in SUBSET D : SumFrom(f, g, s) = SumFrom(f, next(g), s)
  <2>1. SUFFICES ASSUME NEW s \in SUBSET D
                 PROVE  SumFrom(f, g, s) = SumFrom(f, next(g), s)
    OBVIOUS
  <2>2. s # {} => s \ {Pick(s)} \in SUBSET D
    BY <1>1
  <2>3. s # {} => g[s \ {Pick(s)}] = next(g)[s \ {Pick(s)}]
    BY <1>6, <2>2
  <2>4. QED
    BY <2>3 DEF SumFrom
<1>8. IsSum(f, next(g), D)
  BY <1>7 DEF IsSum
<1>9. QED
  BY <1>8

\* Sums of values that agree are the same.
LEMMA SumsAgree ==
  ASSUME NEW f, NEW D, IsFiniteSet(D), NEW E, E \subseteq D,
         NEW g, IsSum(f, g, D), NEW h, IsSum(f, h, E)
  PROVE  g[E] = h[E]
<1> DEFINE Q == {s \in SUBSET E : g[s] = h[s]}
<1>1. IsFiniteSet(E)
  BY FS_Subset
<1>2. ASSUME NEW s \in SUBSET E, \A x \in s : s \ {x} \in Q
      PROVE  s \in Q
  <2>1. g[s] = SumFrom(f, g, s) /\ h[s] = SumFrom(f, h, s)
    BY DEF IsSum
  <2>2. s # {} => g[s \ {Pick(s)}] = h[s \ {Pick(s)}]
    BY <1>2, PickIn
  <2>3. QED
    BY <2>1, <2>2 DEF SumFrom
<1>3. SUBSET E \subseteq Q
  <2> HIDE DEF Q
  <2>1. QED
    BY <1>1, <1>2, SubsetsInduct
<1>4. QED
  BY <1>3

\* The equation of a sum.
LEMMA SumEquation ==
  ASSUME NEW f, NEW D, IsFiniteSet(D)
  PROVE  /\ D = {} => SumFunctionOnSet(f, D) = 0
         /\ D # {} => SumFunctionOnSet(f, D) = f[Pick(D)] + SumFunctionOnSet(f, D \ {Pick(D)})
<1> DEFINE E == D \ {Pick(D)}
           g == CHOOSE k : IsSum(f, k, D)
           h == CHOOSE k : IsSum(f, k, E)
<1>1. E \in SUBSET D /\ IsFiniteSet(E)
  BY FS_Subset
<1>2. IsSum(f, g, D) /\ IsSum(f, h, E)
  <2>1. (\E k : IsSum(f, k, D)) /\ (\E k : IsSum(f, k, E))
    BY <1>1, SumExists
  <2>2. QED
    BY <2>1
<1>3. SumFunctionOnSet(f, D) = g[D] /\ SumFunctionOnSet(f, E) = h[E]
  BY SumIs
<1> HIDE DEF g, h
<1>4. g[E] = h[E]
  <2> HIDE DEF E
  <2>1. QED
    BY <1>1, <1>2, SumsAgree
<1>5. g[D] = SumFrom(f, g, D)
  BY <1>2 DEF IsSum
<1>6. QED
  BY <1>3, <1>4, <1>5 DEF SumFrom

\* A sum of integers is one, and may begin with any of its terms.
LEMMA SumSplit ==
  ASSUME NEW D, IsFiniteSet(D), NEW f, \A y \in D : f[y] \in Int
  PROVE  /\ SumFunctionOnSet(f, D) \in Int
         /\ \A x \in D : SumFunctionOnSet(f, D) = f[x] + SumFunctionOnSet(f, D \ {x})
<1> DEFINE sum(s) == SumFunctionOnSet(f, s)
           Q == {s \in SUBSET D : /\ sum(s) \in Int
                                  /\ \A x \in s : /\ sum(s \ {x}) \in Int
                                               /\ sum(s) = f[x] + sum(s \ {x})}
<1>1. ASSUME NEW s \in SUBSET D, \A x \in s : s \ {x} \in Q
      PROVE  s \in Q
  <2>1. IsFiniteSet(s)
    BY FS_Subset
  <2>2. CASE s = {}
    <3>1. sum(s) = 0
      BY <2>1, <2>2, SumEquation
    <3>2. QED
      BY <2>2, <3>1
  <2>3. CASE s # {}
    <3> DEFINE c == Pick(s)
    <3>1. c \in s
      BY <2>3, PickIn
    <3>2. sum(s) = f[c] + sum(s \ {c})
      BY <2>1, <2>3, SumEquation
    <3> HIDE DEF c, sum
    <3>3. \A x \in s : sum(s \ {x}) \in Int /\ f[x] \in Int
      BY <1>1
    <3>4. ASSUME NEW x \in s
          PROVE  sum(s) = f[x] + sum(s \ {x})
      <4>1. CASE x = c
        BY <3>2, <4>1
      <4>2. CASE x # c
        <5>1. (s \ {x}) \ {c} = (s \ {c}) \ {x}
          OBVIOUS
        <5>2. sum(s \ {c}) = f[x] + sum((s \ {c}) \ {x})
          BY <1>1, <3>1, <4>2
        <5>3. sum(s \ {x}) = f[c] + sum((s \ {x}) \ {c})
          BY <1>1, <3>1, <4>2
        <5>4. sum((s \ {c}) \ {x}) \in Int
          BY <1>1, <3>1, <4>2
        <5>5. sum(s \ {x}) = f[c] + sum((s \ {c}) \ {x})
          BY <5>1, <5>3
        <5>6. QED
          BY <3>1, <3>2, <3>3, <5>2, <5>4, <5>5
      <4>3. QED
        BY <4>1, <4>2
    <3>5. sum(s) \in Int
      BY <3>1, <3>2, <3>3
    <3>6. QED
      BY <3>3, <3>4, <3>5
  <2>4. QED
    BY <2>2, <2>3
<1>2. SUBSET D \subseteq Q
  <2> HIDE DEF Q
  <2>1. QED
    BY <1>1, SubsetsInduct
<1>3. D \in Q
  BY <1>2
<1>4. QED
  BY <1>3

\* Sums compare as their terms do.
LEMMA SumsCompare ==
  ASSUME NEW D, IsFiniteSet(D), NEW a \in Nat, NEW b \in Nat, NEW f, NEW g,
         \A x \in D : f[x] \in Int /\ g[x] \in Int /\ a * f[x] <= b * g[x]
  PROVE  a * SumFunctionOnSet(f, D) <= b * SumFunctionOnSet(g, D)
<1> DEFINE F(s) == SumFunctionOnSet(f, s)
           G(s) == SumFunctionOnSet(g, s)
           Q == {s \in SUBSET D : a * F(s) <= b * G(s)}
<1>1. ASSUME NEW s \in SUBSET D, \A x \in s : s \ {x} \in Q
      PROVE  s \in Q
  <2>1. IsFiniteSet(s)
    BY FS_Subset
  <2>2. CASE s = {}
    <3>1. F(s) = 0 /\ G(s) = 0
      BY <2>1, <2>2, SumEquation
    <3>2. QED
      BY <2>2, <3>1
  <2>3. CASE s # {}
    <3>1. PICK x \in s : TRUE
      BY <2>3
    <3> DEFINE r == s \ {x}
    <3>2. F(s) = f[x] + F(r) /\ G(s) = g[x] + G(r)
      BY <2>1, <3>1, SumSplit
    <3>3. F(r) \in Int /\ G(r) \in Int
      <4>1. IsFiniteSet(r)
        BY <2>1, FS_Subset
      <4>2. QED
        BY <4>1, SumSplit
    <3>4. a * F(r) <= b * G(r)
      BY <1>1, <3>1
    <3>5. f[x] \in Int /\ g[x] \in Int /\ a * f[x] <= b * g[x]
      BY <3>1
    <3> HIDE DEF r, F, G
    <3>6. /\ a * (f[x] + F(r)) = a * f[x] + a * F(r)
          /\ b * (g[x] + G(r)) = b * g[x] + b * G(r)
      BY <3>3, <3>5
    <3>7. a * F(s) <= b * G(s)
      BY <3>2, <3>3, <3>4, <3>5, <3>6
    <3>8. QED
      BY <3>7
  <2>4. QED
    BY <2>2, <2>3
<1>2. SUBSET D \subseteq Q
  <2> HIDE DEF Q
  <2>1. QED
    BY <1>1, SubsetsInduct
<1>3. D \in Q
  BY <1>2
<1>4. QED
  BY <1>3

\* The sum of naturals, and that of zeros.
LEMMA SumOfNaturals ==
  ASSUME NEW D, IsFiniteSet(D), NEW f, \A x \in D : f[x] \in Nat
  PROVE  /\ SumFunctionOnSet(f, D) \in Nat
         /\ (\A x \in D : f[x] = 0) => SumFunctionOnSet(f, D) = 0
<1> DEFINE sum == SumFunctionOnSet(f, D)
<1>1. sum \in Int
  BY SumSplit
<1>2. 0 * sum <= 1 * sum
  <2>1. \A x \in D : f[x] \in Int /\ 0 * f[x] <= 1 * f[x]
    OBVIOUS
  <2> HIDE DEF sum
  <2>2. QED
    BY <2>1, SumsCompare DEF sum
<1>3. ASSUME \A x \in D : f[x] = 0
      PROVE  1 * sum <= 0 * sum
  <2>1. \A x \in D : f[x] \in Int /\ 1 * f[x] <= 0 * f[x]
    BY <1>3
  <2> HIDE DEF sum
  <2>2. QED
    BY <2>1, SumsCompare DEF sum
<1> HIDE DEF sum
<1>4. sum \in Nat /\ ((\A x \in D : f[x] = 0) => sum = 0)
  BY <1>1, <1>2, <1>3
<1>5. QED
  BY <1>4 DEF sum

\* No term is above the sum.
LEMMA SumMember ==
  ASSUME NEW D, IsFiniteSet(D), NEW f \in [D -> Nat], NEW x \in D
  PROVE  SumFunction(f) \in Nat /\ f[x] <= SumFunction(f)
<1>1. DOMAIN f = D
  OBVIOUS
<1>2. SumFunctionOnSet(f, D) = f[x] + SumFunctionOnSet(f, D \ {x})
  BY SumSplit
<1>3. SumFunctionOnSet(f, D \ {x}) \in Nat
  BY FS_RemoveElement, SumOfNaturals
<1>4. QED
  BY <1>1, <1>2, <1>3 DEF SumFunction

\* A sum follows one of its terms.
LEMMA SumFollows ==
  ASSUME NEW D, IsFiniteSet(D), NEW f \in [D -> Int], NEW g \in [D -> Int],
         NEW x \in D, \A y \in D \ {x} : g[y] = f[y]
  PROVE  SumFunction(g) = SumFunction(f) + (g[x] - f[x])
<1> DEFINE r == D \ {x}
<1>1. DOMAIN f = D /\ DOMAIN g = D
  OBVIOUS
<1>2. IsFiniteSet(r)
  BY FS_RemoveElement
<1>3. /\ SumFunctionOnSet(f, D) = f[x] + SumFunctionOnSet(f, r)
      /\ SumFunctionOnSet(g, D) = g[x] + SumFunctionOnSet(g, r)
  BY SumSplit
<1>4. SumFunctionOnSet(f, r) \in Int /\ SumFunctionOnSet(g, r) \in Int
  BY <1>2, SumSplit
<1>5. /\ 1 * SumFunctionOnSet(f, r) <= 1 * SumFunctionOnSet(g, r)
      /\ 1 * SumFunctionOnSet(g, r) <= 1 * SumFunctionOnSet(f, r)
  <2>1. \A y \in r : /\ f[y] \in Int /\ g[y] \in Int
                     /\ 1 * f[y] <= 1 * g[y] /\ 1 * g[y] <= 1 * f[y]
    OBVIOUS
  <2> HIDE DEF r
  <2>2. QED
    BY <1>2, <2>1, SumsCompare
<1>6. QED
  BY <1>1, <1>3, <1>4, <1>5 DEF SumFunction

-----------------------------------------------------------------------------
(***************************************************************************)
(* Penalties, fees and limits.                                             *)
(***************************************************************************)

\* The worst depeg exists: depegs are naturals with a common bound, so their
\* least upper bound is one of them.
LEMMA WorstDepegType ==
  ASSUME price \in [Vault -> Prices]
  PROVE  WorstDepeg \in Nat
<1> DEFINE depeg(v) == AbsDiff(price[v], SCALE)
           Bounds == {n \in Nat : \A v \in Vault : depeg(v) <= n}
           less == {p \in Nat \X Nat : p[1] < p[2]}
<1>1. MaxPrice \in Nat /\ Prices \subseteq 1..MaxPrice
  BY InputAssumption
<1>2. \A v \in Vault : depeg(v) \in Nat /\ depeg(v) <= MaxPrice + SCALE
  <2>1. \A v \in Vault : price[v] \in 1..MaxPrice
    BY <1>1
  <2>2. QED
    BY <1>1, <2>1, ScaleAssumption DEF AbsDiff
<1>3. MaxPrice + SCALE \in Bounds
  BY <1>1, <1>2, ScaleAssumption
<1>4. IsWellFoundedOn(less, Nat)
  <2>1. OpToRel(<, Nat) = less
    BY Zenon DEF OpToRel
  <2>2. QED
    BY <2>1, NatLessThanWellFounded
<1>5. PICK least \in Bounds : \A n \in Bounds : <<n, least>> \notin less
  BY <1>3, <1>4, WFMin
<1>6. \E v \in Vault : depeg(v) = least
  <2>1. SUFFICES ASSUME \A v \in Vault : depeg(v) # least
                 PROVE  FALSE
    OBVIOUS
  <2>2. \A v \in Vault : depeg(v) <= least - 1
    BY <1>2, <1>5, <2>1
  <2>3. least - 1 \in Nat
    BY <1>2, <1>5, <2>2, VaultAssumption
  <2>4. least - 1 \in Bounds
    BY <2>2, <2>3
  <2>5. <<least - 1, least>> \in less
    BY <2>3
  <2>6. QED
    BY <1>5, <2>4, <2>5
<1>7. \E d \in {depeg(v) : v \in Vault} : \A v \in Vault : depeg(v) <= d
  BY <1>5, <1>6
<1>8. WorstDepeg \in {depeg(v) : v \in Vault}
  BY <1>7 DEF WorstDepeg
<1>9. QED
  BY <1>2, <1>8

\* The fee of a rate up to one is a natural.
LEMMA ProtocolFeeType ==
  ASSUME NEW amount \in Nat, NEW rate \in Nat
  PROVE  ProtocolFee(amount, rate) \in Nat
BY MulDivCeilType, ScaleAssumption DEF ProtocolFee

\* The limit of a flow is one of two: the floor, or a share of the supply.
LEMMA FlowCapBound ==
  ASSUME total_supply \in Nat, NEW limit \in 0..SCALE
  PROVE  /\ FlowCap(limit) \in Nat
         /\ FlowCap(limit) >= MinUnits
         /\ \/ FlowCap(limit) <= MinUnits
            \/ FlowCap(limit) * SCALE <= limit * total_supply
<1> DEFINE base == AtLeast(total_supply, MinUnits)
           share == MulDivFloor(base, limit, SCALE)
<1>1. base \in Nat
  BY FlowAssumption DEF AtLeast
<1>2. /\ share \in Nat
      /\ share * SCALE <= base * limit
      /\ share <= base
  <2> HIDE DEF base
  <2>1. limit \in Nat /\ SCALE \in Nat \ {0}
    BY ScaleAssumption
  <2>2. share \in Nat /\ share * SCALE <= base * limit
    BY <1>1, <2>1, MulDivFloorBound
  <2>3. share <= base
    BY <1>1, <2>1, PartBound
  <2>4. QED
    BY <2>2, <2>3
<1>3. FlowCap(limit) = AtLeast(share, MinUnits)
  BY DEF FlowCap
<1>4. CASE total_supply >= MinUnits
  <2>1. base = total_supply
    BY <1>4 DEF AtLeast
  <2>2. base * limit = limit * total_supply
    BY <2>1
  <2> HIDE DEF base, share
  <2>3. QED
    BY <1>2, <1>3, <2>2, FlowAssumption DEF AtLeast
<1>5. CASE ~(total_supply >= MinUnits)
  <2>1. base = MinUnits
    BY <1>5, FlowAssumption DEF AtLeast
  <2> HIDE DEF base, share
  <2>2. QED
    BY <1>2, <1>3, <2>1, FlowAssumption DEF AtLeast
<1>6. QED
  BY <1>4, <1>5

\* The limit of a slot's redemptions is the floor, or under both its bounds.
LEMMA RedeemSlotCapBound ==
  ASSUME total_supply \in Nat
  PROVE  /\ RedeemSlotCap \in Nat \ {0}
         /\ \/ RedeemSlotCap <= MinUnits
            \/ /\ RedeemSlotCap <= MaxAbsoluteRedeem
               /\ RedeemSlotCap * SCALE <= MaxRedeemPerSlot * total_supply
<1> DEFINE cap == FlowCap(MaxRedeemPerSlot)
<1>1. MaxRedeemPerSlot \in 0..SCALE
  BY FlowAssumption
<1>2. /\ cap \in Nat
      /\ cap >= MinUnits
      /\ \/ cap <= MinUnits
         \/ cap * SCALE <= MaxRedeemPerSlot * total_supply
  BY <1>1, FlowCapBound
<1>3. RedeemSlotCap = AtLeast(AtMost(cap, MaxAbsoluteRedeem), MinUnits)
  BY DEF RedeemSlotCap
<1> HIDE DEF cap
<1>4. RedeemSlotCap \in Nat \ {0}
  BY <1>2, <1>3, FlowAssumption DEF AtLeast, AtMost
<1>5. CASE MaxAbsoluteRedeem <= MinUnits
  BY <1>2, <1>3, <1>4, <1>5, FlowAssumption DEF AtLeast, AtMost
<1>6. CASE MaxAbsoluteRedeem > MinUnits
  <2>1. RedeemSlotCap <= MaxAbsoluteRedeem /\ RedeemSlotCap <= cap
    BY <1>2, <1>3, <1>6, FlowAssumption DEF AtLeast, AtMost
  <2>2. RedeemSlotCap * SCALE <= cap * SCALE
    BY <1>2, <1>4, <2>1, ProductMonotone, ScaleAssumption
  <2>3. /\ MaxRedeemPerSlot * total_supply \in Nat
        /\ cap * SCALE \in Nat /\ RedeemSlotCap * SCALE \in Nat
    BY <1>1, <1>2, <1>4, ProductMonotone, ScaleAssumption
  <2>4. QED
    BY <1>2, <1>4, <2>1, <2>2, <2>3, FlowAssumption
<1>7. QED
  BY <1>4, <1>5, <1>6, FlowAssumption

\* What is left of a redemption after its fee, which is never more than it.
LEMMA NetOfFeeBound ==
  ASSUME TypeOK, NEW amount \in Nat
  PROVE  NetOfFee(amount) \in 0..amount
<1> DEFINE used == AtMost(InWindow(redeemed_in_flow_slot), RedeemSlotCap)
           velocity == MulDivFloor(used, SCALE, RedeemSlotCap)
           surcharge == IF velocity <= VelocityFeeStart THEN 0
                        ELSE MulDivFloor(velocity - VelocityFeeStart,
                                         FeeRateMax, SCALE - VelocityFeeStart)
<1>1. RedeemSlotCap \in Nat \ {0}
  BY RedeemSlotCapBound DEF TypeOK
<1>2. used \in Nat
  BY <1>1 DEF TypeOK, InWindow, AtMost
<1>3. velocity \in Nat
  BY <1>1, <1>2, MulDivFloorBound, ScaleAssumption
<1>4. surcharge \in Nat
  <2>1. SCALE - VelocityFeeStart \in Nat \ {0} /\ FeeRateMax \in Nat
    BY ScaleAssumption
  <2>2. CASE velocity <= VelocityFeeStart
    BY <2>2
  <2>3. CASE ~(velocity <= VelocityFeeStart)
    <3>1. velocity - VelocityFeeStart \in Nat
      BY <1>3, <2>3, ScaleAssumption
    <3>2. QED
      BY <2>1, <2>3, <3>1, MulDivFloorBound
  <2>4. QED
    BY <2>2, <2>3
<1>5. RedeemFeeRate = AtMost(settings.redeem_fee_rate + surcharge, FeeRateMax)
  BY DEF RedeemFeeRate
<1>6. RedeemFeeRate \in 0..SCALE
  BY <1>4, <1>5, ScaleAssumption DEF TypeOK, Setting, AtMost
<1>7. /\ ProtocolFee(amount, RedeemFeeRate) \in Nat
      /\ ProtocolFee(amount, RedeemFeeRate) <= amount
  BY <1>6, ProtocolFeeType, PartUpBound, ScaleAssumption DEF ProtocolFee
<1>8. QED
  BY <1>7 DEF NetOfFee

\* The discount is a share of one.
LEMMA RedeemDiscountType ==
  ASSUME TypeOK, NEW penalty \in Penalties, NEW is_degraded \in BOOLEAN
  PROVE  RedeemDiscount(penalty, is_degraded) \in 0..SCALE
<1>1. WorstDepeg \in Nat
  BY WorstDepegType DEF TypeOK
<1>2. AtMost(2 * WorstDepeg + penalty, MaxRedeemPenalty) \in 0..SCALE
  BY <1>1, ScaleAssumption, InputAssumption DEF AtMost
<1>3. QED
  BY <1>2, ScaleAssumption DEF RedeemDiscount, AtLeast

\* A vault pays out at most the redeemed share of its deposits.
LEMMA PayoutBound ==
  ASSUME TypeOK, total_supply > 0, NEW v \in Vault, NEW amount \in Nat,
         NEW penalty \in Penalties, NEW is_degraded \in BOOLEAN
  PROVE  /\ Payout(v, amount, penalty, is_degraded) \in Nat
         /\ Payout(v, amount, penalty, is_degraded) * total_supply
              <= total_deposits[v] * amount
<1> DEFINE d == total_deposits[v]
           net == NetOfFee(amount)
           share == MulDivFloor(d, net, total_supply)
           discount == RedeemDiscount(penalty, is_degraded)
           payout == Payout(v, amount, penalty, is_degraded)
<1>1. d \in Nat /\ total_supply \in Nat \ {0}
  BY DEF TypeOK
<1>2. net \in Nat /\ net <= amount
  BY NetOfFeeBound
<1>3. discount \in 0..SCALE
  BY RedeemDiscountType
<1>4. payout = MulDivFloor(share, discount, SCALE)
  BY DEF Payout
<1> HIDE DEF d, net, discount, payout
<1>5. share \in Nat /\ share * total_supply <= d * net
  BY <1>1, <1>2, MulDivFloorBound
<1> HIDE DEF share
<1>6. payout \in Nat /\ payout <= share
  BY <1>3, <1>4, <1>5, PartBound, ScaleAssumption
<1>7. payout * total_supply <= share * total_supply
  BY <1>1, <1>5, <1>6, ProductMonotone
<1>8. d * net <= d * amount
  BY <1>1, <1>2, ProductMonotone
<1>9. payout * total_supply <= d * amount
  <2>1. /\ payout * total_supply \in Nat /\ share * total_supply \in Nat
        /\ d * net \in Nat /\ d * amount \in Nat
    BY <1>1, <1>2, <1>5, <1>6, ProductMonotone
  <2>2. QED
    BY <1>5, <1>7, <1>8, <2>1
<1>10. QED
  BY <1>6, <1>9 DEF payout, d

\* What a deposit mints is an integer.
LEMMA MintedType ==
  ASSUME TypeOK, NEW v \in Vault, NEW amount \in Nat, NEW penalty \in Penalties
  PROVE  Minted(v, amount, penalty) \in Int
<1> DEFINE haircut == MintHaircut(v, penalty)
           effective == MulDivFloor(price[v], haircut, SCALE)
           gross == Gross(v, amount, penalty)
           mintable == MulDivFloor(gross, SCALE, settings.cr_target)
<1>1. /\ price[v] \in Nat
      /\ settings.cr_target \in Nat \ {0}
      /\ settings.mint_fee_rate \in Nat
      /\ SCALE \in Nat \ {0}
  <2>1. MaxPrice \in Nat /\ Prices \subseteq 1..MaxPrice
    BY InputAssumption
  <2>2. price[v] \in 1..MaxPrice
    BY <2>1 DEF TypeOK
  <2>3. settings \in Setting
    BY DEF TypeOK
  <2>4. QED
    BY <2>2, <2>3, ScaleAssumption DEF Setting
<1>2. haircut \in Nat
  <2>1. AbsDiff(price[v], SCALE) \in Nat
    BY <1>1 DEF AbsDiff
  <2>2. AtMost(2 * AbsDiff(price[v], SCALE) + penalty, MaxMintPenalty)
          \in 0..SCALE
    BY <2>1, InputAssumption, ScaleAssumption DEF AtMost
  <2>3. QED
    BY <2>2, ScaleAssumption DEF MintHaircut
<1>3. effective \in Nat
  BY <1>1, <1>2, MulDivFloorBound
<1>4. gross \in Nat
  BY <1>1, <1>3, MulDivFloorBound DEF Gross
<1>5. mintable \in Nat
  BY <1>1, <1>4, MulDivFloorBound
<1>6. ProtocolFee(mintable, settings.mint_fee_rate) \in Nat
  BY <1>1, <1>5, ProtocolFeeType
<1>7. QED
  BY <1>5, <1>6 DEF Minted

-----------------------------------------------------------------------------
(***************************************************************************)
(* The inductive invariant: the types, what the flow counters mean, and    *)
(* the two facts about the books that do not need a sum over the users.    *)
(***************************************************************************)

\* The supply is that of the slot's beginning and what the slot did to it.
SupplyFollows == total_supply + redeemed_now = opening_supply + minted_now

\* Every recorded deposit is in the vault's token account.
DepositsHeld == \A v \in Vault : total_deposits[v] <= vault_ata[v]

IInv ==
  /\ TypeOK
  /\ SupplyFollows
  /\ DepositsHeld
  /\ FlowCountersExact
  /\ SlotFlowsBounded

\* A mint within the limits keeps the slot within its bounds.
LEMMA MintKeepsFlows ==
  ASSUME IInv, NEW minted \in Nat, MintFlow(minted),
         minted_now' = minted_now + minted,
         UNCHANGED <<opening_supply, redeemed_now>>
  PROVE  SlotFlowsBounded'
<1> DEFINE cap == FlowCap(MaxMintPerSlot)
           before == opening_supply + minted_now
           after == opening_supply + minted_now + minted
<1>1. /\ MaxMintPerSlot \in 0..SCALE /\ MaxRedeemPerSlot \in 0..SCALE
      /\ SCALE \in Nat \ {0} /\ MinUnits \in Nat /\ MaxAbsoluteRedeem \in Nat
      /\ total_supply \in Nat /\ opening_supply \in Nat
      /\ minted_now \in Nat /\ redeemed_now \in Nat
  BY FlowAssumption, ScaleAssumption DEF IInv, TypeOK
<1>2. /\ cap \in Nat
      /\ cap <= MinUnits \/ cap * SCALE <= MaxMintPerSlot * total_supply
  BY <1>1, FlowCapBound
<1>3. minted_now + minted <= cap
  BY DEF IInv, FlowCountersExact, MintFlow, MintSlotCap
<1>4. /\ before \in Nat /\ after \in Nat
      /\ before <= after /\ total_supply <= after
  BY <1>1 DEF IInv, SupplyFollows
<1>5. after = opening_supply' + minted_now'
  BY <1>1
<1> HIDE DEF cap, before, after
<1>6. \/ minted_now' <= MinUnits
      \/ minted_now' * SCALE <= MaxMintPerSlot * (opening_supply' + minted_now')
  <2>1. CASE cap <= MinUnits
    BY <1>1, <1>2, <1>3, <2>1
  <2>2. CASE cap * SCALE <= MaxMintPerSlot * total_supply
    <3>1. (minted_now + minted) * SCALE <= cap * SCALE
      BY <1>1, <1>2, <1>3, ProductMonotone
    <3>2. MaxMintPerSlot * total_supply <= MaxMintPerSlot * after
      BY <1>1, <1>4, ProductMonotone
    <3>3. /\ (minted_now + minted) * SCALE \in Nat /\ cap * SCALE \in Nat
          /\ MaxMintPerSlot * total_supply \in Nat
          /\ MaxMintPerSlot * after \in Nat
      BY <1>1, <1>2, <1>4, ProductMonotone
    <3>4. (minted_now + minted) * SCALE <= MaxMintPerSlot * after
      BY <2>2, <3>1, <3>2, <3>3
    <3>5. QED
      BY <1>5, <3>4
  <2>3. QED
    BY <1>2, <2>1, <2>2
<1>7. MaxRedeemPerSlot * before <= MaxRedeemPerSlot * after
  BY <1>1, <1>4, ProductMonotone
<1>8. /\ MaxRedeemPerSlot * before \in Nat /\ MaxRedeemPerSlot * after \in Nat
      /\ redeemed_now * SCALE \in Nat
  BY <1>1, <1>4, ProductMonotone
<1>9. \/ redeemed_now <= MinUnits
      \/ /\ redeemed_now <= MaxAbsoluteRedeem
         /\ redeemed_now * SCALE <= MaxRedeemPerSlot * before
  BY DEF IInv, SlotFlowsBounded, before
<1>10. \/ redeemed_now <= MinUnits
       \/ /\ redeemed_now <= MaxAbsoluteRedeem
          /\ redeemed_now * SCALE <= MaxRedeemPerSlot * after
  BY <1>7, <1>8, <1>9
<1>11. QED
  BY <1>5, <1>6, <1>10 DEF SlotFlowsBounded

\* A redemption within the limits does too.
LEMMA RedeemKeepsFlows ==
  ASSUME IInv, NEW amount \in Nat, RedeemFlow(amount),
         redeemed_now' = redeemed_now + amount,
         UNCHANGED <<opening_supply, minted_now>>
  PROVE  SlotFlowsBounded'
<1> DEFINE cap == RedeemSlotCap
           base == opening_supply + minted_now
           next == redeemed_now + amount
<1>1. /\ MaxRedeemPerSlot \in Nat /\ SCALE \in Nat
      /\ MinUnits \in Nat /\ MaxAbsoluteRedeem \in Nat
      /\ total_supply \in Nat /\ opening_supply \in Nat
      /\ minted_now \in Nat /\ redeemed_now \in Nat
  BY FlowAssumption, ScaleAssumption DEF IInv, TypeOK
<1>2. /\ cap \in Nat
      /\ \/ cap <= MinUnits
         \/ /\ cap <= MaxAbsoluteRedeem
            /\ cap * SCALE <= MaxRedeemPerSlot * total_supply
  BY <1>1, RedeemSlotCapBound
<1>3. next \in Nat /\ next <= cap
  BY <1>1 DEF IInv, FlowCountersExact, RedeemFlow
<1>4. base \in Nat /\ total_supply <= base
  BY <1>1 DEF IInv, SupplyFollows
<1> HIDE DEF cap, base
<1>5. next * SCALE <= cap * SCALE
  BY <1>1, <1>2, <1>3, ProductMonotone
<1>6. MaxRedeemPerSlot * total_supply <= MaxRedeemPerSlot * base
  BY <1>1, <1>4, ProductMonotone
<1>7. /\ next * SCALE \in Nat /\ cap * SCALE \in Nat
      /\ MaxRedeemPerSlot * total_supply \in Nat
      /\ MaxRedeemPerSlot * base \in Nat
  BY <1>1, <1>2, <1>3, <1>4, ProductMonotone
<1>8. \/ next <= MinUnits
      \/ /\ next <= MaxAbsoluteRedeem
         /\ next * SCALE <= MaxRedeemPerSlot * base
  <2> HIDE DEF next
  <2>1. CASE cap <= MinUnits
    BY <1>1, <1>2, <1>3, <2>1
  <2>2. CASE /\ cap <= MaxAbsoluteRedeem
             /\ cap * SCALE <= MaxRedeemPerSlot * total_supply
    BY <1>1, <1>2, <1>3, <1>5, <1>6, <1>7, <2>2
  <2>3. QED
    BY <1>2, <2>1, <2>2
<1>9. QED
  BY <1>8 DEF base, IInv, SlotFlowsBounded

\* A mint keeps the invariant.
LEMMA MintKeepsInvariant ==
  ASSUME IInv, NEW u \in User, NEW v \in Vault, NEW amount \in Amounts,
         NEW penalty \in Penalties, Mint(u, v, amount, penalty)
  PROVE  IInv' /\ total_supply' > total_supply
<1> DEFINE minted == Minted(v, amount, penalty)
<1>1. /\ slot \in Nat
      /\ flow_control_slot \in 0..slot
      /\ total_deposits \in [Vault -> Nat] /\ vault_ata \in [Vault -> Nat]
      /\ usd_balance \in [User -> Nat] /\ mstb \in [User -> Nat]
      /\ total_supply \in Nat
      /\ minted_in_flow_slot \in Nat /\ redeemed_in_flow_slot \in Nat
      /\ opening_supply \in Nat /\ minted_now \in Nat /\ redeemed_now \in Nat
  BY DEF IInv, TypeOK
<1>2. amount \in Nat
  BY InputAssumption
<1>3. minted \in Nat /\ minted > 0
  <2>1. minted \in Int
    BY <1>2, MintedType DEF IInv
  <2>2. minted > 0
    BY DEF Mint
  <2>3. QED
    BY <2>1, <2>2
<1>4. /\ MintFlow(minted)
      /\ total_deposits' = [total_deposits EXCEPT ![v] = @ + amount]
      /\ total_supply' = total_supply + minted
      /\ usd_balance' = [usd_balance EXCEPT ![u] = @ + minted]
      /\ mstb' = [mstb EXCEPT ![u] = @ + minted]
      /\ vault_ata' = [vault_ata EXCEPT ![v] = @ + amount]
      /\ flow_control_slot' = slot
      /\ minted_in_flow_slot' = InWindow(minted_in_flow_slot) + minted
      /\ redeemed_in_flow_slot' = InWindow(redeemed_in_flow_slot)
      /\ minted_now' = minted_now + minted
      /\ UNCHANGED <<slot, price, settings, emergency_shutdown,
                     mint_rate_limit, opening_supply, redeemed_now>>
  BY DEF Mint, policyVars
<1> HIDE DEF minted
<1>5. SlotFlowsBounded'
  BY <1>3, <1>4, MintKeepsFlows
<1>6. TypeOK'
  BY <1>1, <1>2, <1>3, <1>4 DEF IInv, TypeOK, InWindow
<1>7. SupplyFollows'
  BY <1>1, <1>3, <1>4 DEF IInv, SupplyFollows
<1>8. DepositsHeld'
  BY <1>1, <1>2, <1>4 DEF IInv, DepositsHeld
<1>9. FlowCountersExact'
  BY <1>1, <1>3, <1>4 DEF IInv, FlowCountersExact, InWindow
<1>10. QED
  BY <1>1, <1>3, <1>4, <1>5, <1>6, <1>7, <1>8, <1>9 DEF IInv

\* What a redemption does to the books, in bounds.
LEMMA RedeemEffect ==
  ASSUME IInv, NEW u \in User, NEW amount \in Amounts,
         NEW penalty \in Penalties, NEW is_degraded \in BOOLEAN,
         Redeem(u, amount, penalty, is_degraded), NEW v \in Vault
  PROVE  /\ total_supply' = total_supply - amount /\ total_supply' \in Nat
         /\ total_deposits'[v] \in Nat /\ vault_ata'[v] \in Nat
         /\ total_deposits'[v] <= vault_ata'[v]
         /\ total_deposits'[v] * total_supply
              >= total_deposits[v] * total_supply'
<1> DEFINE payout == Payout(v, amount, penalty, is_degraded)
           d == total_deposits[v]
           s == total_supply
<1>1. /\ d \in Nat /\ vault_ata[v] \in Nat /\ d <= vault_ata[v] /\ s \in Nat
      /\ amount \in Nat \ {0}
  BY InputAssumption DEF IInv, TypeOK, DepositsHeld
<1>2. /\ s >= amount /\ NetOfFee(amount) > 0
      /\ payout <= vault_ata[v] /\ payout <= d
      /\ vault_ata'[v] = vault_ata[v] - payout
      /\ total_deposits'[v] = d - payout
      /\ total_supply' = s - amount
  BY DEF Redeem, CanRedeem, Retired
<1>3. payout \in Nat /\ payout * s <= d * amount
  BY <1>1, <1>2, PayoutBound DEF IInv
<1>4. d * s - payout * s >= d * s - d * amount
  BY <1>1, <1>3
<1> HIDE DEF payout, d
<1>5. (d - payout) * s = d * s - payout * s
  BY <1>1, <1>3
<1>6. d * (s - amount) = d * s - d * amount
  BY <1>1
<1>7. QED
  BY <1>1, <1>2, <1>3, <1>4, <1>5, <1>6 DEF d

\* A redemption keeps the invariant.
LEMMA RedeemKeepsInvariant ==
  ASSUME IInv, NEW u \in User, NEW amount \in Amounts,
         NEW penalty \in Penalties, NEW is_degraded \in BOOLEAN,
         Redeem(u, amount, penalty, is_degraded)
  PROVE  IInv'
<1>1. /\ slot \in Nat
      /\ flow_control_slot \in 0..slot
      /\ usd_balance \in [User -> Nat] /\ mstb \in [User -> Nat]
      /\ total_supply \in Nat
      /\ minted_in_flow_slot \in Nat /\ redeemed_in_flow_slot \in Nat
      /\ opening_supply \in Nat /\ minted_now \in Nat /\ redeemed_now \in Nat
  BY DEF IInv, TypeOK
<1>2. amount \in Nat
  BY InputAssumption
<1>3. /\ RedeemFlow(amount)
      /\ usd_balance[u] >= amount /\ mstb[u] >= amount
      /\ mstb' = [mstb EXCEPT ![u] = @ - amount]
      /\ usd_balance' = [usd_balance EXCEPT ![u] = @ - amount]
      /\ flow_control_slot' = slot
      /\ minted_in_flow_slot' = InWindow(minted_in_flow_slot)
      /\ redeemed_in_flow_slot' = InWindow(redeemed_in_flow_slot) + amount
      /\ redeemed_now' = redeemed_now + amount
      /\ UNCHANGED <<slot, price, settings, emergency_shutdown,
                     mint_rate_limit, opening_supply, minted_now>>
  BY DEF Redeem, CanRedeem, policyVars
<1>4. total_supply' = total_supply - amount /\ total_supply' \in Nat
  BY RedeemEffect, VaultAssumption
<1>5. \A v \in Vault : /\ total_deposits'[v] \in Nat /\ vault_ata'[v] \in Nat
                       /\ total_deposits'[v] <= vault_ata'[v]
  BY RedeemEffect
<1>6. /\ total_deposits' = [v \in Vault |-> total_deposits'[v]]
      /\ vault_ata' = [v \in Vault |-> vault_ata'[v]]
  BY DEF Redeem
<1>7. total_deposits' \in [Vault -> Nat] /\ vault_ata' \in [Vault -> Nat]
  BY <1>5, <1>6
<1>8. SlotFlowsBounded'
  BY <1>2, <1>3, RedeemKeepsFlows
<1>9. TypeOK'
  BY <1>1, <1>2, <1>3, <1>4, <1>7 DEF IInv, TypeOK, InWindow
<1>10. SupplyFollows'
  BY <1>1, <1>2, <1>3, <1>4 DEF IInv, SupplyFollows
<1>11. DepositsHeld'
  BY <1>5 DEF DepositsHeld
<1>12. FlowCountersExact'
  BY <1>1, <1>2, <1>3 DEF IInv, FlowCountersExact, InWindow
<1>13. QED
  BY <1>8, <1>9, <1>10, <1>11, <1>12 DEF IInv

\* What token holders do keeps the invariant, and the supply.
LEMMA HoldersKeepInvariant ==
  ASSUME IInv, Holders
  PROVE  IInv' /\ total_supply' = total_supply
<1>1. Amounts \subseteq Nat
  BY InputAssumption
<1>2. UNCHANGED <<slot, flowVars, bookVars, policyVars, historyVars>>
  BY DEF Holders, Transfer, BurnOwn, Donate, tokenVars
<1>3. mstb' \in [User -> Nat] /\ vault_ata' \in [Vault -> Nat]
  BY <1>1 DEF Holders, Transfer, BurnOwn, Donate, IInv, TypeOK
<1>4. \A v \in Vault : vault_ata'[v] >= vault_ata[v]
  BY <1>1 DEF Holders, Transfer, BurnOwn, Donate, IInv, TypeOK
<1>5. TypeOK'
  BY <1>2, <1>3
  DEF IInv, TypeOK, flowVars, bookVars, policyVars, historyVars
<1>6. DepositsHeld'
  BY <1>2, <1>3, <1>4 DEF IInv, TypeOK, DepositsHeld, bookVars
<1>7. (SupplyFollows /\ FlowCountersExact /\ SlotFlowsBounded)'
  BY <1>2
  DEF IInv, SupplyFollows, FlowCountersExact, SlotFlowsBounded, InWindow,
      flowVars, bookVars, historyVars
<1>8. QED
  BY <1>2, <1>5, <1>6, <1>7 DEF IInv, bookVars

\* The keepers' instructions keep the invariant, and the supply.
LEMMA GovernanceKeepsInvariant ==
  ASSUME IInv, Governance
  PROVE  IInv' /\ total_supply' = total_supply
<1>1. UNCHANGED <<slot, flowVars, bookVars, tokenVars, historyVars>>
  BY DEF Governance, UpdatePrice, UpdateSettings, Govern
<1>2. /\ price' \in [Vault -> Prices]
      /\ settings' \in Setting
      /\ emergency_shutdown' \in BOOLEAN
      /\ mint_rate_limit' \in 0..SCALE
  BY InputAssumption
  DEF Governance, UpdatePrice, UpdateSettings, Govern, IInv, TypeOK
<1>3. TypeOK'
  BY <1>1, <1>2
  DEF IInv, TypeOK, flowVars, bookVars, tokenVars, historyVars
<1>4. (SupplyFollows /\ DepositsHeld /\ FlowCountersExact /\ SlotFlowsBounded)'
  BY <1>1
  DEF IInv, SupplyFollows, DepositsHeld, FlowCountersExact, SlotFlowsBounded,
      InWindow, flowVars, bookVars, tokenVars, historyVars
<1>5. QED
  BY <1>1, <1>3, <1>4 DEF IInv, bookVars

\* A new slot begins with empty flows: the counters are of an earlier one.
LEMMA TickKeepsInvariant ==
  ASSUME IInv, Tick
  PROVE  IInv' /\ total_supply' = total_supply
<1>1. /\ UNCHANGED <<flowVars, bookVars, tokenVars, policyVars>>
      /\ slot' = slot + 1
      /\ opening_supply' = total_supply
      /\ minted_now' = 0 /\ redeemed_now' = 0
  BY DEF Tick
<1>2. TypeOK'
  BY <1>1 DEF IInv, TypeOK, flowVars, bookVars, tokenVars, policyVars
<1>3. (SupplyFollows /\ DepositsHeld)'
  BY <1>1
  DEF IInv, TypeOK, SupplyFollows, DepositsHeld, bookVars, tokenVars
<1>4. FlowCountersExact'
  BY <1>1 DEF IInv, TypeOK, FlowCountersExact, InWindow, flowVars
<1>5. SlotFlowsBounded'
  BY <1>1, FlowAssumption DEF SlotFlowsBounded
<1>6. QED
  BY <1>1, <1>2, <1>3, <1>4, <1>5 DEF IInv, bookVars

-----------------------------------------------------------------------------
(***************************************************************************)
(* The books: what needs the sums over the users.                          *)
(***************************************************************************)

\* The positions add up to the supply, and no token is out of it.
PositionsAddUp == SumFunction(usd_balance) = total_supply
\* The balances of users cannot exceed the supply.
TokensCovered == SumFunction(mstb) <= total_supply

\* The sums of the balances are naturals.
LEMMA BalancesAddUp ==
  ASSUME TypeOK
  PROVE  /\ SumFunction(usd_balance) \in Nat /\ SumFunction(mstb) \in Nat
         /\ \A u \in User : usd_balance[u] <= SumFunction(usd_balance)
<1>1. /\ usd_balance \in [User -> Nat] /\ mstb \in [User -> Nat]
      /\ DOMAIN usd_balance = User /\ DOMAIN mstb = User
  BY DEF TypeOK
<1>2. SumFunction(usd_balance) \in Nat /\ SumFunction(mstb) \in Nat
  <2>1. \A u \in User : usd_balance[u] \in Nat /\ mstb[u] \in Nat
    BY <1>1
  <2>2. QED
    BY <1>1, <2>1, SumOfNaturals, UserAssumption DEF SumFunction
<1>3. \A u \in User : usd_balance[u] <= SumFunction(usd_balance)
  BY <1>1, SumMember, UserAssumption
<1>4. QED
  BY <1>2, <1>3

\* A balance that changes moves its sum along.
LEMMA BalanceMoves ==
  ASSUME NEW f \in [User -> Nat], NEW u \in User, NEW d \in Int
  PROVE  SumFunction([f EXCEPT ![u] = @ + d]) = SumFunction(f) + d
<1> DEFINE g == [f EXCEPT ![u] = @ + d]
<1>1. /\ f \in [User -> Int] /\ g \in [User -> Int]
      /\ \A w \in User \ {u} : g[w] = f[w]
      /\ g[u] - f[u] = d
  OBVIOUS
<1> HIDE DEF g
<1>2. SumFunction(g) = SumFunction(f) + (g[u] - f[u])
  BY <1>1, SumFollows, UserAssumption
<1>3. QED
  BY <1>1, <1>2 DEF g

\* A transfer moves tokens from one balance to another.
LEMMA TransferKeepsSum ==
  ASSUME NEW f \in [User -> Nat], NEW g \in [User -> Nat],
         NEW u \in User, NEW w \in User, u # w, NEW amount \in Nat,
         g[u] = f[u] - amount, g[w] = f[w] + amount,
         \A x \in User \ {u, w} : g[x] = f[x]
  PROVE  SumFunction(g) = SumFunction(f)
<1> DEFINE h == [f EXCEPT ![u] = g[u]]
<1>1. /\ f \in [User -> Int] /\ h \in [User -> Int] /\ g \in [User -> Int]
      /\ \A x \in User \ {u} : h[x] = f[x]
      /\ \A x \in User \ {w} : g[x] = h[x]
      /\ h[u] - f[u] = -amount /\ g[w] - h[w] = amount
  OBVIOUS
<1> HIDE DEF h
<1>2. SumFunction(h) = SumFunction(f) + (h[u] - f[u])
  BY <1>1, SumFollows, UserAssumption
<1>3. SumFunction(g) = SumFunction(h) + (g[w] - h[w])
  BY <1>1, SumFollows, UserAssumption
<1>4. SumFunction(f) \in Int
  <2>1. DOMAIN f = User /\ \A x \in User : f[x] \in Int
    OBVIOUS
  <2>2. QED
    BY <2>1, SumSplit, UserAssumption DEF SumFunction
<1>5. QED
  BY <1>1, <1>2, <1>3, <1>4

-----------------------------------------------------------------------------
(***************************************************************************)
(* The theorems.                                                           *)
(***************************************************************************)

\* The invariant holds in every state.
THEOREM Invariance == Spec => []IInv
<1>1. Init => IInv
  <2> SUFFICES ASSUME Init
               PROVE  IInv
    OBVIOUS
  <2>1. SCALE \in Prices /\ SCALE \in 0..SCALE /\ InitialSettings \in Setting
    BY ScaleAssumption, InputAssumption
  <2>2. TypeOK
    <3>1. price \in [Vault -> Prices]
      BY <2>1 DEF Init
    <3>2. /\ settings \in Setting
          /\ emergency_shutdown \in BOOLEAN
          /\ mint_rate_limit \in 0..SCALE
      BY <2>1 DEF Init
    <3>3. /\ slot \in Nat /\ flow_control_slot \in 0..slot
          /\ minted_in_flow_slot \in Nat /\ redeemed_in_flow_slot \in Nat
          /\ {opening_supply, minted_now, redeemed_now} \subseteq Nat
      BY DEF Init
    <3>4. /\ total_deposits \in [Vault -> Nat] /\ total_supply \in Nat
          /\ usd_balance \in [User -> Nat] /\ mstb \in [User -> Nat]
          /\ vault_ata \in [Vault -> Nat]
      BY DEF Init
    <3>5. QED
      BY <3>1, <3>2, <3>3, <3>4 DEF TypeOK
  <2>3. SupplyFollows /\ DepositsHeld /\ FlowCountersExact
    BY DEF Init, SupplyFollows, DepositsHeld, FlowCountersExact, InWindow
  <2>4. SlotFlowsBounded
    BY FlowAssumption DEF Init, SlotFlowsBounded
  <2>5. QED
    BY <2>2, <2>3, <2>4 DEF IInv
<1>2. IInv /\ [Next]_vars => IInv'
  <2> SUFFICES ASSUME IInv, [Next]_vars
               PROVE  IInv'
    OBVIOUS
  <2>1. CASE Trade
    BY <2>1, MintKeepsInvariant, RedeemKeepsInvariant DEF Trade
  <2>2. CASE Holders
    BY <2>2, HoldersKeepInvariant
  <2>3. CASE Governance
    BY <2>3, GovernanceKeepsInvariant
  <2>4. CASE Tick
    BY <2>4, TickKeepsInvariant
  <2>5. CASE UNCHANGED vars
    BY <2>5
    DEF IInv, TypeOK, SupplyFollows, DepositsHeld, FlowCountersExact,
        SlotFlowsBounded, InWindow, vars, flowVars, bookVars, tokenVars,
        policyVars, historyVars
  <2>6. QED
    BY <2>1, <2>2, <2>3, <2>4, <2>5 DEF Next
<1>3. QED
  BY <1>1, <1>2, PTL DEF Spec

\* Every variable keeps its type: no subtraction of mint or redeem goes
\* below zero, whatever the limits, fees and prices.
THEOREM TypeCorrectness == Spec => []TypeOK
<1>1. IInv => TypeOK
  BY DEF IInv
<1>2. QED
  BY <1>1, Invariance, PTL

\* The flow counters are exact, although only the first flow of a slot
\* resets them.
THEOREM CountersExact == Spec => []FlowCountersExact
<1>1. IInv => FlowCountersExact
  BY DEF IInv
<1>2. QED
  BY <1>1, Invariance, PTL

\* No slot moves more than its limits, in however many transactions.
THEOREM FlowsBounded == Spec => []SlotFlowsBounded
<1>1. IInv => SlotFlowsBounded
  BY DEF IInv
<1>2. QED
  BY <1>1, Invariance, PTL

\* No redemption dilutes those who stay, in any vault, whatever the number
\* of vaults, the fees, the discount and the scale of the roundings.
THEOREM NeverDilutes == Spec => RedeemNeverDilutes
<1>1. IInv /\ [Next]_vars
        => [total_supply' < total_supply =>
              \A v \in Vault : total_deposits'[v] * total_supply
                                >= total_deposits[v] * total_supply']_vars
  <2> SUFFICES ASSUME IInv, [Next]_vars, total_supply' < total_supply,
                      NEW v \in Vault
               PROVE  total_deposits'[v] * total_supply
                        >= total_deposits[v] * total_supply'
    OBVIOUS
  <2>1. total_supply \in Nat
    BY DEF IInv, TypeOK
  <2>2. CASE Trade
    <3>1. PICK u \in User, amount \in Amounts, penalty \in Penalties :
            \/ \E w \in Vault : Mint(u, w, amount, penalty)
            \/ \E is_degraded \in BOOLEAN :
                 Redeem(u, amount, penalty, is_degraded)
      BY <2>2 DEF Trade
    <3>2. ASSUME NEW w \in Vault, Mint(u, w, amount, penalty)
          PROVE  FALSE
      <4>1. total_supply' > total_supply /\ total_supply' \in Nat
        BY <3>2, MintKeepsInvariant DEF IInv, TypeOK
      <4>2. QED
        BY <2>1, <4>1
    <3>3. QED
      BY <3>1, <3>2, RedeemEffect
  <2>3. ASSUME total_supply' = total_supply
        PROVE  FALSE
    BY <2>1, <2>3
  <2>4. CASE Holders \/ Governance \/ Tick
    BY <2>3, <2>4, HoldersKeepInvariant, GovernanceKeepsInvariant,
       TickKeepsInvariant
  <2>5. CASE UNCHANGED vars
    BY <2>3, <2>5 DEF vars, bookVars
  <2>6. QED
    BY <2>2, <2>4, <2>5 DEF Next
<1>2. QED
  BY <1>1, Invariance, PTL DEF Spec, RedeemNeverDilutes

\* The inductive invariant of the books, on top of the one above.
Books == IInv /\ PositionsAddUp /\ TokensCovered

\* A mint and a redemption enter the same amount in all three books.
LEMMA TradeKeepsBooks ==
  ASSUME Books, Trade
  PROVE  (PositionsAddUp /\ TokensCovered)'
<1>1. PICK u \in User, amount \in Amounts, penalty \in Penalties :
        \/ \E v \in Vault : Mint(u, v, amount, penalty)
        \/ \E is_degraded \in BOOLEAN : Redeem(u, amount, penalty, is_degraded)
  BY DEF Trade
<1>2. PICK d \in Int : /\ total_supply' = total_supply + d
                       /\ usd_balance' = [usd_balance EXCEPT ![u] = @ + d]
                       /\ mstb' = [mstb EXCEPT ![u] = @ + d]
  <2>1. ASSUME NEW v \in Vault, Mint(u, v, amount, penalty)
        PROVE  \E d \in Int : /\ total_supply' = total_supply + d
                              /\ usd_balance' = [usd_balance EXCEPT ![u] = @ + d]
                              /\ mstb' = [mstb EXCEPT ![u] = @ + d]
    <3>1. Minted(v, amount, penalty) \in Int
      BY MintedType, InputAssumption DEF Books, IInv
    <3>2. QED
      BY <2>1, <3>1 DEF Mint
  <2>2. ASSUME NEW is_degraded \in BOOLEAN, Redeem(u, amount, penalty, is_degraded)
        PROVE  \E d \in Int : /\ total_supply' = total_supply + d
                              /\ usd_balance' = [usd_balance EXCEPT ![u] = @ + d]
                              /\ mstb' = [mstb EXCEPT ![u] = @ + d]
    <3>1. /\ amount \in Nat /\ total_supply \in Nat
          /\ usd_balance \in [User -> Nat] /\ mstb \in [User -> Nat]
      BY InputAssumption DEF Books, IInv, TypeOK
    <3>2. /\ total_supply' = total_supply - amount
          /\ usd_balance' = [usd_balance EXCEPT ![u] = @ - amount]
          /\ mstb' = [mstb EXCEPT ![u] = @ - amount]
      BY <2>2 DEF Redeem, Retired
    <3>3. PICK d \in Int : d = -amount
      BY <3>1
    <3>4. /\ total_supply' = total_supply + d
          /\ usd_balance' = [usd_balance EXCEPT ![u] = @ + d]
          /\ mstb' = [mstb EXCEPT ![u] = @ + d]
      BY <3>1, <3>2, <3>3
    <3>5. QED
      BY <3>4
  <2>3. QED
    BY <1>1, <2>1, <2>2
<1>3. /\ usd_balance \in [User -> Nat] /\ mstb \in [User -> Nat]
      /\ total_supply \in Nat
  BY DEF Books, IInv, TypeOK
<1>4. /\ SumFunction(usd_balance') = SumFunction(usd_balance) + d
      /\ SumFunction(mstb') = SumFunction(mstb) + d
  BY <1>2, <1>3, BalanceMoves
<1>5. SumFunction(mstb) \in Nat
  BY BalancesAddUp DEF Books, IInv
<1>6. QED
  BY <1>2, <1>3, <1>4, <1>5 DEF Books, PositionsAddUp, TokensCovered

\* Holders move or burn tokens and issue none.
LEMMA HoldersKeepBooks ==
  ASSUME Books, Holders
  PROVE  (PositionsAddUp /\ TokensCovered)'
<1>1. usd_balance' = usd_balance /\ total_supply' = total_supply
  BY DEF Holders, Transfer, BurnOwn, Donate, bookVars
<1>2. mstb \in [User -> Nat] /\ SumFunction(mstb) \in Nat /\ total_supply \in Nat
  BY BalancesAddUp DEF Books, IInv, TypeOK
<1>3. PICK u \in User, amount \in Amounts :
        \/ \E w \in User : Transfer(u, w, amount)
        \/ BurnOwn(u, amount)
        \/ \E v \in Vault : Donate(v, amount)
  BY DEF Holders
<1>4. amount \in Nat
  BY InputAssumption
<1>5. SumFunction(mstb') <= SumFunction(mstb)
  <2>1. ASSUME NEW w \in User, Transfer(u, w, amount)
        PROVE  SumFunction(mstb') = SumFunction(mstb)
    <3>1. u # w /\ mstb' \in [User -> Nat]
      BY <2>1, HoldersKeepInvariant DEF Transfer, Books, IInv, TypeOK
    <3>2. /\ mstb'[u] = mstb[u] - amount /\ mstb'[w] = mstb[w] + amount
          /\ \A x \in User \ {u, w} : mstb'[x] = mstb[x]
      BY <1>2, <2>1 DEF Transfer
    <3>3. QED
      BY <1>2, <1>4, <3>1, <3>2, TransferKeepsSum
  <2>2. CASE BurnOwn(u, amount)
    <3>1. PICK d \in Int : d = -amount
      BY <1>4
    <3>2. mstb' = [mstb EXCEPT ![u] = @ + d]
      BY <1>2, <1>4, <2>2, <3>1 DEF BurnOwn
    <3>3. SumFunction(mstb') = SumFunction(mstb) + d
      BY <1>2, <3>2, BalanceMoves
    <3>4. QED
      BY <1>2, <1>4, <3>1, <3>3
  <2>3. ASSUME NEW v \in Vault, Donate(v, amount)
        PROVE  mstb' = mstb
    BY <2>3 DEF Donate
  <2>4. QED
    BY <1>2, <1>3, <2>1, <2>2, <2>3
<1>6. SumFunction(mstb') \in Int
  <2>1. mstb' \in [User -> Nat]
    BY HoldersKeepInvariant DEF Books, IInv, TypeOK
  <2>2. DOMAIN mstb' = User /\ \A x \in User : mstb'[x] \in Int
    BY <2>1
  <2>3. QED
    BY <2>2, SumSplit, UserAssumption DEF SumFunction
<1>7. QED
  BY <1>1, <1>2, <1>5, <1>6 DEF Books, PositionsAddUp, TokensCovered

\* The books agree, for any users, whatever is minted, redeemed, transferred,
\* burned and donated, in whatever order.
THEOREM BooksAlwaysAgree == Spec => []BooksAgree
<1>1. Init => PositionsAddUp /\ TokensCovered
  <2> SUFFICES ASSUME Init
               PROVE  PositionsAddUp /\ TokensCovered
    OBVIOUS
  <2>1. /\ DOMAIN usd_balance = User /\ DOMAIN mstb = User
        /\ \A u \in User : usd_balance[u] = 0 /\ mstb[u] = 0
        /\ \A u \in User : usd_balance[u] \in Nat /\ mstb[u] \in Nat
    BY DEF Init
  <2>2. SumFunction(usd_balance) = 0 /\ SumFunction(mstb) = 0
    BY <2>1, SumOfNaturals, UserAssumption DEF SumFunction
  <2>3. QED
    BY <2>2 DEF Init, PositionsAddUp, TokensCovered
<1>2. Books /\ [Next]_vars => (PositionsAddUp /\ TokensCovered)'
  <2> SUFFICES ASSUME Books, [Next]_vars
               PROVE  (PositionsAddUp /\ TokensCovered)'
    OBVIOUS
  <2>1. ASSUME UNCHANGED <<usd_balance, mstb, total_supply>>
        PROVE  (PositionsAddUp /\ TokensCovered)'
    BY <2>1 DEF Books, PositionsAddUp, TokensCovered
  <2>2. CASE Governance \/ Tick \/ UNCHANGED vars
    BY <2>1, <2>2
    DEF Governance, UpdatePrice, UpdateSettings, Govern, Tick, vars, bookVars,
        tokenVars
  <2>3. QED
    BY <2>2, TradeKeepsBooks, HoldersKeepBooks DEF Next
<1>3. Books => BooksAgree
  BY DEF Books, IInv, PositionsAddUp, TokensCovered, DepositsHeld, BooksAgree
<1>4. QED
  BY <1>1, <1>2, <1>3, Invariance, PTL DEF Spec, Books

\* Whoever holds a position can redeem it: the supply, the recorded deposits
\* and the tokens in each vault are always enough for what redeem takes off
\* them, whatever was rounded, transferred or donated before.
THEOREM RedemptionsAreServed == Spec => []RedeemIsServed
<1>1. IInv /\ BooksAgree => RedeemIsServed
  <2> SUFFICES ASSUME IInv, BooksAgree, NEW u \in User, NEW amount \in Amounts,
                      usd_balance[u] >= amount
               PROVE  /\ total_supply >= amount
                      /\ \A v \in Vault, penalty \in Penalties, is_degraded \in BOOLEAN :
                           LET payout == Payout(v, amount, penalty, is_degraded)
                           IN  payout <= total_deposits[v] /\ payout <= vault_ata[v]
    BY DEF RedeemIsServed
  <2>1. TypeOK /\ amount \in Nat \ {0} /\ total_supply \in Nat
    BY InputAssumption DEF IInv, TypeOK
  <2>2. total_supply >= amount
    <3>1. usd_balance[u] \in Nat /\ usd_balance[u] <= total_supply
      BY <2>1, BalancesAddUp DEF BooksAgree, TypeOK
    <3>2. QED
      BY <2>1, <3>1
  <2>3. ASSUME NEW v \in Vault, NEW penalty \in Penalties, NEW is_degraded \in BOOLEAN
        PROVE  /\ Payout(v, amount, penalty, is_degraded) <= total_deposits[v]
               /\ Payout(v, amount, penalty, is_degraded) <= vault_ata[v]
    <3> DEFINE payout == Payout(v, amount, penalty, is_degraded)
               d == total_deposits[v]
    <3>1. d \in Nat /\ vault_ata[v] \in Nat /\ d <= vault_ata[v]
      BY <2>1 DEF TypeOK, BooksAgree
    <3>2. payout \in Nat /\ payout * total_supply <= d * amount
      BY <2>1, <2>2, PayoutBound
    <3> HIDE DEF payout, d
    <3>3. d * amount <= d * total_supply
      BY <2>1, <2>2, <3>1, ProductMonotone
    <3>4. payout * total_supply <= d * total_supply
      <4>1. /\ payout * total_supply \in Nat /\ d * amount \in Nat
            /\ d * total_supply \in Nat
        BY <2>1, <3>1, <3>2, ProductMonotone
      <4>2. QED
        BY <3>2, <3>3, <4>1
    <3>5. payout <= d
      BY <2>1, <2>2, <3>1, <3>2, <3>4, ProductCancel
    <3>6. QED
      BY <3>1, <3>2, <3>5 DEF payout, d
  <2>4. QED
    BY <2>2, <2>3
<1>2. QED
  BY <1>1, Invariance, BooksAlwaysAgree, PTL

\* The terms of the two sums that value the deposits.
Worth(d) == [v \in Vault |-> d[v] * price[v]]
\* What the program counts of a deposit at the current price.
Rounded(d) == [v \in Vault |-> MulDivFloor(d[v], price[v], SCALE)]

\* Prices and settings, as the arithmetic needs them.
LEMMA PolicyTypes ==
  ASSUME TypeOK
  PROVE  /\ \A v \in Vault : price[v] \in Nat
         /\ settings.cr_target \in Nat
         /\ SCALE \in Nat \ {0}
<1>1. \A v \in Vault : price[v] \in 1..MaxPrice /\ MaxPrice \in Nat
  BY InputAssumption DEF TypeOK
<1>2. settings.cr_target \in Nat
  BY DEF TypeOK, Setting
<1>3. QED
  BY <1>1, <1>2, ScaleAssumption

\* What mul_div_ceil yields, times the divisor, is at least the dividend.
LEMMA CeilBound ==
  ASSUME NEW a \in Nat, NEW b \in Nat, NEW d \in Nat \ {0}
  PROVE  MulDivCeil(a, b, d) \in Nat /\ MulDivCeil(a, b, d) * d >= a * b
<1> DEFINE n == a * b + d - 1
<1>1. a * b \in Nat
  BY ProductMonotone
<1>2. n \in Nat
  BY <1>1
<1> HIDE DEF n
<1>3. n \div d \in Nat /\ n < (n \div d) * d + d
  BY <1>2
<1>4. QED
  BY <1>1, <1>2, <1>3 DEF MulDivCeil, n

\* A mint only passes when the deposits cover the supply after it, and what
\* covers it in rounded amounts backs it in exact ones.
LEMMA CoverBacks ==
  ASSUME TypeOK, NEW d \in [Vault -> Nat], NEW s \in Nat, Covers(d, s)
  PROVE  SumFunction(Worth(d)) >= s * settings.cr_target
<1> DEFINE need == MulDivCeil(s, settings.cr_target, SCALE)
           value == SumFunctionOnSet(Rounded(d), Vault)
           worth == SumFunctionOnSet(Worth(d), Vault)
<1>1. DOMAIN Worth(d) = Vault /\ DOMAIN Rounded(d) = Vault
  BY DEF Worth, Rounded
<1>2. SumFunction(Worth(d)) = worth /\ ValueOf(d) = value
  BY <1>1 DEF SumFunction, ValueOf, Rounded
<1>3. \A v \in Vault : /\ Rounded(d)[v] \in Nat /\ Worth(d)[v] \in Nat
                       /\ SCALE * Rounded(d)[v] <= 1 * Worth(d)[v]
  <2>1. SUFFICES ASSUME NEW v \in Vault
                 PROVE  /\ Rounded(d)[v] \in Nat /\ Worth(d)[v] \in Nat
                        /\ SCALE * Rounded(d)[v] <= 1 * Worth(d)[v]
    OBVIOUS
  <2> DEFINE a == d[v]
             p == price[v]
             r == MulDivFloor(a, p, SCALE)
  <2>2. a \in Nat /\ p \in Nat /\ SCALE \in Nat \ {0}
    BY PolicyTypes
  <2>3. Rounded(d)[v] = r /\ Worth(d)[v] = a * p
    BY DEF Rounded, Worth
  <2> HIDE DEF a, p
  <2>4. r \in Nat /\ r * SCALE <= a * p /\ a * p \in Nat
    BY <2>2, MulDivFloorBound, ProductMonotone
  <2> HIDE DEF r
  <2>5. QED
    BY <2>2, <2>3, <2>4
<1>4. SCALE * value <= 1 * worth
  <2>1. SCALE \in Nat
    BY PolicyTypes
  <2>2. QED
    BY <1>3, <2>1, SumsCompare, VaultAssumption
<1>5. value \in Nat /\ worth \in Nat
  BY <1>3, SumOfNaturals, VaultAssumption
<1>6. need \in Nat /\ need * SCALE >= s * settings.cr_target
  BY PolicyTypes, CeilBound
<1>7. value >= need
  BY <1>2 DEF Covers
<1> HIDE DEF need, value, worth
<1>8. need * SCALE <= value * SCALE
  BY <1>5, <1>6, <1>7, PolicyTypes, ProductMonotone
<1>9. /\ need * SCALE \in Nat /\ value * SCALE \in Nat
      /\ s * settings.cr_target \in Nat /\ SCALE * value = value * SCALE
  BY <1>5, <1>6, PolicyTypes, ProductMonotone
<1>10. QED
  BY <1>2, <1>4, <1>5, <1>6, <1>8, <1>9

\* What no vault loses per unit of supply, the basket does not lose either.
LEMMA RedeemKeepsBacking ==
  ASSUME IInv, Backed, NEW u \in User, NEW amount \in Amounts,
         NEW penalty \in Penalties, NEW is_degraded \in BOOLEAN,
         Redeem(u, amount, penalty, is_degraded)
  PROVE  SumFunction(Worth(total_deposits')) >= total_supply' * settings.cr_target
<1> DEFINE s == total_supply
           t == total_supply'
           cr == settings.cr_target
           before == SumFunctionOnSet(Worth(total_deposits), Vault)
           after == SumFunctionOnSet(Worth(total_deposits'), Vault)
<1>1. s \in Nat \ {0} /\ t \in Nat /\ cr \in Nat
  <2>1. TypeOK /\ amount \in Nat \ {0} /\ total_supply >= amount
    BY InputAssumption DEF IInv, Redeem, CanRedeem
  <2>2. t \in Nat
    BY RedeemEffect, VaultAssumption
  <2>3. QED
    BY <2>1, <2>2, PolicyTypes DEF TypeOK
<1>2. /\ SumFunction(Worth(total_deposits)) = before
      /\ SumFunction(Worth(total_deposits')) = after
  BY DEF SumFunction, Worth
<1>3. \A v \in Vault :
        /\ Worth(total_deposits)[v] \in Nat /\ Worth(total_deposits')[v] \in Nat
        /\ t * Worth(total_deposits)[v] <= s * Worth(total_deposits')[v]
  <2>1. SUFFICES ASSUME NEW v \in Vault
                 PROVE  /\ Worth(total_deposits)[v] \in Nat
                        /\ Worth(total_deposits')[v] \in Nat
                        /\ t * Worth(total_deposits)[v]
                             <= s * Worth(total_deposits')[v]
    OBVIOUS
  <2> DEFINE d == total_deposits[v]
             e == total_deposits'[v]
             p == price[v]
  <2>2. d \in Nat /\ p \in Nat
    BY PolicyTypes DEF IInv, TypeOK
  <2>3. e \in Nat /\ d * t <= e * s
    <3>1. e \in Nat /\ e * s >= d * t
      BY RedeemEffect
    <3>2. d * t \in Nat /\ e * s \in Nat
      BY <1>1, <2>2, <3>1, ProductMonotone
    <3>3. QED
      BY <3>1, <3>2
  <2>4. Worth(total_deposits)[v] = d * p /\ Worth(total_deposits')[v] = e * p
    BY DEF Worth
  <2> HIDE DEF d, e, p, s, t
  <2>5. d * t \in Nat /\ e * s \in Nat /\ d * p \in Nat /\ e * p \in Nat
    BY <1>1, <2>2, <2>3, ProductMonotone
  <2>6. (d * t) * p <= (e * s) * p
    BY <2>2, <2>3, <2>5, ProductMonotone
  <2>7. t * (d * p) = (d * t) * p /\ s * (e * p) = (e * s) * p
    BY <1>1, <2>2, <2>3
  <2>8. QED
    BY <2>4, <2>5, <2>6, <2>7
<1>4. t * before <= s * after
  <2> DEFINE f == Worth(total_deposits)
             g == Worth(total_deposits')
  <2>1. /\ t \in Nat /\ s \in Nat
        /\ \A v \in Vault : f[v] \in Int /\ g[v] \in Int /\ t * f[v] <= s * g[v]
    BY <1>1, <1>3
  <2> HIDE DEF f, g, s, t
  <2>2. t * SumFunctionOnSet(f, Vault) <= s * SumFunctionOnSet(g, Vault)
    BY <2>1, SumsCompare, VaultAssumption
  <2>3. QED
    BY <2>2 DEF f, g
<1>5. before \in Nat /\ after \in Nat
  BY <1>3, SumOfNaturals, VaultAssumption
<1>6. before >= s * cr
  BY <1>2 DEF Backed, Worth
<1> HIDE DEF s, t, cr, before, after
<1>7. s * cr \in Nat /\ t * cr \in Nat /\ t * before \in Nat /\ s * after \in Nat
  BY <1>1, <1>5, ProductMonotone
<1>8. (s * cr) * t <= before * t
  BY <1>1, <1>5, <1>6, <1>7, ProductMonotone
<1>9. /\ (s * cr) * t = (t * cr) * s /\ before * t = t * before
      /\ s * after = after * s
  BY <1>1, <1>5
<1>10. (t * cr) * s <= after * s
  <2>1. (t * cr) * s <= t * before
    BY <1>8, <1>9
  <2>2. (t * cr) * s \in Nat
    BY <1>1, <1>7, ProductMonotone
  <2>3. t * before <= after * s
    BY <1>4, <1>9
  <2> HIDE DEF s, t, cr, before, after
  <2>4. QED
    BY <1>7, <1>9, <2>1, <2>2, <2>3
<1>11. t * cr <= after
  BY <1>1, <1>5, <1>7, <1>10, ProductCancel
<1>12. QED
  BY <1>2, <1>5, <1>7, <1>11 DEF t, cr

\* Mints and redemptions never leave fewer assets than the target ratio asks
\* for, if there were enough before: whatever the roundings, fees and discounts.
THEOREM BackingIsKept == Spec => BackingKept
<1>1. IInv /\ [Next]_vars
        => [Backed /\ UNCHANGED <<price, settings>> => Backed']_vars
  <2> SUFFICES ASSUME IInv, [Next]_vars, Backed, UNCHANGED <<price, settings>>
               PROVE  Backed'
    OBVIOUS
  <2>1. SUFFICES SumFunction(Worth(total_deposits')) >= total_supply' * settings.cr_target
    BY DEF Backed, Worth
  <2>2. ASSUME UNCHANGED <<total_deposits, total_supply>>
        PROVE  SumFunction(Worth(total_deposits')) >= total_supply' * settings.cr_target
    BY <2>2 DEF Backed, Worth
  <2>3. CASE Trade
    <3>1. PICK u \in User, amount \in Amounts, penalty \in Penalties :
            \/ \E v \in Vault : Mint(u, v, amount, penalty)
            \/ \E is_degraded \in BOOLEAN :
                 Redeem(u, amount, penalty, is_degraded)
      BY <2>3 DEF Trade
    <3>2. ASSUME NEW v \in Vault, Mint(u, v, amount, penalty)
          PROVE  SumFunction(Worth(total_deposits'))
                   >= total_supply' * settings.cr_target
      <4>1. total_deposits' \in [Vault -> Nat] /\ total_supply' \in Nat
        BY <3>2, MintKeepsInvariant DEF IInv, TypeOK
      <4>2. Covers(total_deposits', total_supply')
        BY <3>2 DEF Mint
      <4>3. QED
        BY <4>1, <4>2, CoverBacks DEF IInv
    <3>3. QED
      BY <3>1, <3>2, RedeemKeepsBacking
  <2>4. CASE Holders \/ Governance \/ Tick \/ UNCHANGED vars
    BY <2>2, <2>4
    DEF Holders, Transfer, BurnOwn, Donate, Governance, UpdatePrice,
        UpdateSettings, Govern, Tick, vars, bookVars
  <2>5. QED
    BY <2>3, <2>4 DEF Next
<1>2. QED
  BY <1>1, Invariance, PTL DEF Spec, BackingKept
=============================================================================
