------------------------ MODULE KeeperTargetsProofs ------------------------
(***************************************************************************)
(* Theorems about KeeperTargets, for any number of vaults, any whole, any  *)
(* values, risks and caps, and any grain that satisfy its assumptions.     *)
(***************************************************************************)
EXTENDS KeeperTargets, FiniteSetTheorems, TLAPS

-----------------------------------------------------------------------------
(***************************************************************************)
(* Totals. Total is defined by a recursive function; the library's         *)
(* theorems of induction take an operator and cannot be used, but a set of *)
(* naturals that lacks one lacks a least one.                              *)
(***************************************************************************)

\* Induction on the naturals, on a set instead of a predicate.
LEMMA NaturalsInduct ==
  ASSUME NEW Q, 0 \in Q, \A n \in Nat : n \in Q => n + 1 \in Q
  PROVE  Nat \subseteq Q
<1> DEFINE less == {p \in Nat \X Nat : p[1] < p[2]}
<1>1. IsWellFoundedOn(less, Nat)
  <2>1. OpToRel(<, Nat) = less
    BY Zenon DEF OpToRel
  <2>2. QED
    BY <2>1, NatLessThanWellFounded
<1>2. SUFFICES ASSUME Nat \ Q # {}
               PROVE  FALSE
  OBVIOUS
<1>3. PICK n \in Nat \ Q : \A m \in Nat \ Q : <<m, n>> \notin less
  <2>1. Nat \ Q \subseteq Nat
    OBVIOUS
  <2> HIDE DEF less
  <2>2. QED
    BY <1>1, <1>2, <2>1, WFMin
<1>4. n # 0 /\ n - 1 \in Nat
  OBVIOUS
<1>5. n - 1 \in Q
  <2>1. <<n - 1, n>> \in less
    BY <1>4
  <2>2. QED
    BY <1>3, <1>4, <2>1
<1>6. (n - 1) + 1 \in Q
  BY <1>4, <1>5
<1>7. QED
  BY <1>3, <1>6

\* The assumptions as the provers need them.
LEMMA Sizes ==
  /\ N \in Nat \ {0} /\ SCALE \in Nat \ {0} /\ GRAIN \in Nat \ {0}
  /\ N \in Vault /\ Vault \subseteq Nat
BY TargetsAssumption DEF Vault

\* What the totals of a prefix have in common.
IsUpto(g, w) == g = [i \in 0..N |-> IF i = 0 THEN 0 ELSE g[i - 1] + w[i]]

\* The totals of all prefixes, the function in the definition of Total.
Upto(w) == CHOOSE g : IsUpto(g, w)

\* The prefix totals exist.
LEMMA UptoIs ==
  ASSUME NEW w
  PROVE  /\ Upto(w)[0] = 0
         /\ \A i \in Vault : Upto(w)[i] = Upto(w)[i - 1] + w[i]
         /\ Total(w) = Upto(w)[N]
<1> DEFINE Entry(g, i) == IF i = 0 THEN 0 ELSE g[i - 1] + w[i]
           Q == {n \in Nat : \E g : \A i \in 0..N : i <= n => g[i] = Entry(g, i)}
           next(g) == [i \in 0..N |-> Entry(g, i)]
<1>1. N \in Nat
  BY Sizes
<1>2. 0 \in Q
  <2>1. \A i \in 0..N : i <= 0 => [k \in {0} |-> 0][i] = Entry([k \in {0} |-> 0], i)
    OBVIOUS
  <2>2. QED
    BY <2>1
<1>3. ASSUME NEW n \in Nat, n \in Q
      PROVE  n + 1 \in Q
  <2>1. PICK g : \A i \in 0..N : i <= n => g[i] = Entry(g, i)
    BY <1>3
  <2>2. ASSUME NEW i \in 0..N, i <= n + 1
        PROVE  next(g)[i] = Entry(next(g), i)
    <3>1. CASE i = 0
      BY <3>1
    <3>2. CASE i # 0
      <4>1. i - 1 \in 0..N /\ i - 1 <= n
        BY <1>1, <2>2, <3>2
      <4>2. g[i - 1] = next(g)[i - 1]
        BY <2>1, <4>1
      <4>3. QED
        BY <3>2, <4>2
    <3>3. QED
      BY <3>1, <3>2
  <2>3. \E h : \A i \in 0..N : i <= n + 1 => h[i] = Entry(h, i)
    <3> HIDE DEF Entry
    <3>1. QED
      BY <2>2
  <2>4. QED
    BY <2>3
<1>4. N \in Q
  <2> HIDE DEF Q
  <2>1. QED
    BY <1>1, <1>2, <1>3, NaturalsInduct
<1>5. PICK g : \A i \in 0..N : g[i] = Entry(g, i)
  <2>1. \A i \in 0..N : i <= N
    BY <1>1
  <2>2. QED
    BY <1>4, <2>1
<1>6. \A i \in 0..N : Entry(g, i) = Entry(next(g), i)
  <2>1. SUFFICES ASSUME NEW i \in 0..N
                 PROVE  Entry(g, i) = Entry(next(g), i)
    OBVIOUS
  <2>2. i # 0 => g[i - 1] = next(g)[i - 1]
    <3>1. i # 0 => i - 1 \in 0..N
      BY <1>1
    <3>2. QED
      BY <1>5, <3>1
  <2>3. QED
    BY <2>2
<1>7. IsUpto(next(g), w)
  BY <1>6 DEF IsUpto
<1>8. IsUpto(Upto(w), w)
  BY <1>7 DEF Upto
<1>9. Total(w) = Upto(w)[N]
  BY DEF Total, Upto, IsUpto
<1>10. ASSUME NEW i \in 0..N
       PROVE  Upto(w)[i] = Entry(Upto(w), i)
  BY <1>8 DEF IsUpto
<1>11. QED
  BY <1>1, <1>9, <1>10 DEF Vault

\* Induction over the prefixes of the vaults.
LEMMA PrefixInduct ==
  ASSUME NEW Q, 0 \in Q, \A i \in Vault : i - 1 \in Q => i \in Q
  PROVE  \A i \in 0..N : i \in Q
<1> DEFINE P == {n \in Nat : n <= N => n \in Q}
<1>1. 0 \in P
  OBVIOUS
<1>2. ASSUME NEW n \in Nat, n \in P
      PROVE  n + 1 \in P
  <2>1. SUFFICES ASSUME n + 1 <= N
                 PROVE  n + 1 \in Q
    OBVIOUS
  <2>2. n + 1 \in Vault /\ n <= N
    BY <2>1, Sizes DEF Vault
  <2>3. (n + 1) - 1 \in Q
    BY <1>2, <2>2
  <2>4. QED
    BY <2>2, <2>3
<1>3. Nat \subseteq P
  <2> HIDE DEF P
  <2>1. QED
    BY <1>1, <1>2, NaturalsInduct
<1>4. QED
  BY <1>3, Sizes

\* A total of integers is an integer.
LEMMA TotalIsInt ==
  ASSUME NEW f, \A i \in Vault : f[i] \in Int
  PROVE  /\ Total(f) \in Int
         /\ \A i \in 0..N : Upto(f)[i] \in Int
<1> DEFINE Q == {i \in 0..N : Upto(f)[i] \in Int}
<1>1. 0 \in Q
  BY UptoIs, Sizes
<1>2. \A i \in Vault : i - 1 \in Q => i \in Q
  BY UptoIs, Sizes DEF Vault
<1>3. \A i \in 0..N : i \in Q
  <2> HIDE DEF Q
  <2>1. QED
    BY <1>1, <1>2, PrefixInduct
<1>4. QED
  BY <1>3, UptoIs, Sizes

\* The total of sums is the sum of the totals.
LEMMA TotalPlus ==
  ASSUME NEW f, NEW g, NEW h,
         \A i \in Vault : f[i] \in Int /\ g[i] \in Int /\ h[i] = f[i] + g[i]
  PROVE  Total(h) = Total(f) + Total(g)
<1> DEFINE Q == {i \in 0..N : Upto(h)[i] = Upto(f)[i] + Upto(g)[i]}
<1>1. 0 \in Q
  BY UptoIs, Sizes
<1>2. ASSUME NEW i \in Vault, i - 1 \in Q
      PROVE  i \in Q
  <2>1. /\ Upto(h)[i] = Upto(h)[i - 1] + h[i]
        /\ Upto(f)[i] = Upto(f)[i - 1] + f[i]
        /\ Upto(g)[i] = Upto(g)[i - 1] + g[i]
    BY UptoIs
  <2>2. i \in 0..N /\ i - 1 \in 0..N
    BY Sizes DEF Vault
  <2>3. Upto(f)[i - 1] \in Int /\ Upto(g)[i - 1] \in Int
    BY <2>2, TotalIsInt
  <2>4. QED
    BY <1>2, <2>1, <2>2, <2>3
<1>3. \A i \in 0..N : i \in Q
  <2> HIDE DEF Q
  <2>1. QED
    BY <1>1, <1>2, PrefixInduct
<1>4. QED
  BY <1>3, UptoIs, Sizes

\* The total of multiples is the multiple of the total.
LEMMA TotalTimes ==
  ASSUME NEW a \in Int, NEW f, NEW h,
         \A i \in Vault : f[i] \in Int /\ h[i] = a * f[i]
  PROVE  Total(h) = a * Total(f)
<1> DEFINE Q == {i \in 0..N : Upto(h)[i] = a * Upto(f)[i]}
<1>1. 0 \in Q
  BY UptoIs, Sizes
<1>2. ASSUME NEW i \in Vault, i - 1 \in Q
      PROVE  i \in Q
  <2>1. /\ Upto(h)[i] = Upto(h)[i - 1] + h[i]
        /\ Upto(f)[i] = Upto(f)[i - 1] + f[i]
    BY UptoIs
  <2>2. i \in 0..N /\ i - 1 \in 0..N
    BY Sizes DEF Vault
  <2>3. Upto(f)[i - 1] \in Int
    BY <2>2, TotalIsInt
  <2>4. \A x, y \in Int : a * x + a * y = a * (x + y)
    OBVIOUS
  <2>5. QED
    BY <1>2, <2>1, <2>2, <2>3, <2>4
<1>3. \A i \in 0..N : i \in Q
  <2> HIDE DEF Q
  <2>1. QED
    BY <1>1, <1>2, PrefixInduct
<1>4. QED
  BY <1>3, UptoIs, Sizes

\* A total grows with its parts, strictly if one does.
LEMMA TotalGrows ==
  ASSUME NEW f, NEW g,
         \A i \in Vault : f[i] \in Int /\ g[i] \in Int /\ f[i] <= g[i]
  PROVE  /\ Total(f) <= Total(g)
         /\ (\E i \in Vault : f[i] < g[i]) => Total(f) < Total(g)
<1> DEFINE Q == {i \in 0..N : Upto(f)[i] <= Upto(g)[i]}
<1>1. 0 \in Q
  BY UptoIs, Sizes
<1>2. ASSUME NEW i \in Vault
      PROVE  /\ Upto(g)[i] = Upto(g)[i - 1] + g[i]
             /\ Upto(f)[i] = Upto(f)[i - 1] + f[i]
             /\ i \in 0..N /\ i - 1 \in 0..N
             /\ Upto(f)[i - 1] \in Int /\ Upto(g)[i - 1] \in Int
  <2>1. i \in 0..N /\ i - 1 \in 0..N
    BY Sizes DEF Vault
  <2>2. Upto(f)[i - 1] \in Int /\ Upto(g)[i - 1] \in Int
    BY <2>1, TotalIsInt
  <2>3. QED
    BY <2>1, <2>2, UptoIs
<1>3. \A i \in Vault : i - 1 \in Q => i \in Q
  BY <1>2
<1>4. \A i \in 0..N : i \in Q
  <2> HIDE DEF Q
  <2>1. QED
    BY <1>1, <1>3, PrefixInduct
<1>5. Total(f) <= Total(g)
  BY <1>4, UptoIs, Sizes
<1>6. ASSUME NEW k \in Vault, f[k] < g[k]
      PROVE  Total(f) < Total(g)
  <2> DEFINE R == {i \in 0..N : i >= k => Upto(f)[i] < Upto(g)[i]}
  <2>1. k \in Nat \ {0}
    BY Sizes DEF Vault
  <2>2. 0 \in R
    BY <2>1, Sizes
  <2>3. ASSUME NEW i \in Vault, i - 1 \in R
        PROVE  i \in R
    <3>1. CASE i = k
      <4>1. Upto(f)[i - 1] <= Upto(g)[i - 1]
        BY <1>2, <1>4
      <4>2. QED
        BY <1>2, <1>6, <3>1, <4>1
    <3>2. CASE i # k
      BY <1>2, <2>1, <2>3, <3>2 DEF Vault
    <3>3. QED
      BY <3>1, <3>2
  <2>4. \A i \in 0..N : i \in R
    <3> HIDE DEF R
    <3>1. QED
      BY <2>2, <2>3, PrefixInduct
  <2>5. N \in 0..N /\ N >= k
    BY Sizes DEF Vault
  <2>6. QED
    BY <2>4, <2>5, UptoIs
<1>7. QED
  BY <1>5, <1>6

\* A total of equal parts.
LEMMA TotalOfEqual ==
  ASSUME NEW c \in Int, NEW f, \A i \in Vault : f[i] = c
  PROVE  Total(f) = N * c
<1> DEFINE Q == {i \in 0..N : Upto(f)[i] = i * c}
<1>1. 0 \in Q
  BY UptoIs, Sizes
<1>2. ASSUME NEW i \in Vault, i - 1 \in Q
      PROVE  i \in Q
  <2>1. i \in Nat /\ i \in 0..N
    BY Sizes DEF Vault
  <2>2. (i - 1) * c + c = i * c
    BY <2>1
  <2>3. QED
    BY <1>2, <2>1, <2>2, UptoIs
<1>3. \A i \in 0..N : i \in Q
  <2> HIDE DEF Q
  <2>1. QED
    BY <1>1, <1>2, PrefixInduct
<1>4. QED
  BY <1>3, UptoIs, Sizes

\* A total of one part.
LEMMA TotalOfOne ==
  ASSUME NEW f, NEW k \in Vault, f[k] \in Int,
         \A i \in Vault : i # k => f[i] = 0
  PROVE  Total(f) = f[k]
<1> DEFINE Q == {i \in 0..N : Upto(f)[i] = IF i >= k THEN f[k] ELSE 0}
<1>1. k \in Nat \ {0} /\ k <= N /\ N \in Nat
  BY Sizes DEF Vault
<1>2. 0 \in Q
  BY <1>1, UptoIs, Sizes
<1>3. ASSUME NEW i \in Vault, i - 1 \in Q
      PROVE  i \in Q
  <2>1. i \in Nat /\ i \in 0..N /\ i >= 1
    BY Sizes DEF Vault
  <2>2. Upto(f)[i] = Upto(f)[i - 1] + f[i]
    BY UptoIs
  <2>3. CASE i = k
    BY <1>1, <1>3, <2>1, <2>2, <2>3
  <2>4. CASE i # k
    BY <1>1, <1>3, <2>1, <2>2, <2>4
  <2>5. QED
    BY <2>3, <2>4
<1>4. \A i \in 0..N : i \in Q
  <2> HIDE DEF Q
  <2>1. QED
    BY <1>2, <1>3, PrefixInduct
<1>5. QED
  BY <1>1, <1>4, UptoIs

\* A total of ones counts them.
LEMMA TotalOfOnes ==
  ASSUME NEW S \in SUBSET Vault, NEW f,
         \A i \in Vault : f[i] = IF i \in S THEN 1 ELSE 0
  PROVE  IsFiniteSet(S) /\ Total(f) = Cardinality(S)
<1>1. PICK U : U = [i \in 0..N |-> {j \in S : j <= i}]
  OBVIOUS
<1>2. /\ U[0] = {} /\ U[N] = S
      /\ \A i \in Vault : i \in S => U[i] = U[i - 1] \cup {i}
      /\ \A i \in Vault : i \notin U[i - 1]
      /\ \A i \in Vault : i \notin S => U[i] = U[i - 1]
  <2>1. \A i \in Vault : i \in 0..N /\ i - 1 \in 0..N
    BY Sizes DEF Vault
  <2>2. 0 \in 0..N /\ N \in 0..N /\ S \subseteq 1..N
    BY Sizes DEF Vault
  <2>3. U[0] = {} /\ U[N] = S
    <3>1. U[0] = {j \in S : j <= 0} /\ U[N] = {j \in S : j <= N}
      BY <1>1, <2>2
    <3>2. \A j \in S : ~(j <= 0) /\ j <= N
      BY <2>2
    <3>3. QED
      BY <3>1, <3>2, Zenon
  <2>4. ASSUME NEW i \in Vault
        PROVE  /\ i \in S => U[i] = U[i - 1] \cup {i}
               /\ i \notin U[i - 1]
               /\ i \notin S => U[i] = U[i - 1]
    <3>1. /\ U[i] = {j \in S : j <= i}
          /\ U[i - 1] = {j \in S : j <= i - 1}
      BY <1>1, <2>1
    <3>2. i \in Int /\ \A j \in S : j \in Int
      BY <2>1, <2>2
    <3>3. \A j \in S : j <= i <=> j <= i - 1 \/ j = i
      BY <3>2
    <3>4. i \notin U[i - 1]
      BY <3>1, <3>2
    <3>5. i \in S => U[i] = U[i - 1] \cup {i}
      BY <3>1, <3>3, Zenon
    <3>6. i \notin S => U[i] = U[i - 1]
      BY <3>1, <3>3, Zenon
    <3>7. QED
      BY <3>4, <3>5, <3>6
  <2>5. QED
    BY <2>3, <2>4
<1> DEFINE Q == {i \in 0..N : /\ IsFiniteSet(U[i])
                              /\ Upto(f)[i] = Cardinality(U[i])}
<1>3. 0 \in Q
  BY <1>2, UptoIs, Sizes, FS_EmptySet
<1>4. ASSUME NEW i \in Vault, i - 1 \in Q
      PROVE  i \in Q
  <2>1. i \in 0..N /\ Upto(f)[i] = Upto(f)[i - 1] + f[i]
    BY UptoIs, Sizes DEF Vault
  <2>2. CASE i \in S
    <3>1. U[i] = U[i - 1] \cup {i} /\ i \notin U[i - 1]
      BY <1>2, <2>2
    <3>2. /\ IsFiniteSet(U[i])
          /\ Cardinality(U[i]) = Cardinality(U[i - 1]) + 1
      <4>1. IsFiniteSet(U[i - 1])
        BY <1>4
      <4>2. /\ IsFiniteSet(U[i - 1] \cup {i})
            /\ Cardinality(U[i - 1] \cup {i}) =
                 IF i \in U[i - 1] THEN Cardinality(U[i - 1])
                                   ELSE Cardinality(U[i - 1]) + 1
        BY <4>1, FS_AddElement
      <4>3. QED
        BY <3>1, <4>2
    <3>3. QED
      BY <1>4, <2>1, <2>2, <3>2
  <2>3. CASE i \notin S
    <3>1. U[i] = U[i - 1]
      BY <1>2, <2>3
    <3>2. Upto(f)[i - 1] \in Nat
      BY <1>4, FS_CardinalityType
    <3>3. QED
      BY <1>4, <2>1, <2>3, <3>1, <3>2
  <2>4. QED
    BY <2>2, <2>3
<1>5. \A i \in 0..N : i \in Q
  <2> HIDE DEF Q
  <2>1. QED
    BY <1>3, <1>4, PrefixInduct
<1>6. N \in Q
  BY <1>5, Sizes
<1>7. QED
  BY <1>2, <1>6, UptoIs

\* A total of naturals is one, and no part is larger.
LEMMA TotalOfNaturals ==
  ASSUME NEW f, \A i \in Vault : f[i] \in Nat
  PROVE  /\ Total(f) \in Nat
         /\ \A i \in Vault : f[i] <= Total(f)
         /\ \A i, j \in Vault : i # j => f[i] + f[j] <= Total(f)
<1>1. Total(f) \in Int
  BY TotalIsInt
<1>2. ASSUME NEW k \in Vault
      PROVE  0 <= Total(f) /\ f[k] <= Total(f)
  <2> DEFINE one == [i \in Vault |-> IF i = k THEN f[k] ELSE 0]
  <2>1. Total(one) = f[k]
    <3>1. one[k] = f[k] /\ one[k] \in Int /\ \A i \in Vault : i # k => one[i] = 0
      OBVIOUS
    <3> HIDE DEF one
    <3>2. QED
      BY <3>1, TotalOfOne
  <2>2. \A i \in Vault : one[i] \in Int /\ f[i] \in Int /\ one[i] <= f[i]
    OBVIOUS
  <2> HIDE DEF one
  <2>3. Total(one) <= Total(f)
    BY <2>2, TotalGrows
  <2>4. QED
    BY <1>1, <2>1, <2>3
<1>3. ASSUME NEW k \in Vault, NEW j \in Vault, k # j
      PROVE  f[k] + f[j] <= Total(f)
  <2> DEFINE one == [i \in Vault |-> IF i = k THEN f[k] ELSE 0]
             rest == [i \in Vault |-> IF i = k THEN 0 ELSE f[i]]
  <2>1. Total(one) = f[k]
    <3>1. one[k] = f[k] /\ one[k] \in Int /\ \A i \in Vault : i # k => one[i] = 0
      OBVIOUS
    <3> HIDE DEF one
    <3>2. QED
      BY <3>1, TotalOfOne
  <2> DEFINE other == [i \in Vault |-> IF i = j THEN f[j] ELSE 0]
  <2>2. Total(other) = f[j]
    <3>1. other[j] = f[j] /\ other[j] \in Int /\ \A i \in Vault : i # j => other[i] = 0
      OBVIOUS
    <3> HIDE DEF other
    <3>2. QED
      BY <3>1, TotalOfOne
  <2>3. \A i \in Vault : one[i] \in Int /\ rest[i] \in Int /\ f[i] = one[i] + rest[i]
    OBVIOUS
  <2>4. \A i \in Vault : other[i] \in Int /\ rest[i] \in Int /\ other[i] <= rest[i]
    BY <1>3
  <2> HIDE DEF one, rest, other
  <2>5. Total(f) = Total(one) + Total(rest)
    BY <2>3, TotalPlus
  <2>6. Total(other) <= Total(rest) /\ Total(rest) \in Int
    BY <2>4, TotalGrows, TotalIsInt
  <2>7. QED
    BY <2>1, <2>2, <2>5, <2>6
<1>4. QED
  BY <1>1, <1>2, <1>3, Sizes

-----------------------------------------------------------------------------
(***************************************************************************)
(* Targets from value and risk.                                            *)
(***************************************************************************)

\* A quotient rounded down, and its remainder.
LEMMA Quotient ==
  ASSUME NEW a \in Int, NEW b \in Nat \ {0}
  PROVE  /\ a \div b \in Int /\ a % b \in Nat /\ a % b < b
         /\ a = b * (a \div b) + (a % b)
         /\ a >= 0 => a \div b \in Nat
<1>1. a \div b \in Int /\ a % b \in Nat /\ a % b < b /\ a = b * (a \div b) + (a % b)
  OBVIOUS
<1>2. a >= 0 => a \div b \in Nat
  <2>1. PICK q \in Int : q = a \div b
    BY <1>1
  <2>2. a < b * q + b
    BY <1>1, <2>1
  <2>3. q < 0 => b * q + b <= 0
    <3>1. \A x \in Int, y \in Nat : x <= -1 => y * x <= -y
      OBVIOUS
    <3>2. QED
      BY <3>1
  <2>4. b * q \in Int
    OBVIOUS
  <2>5. QED
    BY <2>1, <2>2, <2>3, <2>4
<1>3. QED
  BY <1>1, <1>2

\* What Max yields for two numbers.
LEMMA MaxOfTwo ==
  ASSUME NEW a \in Int, NEW b \in Int
  PROVE  Max({a, b}) = IF a >= b THEN a ELSE b
<1>1. PICK m \in {a, b} : \A y \in {a, b} : m >= y
  <2>1. CASE a >= b
    BY <2>1
  <2>2. CASE b >= a
    BY <2>2
  <2>3. QED
    BY <2>1, <2>2
<1>2. Max({a, b}) \in {a, b} /\ \A y \in {a, b} : Max({a, b}) >= y
  BY <1>1 DEF Max
<1>3. QED
  BY <1>2

\* Shares of an amount, each rounded down, take no more than the amount.
LEMMA Shares ==
  ASSUME NEW f, \A i \in Vault : f[i] \in Nat, Total(f) > 0, NEW amount \in Nat,
         NEW g, \A i \in Vault : g[i] = (f[i] * amount) \div Total(f)
  PROVE  /\ \A i \in Vault : g[i] \in Nat
         /\ Total(g) \in Nat /\ Total(g) <= amount
<1> DEFINE T == Total(f)
           scaled == [i \in Vault |-> T * g[i]]
           split == [i \in Vault |-> amount * f[i]]
<1>1. T \in Nat \ {0}
  BY TotalOfNaturals
<1>2. ASSUME NEW i \in Vault
      PROVE  g[i] \in Nat /\ T * g[i] <= amount * f[i]
  <2>1. PICK a \in Nat : a = f[i] * amount /\ a = amount * f[i]
    OBVIOUS
  <2> HIDE DEF T
  <2>2. /\ a \div T \in Nat
        /\ a = T * (a \div T) + (a % T)
        /\ a % T \in Nat
    BY <1>1, Quotient
  <2>3. g[i] = a \div T
    BY <2>1 DEF T
  <2>4. T * g[i] \in Nat
    BY <1>1, <2>2, <2>3
  <2>5. QED
    BY <2>1, <2>2, <2>3, <2>4
<1> HIDE DEF T
<1>3. Total(scaled) = T * Total(g)
  <2>1. \A i \in Vault : g[i] \in Int /\ scaled[i] = T * g[i]
    BY <1>2
  <2> HIDE DEF scaled
  <2>2. QED
    BY <1>1, <2>1, TotalTimes
<1>4. Total(split) = amount * T
  <2>1. \A i \in Vault : f[i] \in Int /\ split[i] = amount * f[i]
    OBVIOUS
  <2> HIDE DEF split
  <2>2. QED
    BY <2>1, TotalTimes DEF T
<1>5. Total(scaled) <= Total(split)
  <2>1. \A i \in Vault : scaled[i] \in Int /\ split[i] \in Int /\ scaled[i] <= split[i]
    BY <1>1, <1>2
  <2> HIDE DEF scaled, split
  <2>2. QED
    BY <2>1, TotalGrows
<1>6. Total(g) \in Nat
  BY <1>2, TotalOfNaturals
<1>7. \A x, y \in Nat, t \in Nat \ {0} : t * x <= y * t => x <= y
  OBVIOUS
<1>8. QED
  BY <1>1, <1>2, <1>3, <1>4, <1>5, <1>6, <1>7

\* The last vault fills up what the others leave.
LEMMA TailFillsUp ==
  ASSUME NEW w \in [Vault -> Nat], Total(w) <= SCALE
  PROVE  /\ WithTail(w) \in Allocation
         /\ Total(WithTail(w)) = SCALE
         /\ \A i \in Heads : WithTail(w)[i] = w[i]
<1> DEFINE heads == [w EXCEPT ![N] = 0]
           H == Total(heads)
           tail == [i \in Vault |-> IF i = N THEN SCALE - H ELSE 0]
<1>1. N \in Vault /\ SCALE \in Nat
  BY Sizes
<1>2. H \in Nat /\ H <= SCALE
  <2>1. \A i \in Vault : heads[i] \in Nat /\ w[i] \in Nat /\ heads[i] <= w[i]
    OBVIOUS
  <2> HIDE DEF heads
  <2>2. H \in Nat
    BY <2>1, TotalOfNaturals
  <2>3. H <= Total(w)
    BY <2>1, TotalGrows
  <2>4. Total(w) \in Nat
    BY TotalOfNaturals
  <2>5. QED
    BY <1>1, <2>2, <2>3, <2>4
<1>3. WithTail(w) = [w EXCEPT ![N] = SCALE - H]
  <2>1. Max({0, SCALE - H}) = SCALE - H
    <3> HIDE DEF H
    <3>1. SCALE - H \in Nat
      BY <1>1, <1>2
    <3>2. QED
      BY <3>1, MaxOfTwo
  <2>2. QED
    BY <2>1 DEF WithTail
<1> DEFINE result == WithTail(w)
<1>4. \A i \in Vault : result[i] = IF i = N THEN SCALE - H ELSE w[i]
  BY <1>3
<1>5. \A i \in Vault : result[i] \in Nat
  <2> HIDE DEF H
  <2>1. QED
    BY <1>1, <1>2, <1>4
<1>6. Total(result) = H + (SCALE - H)
  <2>1. \A i \in Vault : heads[i] \in Int /\ tail[i] \in Int /\ result[i] = heads[i] + tail[i]
    <3>1. SCALE - H \in Nat
      BY <1>1, <1>2
    <3>2. \A i \in Vault : heads[i] = IF i = N THEN 0 ELSE w[i]
      OBVIOUS
    <3> HIDE DEF H, heads, result
    <3>3. QED
      BY <1>4, <3>1, <3>2
  <2>2. tail[N] = SCALE - H /\ tail[N] \in Int /\ \A i \in Vault : i # N => tail[i] = 0
    <3>1. SCALE - H \in Nat
      BY <1>1, <1>2
    <3> HIDE DEF H
    <3>2. QED
      BY <1>1, <3>1
  <2> HIDE DEF heads, tail, result
  <2>3. Total(result) = Total(heads) + Total(tail)
    BY <2>1, TotalPlus
  <2>4. Total(tail) = tail[N]
    BY <1>1, <2>2, TotalOfOne
  <2>5. QED
    BY <2>2, <2>3, <2>4
<1>7. Total(result) = SCALE
  BY <1>1, <1>2, <1>6
<1>8. result \in Allocation
  <2>1. \A i \in Vault : result[i] <= SCALE
    <3> HIDE DEF result
    <3>1. QED
      BY <1>5, <1>7, TotalOfNaturals
  <2>2. result = [i \in Vault |-> result[i]]
    BY <1>3
  <2> HIDE DEF result
  <2>3. QED
    BY <1>1, <1>5, <2>1, <2>2 DEF Allocation
<1>9. QED
  BY <1>4, <1>7, <1>8 DEF Heads

\* Equal weights are the whole: it has a whole part for every vault.
LEMMA EvenAddsUp ==
  /\ Even \in Allocation
  /\ Total(Even) = SCALE
  /\ \A i \in Vault : Even[i] = SCALE \div N
<1>1. SCALE \div N \in Nat /\ SCALE = N * (SCALE \div N)
  BY Sizes, Quotient, TargetsAssumption
<1>2. SCALE \div N <= SCALE
  <2>1. \A x \in Nat, n \in Nat \ {0} : x <= n * x
    OBVIOUS
  <2>2. QED
    BY <1>1, <2>1, Sizes
<1>3. \A i \in Vault : Even[i] = SCALE \div N
  BY DEF Even
<1>4. Total(Even) = N * (SCALE \div N)
  BY <1>1, <1>3, TotalOfEqual
<1>5. Even \in Allocation
  <2>1. SCALE \div N \in 0..SCALE
    BY <1>1, <1>2, Sizes
  <2>2. QED
    BY <2>1 DEF Even, Allocation
<1>6. QED
  BY <1>1, <1>3, <1>4, <1>5

\* normalize_scores yields the whole.
LEMMA NormalizedAddsUp ==
  ASSUME NEW score \in [Vault -> Nat]
  PROVE  Normalized(score) \in Allocation /\ Total(Normalized(score)) = SCALE
<1>1. CASE Total(score) = 0
  BY <1>1, EvenAddsUp DEF Normalized
<1>2. CASE Total(score) # 0
  <2> DEFINE parts == [i \in Vault |-> (score[i] * SCALE) \div Total(score)]
  <2>1. Total(score) > 0 /\ SCALE \in Nat
    BY <1>2, TotalOfNaturals, Sizes
  <2>2. \A i \in Vault : parts[i] = (score[i] * SCALE) \div Total(score)
    OBVIOUS
  <2>3. parts = [i \in Vault |-> parts[i]]
    OBVIOUS
  <2>4. Normalized(score) = WithTail(parts)
    BY <1>2 DEF Normalized
  <2> HIDE DEF parts
  <2>5. (\A i \in Vault : parts[i] \in Nat) /\ Total(parts) <= SCALE
    BY <2>1, <2>2, Shares
  <2>6. parts \in [Vault -> Nat]
    BY <2>3, <2>5
  <2>7. QED
    BY <2>4, <2>5, <2>6, TailFillsUp
<1>3. QED
  BY <1>1, <1>2

\* apply_weight_caps yields the whole, and lifts no vault but the last over
\* its cap.
LEMMA CappedAddsUp ==
  ASSUME NEW w \in Allocation, Total(w) = SCALE, NEW cap \in Allocation
  PROVE  /\ Capped(w, cap) \in Allocation
         /\ Total(Capped(w, cap)) = SCALE
         /\ \A i \in Heads : Capped(w, cap)[i] <= cap[i]
<1> DEFINE cut == [i \in Vault |-> Least(w[i], cap[i])]
           open == {i \in Vault : w[i] <= cap[i]}
           remaining == SCALE - Total(cut)
           share == [i \in Vault |-> IF i \in open THEN cut[i] ELSE 0]
           more == [i \in Vault |-> IF Total(share) > 0
                      THEN (share[i] * remaining) \div Total(share) ELSE 0]
           sum == [i \in Vault |-> cut[i] + more[i]]
           parts == [i \in Vault |->
             IF i \in open /\ Total(share) > 0
             THEN Least(cut[i] + (remaining * cut[i]) \div Total(share), cap[i])
             ELSE cut[i]]
<1>1. \A i \in Vault : /\ w[i] \in Nat /\ cap[i] \in Nat
                       /\ cut[i] \in Nat /\ cut[i] <= w[i] /\ cut[i] <= cap[i]
                       /\ share[i] \in Nat
                       /\ share[i] = IF i \in open THEN cut[i] ELSE 0
  BY Sizes DEF Allocation, Least
<1>2. Total(cut) \in Nat /\ remaining \in Nat /\ remaining = SCALE - Total(cut)
  <2>1. \A i \in Vault : cut[i] \in Int /\ w[i] \in Int /\ cut[i] <= w[i]
    BY <1>1
  <2> HIDE DEF cut
  <2>2. Total(cut) <= Total(w)
    BY <2>1, TotalGrows
  <2>3. Total(cut) \in Nat
    BY <1>1, TotalOfNaturals
  <2>4. QED
    BY <2>2, <2>3, Sizes
<1> HIDE DEF cut, remaining
<1>3. Total(share) \in Nat
  <2> HIDE DEF share
  <2>1. QED
    BY <1>1, TotalOfNaturals
<1>4. (\A i \in Vault : more[i] \in Nat) /\ Total(more) \in Nat /\ Total(more) <= remaining
  <2>1. CASE Total(share) > 0
    <3>1. \A i \in Vault : more[i] = (share[i] * remaining) \div Total(share)
      BY <2>1
    <3> HIDE DEF share, more
    <3>2. QED
      BY <1>1, <1>2, <2>1, <3>1, Shares
  <2>2. CASE ~(Total(share) > 0)
    <3>1. \A i \in Vault : more[i] = 0
      BY <2>2
    <3> HIDE DEF share, more
    <3>2. Total(more) = N * 0
      BY <3>1, TotalOfEqual
    <3>3. QED
      BY <1>2, <3>1, <3>2, Sizes
  <2>3. QED
    BY <2>1, <2>2
<1>5. ASSUME NEW i \in Vault
      PROVE  /\ parts[i] \in Nat /\ parts[i] <= cap[i]
             /\ parts[i] <= cut[i] + more[i]
  <2>1. parts[i] = IF i \in open /\ Total(share) > 0
             THEN Least(cut[i] + (remaining * cut[i]) \div Total(share), cap[i])
             ELSE cut[i]
    OBVIOUS
  <2>2. Total(share) > 0 => more[i] = (share[i] * remaining) \div Total(share)
    OBVIOUS
  <2>3. i \in open => share[i] * remaining = remaining * cut[i]
    BY <1>1, <1>2
  <2>4. i \in open /\ Total(share) > 0
          => parts[i] = Least(cut[i] + more[i], cap[i])
    BY <2>1, <2>2, <2>3
  <2> HIDE DEF parts, more, share, open
  <2>5. cut[i] + more[i] \in Nat
    BY <1>1, <1>4
  <2>6. QED
    BY <1>1, <1>4, <2>1, <2>4, <2>5 DEF Least
<1>6. Total(parts) <= SCALE
  <2>1. \A i \in Vault : sum[i] = cut[i] + more[i]
    OBVIOUS
  <2> HIDE DEF parts, more, share, open, sum
  <2>2. Total(sum) = Total(cut) + Total(more)
    BY <1>1, <1>4, <2>1, TotalPlus
  <2>3. \A i \in Vault : parts[i] \in Int /\ sum[i] \in Int /\ parts[i] <= sum[i]
    BY <1>1, <1>4, <1>5, <2>1
  <2>4. Total(parts) <= Total(sum) /\ Total(parts) \in Int
    BY <2>3, TotalGrows, TotalIsInt
  <2>5. QED
    BY <1>2, <1>4, <2>2, <2>4, Sizes
<1>7. parts \in [Vault -> Nat]
  <2>1. parts = [i \in Vault |-> parts[i]]
    OBVIOUS
  <2> HIDE DEF parts
  <2>2. QED
    BY <1>5, <2>1
<1>8. Capped(w, cap) = WithTail(parts)
  BY Zenon DEF Capped, cut, remaining
<1> HIDE DEF parts
<1>9. Heads \subseteq Vault
  BY DEF Heads
<1>10. /\ WithTail(parts) \in Allocation
       /\ Total(WithTail(parts)) = SCALE
       /\ \A i \in Heads : WithTail(parts)[i] = parts[i]
  BY <1>6, <1>7, TailFillsUp
<1>11. QED
  BY <1>5, <1>8, <1>9, <1>10

\* compute_static_target_weights, for whatever a snapshot shows.
LEMMA StaticTargetIsWhole ==
  ASSUME NEW m \in Market
  PROVE  /\ StaticTarget(m) \in Allocation
         /\ Total(StaticTarget(m)) = SCALE
         /\ \A i \in Heads : StaticTarget(m)[i] <= Max({m.cap[i], SCALE \div N})
<1>1. /\ m.value \in [Vault -> Nat] /\ m.risk \in [Vault -> Nat]
      /\ m.cap \in Allocation
  BY StartsAssumption DEF Market
<1>2. Heads \subseteq Vault
  BY DEF Heads
<1>3. ASSUME NEW i \in Heads
      PROVE  /\ Max({m.cap[i], SCALE \div N}) >= m.cap[i]
             /\ Max({m.cap[i], SCALE \div N}) >= SCALE \div N
             /\ m.cap[i] \in Nat /\ SCALE \div N \in Nat
  <2>1. m.cap[i] \in Nat /\ SCALE \div N \in Nat
    BY <1>1, <1>2, Sizes, Quotient DEF Allocation
  <2>2. QED
    BY <2>1, MaxOfTwo
<1>4. CASE Total(m.value) = 0
  <2>1. StaticTarget(m) = Even
    BY <1>4 DEF StaticTarget
  <2>2. QED
    BY <1>2, <1>3, <2>1, EvenAddsUp
<1>5. CASE Total(m.value) # 0
  <2> DEFINE score == [i \in Vault |->
        (((m.value[i] * SCALE) \div Total(m.value))
           * (SCALE - Least(m.risk[i], SCALE - 1))) \div SCALE]
  <2>1. ASSUME NEW i \in Vault
        PROVE  score[i] \in Nat
    <3>1. Total(m.value) \in Nat \ {0}
      BY <1>1, <1>5, TotalOfNaturals
    <3>2. PICK a \in Nat : a = m.value[i] * SCALE
      BY <1>1, Sizes
    <3>3. PICK q \in Nat : q = a \div Total(m.value)
      BY <3>1, Quotient
    <3>4. PICK r \in Nat : r = SCALE - Least(m.risk[i], SCALE - 1)
      BY <1>1, Sizes DEF Least
    <3>5. PICK b \in Nat : b = q * r
      OBVIOUS
    <3>6. score[i] = b \div SCALE
      BY <3>2, <3>3, <3>4, <3>5
    <3>7. b \div SCALE \in Nat
      BY Sizes, Quotient
    <3>8. QED
      BY <3>6, <3>7
  <2>2. score \in [Vault -> Nat]
    <3>1. score = [i \in Vault |-> score[i]]
      OBVIOUS
    <3> HIDE DEF score
    <3>2. QED
      BY <2>1, <3>1
  <2>3. StaticTarget(m) = Capped(Normalized(score), m.cap)
    BY <1>5 DEF StaticTarget
  <2> HIDE DEF score
  <2>4. Normalized(score) \in Allocation /\ Total(Normalized(score)) = SCALE
    BY <2>2, NormalizedAddsUp
  <2>5. /\ StaticTarget(m) \in Allocation
        /\ Total(StaticTarget(m)) = SCALE
        /\ \A i \in Heads : StaticTarget(m)[i] <= m.cap[i]
    BY <1>1, <2>3, <2>4, CappedAddsUp
  <2>6. \A i \in Heads : StaticTarget(m)[i] \in Nat
    BY <1>2, <2>5 DEF Allocation
  <2>7. ASSUME NEW i \in Heads
        PROVE  StaticTarget(m)[i] <= Max({m.cap[i], SCALE \div N})
    <3>1. Max({m.cap[i], SCALE \div N}) = IF m.cap[i] >= SCALE \div N
                                         THEN m.cap[i] ELSE SCALE \div N
      BY <1>3, MaxOfTwo
    <3>2. QED
      BY <1>3, <2>5, <2>6, <3>1
  <2>8. QED
    BY <2>5, <2>7
<1>6. QED
  BY <1>4, <1>5

-----------------------------------------------------------------------------
(***************************************************************************)
(* The rounding of f64_weights_to_ppm.                                     *)
(***************************************************************************)

\* The vaults with a larger remainder than that of i, or the same and a
\* smaller number.
Ahead(rest, i) ==
  {j \in Vault : rest[j] > rest[i] \/ (rest[j] = rest[i] /\ j < i)}

\* It is a strict order of all vaults: each has a place of its own.
LEMMA Places ==
  ASSUME NEW rest, \A i \in Vault : rest[i] \in Nat
  PROVE  /\ \A i \in Vault : Cardinality(Ahead(rest, i)) \in 0..(N - 1)
         /\ \A i, j \in Vault : j \in Ahead(rest, i) =>
              Cardinality(Ahead(rest, j)) < Cardinality(Ahead(rest, i))
         /\ \A i, j \in Vault : i # j =>
              i \in Ahead(rest, j) \/ j \in Ahead(rest, i)
<1>1. Vault \subseteq Nat /\ N \in Nat \ {0}
  BY Sizes
<1>2. IsFiniteSet(Vault) /\ Cardinality(Vault) = N
  <2>1. IsFiniteSet(1..N) /\ Cardinality(1..N) = IF 1 > N THEN 0 ELSE N - 1 + 1
    BY <1>1, FS_Interval
  <2>2. QED
    BY <1>1, <2>1 DEF Vault
<1>3. ASSUME NEW i \in Vault
      PROVE  /\ Ahead(rest, i) \subseteq Vault /\ i \notin Ahead(rest, i)
             /\ IsFiniteSet(Ahead(rest, i))
             /\ Cardinality(Ahead(rest, i)) \in 0..(N - 1)
  <2>1. Ahead(rest, i) \subseteq Vault /\ i \notin Ahead(rest, i)
    BY <1>1 DEF Ahead
  <2>2. /\ IsFiniteSet(Ahead(rest, i))
        /\ Cardinality(Ahead(rest, i)) <= Cardinality(Vault)
        /\ Cardinality(Vault) = Cardinality(Ahead(rest, i)) => Vault = Ahead(rest, i)
    BY <1>2, <2>1, FS_Subset
  <2>3. Cardinality(Ahead(rest, i)) \in Nat
    BY <2>2, FS_CardinalityType
  <2>4. QED
    BY <1>1, <1>2, <2>1, <2>2, <2>3
<1>4. ASSUME NEW i \in Vault, NEW j \in Ahead(rest, i)
      PROVE  Cardinality(Ahead(rest, j)) < Cardinality(Ahead(rest, i))
  <2>1. j \in Vault
    BY DEF Ahead
  <2>2. ASSUME NEW k \in Ahead(rest, j)
        PROVE  k \in Ahead(rest, i)
    <3>1. k \in Vault
      BY DEF Ahead
    <3>2. /\ i \in Nat /\ j \in Nat /\ k \in Nat
          /\ rest[i] \in Nat /\ rest[j] \in Nat /\ rest[k] \in Nat
      BY <1>1, <2>1, <3>1
    <3>3. rest[j] > rest[i] \/ (rest[j] = rest[i] /\ j < i)
      BY DEF Ahead
    <3>4. rest[k] > rest[j] \/ (rest[k] = rest[j] /\ k < j)
      BY DEF Ahead
    <3>5. rest[k] > rest[i] \/ (rest[k] = rest[i] /\ k < i)
      BY <3>2, <3>3, <3>4
    <3>6. QED
      BY <3>1, <3>5 DEF Ahead
  <2>3. j \notin Ahead(rest, j)
    BY <1>3, <2>1
  <2>4. /\ Cardinality(Ahead(rest, j)) <= Cardinality(Ahead(rest, i))
        /\ Cardinality(Ahead(rest, i)) = Cardinality(Ahead(rest, j))
             => Ahead(rest, i) = Ahead(rest, j)
    BY <1>3, <2>2, FS_Subset
  <2>5. Cardinality(Ahead(rest, j)) \in Int /\ Cardinality(Ahead(rest, i)) \in Int
    BY <1>3, <2>1
  <2>6. QED
    BY <2>3, <2>4, <2>5
<1>5. ASSUME NEW i \in Vault, NEW j \in Vault, i # j
      PROVE  i \in Ahead(rest, j) \/ j \in Ahead(rest, i)
  BY <1>1, <1>5 DEF Ahead
<1>6. QED
  BY <1>3, <1>4, <1>5

\* As many vaults have one of the first places as there are such places.
LEMMA FirstPlaces ==
  ASSUME NEW rest, \A i \in Vault : rest[i] \in Nat, NEW n \in 0..N
  PROVE  Cardinality({i \in Vault : Cardinality(Ahead(rest, i)) < n}) = n
<1>1. PICK place : place = [i \in Vault |-> Cardinality(Ahead(rest, i))]
  OBVIOUS
<1>2. N \in Nat \ {0}
  BY Sizes
<1>3. \A i \in Vault : place[i] = Cardinality(Ahead(rest, i)) /\ place[i] \in 0..(N - 1)
  BY <1>1, Places
<1>4. \A i, j \in Vault : place[i] = place[j] => i = j
  <2>1. SUFFICES ASSUME NEW i \in Vault, NEW j \in Vault, i # j
                 PROVE  place[i] # place[j]
    OBVIOUS
  <2>2. i \in Ahead(rest, j) \/ j \in Ahead(rest, i)
    BY <2>1, Places
  <2>3. place[i] < place[j] \/ place[j] < place[i]
    BY <1>3, <2>2, Places
  <2>4. place[i] \in Int /\ place[j] \in Int
    BY <1>3
  <2>5. QED
    BY <2>3, <2>4
<1>5. /\ IsFiniteSet(0..(N - 1)) /\ Cardinality(0..(N - 1)) = N
      /\ Cardinality(Vault) = N
      /\ IsFiniteSet(0..(n - 1)) /\ Cardinality(0..(n - 1)) = n
  <2>1. \A a, b \in Int : /\ IsFiniteSet(a..b)
                          /\ Cardinality(a..b) = IF a > b THEN 0 ELSE b-a+1
    BY FS_Interval
  <2>2. QED
    BY <1>2, <2>1 DEF Vault
<1>6. place \in Injection(Vault, 0..(N - 1))
  <2>1. place \in [Vault -> 0..(N - 1)]
    BY <1>1, <1>3
  <2>2. QED
    BY <1>4, <2>1 DEF Injection, IsInjective
<1>7. place \in Surjection(Vault, 0..(N - 1))
  BY <1>5, <1>6, FS_Injection
<1>8. \A p \in 0..(N - 1) : \E i \in Vault : place[i] = p
  BY <1>7 DEF Surjection
<1>9. PICK first : first = {i \in Vault : Cardinality(Ahead(rest, i)) < n}
  OBVIOUS
<1>10. \A i \in Vault : i \in first <=> place[i] < n
  BY <1>3, <1>9
<1>11. PICK f : f = [i \in first |-> place[i]]
  OBVIOUS
<1>12. first \subseteq Vault
  BY <1>9
<1>13. f \in [first -> 0..(n - 1)]
  <2>1. \A i \in first : f[i] \in 0..(n - 1)
    BY <1>3, <1>10, <1>11, <1>12
  <2>2. QED
    BY <1>11, <2>1
<1>14. f \in Injection(first, 0..(n - 1))
  <2>1. \A i, j \in first : f[i] = f[j] => i = j
    BY <1>4, <1>11, <1>12
  <2>2. QED
    BY <1>13, <2>1 DEF Injection, IsInjective
<1>15. f \in Surjection(first, 0..(n - 1))
  <2>1. ASSUME NEW p \in 0..(n - 1)
        PROVE  \E i \in first : f[i] = p
    <3>1. p \in 0..(N - 1) /\ p < n
      BY <1>2
    <3>2. PICK i \in Vault : place[i] = p
      BY <1>8, <3>1
    <3>3. QED
      BY <1>10, <1>11, <3>1, <3>2
  <2>2. QED
    BY <1>13, <2>1 DEF Surjection
<1>16. Cardinality(first) = Cardinality(0..(n - 1))
  BY <1>5, <1>14, <1>15, FS_Injection
<1>17. QED
  BY <1>5, <1>9, <1>16

\* The caps of the optimizer are parts of the whole.
LEMMA CapsAreParts == \A i \in Vault : SafetyCaps[i] \in Nat /\ SafetyCaps[i] <= SCALE
BY TargetsAssumption, Sizes

\* Weights that are the whole in finer parts are the whole after rounding.
\* Each is rounded to a neighbour, within its cap, and if one is rounded up
\* and another down, the first was no nearer to its lower neighbour.
LEMMA RoundedAddsUp ==
  ASSUME NEW exact,
         \A i \in Vault : exact[i] \in Nat /\ exact[i] <= GRAIN * SafetyCaps[i],
         Total(exact) = GRAIN * SCALE,
         NEW target, target = Rounded(exact)
  PROVE  /\ target \in Allocation
         /\ Total(target) = SCALE
         /\ \A i \in Vault :
              /\ target[i] <= SafetyCaps[i]
              /\ target[i] > 0 => exact[i] > 0
              /\ target[i] < SafetyCaps[i] => exact[i] < GRAIN * SafetyCaps[i]
         /\ \A i, j \in Vault :
              (GRAIN * target[i] - exact[i]) - (GRAIN * target[j] - exact[j]) <= GRAIN
<1>1. PICK base : base = [i \in Vault |-> exact[i] \div GRAIN]
  OBVIOUS
<1>2. PICK rest : rest = [i \in Vault |-> exact[i] % GRAIN]
  OBVIOUS
<1>3. PICK remaining : remaining = SCALE - Total(base)
  OBVIOUS
<1>4. PICK up : up = {i \in Vault : Cardinality(Ahead(rest, i)) < remaining}
  OBVIOUS
<1>5. target = [i \in Vault |-> IF i \in up THEN base[i] + 1 ELSE base[i]]
  <2>1. target = [i \in Vault |->
                    IF Cardinality(Ahead(rest, i)) < remaining
                    THEN base[i] + 1 ELSE base[i]]
    BY <1>1, <1>2, <1>3, Zenon DEF Rounded, Ahead
  <2>2. \A i \in Vault : i \in up <=> Cardinality(Ahead(rest, i)) < remaining
    BY <1>4
  <2>3. QED
    BY <2>1, <2>2
<1>6. GRAIN \in Nat \ {0} /\ SCALE \in Nat \ {0} /\ N \in Nat \ {0}
  BY Sizes
<1>7. ASSUME NEW i \in Vault
      PROVE  /\ base[i] \in Nat /\ rest[i] \in Nat /\ rest[i] < GRAIN
             /\ GRAIN * base[i] \in Nat
             /\ exact[i] = GRAIN * base[i] + rest[i]
  <2>1. PICK a \in Nat : a = exact[i]
    OBVIOUS
  <2>2. /\ a \div GRAIN \in Nat /\ a % GRAIN \in Nat /\ a % GRAIN < GRAIN
        /\ a = GRAIN * (a \div GRAIN) + (a % GRAIN)
    BY <1>6, Quotient
  <2>3. base[i] = a \div GRAIN /\ rest[i] = a % GRAIN
    BY <1>1, <1>2, <2>1
  <2>4. GRAIN * base[i] \in Nat
    BY <1>6, <2>2, <2>3
  <2>5. QED
    BY <2>1, <2>2, <2>3, <2>4
<1>8. Total(base) \in Nat /\ Total(rest) \in Nat
  BY <1>7, TotalOfNaturals
<1>9. GRAIN * SCALE = GRAIN * Total(base) + Total(rest)
  <2>1. PICK scaled : scaled = [i \in Vault |-> GRAIN * base[i]]
    OBVIOUS
  <2>2. \A i \in Vault : base[i] \in Int /\ scaled[i] = GRAIN * base[i]
    BY <1>7, <2>1
  <2>3. Total(scaled) = GRAIN * Total(base)
    BY <1>6, <2>2, TotalTimes
  <2>4. \A i \in Vault : /\ scaled[i] \in Int /\ rest[i] \in Int
                         /\ exact[i] = scaled[i] + rest[i]
    BY <1>7, <2>1
  <2>5. Total(exact) = Total(scaled) + Total(rest)
    BY <2>4, TotalPlus
  <2>6. QED
    BY <2>3, <2>5
<1>10. remaining \in Int /\ GRAIN * remaining = Total(rest)
  <2>1. \A g, s, t, r \in Int : g * s = g * t + r => g * (s - t) = r
    OBVIOUS
  <2>2. QED
    BY <1>3, <1>6, <1>8, <1>9, <2>1
<1>11. remaining \in Nat
  <2>1. \A g \in Nat \ {0}, x \in Int, y \in Nat : g * x = y => x >= 0
    OBVIOUS
  <2>2. QED
    BY <1>6, <1>8, <1>10, <2>1
<1>12. PICK part : part = {i \in Vault : rest[i] > 0}
  OBVIOUS
\* Fewer are rounded up than have a remainder, if any has.
<1>13. IsFiniteSet(part) /\ Cardinality(part) \in Nat /\ remaining <= Cardinality(part)
  <2>1. PICK ones : ones = [i \in Vault |-> IF i \in part THEN 1 ELSE 0]
    OBVIOUS
  <2>2. part \subseteq Vault
    BY <1>12
  <2>3. IsFiniteSet(part) /\ Total(ones) = Cardinality(part)
    BY <2>1, <2>2, TotalOfOnes
  <2>4. PICK whole : whole = [i \in Vault |-> GRAIN * ones[i]]
    OBVIOUS
  <2>5. Total(whole) = GRAIN * Total(ones)
    <3>1. \A i \in Vault : ones[i] \in Int /\ whole[i] = GRAIN * ones[i]
      BY <2>1, <2>4
    <3>2. QED
      BY <1>6, <3>1, TotalTimes
  <2>6. Total(rest) <= Total(whole)
    <3>1. \A i \in Vault : rest[i] \in Int /\ whole[i] \in Int /\ rest[i] <= whole[i]
      BY <1>6, <1>7, <1>12, <2>1, <2>4
    <3>2. QED
      BY <3>1, TotalGrows
  <2>7. Cardinality(part) \in Nat
    BY <2>3, FS_CardinalityType
  <2>8. GRAIN * remaining <= GRAIN * Cardinality(part)
    BY <1>10, <2>3, <2>5, <2>6
  <2>9. \A g \in Nat \ {0}, x, y \in Nat : g * x <= g * y => x <= y
    OBVIOUS
  <2>10. QED
    BY <1>6, <1>11, <2>3, <2>7, <2>8, <2>9
<1>14. remaining <= N
  <2>1. IsFiniteSet(Vault) /\ Cardinality(Vault) = N /\ part \subseteq Vault
    <3>1. IsFiniteSet(1..N) /\ Cardinality(1..N) = IF 1 > N THEN 0 ELSE N - 1 + 1
      BY <1>6, FS_Interval
    <3>2. QED
      BY <1>6, <1>12, <3>1 DEF Vault
  <2>2. Cardinality(part) <= N
    BY <2>1, FS_Subset
  <2>3. QED
    BY <1>6, <1>11, <1>13, <2>2
\* Only what has a remainder is rounded up.
<1>15. ASSUME NEW i \in up
       PROVE  i \in Vault /\ rest[i] > 0
  <2>1. i \in Vault /\ Cardinality(Ahead(rest, i)) < remaining
    BY <1>4
  <2>2. SUFFICES ASSUME rest[i] = 0
                 PROVE  FALSE
    BY <1>7, <2>1
  <2>3. part \subseteq Ahead(rest, i)
    BY <1>12, <2>1, <2>2 DEF Ahead
  <2>4. IsFiniteSet(Vault) /\ Ahead(rest, i) \subseteq Vault
    BY <1>6, FS_Interval DEF Vault, Ahead
  <2>5. IsFiniteSet(Ahead(rest, i))
    BY <2>4, FS_Subset
  <2>6. Cardinality(part) <= Cardinality(Ahead(rest, i))
    BY <2>3, <2>5, FS_Subset
  <2>7. Cardinality(Ahead(rest, i)) \in Nat
    BY <2>5, FS_CardinalityType
  <2>8. QED
    BY <1>11, <1>13, <2>1, <2>6, <2>7
<1>16. \A i \in Vault : /\ target[i] = base[i] + (IF i \in up THEN 1 ELSE 0)
                        /\ target[i] \in Nat
  BY <1>5, <1>7
<1>17. Total(target) = SCALE
  <2>1. PICK ones : ones = [i \in Vault |-> IF i \in up THEN 1 ELSE 0]
    OBVIOUS
  <2>2. up \subseteq Vault
    BY <1>4
  <2>3. Total(ones) = Cardinality(up)
    BY <2>1, <2>2, TotalOfOnes
  <2>4. Cardinality(up) = remaining
    <3>1. remaining \in 0..N
      BY <1>6, <1>11, <1>14
    <3>2. QED
      BY <1>4, <1>7, <3>1, FirstPlaces
  <2>5. \A i \in Vault : base[i] \in Int /\ ones[i] \in Int /\ target[i] = base[i] + ones[i]
    BY <1>7, <1>16, <2>1
  <2>6. Total(target) = Total(base) + Total(ones)
    BY <2>5, TotalPlus
  <2>7. QED
    BY <1>3, <1>6, <1>8, <1>11, <2>3, <2>4, <2>6
<1>18. ASSUME NEW i \in Vault
       PROVE  /\ target[i] <= SafetyCaps[i]
              /\ target[i] > 0 => exact[i] > 0
              /\ target[i] < SafetyCaps[i] => exact[i] < GRAIN * SafetyCaps[i]
  <2>1. SafetyCaps[i] \in Nat
    BY CapsAreParts
  <2>2. \A g \in Nat \ {0}, x, y \in Nat :
          /\ g * x <= g * y => x <= y
          /\ g * x < g * y => x + 1 <= y
          /\ x < y => g * x + g <= g * y
          /\ x > 0 => g * x > 0
    <3>1. ASSUME NEW g \in Nat \ {0}, NEW x \in Nat, NEW y \in Nat
          PROVE  g * x + g = g * (x + 1)
      OBVIOUS
    <3>2. ASSUME NEW g \in Nat \ {0}, NEW x \in Nat, NEW y \in Nat
          PROVE  x <= y => g * x <= g * y
      OBVIOUS
    <3>3. ASSUME NEW g \in Nat \ {0}, NEW x \in Nat, NEW y \in Nat
          PROVE  x < y => g * x < g * y
      OBVIOUS
    <3>4. ASSUME NEW g \in Nat \ {0}, NEW x \in Nat, NEW y \in Nat, x < y
          PROVE  g * x + g <= g * y
      <4>1. x + 1 \in Nat /\ x + 1 <= y
        BY <3>4
      <4>2. g * (x + 1) <= g * y
        BY <3>2, <4>1
      <4>3. QED
        BY <3>1, <4>2
    <3>5. ASSUME NEW g \in Nat \ {0}, NEW x \in Nat, x > 0
          PROVE  g * x > 0
      BY <3>5
    <3>6. \A g \in Nat \ {0}, x \in Nat : g * x \in Nat
      OBVIOUS
    <3>7. ASSUME NEW g \in Nat \ {0}, NEW x \in Nat, NEW y \in Nat
          PROVE  /\ g * x <= g * y => x <= y
                 /\ g * x < g * y => x + 1 <= y
      BY <3>2, <3>3, <3>6
    <3>8. QED
      BY <3>4, <3>5, <3>7
  <2>3. GRAIN * SafetyCaps[i] \in Nat
    BY <1>6, <2>1
  <2>4. CASE i \in up
    <3>1. rest[i] > 0 /\ target[i] = base[i] + 1
      BY <1>15, <1>16, <2>4
    <3>2. GRAIN * base[i] < GRAIN * SafetyCaps[i]
      BY <1>7, <2>3, <3>1
    <3>3. base[i] + 1 <= SafetyCaps[i]
      BY <1>6, <1>7, <2>1, <2>2, <3>2
    <3>4. base[i] + 1 < SafetyCaps[i]
            => GRAIN * (base[i] + 1) + GRAIN <= GRAIN * SafetyCaps[i]
      <4>1. base[i] + 1 \in Nat
        BY <1>7
      <4>2. QED
        BY <1>6, <2>1, <2>2, <4>1
    <3>5. GRAIN * (base[i] + 1) = GRAIN * base[i] + GRAIN
      BY <1>6, <1>7
    <3>6. PICK low \in Nat : low = GRAIN * base[i] /\ exact[i] = low + rest[i]
      BY <1>7
    <3>7. exact[i] > 0
      BY <1>7, <3>1, <3>6
    <3>8. PICK high \in Nat : high = GRAIN * SafetyCaps[i]
      BY <2>3
    <3>9. base[i] + 1 < SafetyCaps[i] => low + GRAIN + GRAIN <= high
      BY <3>4, <3>5, <3>6, <3>8
    <3>10. base[i] + 1 < SafetyCaps[i] => exact[i] < high
      BY <1>6, <1>7, <3>6, <3>9
    <3>11. target[i] < SafetyCaps[i] => exact[i] < GRAIN * SafetyCaps[i]
      BY <3>1, <3>8, <3>10
    <3>12. QED
      BY <3>1, <3>3, <3>7, <3>11
  <2>5. CASE i \notin up
    <3>1. target[i] = base[i]
      BY <1>7, <1>16, <2>5
    <3>2. GRAIN * base[i] <= GRAIN * SafetyCaps[i]
      BY <1>7, <2>3
    <3>3. base[i] <= SafetyCaps[i]
      BY <1>6, <1>7, <2>1, <2>2, <3>2
    <3>4. base[i] < SafetyCaps[i] => GRAIN * base[i] + GRAIN <= GRAIN * SafetyCaps[i]
      BY <1>6, <1>7, <2>1, <2>2
    <3>5. base[i] > 0 => GRAIN * base[i] > 0
      BY <1>6, <1>7, <2>2
    <3>6. PICK low \in Nat : low = GRAIN * base[i] /\ exact[i] = low + rest[i]
      BY <1>7
    <3>7. target[i] > 0 => exact[i] > 0
      BY <1>7, <3>1, <3>5, <3>6
    <3>8. PICK high \in Nat : high = GRAIN * SafetyCaps[i]
      BY <2>3
    <3>9. base[i] < SafetyCaps[i] => exact[i] < high
      BY <1>6, <1>7, <3>4, <3>6, <3>8
    <3>10. target[i] < SafetyCaps[i] => exact[i] < GRAIN * SafetyCaps[i]
      BY <3>1, <3>8, <3>9
    <3>11. QED
      BY <3>1, <3>3, <3>7, <3>10
  <2>6. QED
    BY <2>4, <2>5
<1>19. target \in Allocation
  <2>1. \A i \in Vault : target[i] \in 0..SCALE
    BY <1>6, <1>16, <1>18, CapsAreParts
  <2>2. target = [i \in Vault |-> target[i]]
    BY <1>5
  <2>3. QED
    BY <2>1, <2>2 DEF Allocation
\* What rounding adds, and what of it one has over another.
<1>20. ASSUME NEW i \in Vault
       PROVE  /\ i \in up => GRAIN * target[i] - exact[i] = GRAIN - rest[i]
              /\ i \notin up => GRAIN * target[i] - exact[i] = -rest[i]
  <2>1. GRAIN * (base[i] + 1) = GRAIN * base[i] + GRAIN
    BY <1>6, <1>7
  <2>2. QED
    BY <1>6, <1>7, <1>16, <2>1
<1>21. ASSUME NEW i \in Vault, NEW j \in Vault, i \in up, j \notin up
       PROVE  rest[j] <= rest[i]
  <2>1. SUFFICES ASSUME rest[j] > rest[i]
                 PROVE  FALSE
    BY <1>7
  <2>2. j \in Ahead(rest, i)
    BY <2>1 DEF Ahead
  <2>3. Cardinality(Ahead(rest, j)) < Cardinality(Ahead(rest, i))
    BY <1>7, <2>2, Places
  <2>4. /\ Cardinality(Ahead(rest, j)) \in Int
        /\ Cardinality(Ahead(rest, i)) \in Int
    BY <1>7, Places
  <2>5. QED
    BY <1>4, <1>11, <1>21, <2>3, <2>4
<1>22. ASSUME NEW i \in Vault, NEW j \in Vault
       PROVE  (GRAIN * target[i] - exact[i]) - (GRAIN * target[j] - exact[j]) <= GRAIN
  <2>1. /\ rest[i] \in Nat /\ rest[i] < GRAIN
        /\ rest[j] \in Nat /\ rest[j] < GRAIN
    BY <1>7
  <2>2. i \in up => rest[i] > 0
    BY <1>15
  <2>3. QED
    BY <1>6, <1>20, <1>21, <2>1, <2>2
<1>23. QED
  BY <1>17, <1>18, <1>19, <1>22

-----------------------------------------------------------------------------
(***************************************************************************)
(* The projection of project_onto_bounded_simplex.                         *)
(***************************************************************************)

\* Some vault has the largest of the values that the vaults have.
LEMMA LargestOfVaults ==
  ASSUME NEW f, \A i \in Vault : f[i] \in Int
  PROVE  \E m \in Vault : \A i \in Vault : f[i] <= f[m]
<1> DEFINE Q == {n \in 0..N : n = 0 \/ \E m \in 1..n : \A i \in 1..n : f[i] <= f[m]}
<1>1. 0 \in Q
  BY Sizes
<1>2. ASSUME NEW n \in Vault, n - 1 \in Q
      PROVE  n \in Q
  <2>1. n \in Nat /\ n >= 1 /\ n \in 0..N /\ 1..n \subseteq Vault
    BY Sizes DEF Vault
  <2>2. CASE n = 1
    <3>1. \A i \in 1..n : i = 1
      BY <2>1, <2>2
    <3>2. \A i \in 1..n : f[i] <= f[1]
      BY <2>1, <3>1
    <3>3. QED
      BY <2>1, <2>2, <3>2
  <2>3. CASE n # 1
    <3>1. PICK m \in 1..(n - 1) : \A i \in 1..(n - 1) : f[i] <= f[m]
      BY <1>2, <2>1, <2>3
    <3>2. \A i \in 1..n : i \in 1..(n - 1) \/ i = n
      BY <2>1
    <3>3. m \in 1..n /\ n \in 1..n
      BY <2>1
    <3>4. f[m] \in Int /\ f[n] \in Int /\ \A i \in 1..n : f[i] \in Int
      BY <2>1, <3>3
    <3>5. CASE f[n] <= f[m]
      <4>1. \A i \in 1..n : f[i] <= f[m]
        BY <3>1, <3>2, <3>5
      <4>2. QED
        BY <2>1, <3>3, <4>1
    <3>6. CASE f[m] <= f[n]
      <4>1. \A i \in 1..n : f[i] <= f[n]
        BY <3>1, <3>2, <3>4, <3>6
      <4>2. QED
        BY <2>1, <3>3, <4>1
    <3>7. QED
      BY <3>4, <3>5, <3>6
  <2>4. QED
    BY <2>2, <2>3
<1>3. \A n \in 0..N : n \in Q
  <2> HIDE DEF Q
  <2>1. QED
    BY <1>1, <1>2, PrefixInduct
<1>4. N \in Q
  <2> HIDE DEF Q
  <2>1. QED
    BY <1>3, Sizes
<1>5. N # 0
  BY Sizes
<1>6. QED
  BY <1>4, <1>5 DEF Vault

\* What Max and Min yield for the values of the vaults.
LEMMA ExtremesOfVaults ==
  ASSUME NEW f, \A i \in Vault : f[i] \in Int
  PROVE  /\ Max({f[i] : i \in Vault}) \in Int
         /\ \A i \in Vault : f[i] <= Max({f[j] : j \in Vault})
         /\ Min({f[i] : i \in Vault}) \in Int
         /\ \A i \in Vault : Min({f[j] : j \in Vault}) <= f[i]
<1> DEFINE S == {f[i] : i \in Vault}
<1>1. PICK m \in Vault : \A i \in Vault : f[i] <= f[m]
  BY LargestOfVaults
<1>2. Max(S) \in S /\ \A y \in S : Max(S) >= y
  <2>1. f[m] \in S /\ \A y \in S : f[m] >= y
    BY <1>1
  <2>2. QED
    BY <2>1 DEF Max
<1>3. PICK n \in Vault : \A i \in Vault : f[n] <= f[i]
  <2>1. PICK g : g = [i \in Vault |-> -f[i]]
    OBVIOUS
  <2>2. \A i \in Vault : g[i] \in Int /\ g[i] = -f[i]
    BY <2>1
  <2>3. PICK n \in Vault : \A i \in Vault : g[i] <= g[n]
    BY <2>2, LargestOfVaults
  <2>4. \A i \in Vault : f[n] <= f[i]
    BY <2>2, <2>3
  <2>5. QED
    BY <2>4
<1>4. Min(S) \in S /\ \A y \in S : Min(S) <= y
  <2>1. f[n] \in S /\ \A y \in S : f[n] <= y
    BY <1>3
  <2>2. QED
    BY <2>1 DEF Min
<1>5. QED
  BY <1>2, <1>4

\* What holds at the end of an interval holds first somewhere.
LEMMA FirstOfInterval ==
  ASSUME NEW low \in Int, NEW high \in Int, low <= high, NEW Q, high \in Q
  PROVE  \E t \in low..high : t \in Q /\ (t = low \/ t - 1 \notin Q)
<1>1. SUFFICES ASSUME \A t \in low..high : t \in Q => t # low /\ t - 1 \in Q
               PROVE  FALSE
  OBVIOUS
<1> DEFINE P == {n \in Nat : n <= high - low => high - n \in Q}
<1>2. 0 \in P
  OBVIOUS
<1>3. ASSUME NEW n \in Nat, n \in P
      PROVE  n + 1 \in P
  <2>1. SUFFICES ASSUME n + 1 <= high - low
                 PROVE  high - (n + 1) \in Q
    OBVIOUS
  <2>2. high - n \in low..high /\ high - n \in Q
    BY <1>3, <2>1
  <2>3. (high - n) - 1 \in Q
    BY <1>1, <2>2
  <2>4. (high - n) - 1 = high - (n + 1)
    OBVIOUS
  <2>5. QED
    BY <2>3, <2>4
<1>4. Nat \subseteq P
  <2> HIDE DEF P
  <2>1. QED
    BY <1>2, <1>3, NaturalsInduct
<1>5. PICK n \in Nat : n = high - low
  OBVIOUS
<1>6. low \in Q
  <2>1. n \in P
    BY <1>4
  <2>2. high - n \in Q
    BY <1>5, <2>1
  <2>3. high - n = low
    BY <1>5
  <2>4. QED
    BY <2>2, <2>3
<1>7. QED
  BY <1>1, <1>6

\* The parts of the whole are lowered by one amount, and cut to the bounds,
\* to be the whole exactly: one step of the amount changes as many parts as
\* there are between their bounds, and their number divides the grain.
LEMMA ProjectedAddsUp ==
  ASSUME NEW z, \A i \in Vault : z[i] \in Int,
         NEW wish, wish = [i \in Vault |-> GRAIN * z[i]]
  PROVE  /\ Total(Projected(wish)) = GRAIN * SCALE
         /\ \E tau \in Int : \A i \in Vault :
              Projected(wish)[i] = Clamp(wish[i] - tau, 0, GRAIN * SafetyCaps[i])
<1>1. GRAIN \in Nat \ {0} /\ SCALE \in Nat \ {0} /\ N \in Nat \ {0}
  BY Sizes
<1>2. PICK top : top = [i \in Vault |-> GRAIN * SafetyCaps[i]]
  OBVIOUS
<1>3. \A i \in Vault : /\ wish[i] = GRAIN * z[i] /\ wish[i] \in Int
                       /\ top[i] = GRAIN * SafetyCaps[i] /\ top[i] \in Nat
  BY <1>1, <1>2, CapsAreParts
<1>4. PICK low \in Int : /\ low = Min({wish[i] - GRAIN * SafetyCaps[i] : i \in Vault})
                         /\ \A i \in Vault : low <= wish[i] - top[i]
  <2>1. PICK f : f = [i \in Vault |-> wish[i] - GRAIN * SafetyCaps[i]]
    OBVIOUS
  <2>2. \A i \in Vault : f[i] = wish[i] - GRAIN * SafetyCaps[i]
    BY <2>1
  <2>3. {f[i] : i \in Vault} = {wish[i] - GRAIN * SafetyCaps[i] : i \in Vault}
    BY <2>2
  <2>4. \A i \in Vault : f[i] \in Int /\ f[i] = wish[i] - top[i]
    BY <1>3, <2>2
  <2>5. /\ Min({f[i] : i \in Vault}) \in Int
        /\ \A i \in Vault : Min({f[j] : j \in Vault}) <= f[i]
    BY <2>4, ExtremesOfVaults
  <2>6. QED
    BY <2>3, <2>4, <2>5
<1>5. PICK high \in Int : /\ high = Max({wish[i] : i \in Vault})
                          /\ \A i \in Vault : wish[i] <= high
  <2>1. /\ Max({wish[i] : i \in Vault}) \in Int
        /\ \A i \in Vault : wish[i] <= Max({wish[j] : j \in Vault})
    BY <1>3, ExtremesOfVaults
  <2>2. QED
    BY <2>1
<1>6. low <= high
  <2>1. 1 \in Vault
    BY <1>1 DEF Vault
  <2>2. low <= wish[1] - top[1] /\ wish[1] <= high /\ wish[1] \in Int /\ top[1] \in Nat
    BY <1>3, <1>4, <1>5, <2>1
  <2>3. QED
    BY <2>2
<1>7. PICK F : F = [t \in Int |-> Total(Shifted(wish, t))]
  OBVIOUS
<1>8. ASSUME NEW t \in Int
      PROVE  /\ F[t] = Total(Shifted(wish, t))
             /\ \A i \in Vault : /\ Shifted(wish, t)[i] = Clamp(wish[i] - t, 0, top[i])
                                 /\ Shifted(wish, t)[i] \in Nat
                                 /\ Shifted(wish, t)[i] <= top[i]
             /\ F[t] \in Nat
  <2>1. F[t] = Total(Shifted(wish, t))
    BY <1>7
  <2>2. \A i \in Vault : Shifted(wish, t)[i] = Clamp(wish[i] - t, 0, top[i])
    BY <1>3 DEF Shifted
  <2>3. ASSUME NEW i \in Vault
        PROVE  Shifted(wish, t)[i] \in Nat /\ Shifted(wish, t)[i] <= top[i]
    BY <1>3, <2>2 DEF Clamp
  <2>4. F[t] \in Nat
    BY <2>1, <2>3, TotalOfNaturals
  <2>5. QED
    BY <2>1, <2>2, <2>3, <2>4
<1>9. PICK whole \in Nat : whole = GRAIN * SCALE
  BY <1>1
<1>10. PICK tau \in low..high : /\ F[tau] <= whole
                                /\ tau = low \/ F[tau - 1] > whole
                                /\ Projected(wish) = Shifted(wish, tau)
  <2> DEFINE Q == {t \in Int : F[t] <= whole}
             Good(t) == /\ Total(Shifted(wish, t)) <= GRAIN * SCALE
                        /\ t = low \/ Total(Shifted(wish, t - 1)) > GRAIN * SCALE
  <2>1. high \in Q
    <3>1. \A i \in Vault : Shifted(wish, high)[i] = 0
      BY <1>3, <1>5, <1>8 DEF Clamp
    <3>2. Total(Shifted(wish, high)) = N * 0
      BY <3>1, TotalOfEqual
    <3>3. QED
      BY <1>1, <1>8, <1>9, <3>2
  <2>2. \E t \in low..high : t \in Q /\ (t = low \/ t - 1 \notin Q)
    <3> HIDE DEF Q
    <3>1. QED
      BY <1>6, <2>1, FirstOfInterval
  <2>3. \A t \in low..high : Good(t) <=> t \in Q /\ (t = low \/ t - 1 \notin Q)
    BY <1>8, <1>9
  <2>4. Projected(wish) = Shifted(wish, CHOOSE t \in low..high : Good(t))
    BY <1>4, <1>5, Zenon DEF Projected
  <2>5. PICK t \in low..high : t = (CHOOSE u \in low..high : Good(u)) /\ Good(t)
    BY <2>2, <2>3
  <2>6. F[t] <= whole /\ (t = low \/ F[t - 1] > whole)
    BY <1>8, <1>9, <2>5
  <2>7. QED
    BY <2>4, <2>5, <2>6
<1>11. tau \in Int /\ tau - 1 \in Int
  OBVIOUS
<1>12. \A i \in Vault : Projected(wish)[i] = Clamp(wish[i] - tau, 0, GRAIN * SafetyCaps[i])
  BY <1>3, <1>8, <1>10, <1>11
<1>13. CASE tau = low
  <2>1. ASSUME NEW i \in Vault
        PROVE  Shifted(wish, tau)[i] = top[i]
    <3>1. PICK x \in Int, y \in Nat : x = wish[i] /\ y = top[i]
      BY <1>3
    <3>2. low <= x - y
      BY <1>4, <3>1
    <3>3. wish[i] - tau \in Int /\ wish[i] - tau >= y
      BY <1>13, <3>1, <3>2
    <3>4. Shifted(wish, tau)[i] = Clamp(wish[i] - tau, 0, y)
      BY <1>8, <1>11, <3>1
    <3>5. QED
      BY <3>1, <3>3, <3>4 DEF Clamp
  <2>2. \A i \in Vault : /\ SafetyCaps[i] \in Int
                         /\ Shifted(wish, tau)[i] = GRAIN * SafetyCaps[i]
    BY <1>3, <2>1, CapsAreParts
  <2>3. Total(Shifted(wish, tau)) = GRAIN * Total(SafetyCaps)
    BY <1>1, <2>2, TotalTimes
  <2>4. Total(SafetyCaps) \in Int /\ Total(SafetyCaps) >= SCALE
    BY <2>2, TotalIsInt, TargetsAssumption
  <2>5. \A g, x, y \in Nat : x >= y => g * x >= g * y
    OBVIOUS
  <2>6. PICK x \in Nat : x = Total(SafetyCaps) /\ x >= SCALE
    BY <1>1, <2>4
  <2>7. GRAIN * x >= GRAIN * SCALE /\ GRAIN * x \in Int
    BY <1>1, <2>5, <2>6
  <2>8. F[tau] = whole
    <3>1. F[tau] = GRAIN * x
      BY <1>8, <1>11, <2>3, <2>6
    <3>2. QED
      BY <1>9, <1>10, <2>7, <3>1
  <2>9. QED
    BY <1>8, <1>9, <1>10, <1>11, <1>12, <2>8
<1>14. CASE F[tau - 1] > whole
  <2>1. PICK between : between = {i \in Vault : 0 <= wish[i] - tau /\ wish[i] - tau < top[i]}
    OBVIOUS
  <2>2. PICK ones : ones = [i \in Vault |-> IF i \in between THEN 1 ELSE 0]
    OBVIOUS
  <2>3. PICK k : k = Cardinality(between)
    OBVIOUS
  <2>4. between \subseteq Vault /\ Total(ones) = k /\ IsFiniteSet(between) /\ k \in Nat
    <3>1. between \in SUBSET Vault
      BY <2>1
    <3>2. \A i \in Vault : ones[i] = IF i \in between THEN 1 ELSE 0
      BY <2>2
    <3>3. IsFiniteSet(between) /\ Total(ones) = Cardinality(between)
      BY <3>1, <3>2, TotalOfOnes
    <3>4. QED
      BY <2>3, <3>1, <3>3, FS_CardinalityType
  \* One step of tau changes the total by k.
  <2>5. F[tau - 1] = F[tau] + k
    <3>1. ASSUME NEW i \in Vault
          PROVE  Shifted(wish, tau - 1)[i] = Shifted(wish, tau)[i] + ones[i]
      <4>1. /\ Shifted(wish, tau)[i] = Clamp(wish[i] - tau, 0, top[i])
            /\ Shifted(wish, tau - 1)[i] = Clamp(wish[i] - (tau - 1), 0, top[i])
        BY <1>8, <1>11
      <4>2. wish[i] - (tau - 1) = (wish[i] - tau) + 1
        BY <1>3, <1>11
      <4>3. QED
        BY <1>3, <1>11, <2>1, <2>2, <4>1, <4>2 DEF Clamp
    <3>2. \A i \in Vault : Shifted(wish, tau)[i] \in Int /\ ones[i] \in Int
      BY <1>8, <1>11, <2>2
    <3>3. Total(Shifted(wish, tau - 1)) = Total(Shifted(wish, tau)) + Total(ones)
      BY <3>1, <3>2, TotalPlus
    <3>4. QED
      BY <1>8, <1>11, <2>4, <3>3
  <2>6. k \in 1..N
    <3>1. k # 0
      BY <1>8, <1>10, <1>11, <1>14, <2>4, <2>5
    <3>2. IsFiniteSet(1..N) /\ Cardinality(1..N) = IF 1 > N THEN 0 ELSE N - 1 + 1
      BY <1>1, FS_Interval
    <3>3. k <= Cardinality(Vault) /\ Cardinality(Vault) = N
      <4>1. IsFiniteSet(Vault) /\ Cardinality(Vault) = N
        BY <1>1, <3>2 DEF Vault
      <4>2. QED
        BY <2>3, <2>4, <4>1, FS_Subset
    <3>4. QED
      BY <1>1, <2>4, <3>1, <3>3
  <2>7. PICK g \in Int : GRAIN = k * g
    <3>1. GRAIN % k = 0
      BY <2>6, TargetsAssumption DEF Vault
    <3>2. k \in Nat \ {0}
      BY <1>1, <2>6
    <3>3. GRAIN = k * (GRAIN \div k) + (GRAIN % k) /\ GRAIN \div k \in Int
      BY <1>1, <3>2, Quotient
    <3>4. PICK q \in Int : q = GRAIN \div k /\ GRAIN = k * q + 0
      BY <3>1, <3>3
    <3>5. k * q \in Int
      BY <3>2
    <3>6. QED
      BY <3>4, <3>5
  \* The total is a multiple of the grain less k times tau.
  <2>8. PICK a : a = [i \in Vault |-> IF i \in between THEN z[i]
                                      ELSE IF wish[i] - tau < 0 THEN 0 ELSE SafetyCaps[i]]
    OBVIOUS
  <2>9. \A i \in Vault : a[i] \in Int
    BY <2>8, CapsAreParts
  <2>10. F[tau] = GRAIN * Total(a) + (-tau) * k
    <3>1. PICK parts : parts = [i \in Vault |-> GRAIN * a[i]]
      OBVIOUS
    <3>2. PICK less : less = [i \in Vault |-> (-tau) * ones[i]]
      OBVIOUS
    <3>3. ASSUME NEW i \in Vault
          PROVE  /\ parts[i] \in Int /\ less[i] \in Int
                 /\ Shifted(wish, tau)[i] = parts[i] + less[i]
      <4>1. parts[i] \in Int /\ parts[i] = GRAIN * a[i]
        BY <1>1, <2>9, <3>1
      <4>2. less[i] = IF i \in between THEN -tau ELSE 0
        BY <1>11, <2>2, <3>2
      <4>3. Shifted(wish, tau)[i] = Clamp(wish[i] - tau, 0, top[i])
        BY <1>8, <1>11
      <4>4. CASE i \in between
        <5>1. parts[i] = wish[i]
          BY <1>3, <2>8, <4>1, <4>4
        <5>2. Shifted(wish, tau)[i] = wish[i] - tau
          BY <1>3, <1>11, <2>1, <4>3, <4>4 DEF Clamp
        <5>3. QED
          BY <1>3, <1>11, <4>2, <4>4, <5>1, <5>2
      <4>5. CASE i \notin between /\ wish[i] - tau < 0
        <5>1. parts[i] = 0
          BY <1>1, <2>8, <4>1, <4>5
        <5>2. Shifted(wish, tau)[i] = 0
          BY <1>3, <1>11, <4>3, <4>5 DEF Clamp
        <5>3. QED
          BY <4>2, <4>5, <5>1, <5>2
      <4>6. CASE i \notin between /\ ~(wish[i] - tau < 0)
        <5>1. parts[i] = top[i]
          BY <1>3, <2>8, <4>1, <4>6
        <5>2. wish[i] - tau >= top[i]
          BY <1>3, <1>11, <2>1, <4>6
        <5>3. Shifted(wish, tau)[i] = top[i]
          BY <1>3, <1>11, <4>3, <4>6, <5>2 DEF Clamp
        <5>4. QED
          BY <1>3, <4>2, <4>6, <5>1, <5>3
      <4>7. QED
        BY <4>4, <4>5, <4>6
    <3>4. Total(Shifted(wish, tau)) = Total(parts) + Total(less)
      BY <3>3, TotalPlus
    <3>5. \A i \in Vault : parts[i] = GRAIN * a[i]
      BY <3>1
    <3>6. Total(parts) = GRAIN * Total(a)
      BY <1>1, <2>9, <3>5, TotalTimes
    <3>7. PICK d \in Int : d = -tau
      BY <1>11
    <3>8. \A i \in Vault : ones[i] \in Int /\ less[i] = d * ones[i]
      BY <2>2, <3>2, <3>7
    <3>9. Total(less) = d * Total(ones)
      BY <3>8, TotalTimes
    <3>10. QED
      BY <1>8, <1>11, <2>4, <3>4, <3>6, <3>7, <3>9
  <2>11. Total(a) \in Int
    BY <2>9, TotalIsInt
  \* So what is missing is a multiple of k, and less than k.
  <2>12. PICK x \in Int : whole - F[tau] = k * x
    <3>1. PICK y \in Int : y = g * SCALE
      BY <1>1
    <3>2. PICK v \in Int : v = g * Total(a)
      BY <2>11
    <3>3. PICK d \in Int : d = -tau
      BY <1>11
    <3>4. k \in Int
      BY <2>4
    <3>5. \A c, h, e \in Int : (c * h) * e = c * (h * e)
      OBVIOUS
    <3>6. whole = k * y
      <4>1. (k * g) * SCALE = k * (g * SCALE)
        BY <1>1, <3>4, <3>5
      <4>2. QED
        BY <1>9, <2>7, <3>1, <4>1
    <3>7. F[tau] = k * v + k * d
      <4>1. (k * g) * Total(a) = k * (g * Total(a))
        BY <2>11, <3>4, <3>5
      <4>2. d * k = k * d
        BY <3>3, <3>4
      <4>3. QED
        BY <2>7, <2>10, <3>2, <3>3, <4>1, <4>2
    <3>8. k * y - (k * v + k * d) = k * (y - v - d)
      BY <3>4
    <3>9. y - v - d \in Int
      OBVIOUS
    <3>10. QED
      BY <3>6, <3>7, <3>8, <3>9
  <2>13. 0 <= k * x /\ k * x < k
    <3>1. F[tau] \in Int /\ k \in Int /\ k * x \in Int
      BY <1>8, <1>11, <2>4
    <3>2. QED
      BY <1>10, <1>14, <2>5, <2>12, <3>1
  <2>14. x = 0
    <3>1. \A c \in Nat \ {0}, y \in Int : 0 <= c * y /\ c * y < c => y = 0
      OBVIOUS
    <3>2. QED
      BY <1>1, <2>6, <2>13, <3>1
  <2>15. F[tau] = whole
    <3>1. whole - F[tau] = k * 0
      BY <2>12, <2>14
    <3>2. k \in Int /\ F[tau] \in Int
      BY <1>8, <1>11, <2>4
    <3>3. QED
      BY <3>1, <3>2
  <2>16. QED
    BY <1>8, <1>9, <1>10, <1>11, <1>12, <2>15
<1>15. QED
  BY <1>10, <1>13, <1>14

\* project_to_safety_set with f64_weights_to_ppm, for any weights of the
\* chain and any step of Adam: where a vault ends up above zero its wish was
\* lowered by tau or more, where it ends up below its cap by tau or less.
LEMMA OptimizerTargetIsNearest ==
  ASSUME NEW w \in Allocation, NEW wish \in Wishes(w),
         NEW target, target = Rounded(Projected(wish))
  PROVE  /\ target \in Allocation
         /\ Total(target) = SCALE
         /\ \A i \in Vault : target[i] <= SafetyCaps[i]
         /\ \A i, j \in Vault :
              target[i] > 0 /\ target[j] < SafetyCaps[j]
                => (GRAIN * target[i] - wish[i]) - (GRAIN * target[j] - wish[j]) <= GRAIN
<1>1. GRAIN \in Nat \ {0}
  BY Sizes
<1>2. PICK step \in [Vault -> -AdamStep..AdamStep] :
             wish = [i \in Vault |-> GRAIN * (w[i] + step[i])]
  BY DEF Wishes
<1>3. PICK z : z = [i \in Vault |-> w[i] + step[i]]
  OBVIOUS
<1>4. \A i \in Vault : z[i] \in Int /\ z[i] = w[i] + step[i]
  <2>1. AdamStep \in Int
    BY TargetsAssumption
  <2>2. \A i \in Vault : w[i] \in Int /\ step[i] \in Int
    BY <2>1, Sizes DEF Allocation
  <2>3. QED
    BY <1>3, <2>2
<1>5. wish = [i \in Vault |-> GRAIN * z[i]]
  BY <1>2, <1>4
<1>6. PICK exact : exact = Projected(wish)
  OBVIOUS
<1>7. /\ Total(Projected(wish)) = GRAIN * SCALE
      /\ \E tau \in Int : \A i \in Vault :
           Projected(wish)[i] = Clamp(wish[i] - tau, 0, GRAIN * SafetyCaps[i])
  <2>1. \A i \in Vault : z[i] \in Int
    BY <1>4
  <2>2. QED
    BY <1>5, <2>1, ProjectedAddsUp
<1>8. PICK tau \in Int : \A i \in Vault :
             exact[i] = Clamp(wish[i] - tau, 0, GRAIN * SafetyCaps[i])
  BY <1>6, <1>7
<1>9. ASSUME NEW i \in Vault
      PROVE  /\ wish[i] \in Int
             /\ exact[i] \in Nat /\ exact[i] <= GRAIN * SafetyCaps[i]
             /\ exact[i] > 0 => exact[i] - wish[i] <= -tau
             /\ exact[i] < GRAIN * SafetyCaps[i] => exact[i] - wish[i] >= -tau
  <2>1. wish[i] \in Int
    BY <1>1, <1>4, <1>5
  <2>2. PICK top \in Nat : top = GRAIN * SafetyCaps[i]
    BY <1>1, CapsAreParts
  <2>3. exact[i] = Clamp(wish[i] - tau, 0, top)
    BY <1>8, <2>2
  <2>4. QED
    BY <2>1, <2>2, <2>3 DEF Clamp
<1>10. /\ target \in Allocation
       /\ Total(target) = SCALE
       /\ \A i \in Vault :
            /\ target[i] <= SafetyCaps[i]
            /\ target[i] > 0 => exact[i] > 0
            /\ target[i] < SafetyCaps[i] => exact[i] < GRAIN * SafetyCaps[i]
       /\ \A i, j \in Vault :
            (GRAIN * target[i] - exact[i]) - (GRAIN * target[j] - exact[j]) <= GRAIN
  <2>1. \A i \in Vault : exact[i] \in Nat /\ exact[i] <= GRAIN * SafetyCaps[i]
    BY <1>9
  <2>2. target = Rounded(exact)
    BY <1>6
  <2>3. QED
    BY <1>6, <1>7, <2>1, <2>2, RoundedAddsUp
<1>11. ASSUME NEW i \in Vault, NEW j \in Vault,
              target[i] > 0, target[j] < SafetyCaps[j]
       PROVE  (GRAIN * target[i] - wish[i]) - (GRAIN * target[j] - wish[j]) <= GRAIN
  <2>1. target[i] \in Int /\ target[j] \in Int
    BY <1>10, Sizes DEF Allocation
  <2>2. PICK a \in Int, b \in Int : a = GRAIN * target[i] /\ b = GRAIN * target[j]
    BY <1>1, <2>1
  <2>3. (a - exact[i]) - (b - exact[j]) <= GRAIN
    BY <1>10, <2>2
  <2>4. exact[i] - wish[i] <= -tau
    BY <1>9, <1>10, <1>11
  <2>5. exact[j] - wish[j] >= -tau
    BY <1>9, <1>10, <1>11
  <2>6. /\ wish[i] \in Int /\ wish[j] \in Int
        /\ exact[i] \in Int /\ exact[j] \in Int
    BY <1>9
  <2>7. (a - wish[i]) - (b - wish[j]) <= GRAIN
    BY <1>1, <2>3, <2>4, <2>5, <2>6
  <2>8. QED
    BY <2>2, <2>7
<1>12. QED
  BY <1>10, <1>11

-----------------------------------------------------------------------------
(***************************************************************************)
(* The inductive invariant. At the step of Adam the file holds the state   *)
(* that the step starts from; every proposal, however old, is the whole.   *)
(***************************************************************************)
StepIsSaved ==
  /\ pc = "step" => adam \in 0..MaxStep /\ adam < MaxStep /\ disk = adam
  /\ adam <= disk + 1

ProposalsAreWhole == \A target \in proposals : Total(target) = SCALE

IInv == TypeOK /\ StepIsSaved /\ ProposalsAreWhole

\* What an optimizer state is, and that it is not None.
LEMMA AdamStates ==
  /\ MaxStep \in Nat /\ Fresh \in Nat /\ Fresh = 0 /\ None = -1
  /\ \A state \in {None} \union 0..MaxStep : state \in Int /\ state >= -1
BY TargetsAssumption DEF Fresh, None

\* What Propose leaves of proposals, for a whole target.
LEMMA ProposeKeepsWhole ==
  ASSUME IInv, NEW target \in Allocation, Total(target) = SCALE, Propose(target)
  PROVE  proposals' \subseteq Allocation /\ ProposalsAreWhole' /\ pc' = "idle"
BY DEF Propose, IInv, TypeOK, ProposalsAreWhole

\* It holds at the start.
LEMMA InitHolds == Init => IInv
<1> SUFFICES ASSUME Init
             PROVE  IInv
  OBVIOUS
<1>1. market \in Market /\ weights \in Allocation
  BY StartsAssumption DEF Init
<1>2. MaxStep \in Nat /\ MaxHalvings \in Nat /\ MaxCrashes \in Nat
  BY TargetsAssumption
<1>3. TypeOK
  BY <1>1, <1>2 DEF Init, TypeOK
<1>4. StepIsSaved
  BY AdamStates DEF Init, StepIsSaved
<1>5. ProposalsAreWhole
  BY DEF Init, ProposalsAreWhole
<1>6. QED
  BY <1>3, <1>4, <1>5 DEF IInv

\* Each action keeps the invariant.
LEMMA StaticCycleKeeps == ASSUME IInv, StaticCycle PROVE IInv'
<1>1. /\ UNCHANGED <<market, weights, optimizer_enabled, halvings,
                     adam, checkpoint, disk, crashes>>
      /\ Propose(StaticTarget(market))
  BY DEF StaticCycle, chainVars, optimizerVars
<1>2. StaticTarget(market) \in Allocation /\ Total(StaticTarget(market)) = SCALE
  BY StaticTargetIsWhole DEF IInv, TypeOK
<1>3. proposals' \subseteq Allocation /\ ProposalsAreWhole' /\ pc' = "idle"
  BY <1>1, <1>2, ProposeKeepsWhole
<1>4. TypeOK'
  BY <1>1, <1>3 DEF IInv, TypeOK
<1>5. StepIsSaved'
  BY <1>1, <1>3 DEF IInv, StepIsSaved
<1>6. QED
  BY <1>3, <1>4, <1>5 DEF IInv

\* The checkpoint before a step keeps it: without it there is no step.
LEMMA SaveBeforeStepKeeps == ASSUME IInv, SaveBeforeStep PROVE IInv'
<1>1. /\ UNCHANGED <<market, weights, optimizer_enabled, halvings, crashes>>
      /\ pc = "idle"
      /\ adam' = IF adam = None THEN Fresh ELSE adam
      /\ adam' < MaxStep
  BY DEF SaveBeforeStep, chainVars
<1>2. /\ {adam, checkpoint, disk} \subseteq {None} \union 0..MaxStep
      /\ adam <= disk + 1
      /\ ProposalsAreWhole /\ proposals \subseteq Allocation
  BY <1>1 DEF IInv, TypeOK, StepIsSaved
<1>3. adam' \in 0..MaxStep /\ adam' <= disk + 1
  BY <1>1, <1>2, AdamStates
<1>4. CASE disk' = adam' /\ checkpoint' = adam' /\ pc' = "step" /\ UNCHANGED proposals
  <2>1. TypeOK'
    BY <1>1, <1>2, <1>3, <1>4 DEF IInv, TypeOK
  <2>2. StepIsSaved'
    BY <1>1, <1>3, <1>4, AdamStates DEF StepIsSaved
  <2>3. ProposalsAreWhole'
    BY <1>2, <1>4 DEF ProposalsAreWhole
  <2>4. QED
    BY <2>1, <2>2, <2>3 DEF IInv
<1>5. CASE /\ SaveFails(adam')
           /\ Propose(StaticTarget(market))
           /\ UNCHANGED checkpoint
  <2>1. StaticTarget(market) \in Allocation /\ Total(StaticTarget(market)) = SCALE
    BY StaticTargetIsWhole DEF IInv, TypeOK
  <2>2. proposals' \subseteq Allocation /\ ProposalsAreWhole' /\ pc' = "idle"
    BY <1>5, <2>1, ProposeKeepsWhole
  <2>3. disk' \in {disk, adam'}
    BY <1>5 DEF SaveFails
  <2>4. TypeOK'
    BY <1>1, <1>2, <1>3, <1>5, <2>2, <2>3 DEF IInv, TypeOK
  <2>5. StepIsSaved'
    BY <1>3, <2>2, <2>3, AdamStates DEF StepIsSaved
  <2>6. QED
    BY <2>2, <2>4, <2>5 DEF IInv
<1>6. QED
  BY <1>4, <1>5 DEF SaveBeforeStep

\* A step keeps it, as the file holds the state it starts from.
LEMMA StepKeeps == ASSUME IInv, Step PROVE IInv'
<1>1. /\ UNCHANGED <<market, weights, optimizer_enabled, halvings, crashes>>
      /\ pc = "step"
      /\ adam' = adam + 1
  BY DEF Step, chainVars
<1>2. /\ {adam, checkpoint, disk} \subseteq {None} \union 0..MaxStep
      /\ adam \in 0..MaxStep /\ adam < MaxStep /\ disk = adam
      /\ weights \in Allocation
  BY <1>1 DEF IInv, TypeOK, StepIsSaved
<1>3. adam' \in 0..MaxStep /\ adam' <= disk + 1 /\ adam' <= adam' + 1
  BY <1>1, <1>2, AdamStates
<1>4. CASE /\ disk' = adam'
           /\ checkpoint' = adam'
           /\ \E wish \in Wishes(weights) : Propose(Rounded(Projected(wish)))
  <2>1. PICK wish \in Wishes(weights) : Propose(Rounded(Projected(wish)))
    BY <1>4
  <2>2. /\ Rounded(Projected(wish)) \in Allocation
        /\ Total(Rounded(Projected(wish))) = SCALE
    BY <1>2, OptimizerTargetIsNearest
  <2>3. proposals' \subseteq Allocation /\ ProposalsAreWhole' /\ pc' = "idle"
    BY <2>1, <2>2, ProposeKeepsWhole
  <2>4. TypeOK'
    BY <1>1, <1>3, <1>4, <2>3 DEF IInv, TypeOK
  <2>5. StepIsSaved'
    BY <1>3, <1>4, <2>3 DEF StepIsSaved
  <2>6. QED
    BY <2>3, <2>4, <2>5 DEF IInv
<1>5. CASE /\ SaveFails(adam')
           /\ Propose(StaticTarget(market))
           /\ UNCHANGED checkpoint
  <2>1. StaticTarget(market) \in Allocation /\ Total(StaticTarget(market)) = SCALE
    BY StaticTargetIsWhole DEF IInv, TypeOK
  <2>2. proposals' \subseteq Allocation /\ ProposalsAreWhole' /\ pc' = "idle"
    BY <1>5, <2>1, ProposeKeepsWhole
  <2>3. disk' \in {disk, adam'}
    BY <1>5 DEF SaveFails
  <2>4. TypeOK'
    BY <1>1, <1>2, <1>3, <1>5, <2>2, <2>3 DEF IInv, TypeOK
  <2>5. StepIsSaved'
    BY <1>3, <2>2, <2>3 DEF StepIsSaved
  <2>6. QED
    BY <2>2, <2>4, <2>5 DEF IInv
<1>6. QED
  BY <1>4, <1>5 DEF Step

\* A restart keeps it: what is loaded is the file or nothing.
LEMMA RestartKeeps == ASSUME IInv, Restart PROVE IInv'
<1>1. /\ UNCHANGED <<market, weights, optimizer_enabled, halvings, disk, proposals>>
      /\ crashes < MaxCrashes /\ crashes' = crashes + 1
      /\ pc' = "idle"
  BY DEF Restart, chainVars
<1>2. adam' \in {None, disk} /\ checkpoint' \in {None, disk}
  BY DEF Restart, Loadable
<1>3. disk \in {None} \union 0..MaxStep
  BY DEF IInv, TypeOK
<1>4. crashes' \in 0..MaxCrashes
  BY <1>1, TargetsAssumption DEF IInv, TypeOK
<1>5. TypeOK'
  BY <1>1, <1>2, <1>3, <1>4 DEF IInv, TypeOK
<1>6. adam' <= disk' + 1
  BY <1>1, <1>2, <1>3, AdamStates
<1>7. StepIsSaved'
  BY <1>1, <1>6 DEF StepIsSaved
<1>8. ProposalsAreWhole'
  BY <1>1 DEF IInv, ProposalsAreWhole
<1>9. QED
  BY <1>5, <1>7, <1>8 DEF IInv

\* A proposal that is dropped leaves the others.
LEMMA DropKeeps ==
  ASSUME IInv, NEW target \in proposals, Drop(target)
  PROVE  IInv'
<1>1. /\ UNCHANGED <<market, weights, optimizer_enabled, halvings, pc,
                     adam, checkpoint, disk, crashes>>
      /\ proposals' \subseteq proposals
  BY DEF Drop, chainVars, optimizerVars
<1>2. TypeOK'
  BY <1>1 DEF IInv, TypeOK
<1>3. StepIsSaved'
  BY <1>1 DEF IInv, StepIsSaved
<1>4. ProposalsAreWhole'
  BY <1>1 DEF IInv, ProposalsAreWhole
<1>5. QED
  BY <1>2, <1>3, <1>4 DEF IInv

\* A reveal keeps it: what lands is what was proposed.
LEMMA RevealKeeps ==
  ASSUME IInv, NEW target \in proposals, Reveal(target)
  PROVE  IInv' /\ Total(weights') = SCALE
<1>1. /\ UNCHANGED <<market, optimizer_enabled, halvings, pc, adam,
                     checkpoint, disk, crashes>>
      /\ weights' = target
      /\ proposals' \subseteq proposals
  BY DEF Reveal, optimizerVars
<1>2. target \in Allocation /\ Total(target) = SCALE
  BY DEF IInv, TypeOK, ProposalsAreWhole
<1>3. TypeOK'
  BY <1>1, <1>2 DEF IInv, TypeOK
<1>4. StepIsSaved'
  BY <1>1 DEF IInv, StepIsSaved
<1>5. ProposalsAreWhole'
  BY <1>1 DEF IInv, ProposalsAreWhole
<1>6. QED
  BY <1>1, <1>2, <1>3, <1>4, <1>5 DEF IInv

\* CB-1 keeps it: a cap that it moves stays a weight.
LEMMA ActivateCB1Keeps == ASSUME IInv, NEW v \in Vault, ActivateCB1(v) PROVE IInv'
<1>1. /\ UNCHANGED <<weights, optimizer_enabled, pc, adam, checkpoint, disk,
                     proposals, crashes>>
      /\ halvings < MaxHalvings /\ halvings' = halvings + 1
      /\ market' = [market EXCEPT !.cap[v] = Max({market.base_cap[v] \div 2, weights[v]})]
  BY DEF ActivateCB1, daemonVars, optimizerVars
<1>3. Max({market.base_cap[v] \div 2, weights[v]}) \in 0..SCALE
  <2>1. weights[v] \in 0..SCALE /\ market.base_cap[v] \in 0..SCALE
    BY DEF IInv, TypeOK, Market, Allocation
  <2>2. market.base_cap[v] \div 2 \in 0..SCALE
    <3>1. PICK b \in Nat : b = market.base_cap[v] /\ b <= SCALE
      BY <2>1, Sizes
    <3>2. b \div 2 \in Nat /\ b = 2 * (b \div 2) + (b % 2) /\ b % 2 \in Nat
      BY Quotient
    <3>3. PICK h \in Nat : h = b \div 2 /\ b >= 2 * h
      BY <3>2
    <3>4. QED
      BY <3>1, <3>3, Sizes
  <2>3. PICK x \in 0..SCALE, y \in 0..SCALE :
               x = market.base_cap[v] \div 2 /\ y = weights[v]
    BY <2>1, <2>2
  <2>4. Max({x, y}) \in 0..SCALE
    BY MaxOfTwo, Sizes
  <2>5. QED
    BY <2>3, <2>4
<1>4. market' \in Market
  <2>1. PICK c \in 0..SCALE : market' = [market EXCEPT !.cap[v] = c]
    BY <1>1, <1>3
  <2>2. market \in Market
    BY DEF IInv, TypeOK
  <2>3. [market.cap EXCEPT ![v] = c] \in Allocation
    BY <2>2 DEF Market, Allocation
  <2>4. market' = [market EXCEPT !.cap = [market.cap EXCEPT ![v] = c]]
    BY <2>1, <2>2 DEF Market
  <2>5. QED
    BY <2>2, <2>3, <2>4 DEF Market
<1>5. halvings' \in 0..MaxHalvings
  BY <1>1, TargetsAssumption DEF IInv, TypeOK
<1>6. TypeOK'
  BY <1>1, <1>4, <1>5 DEF IInv, TypeOK
<1>7. StepIsSaved'
  BY <1>1 DEF IInv, StepIsSaved
<1>8. ProposalsAreWhole'
  BY <1>1 DEF IInv, ProposalsAreWhole
<1>9. QED
  BY <1>6, <1>7, <1>8 DEF IInv

\* New values of the vaults keep it.
LEMMA MarketMovesKeeps == ASSUME IInv, MarketMoves PROVE IInv'
<1>1. /\ UNCHANGED <<weights, optimizer_enabled, halvings, pc, adam,
                     checkpoint, disk, proposals, crashes>>
  BY DEF MarketMoves, daemonVars, optimizerVars
<1>2. market' \in Market
  <2>1. PICK value \in Values : market' = [market EXCEPT !.value = value]
    BY DEF MarketMoves
  <2>2. market \in Market
    BY DEF IInv, TypeOK
  <2>3. QED
    BY <2>1, <2>2 DEF Market
<1>3. TypeOK'
  BY <1>1, <1>2 DEF IInv, TypeOK
<1>4. StepIsSaved' /\ ProposalsAreWhole'
  BY <1>1 DEF IInv, StepIsSaved, ProposalsAreWhole
<1>5. QED
  BY <1>3, <1>4 DEF IInv

\* CB-3 and the recovery keep it.
LEMMA ToggleCB3Keeps == ASSUME IInv, ToggleCB3 PROVE IInv'
<1>1. /\ UNCHANGED <<market, weights, halvings, pc, adam, checkpoint,
                     disk, proposals, crashes>>
      /\ optimizer_enabled' = ~optimizer_enabled
  BY DEF ToggleCB3, daemonVars, optimizerVars
<1>2. optimizer_enabled' \in BOOLEAN
  BY <1>1, Zenon
<1>3. TypeOK'
  BY <1>1, <1>2 DEF IInv, TypeOK
<1>4. StepIsSaved' /\ ProposalsAreWhole'
  BY <1>1 DEF IInv, StepIsSaved, ProposalsAreWhole
<1>5. QED
  BY <1>3, <1>4 DEF IInv

\* Every step of the specification keeps the invariant.
LEMMA NextKeeps == IInv /\ [Next]_vars => IInv'
<1> SUFFICES ASSUME IInv, [Next]_vars
             PROVE  IInv'
  OBVIOUS
<1>1. ASSUME NEW target \in proposals, Reveal(target) \/ Drop(target)
      PROVE  IInv'
  BY <1>1, RevealKeeps, DropKeeps
<1>2. ASSUME NEW v \in Vault, ActivateCB1(v)
      PROVE  IInv'
  BY <1>2, ActivateCB1Keeps
<1>3. CASE UNCHANGED vars
  BY <1>3 DEF vars, chainVars, daemonVars, optimizerVars, IInv, TypeOK,
     StepIsSaved, ProposalsAreWhole
<1>4. QED
  BY <1>1, <1>2, <1>3, StaticCycleKeeps, SaveBeforeStepKeeps, StepKeeps,
     RestartKeeps, ToggleCB3Keeps, MarketMovesKeeps DEF Next

\* It holds throughout.
LEMMA Invariance == Spec => []IInv
<1>1. IInv /\ [Next]_vars => IInv'
  BY NextKeeps
<1>2. QED
  BY InitHolds, <1>1, PTL DEF Spec

-----------------------------------------------------------------------------
(* RebalanceMemory, OptimizerCheckpoint and what a snapshot shows have the *)
(* types the code gives them, the proposals on their way included.         *)
THEOREM TypeCorrectness == Spec => []TypeOK
<1>1. IInv => TypeOK
  BY DEF IInv
<1>2. QED
  BY Invariance, <1>1, PTL

(* optimize_step and load_optimizer_checkpoint_into_memory: however often  *)
(* the daemon dies and whichever saves fail, the file misses at most the   *)
(* last step of the optimizer.                                             *)
THEOREM CrashesLoseOneStep == Spec => []CrashLosesOneStep
<1>1. IInv => CrashLosesOneStep
  BY DEF IInv, StepIsSaved, CrashLosesOneStep
<1>2. QED
  BY Invariance, <1>1, PTL

(* compute_static_target_weights: for any number of vaults and any values, *)
(* risks and caps, what CB-1 makes of the caps included, the target is the *)
(* whole, and no vault but the last is over its cap.                       *)
THEOREM StaticTargetsAreWhole == Spec => []StaticTargetsAddUp
<1>1. IInv => StaticTargetsAddUp
  <2> SUFFICES ASSUME IInv
               PROVE  StaticTargetsAddUp
    OBVIOUS
  <2>1. market \in Market
    BY DEF IInv, TypeOK
  <2>2. QED
    BY <2>1, StaticTargetIsWhole DEF StaticTargetsAddUp
<1>2. QED
  BY Invariance, <1>1, PTL

(* project_to_safety_set with f64_weights_to_ppm: for any number of        *)
(* vaults, any caps and any step of Adam, the target of the optimizer is   *)
(* the whole, within its bounds, and no transfer of a part between two     *)
(* vaults brings it nearer to what Adam asked for.                         *)
THEOREM OptimizerTargetsAreNearest == Spec => []NearestTarget
<1>1. IInv => NearestTarget
  <2> SUFFICES ASSUME IInv, NEW wish \in Wishes(weights), NEW target,
                      target = Rounded(Projected(wish))
               PROVE  /\ target \in Allocation
                      /\ Total(target) = SCALE
                      /\ \A i \in Vault : target[i] <= SafetyCaps[i]
                      /\ \A i, j \in Vault :
                           target[i] > 0 /\ target[j] < SafetyCaps[j]
                             => (GRAIN * target[i] - wish[i])
                                  - (GRAIN * target[j] - wish[j]) <= GRAIN
    BY Zenon DEF NearestTarget
  <2>1. weights \in Allocation
    BY DEF IInv, TypeOK
  <2>2. QED
    BY <2>1, OptimizerTargetIsNearest
<1>2. QED
  BY Invariance, <1>1, PTL

(* compute_target_weights and rebalance: whatever the daemon computes with *)
(* and however late it lands, before or after other proposals, restarts    *)
(* and changes of the caps, the weights of the chain become the whole. The *)
(* program would admit a part more or less: it is never needed.            *)
THEOREM LandedTargetsAreWhole ==
  Spec => [][weights' # weights => Total(weights') = SCALE]_vars
<1>1. IInv /\ [Next]_vars
        => [weights' # weights => Total(weights') = SCALE]_vars
  <2> SUFFICES ASSUME IInv, Next, weights' # weights
               PROVE  Total(weights') = SCALE
    BY DEF vars
  <2>1. PICK target \in proposals : Reveal(target)
    BY DEF Next, StaticCycle, SaveBeforeStep, Step, Restart, Drop,
       ActivateCB1, ToggleCB3, MarketMoves, chainVars
  <2>2. QED
    BY <2>1, RevealKeeps
<1>2. QED
  BY Invariance, <1>1, PTL DEF Spec
=============================================================================
