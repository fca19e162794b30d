-------------------------- MODULE OracleFeedProofs --------------------------
(***************************************************************************)
(* Theorems about OracleFeed, for any vaults, messages, prices, ages and   *)
(* limits that satisfy its assumptions. For the age of the prices that     *)
(* mint the average plays no part: whatever it is, a high volatility only  *)
(* makes the limits stricter. Of the average itself: it follows the price  *)
(* and keeps to the range of prices, whatever the rounding. At the end,    *)
(* the same for OracleCycle, the step of the daemon that sends updates.    *)
(***************************************************************************)
EXTENDS OracleFeed, WellFoundedInduction, TLAPS

\* An observation in use is not of the future, and since it was taken over
\* the clock's seconds have not outrun its slots.
PythTimed(v) ==
  source[v] = "pyth" =>
    now - published_at[v] <= PublishMaxAge + (slot - vault[v].last_oracle_slot)

\* A price set by hand was observed within a window.
ManualTimed(v) ==
  source[v] = "manual" =>
    vault[v].last_oracle_slot <= manual_oracle_mode_expiry_slot

VaultInv(v) ==
  vault[v].last_oracle_slot <= slot /\ PythTimed(v) /\ ManualTimed(v)

\* The inductive invariant.
IInv == TypeOK /\ AverageInRange /\ \A v \in Vault : VaultInv(v)

-----------------------------------------------------------------------------
(***************************************************************************)
(* The power in the weight of an observation. PowLoop is a recursive       *)
(* function; the library's theorems of induction take an operator and      *)
(* cannot be used, but a set of naturals that lacks one lacks a least one. *)
(***************************************************************************)

\* Induction on the naturals, on a set instead of a predicate.
LEMMA NaturalsInduct ==
  ASSUME NEW Q, 0 \in Q, \A n \in Nat : n \in Q => n + 1 \in Q
  PROVE  Nat \subseteq Q
<1> DEFINE less == {p \in Nat \X Nat : p[1] < p[2]}
<1>1. IsWellFoundedOn(less, Nat)
  <2>1. OpToRel(<, Nat) = less
    BY Zenon DEF OpToRel
  <2>2. QED
    BY <2>1, NatLessThanWellFounded
<1>2. SUFFICES ASSUME Nat \ Q # {}
               PROVE  FALSE
  OBVIOUS
<1>3. PICK n \in Nat \ Q : \A m \in Nat \ Q : <<m, n>> \notin less
  <2>1. Nat \ Q \subseteq Nat
    OBVIOUS
  <2> HIDE DEF less
  <2>2. QED
    BY <1>1, <1>2, <2>1, WFMin
<1>4. n # 0 /\ n - 1 \in Nat
  OBVIOUS
<1>5. n - 1 \in Q
  <2>1. <<n - 1, n>> \in less
    BY <1>4
  <2>2. QED
    BY <1>3, <1>4, <2>1
<1>6. (n - 1) + 1 \in Q
  BY <1>4, <1>5
<1>7. QED
  BY <1>3, <1>6

\* A scale is not zero, and a weight is part of it.
LEMMA Scale ==
  /\ SCALE \in Nat \ {0} /\ TwapAlpha \in Nat
  /\ 1 <= TwapAlpha /\ TwapAlpha <= SCALE
BY LimitAssumption

\* A state of the loop is followed by one with a smaller exponent.
LEMMA BodyTypes ==
  ASSUME NEW s \in LoopState
  PROVE  /\ LoopBody(s) \in LoopState
         /\ s.exponent # 0 => LoopBody(s).exponent <= s.exponent - 1
<1>1. ASSUME NEW n \in Nat PROVE n \div SCALE \in Nat
  BY Scale
<1>2. /\ s.base_ppm \in Nat /\ s.exponent \in Nat /\ s.result \in Nat
  BY DEF LoopState
<1>3. s.base_ppm * s.base_ppm \in Nat /\ s.result * s.base_ppm \in Nat
  BY <1>2
<1>4. /\ (s.base_ppm * s.base_ppm) \div SCALE \in Nat
      /\ (s.result * s.base_ppm) \div SCALE \in Nat
  BY <1>1, <1>3
<1>5. /\ s.exponent \div 2 \in Nat
      /\ s.exponent # 0 => s.exponent \div 2 <= s.exponent - 1
  BY <1>2
<1>6. QED
  BY <1>2, <1>4, <1>5 DEF LoopBody, LoopState

\* The equation of the loop at one state.
Solves(g, s) == g[s] = IF s.exponent = 0 THEN s.result ELSE g[LoopBody(s)]

IsLoop(g) ==
  g = [s \in LoopState |->
         IF s.exponent = 0 THEN s.result ELSE g[LoopBody(s)]]

\* Two solutions up to an exponent agree up to it.
LEMMA LoopUnique ==
  ASSUME NEW m \in Nat, NEW g, NEW h,
         \A s \in LoopState : s.exponent <= m => Solves(g, s) /\ Solves(h, s)
  PROVE  \A s \in LoopState : s.exponent <= m => g[s] = h[s]
<1> DEFINE Q == {n \in Nat : \A s \in LoopState :
                   s.exponent <= n /\ s.exponent <= m => g[s] = h[s]}
<1>1. \A s \in LoopState : s.exponent \in Nat
  BY DEF LoopState
<1>2. 0 \in Q
  <2>1. ASSUME NEW s \in LoopState, s.exponent <= 0, s.exponent <= m
        PROVE  g[s] = h[s]
    <3>1. s.exponent = 0
      BY <1>1, <2>1
    <3>2. QED
      BY <2>1, <3>1 DEF Solves
  <2>2. QED
    BY <2>1
<1>3. ASSUME NEW n \in Nat, n \in Q
      PROVE  n + 1 \in Q
  <2>1. ASSUME NEW s \in LoopState, s.exponent <= n + 1, s.exponent <= m
        PROVE  g[s] = h[s]
    <3>1. CASE s.exponent = 0
      BY <2>1, <3>1 DEF Solves
    <3>2. CASE s.exponent # 0
      <4>1. /\ LoopBody(s) \in LoopState
            /\ LoopBody(s).exponent <= s.exponent - 1
        BY <3>2, BodyTypes
      <4>2. LoopBody(s).exponent <= n /\ LoopBody(s).exponent <= m
        BY <1>1, <2>1, <4>1
      <4>3. g[LoopBody(s)] = h[LoopBody(s)]
        BY <1>3, <4>1, <4>2
      <4>4. QED
        BY <2>1, <3>2, <4>3 DEF Solves
    <3>3. QED
      BY <3>1, <3>2
  <2>2. QED
    BY <2>1
<1>4. m \in Q
  <2> HIDE DEF Q
  <2>1. QED
    BY <1>2, <1>3, NaturalsInduct
<1>5. QED
  BY <1>4

\* Up to any exponent there is a solution.
LEMMA LoopExists ==
  ASSUME NEW m \in Nat
  PROVE  \E g : \A s \in LoopState : s.exponent <= m => Solves(g, s)
<1> DEFINE Q == {n \in Nat : \E g : \A s \in LoopState :
                   s.exponent <= n => Solves(g, s)}
           next(g) == [s \in LoopState |->
                         IF s.exponent = 0 THEN s.result ELSE g[LoopBody(s)]]
<1>1. \A s \in LoopState : s.exponent \in Nat
  BY DEF LoopState
<1>2. 0 \in Q
  <2>1. ASSUME NEW s \in LoopState, s.exponent <= 0
        PROVE  Solves([t \in LoopState |-> t.result], s)
    <3>1. s.exponent = 0
      BY <1>1, <2>1
    <3>2. QED
      BY <3>1 DEF Solves
  <2>2. \E g : \A s \in LoopState : s.exponent <= 0 => Solves(g, s)
    BY <2>1
  <2>3. QED
    BY <2>2
<1>3. ASSUME NEW n \in Nat, n \in Q
      PROVE  n + 1 \in Q
  <2>1. PICK g : \A s \in LoopState : s.exponent <= n => Solves(g, s)
    BY <1>3
  <2>2. ASSUME NEW s \in LoopState, s.exponent <= n + 1
        PROVE  Solves(next(g), s)
    <3>1. CASE s.exponent = 0
      BY <3>1 DEF Solves
    <3>2. CASE s.exponent # 0
      <4>1. /\ LoopBody(s) \in LoopState
            /\ LoopBody(s).exponent <= s.exponent - 1
        BY <3>2, BodyTypes
      <4>2. LoopBody(s).exponent <= n
        BY <1>1, <2>2, <4>1
      <4>3. g[LoopBody(s)] = next(g)[LoopBody(s)]
        BY <2>1, <4>1, <4>2 DEF Solves
      <4>4. QED
        BY <3>2, <4>3 DEF Solves
    <3>3. QED
      BY <3>1, <3>2
  <2>3. \E h : \A s \in LoopState : s.exponent <= n + 1 => Solves(h, s)
    <3> HIDE DEF next
    <3>1. QED
      BY <2>2
  <2>4. QED
    BY <2>3
<1>4. m \in Q
  <2> HIDE DEF Q
  <2>1. QED
    BY <1>2, <1>3, NaturalsInduct
<1>5. QED
  BY <1>4

\* PowLoop is what its definition says: put together from the solutions up
\* to the exponent of each state.
LEMMA LoopEquation ==
  ASSUME NEW s \in LoopState
  PROVE  Solves(PowLoop, s)
<1> DEFINE Upto(m, g) == \A t \in LoopState : t.exponent <= m => Solves(g, t)
           G(m) == CHOOSE g : Upto(m, g)
           whole == [t \in LoopState |-> G(t.exponent)[t]]
<1>1. \A t \in LoopState : t.exponent \in Nat
  BY DEF LoopState
<1>2. ASSUME NEW m \in Nat PROVE Upto(m, G(m))
  <2>1. \E g : Upto(m, g)
    BY LoopExists
  <2> HIDE DEF Upto
  <2>2. QED
    BY <2>1
<1>3. ASSUME NEW t \in LoopState PROVE Solves(whole, t)
  <2>1. whole[t] = G(t.exponent)[t]
    OBVIOUS
  <2>2. Upto(t.exponent, G(t.exponent))
    BY <1>1, <1>2
  <2> HIDE DEF G
  <2>3. Solves(G(t.exponent), t)
    BY <1>1, <2>2
  <2>4. CASE t.exponent = 0
    BY <2>1, <2>3, <2>4 DEF Solves
  <2>5. CASE t.exponent # 0
    <3> DEFINE u == LoopBody(t)
    <3>1. u \in LoopState /\ u.exponent <= t.exponent - 1 /\ u.exponent \in Nat
      BY <1>1, <2>5, BodyTypes
    <3> HIDE DEF u
    <3>2. \A x \in LoopState : x.exponent <= u.exponent =>
            Solves(G(u.exponent), x) /\ Solves(G(t.exponent), x)
      BY <1>1, <1>2, <2>2, <3>1
    <3>3. G(u.exponent)[u] = G(t.exponent)[u]
      BY <3>1, <3>2, LoopUnique
    <3>4. whole[u] = G(u.exponent)[u]
      BY <3>1
    <3>5. QED
      BY <2>1, <2>3, <2>5, <3>3, <3>4 DEF Solves, u
  <2>6. QED
    BY <2>4, <2>5
<1>4. IsLoop(whole)
  <2> DEFINE right == [t \in LoopState |->
                         IF t.exponent = 0 THEN t.result
                         ELSE whole[LoopBody(t)]]
  <2>1. ASSUME NEW t \in LoopState
        PROVE  whole[t] = right[t]
    <3>1. Solves(whole, t)
      BY <1>3
    <3> HIDE DEF whole
    <3>2. QED
      BY <3>1 DEF Solves
  <2>2. whole = right
    BY <2>1
  <2>3. QED
    BY <2>2 DEF IsLoop
<1>5. PowLoop = CHOOSE g : IsLoop(g)
  BY DEF PowLoop, IsLoop
<1>6. IsLoop(PowLoop)
  BY <1>4, <1>5
<1>7. QED
  BY <1>6 DEF IsLoop, Solves

\* A product of shares is a share, at most each factor.
LEMMA ShareOfShare ==
  ASSUME NEW a \in Nat, NEW b \in 0..SCALE
  PROVE  (a * b) \div SCALE \in Nat /\ (a * b) \div SCALE <= a
<1>1. SCALE \in Nat \ {0}
  BY Scale
<1>2. a * b \in Nat /\ a * b <= a * SCALE
  <2>1. PICK d \in Nat : SCALE = b + d
    BY <1>1
  <2>2. a * SCALE = a * b + a * d /\ a * d \in Nat
    BY <2>1
  <2>3. QED
    BY <2>2
<1>3. PICK q : q = (a * b) \div SCALE
  OBVIOUS
<1>4. q \in Nat /\ q * SCALE <= a * b
  BY <1>1, <1>2, <1>3
<1>5. q * SCALE <= a * SCALE
  BY <1>1, <1>2, <1>4
<1>6. q <= a
  BY <1>1, <1>4, <1>5
<1>7. QED
  BY <1>3, <1>4, <1>6


\* Whatever the exponent, the loop never raises its result; and the power of
\* a share is at most the share, unless the exponent is zero.
LEMMA PowerIsShare ==
  ASSUME NEW s \in LoopState, s.base_ppm <= SCALE, s.result <= SCALE
  PROVE  /\ PowLoop[s] \in Nat /\ PowLoop[s] <= s.result
         /\ s.exponent # 0 => PowLoop[s] <= s.base_ppm
<1> DEFINE Small(t) == t.base_ppm <= SCALE /\ t.result <= SCALE
           Holds(t) == /\ PowLoop[t] \in Nat /\ PowLoop[t] <= t.result
                       /\ t.exponent # 0 => PowLoop[t] <= t.base_ppm
           Q == {n \in Nat : \A t \in LoopState :
                   t.exponent <= n /\ Small(t) => Holds(t)}
<1>1. ASSUME NEW t \in LoopState
      PROVE  t.base_ppm \in Nat /\ t.exponent \in Nat /\ t.result \in Nat
  BY DEF LoopState
<1>2. 0 \in Q
  <2>1. ASSUME NEW t \in LoopState, t.exponent <= 0
        PROVE  Holds(t)
    <3>1. t.exponent = 0
      BY <1>1, <2>1
    <3>2. PowLoop[t] = t.result
      BY <3>1, LoopEquation DEF Solves
    <3>3. QED
      BY <1>1, <3>1, <3>2
  <2>2. QED
    BY <2>1
<1>3. ASSUME NEW n \in Nat, n \in Q
      PROVE  n + 1 \in Q
  <2>1. ASSUME NEW t \in LoopState, t.exponent <= n + 1, Small(t)
        PROVE  Holds(t)
    <3>1. CASE t.exponent = 0
      <4>1. t.exponent <= n
        BY <3>1
      <4>2. QED
        BY <1>3, <2>1, <4>1
    <3>2. CASE t.exponent # 0
      <4> DEFINE u == LoopBody(t)
      <4>1. u \in LoopState /\ u.exponent <= n
        BY <1>1, <2>1, <3>2, BodyTypes
      <4>2. u.base_ppm <= t.base_ppm
        <5>1. u.base_ppm = (t.base_ppm * t.base_ppm) \div SCALE
          BY DEF LoopBody
        <5>2. t.base_ppm \in 0..SCALE
          BY <1>1, <2>1, Scale
        <5>3. QED
          BY <1>1, <5>1, <5>2, ShareOfShare
      <4>3. /\ u.result <= t.result
            /\ t.exponent % 2 = 1 => u.result <= t.base_ppm
        <5>1. CASE t.exponent % 2 = 1
          <6>1. u.result = (t.result * t.base_ppm) \div SCALE
            BY <5>1 DEF LoopBody
          <6>2. t.base_ppm \in 0..SCALE /\ t.result \in 0..SCALE
            BY <1>1, <2>1, Scale
          <6>3. t.result * t.base_ppm = t.base_ppm * t.result
            BY <1>1
          <6>4. QED
            BY <1>1, <6>1, <6>2, <6>3, ShareOfShare
        <5>2. CASE t.exponent % 2 # 1
          <6>1. u.result = t.result
            BY <5>2 DEF LoopBody
          <6>2. QED
            BY <1>1, <5>2, <6>1
        <5>3. QED
          BY <5>1, <5>2
      <4>4. PowLoop[t] = PowLoop[u]
        BY <3>2, LoopEquation DEF Solves
      <4>5. t.exponent % 2 # 1 => u.exponent # 0
        <5>1. u.exponent = t.exponent \div 2
          BY DEF LoopBody
        <5>2. QED
          BY <1>1, <3>2, <5>1
      <4> HIDE DEF u
      <4>6. u.base_ppm \in Nat /\ u.exponent \in Nat /\ u.result \in Nat
        BY <1>1, <4>1
      <4>7. Small(u)
        BY <1>1, <2>1, <4>2, <4>3, <4>6, Scale
      <4>8. Holds(u)
        BY <1>3, <4>1, <4>7
      <4>9. QED
        BY <1>1, <4>2, <4>3, <4>4, <4>5, <4>6, <4>8
    <3>3. QED
      BY <3>1, <3>2
  <2>2. QED
    BY <2>1
<1>4. s.exponent \in Q
  <2>1. s.exponent \in Nat
    BY <1>1
  <2> HIDE DEF Q
  <2>2. QED
    BY <1>2, <1>3, <2>1, NaturalsInduct
<1>5. s.exponent <= s.exponent
  BY <1>1
<1>6. QED
  BY <1>4, <1>5

\* twap_alpha_for_slot_delta: an observation of a later slot weighs at least
\* one slot's part, and at most all.
LEMMA AlphaBounds ==
  ASSUME NEW delta \in Nat \ {0}
  PROVE  AlphaForSlotDelta(delta) \in TwapAlpha..SCALE
<1> DEFINE s == [base_ppm |-> SCALE - TwapAlpha, exponent |-> delta,
                 result |-> SCALE]
<1>1. s \in LoopState
  BY Scale DEF LoopState
<1>2. PowLoop[s] \in Nat /\ PowLoop[s] <= SCALE - TwapAlpha
  <2>1. s.base_ppm <= SCALE /\ s.result <= SCALE /\ s.exponent # 0
    BY Scale
  <2>2. PowLoop[s] \in Nat /\ PowLoop[s] <= s.base_ppm
    <3> HIDE DEF s
    <3>1. QED
      BY <1>1, <2>1, PowerIsShare
  <2>3. QED
    BY <2>2
<1>3. AlphaForSlotDelta(delta) = SCALE - PowLoop[s]
  BY DEF AlphaForSlotDelta, FixedPointPow
<1> HIDE DEF s
<1>4. QED
  BY <1>2, <1>3, Scale
-----------------------------------------------------------------------------
(***************************************************************************)
(* Weighing an observation.                                                *)
(***************************************************************************)

\* Two quotients rounded down lose less than two divisors together.
LEMMA FloorParts ==
  ASSUME NEW x \in Nat, NEW y \in Nat, NEW q,
         q = (x \div SCALE) + (y \div SCALE)
  PROVE  q \in Nat /\ q * SCALE <= x + y /\ x + y - 2 * SCALE < q * SCALE
<1>1. PICK i : i = x \div SCALE
  OBVIOUS
<1>2. PICK j : j = y \div SCALE
  OBVIOUS
<1>3. /\ i \in Nat /\ i * SCALE <= x /\ x - SCALE < i * SCALE
      /\ j \in Nat /\ j * SCALE <= y /\ y - SCALE < j * SCALE
  BY <1>1, <1>2, Scale
<1>4. q = i + j
  BY <1>1, <1>2
<1>5. (i + j) * SCALE = i * SCALE + j * SCALE
  BY <1>3, Scale
<1>6. i * SCALE \in Nat /\ j * SCALE \in Nat
  BY <1>3, Scale
<1>7. QED
  BY <1>3, <1>4, <1>5, <1>6, Scale

\* Products compare as their factors do.
LEMMA ProductMonotone ==
  ASSUME NEW a \in Int, NEW b \in Int, NEW c \in Nat, a <= b
  PROVE  a * c \in Int /\ b * c \in Int /\ a * c <= b * c
<1>1. PICK d \in Nat : b = a + d
  <2>1. b - a \in Nat /\ b = a + (b - a)
    OBVIOUS
  <2>2. QED
    BY <2>1
<1>2. b * c = a * c + d * c /\ d * c \in Nat /\ a * c \in Int
  BY <1>1
<1>3. QED
  BY <1>2

\* A multiple of the scale below another's.
LEMMA ScaleCancel ==
  ASSUME NEW a \in Int, NEW b \in Int, a * SCALE <= b * SCALE
  PROVE  a <= b
<1>1. SUFFICES ASSUME b + 1 <= a
               PROVE  FALSE
  OBVIOUS
<1>2. (b + 1) * SCALE <= a * SCALE /\ b * SCALE \in Int /\ a * SCALE \in Int
  BY <1>1, Scale, ProductMonotone
<1>3. (b + 1) * SCALE = b * SCALE + SCALE
  BY Scale
<1>4. QED
  BY <1>2, <1>3, Scale

\* A price is divided between the two weights.
LEMMA Divided ==
  ASSUME NEW k \in Int, NEW alpha \in 0..SCALE
  PROVE  k * (SCALE - alpha) + k * alpha = k * SCALE
BY Scale

\* ewma_next_price: the average goes towards the price and not past it; the
\* two roundings take it away by one part at most.
LEMMA EwmaFollows ==
  ASSUME NEW previous \in Nat, NEW observed \in Nat, NEW alpha \in 0..SCALE
  PROVE  LET next == EwmaNextPrice(previous, observed, alpha)
         IN  /\ next \in Nat
             /\ next <= AtLeast(previous, observed)
             /\ next >= AtMost(previous, observed) - 1
<1>1. alpha \in Nat /\ SCALE - alpha \in Nat /\ SCALE \in Nat \ {0}
  BY Scale
<1>2. PICK x \in Nat : x = previous * (SCALE - alpha)
  BY <1>1
<1>3. PICK y \in Nat : y = observed * alpha
  BY <1>1
<1>4. PICK next : next = (x \div SCALE) + (y \div SCALE)
  OBVIOUS
<1>5. next = EwmaNextPrice(previous, observed, alpha)
  BY <1>2, <1>3, <1>4 DEF EwmaNextPrice
<1>6. next \in Nat /\ next * SCALE <= x + y /\ x + y - 2 * SCALE < next * SCALE
  BY <1>4, FloorParts
<1>7. next <= AtLeast(previous, observed)
  <2>1. PICK k \in Nat : k = AtLeast(previous, observed)
    BY DEF AtLeast
  <2>2. previous <= k /\ observed <= k
    BY <2>1 DEF AtLeast
  <2>3. x <= k * (SCALE - alpha) /\ k * (SCALE - alpha) \in Int
    BY <1>1, <1>2, <2>2, ProductMonotone
  <2>4. y <= k * alpha /\ k * alpha \in Int
    BY <1>1, <1>3, <2>2, ProductMonotone
  <2>5. k * (SCALE - alpha) + k * alpha = k * SCALE
    BY Divided
  <2>6. next * SCALE <= k * SCALE
    <3>1. next * SCALE \in Int /\ k * SCALE \in Int
      BY <1>1, <1>6
    <3>2. QED
      BY <1>6, <2>3, <2>4, <2>5, <3>1
  <2>7. QED
    BY <1>6, <2>1, <2>6, ScaleCancel
<1>8. next >= AtMost(previous, observed) - 1
  <2>1. PICK k \in Nat : k = AtMost(previous, observed)
    BY DEF AtMost
  <2>2. k <= previous /\ k <= observed
    BY <2>1 DEF AtMost
  <2>3. k * (SCALE - alpha) <= x /\ k * (SCALE - alpha) \in Int
    BY <1>1, <1>2, <2>2, ProductMonotone
  <2>4. k * alpha <= y /\ k * alpha \in Int
    BY <1>1, <1>3, <2>2, ProductMonotone
  <2>5. k * (SCALE - alpha) + k * alpha = k * SCALE
    BY Divided
  <2>6. (k - 2) * SCALE < next * SCALE
    <3>1. next * SCALE \in Int /\ k * SCALE \in Int
      BY <1>1, <1>6
    <3>2. (k - 2) * SCALE = k * SCALE - 2 * SCALE
      BY <1>1
    <3>3. QED
      BY <1>1, <1>6, <2>3, <2>4, <2>5, <3>1, <3>2
  <2>7. k - 2 < next
    <3>1. ~(next <= k - 2)
      <4>1. SUFFICES ASSUME next <= k - 2
                     PROVE  FALSE
        OBVIOUS
      <4>2. next * SCALE <= (k - 2) * SCALE /\ next * SCALE \in Int
            /\ (k - 2) * SCALE \in Int
        BY <1>1, <1>6, <4>1, ProductMonotone
      <4>3. QED
        BY <2>6, <4>2
    <3>2. QED
      BY <1>6, <3>1
  <2>8. QED
    BY <1>6, <2>1, <2>7
<1>9. QED
  BY <1>5, <1>6, <1>7, <1>8

\* What an update cuts, the least weight of an observation makes good once
\* the average is below the prices by the rounding.
LEMMA RoundingCovers ==
  ASSUME NEW alpha \in TwapAlpha..SCALE
  PROVE  Rounding \in Nat /\ 2 * SCALE <= Rounding * alpha
<1>1. PICK q : q = (2 * SCALE) \div TwapAlpha
  OBVIOUS
<1>2. q \in Nat /\ 2 * SCALE - TwapAlpha < q * TwapAlpha
  BY <1>1, Scale
<1>3. Rounding = q + 2
  BY <1>1 DEF Rounding
<1>4. /\ (q + 2) * TwapAlpha = q * TwapAlpha + 2 * TwapAlpha
      /\ q * TwapAlpha \in Int
  BY <1>2, Scale
<1>5. 2 * SCALE <= (q + 2) * TwapAlpha
  BY <1>2, <1>4, Scale
<1>6. (q + 2) * TwapAlpha <= (q + 2) * alpha
  <2>1. TwapAlpha * (q + 2) <= alpha * (q + 2)
    BY <1>2, Scale, ProductMonotone
  <2>2. /\ TwapAlpha * (q + 2) = (q + 2) * TwapAlpha
        /\ alpha * (q + 2) = (q + 2) * alpha
    BY <1>2, Scale
  <2>3. QED
    BY <2>1, <2>2
<1>7. (q + 2) * alpha \in Int /\ (q + 2) * TwapAlpha \in Int
  BY <1>2, Scale
<1>8. QED
  BY <1>2, <1>3, <1>5, <1>6, <1>7, Scale

\* An average that is not below the prices by more than the rounding stays so.
LEMMA EwmaStaysInRange ==
  ASSUME NEW previous \in Nat, NEW observed \in Nat,
         NEW alpha \in TwapAlpha..SCALE, NEW least \in Nat,
         least <= observed, least - Rounding <= previous
  PROVE  least - Rounding <= EwmaNextPrice(previous, observed, alpha)
<1>1. /\ alpha \in Nat /\ SCALE - alpha \in Nat /\ SCALE \in Nat \ {0}
      /\ alpha \in 0..SCALE
  BY Scale
<1>2. PICK x \in Nat : x = previous * (SCALE - alpha)
  BY <1>1
<1>3. PICK y \in Nat : y = observed * alpha
  BY <1>1
<1>4. PICK next : next = (x \div SCALE) + (y \div SCALE)
  OBVIOUS
<1>5. next = EwmaNextPrice(previous, observed, alpha)
  BY <1>2, <1>3, <1>4 DEF EwmaNextPrice
<1>6. next \in Nat /\ next * SCALE <= x + y /\ x + y - 2 * SCALE < next * SCALE
  BY <1>4, FloorParts
<1>7. PICK r \in Nat : r = Rounding
  BY RoundingCovers
<1>8. 2 * SCALE <= r * alpha /\ r * alpha \in Int
  BY <1>1, <1>7, RoundingCovers
<1>9. PICK k \in Int : k = least - r
  BY <1>7
<1>10. k * (SCALE - alpha) <= x /\ k * (SCALE - alpha) \in Int
  BY <1>1, <1>2, <1>7, <1>9, ProductMonotone
<1>11. least * alpha <= y /\ least * alpha \in Int
  BY <1>1, <1>3, ProductMonotone
<1>12. k * (SCALE - alpha) + k * alpha = k * SCALE
  BY <1>1, Divided
<1>13. least * alpha = k * alpha + r * alpha /\ k * alpha \in Int
  BY <1>1, <1>9
<1>14. k * SCALE <= next * SCALE
  <2>1. next * SCALE \in Int /\ k * SCALE \in Int
    BY <1>1, <1>6
  <2>2. QED
    BY <1>1, <1>6, <1>8, <1>10, <1>11, <1>12, <1>13, <2>1
<1>15. k <= next
  BY <1>6, <1>14, ScaleCancel
<1>16. QED
  BY <1>5, <1>7, <1>9, <1>15
-----------------------------------------------------------------------------
(***************************************************************************)
(* The power in the weight against the power it stands for. The program    *)
(* truncates at every round of a loop by repeated squaring; a result r, in *)
(* parts of the scale, is compared with the exact fraction x/y by products *)
(* of integers.                                                            *)
(***************************************************************************)

\* A power, exactly: what a result of the loop stands for.
Power(u, n) ==
  LET power[k \in Nat] == IF k = 0 THEN 1 ELSE u * power[k - 1] IN power[n]

\* Its definition has a solution.
LEMMA PowerEquation ==
  ASSUME NEW u \in Nat, NEW n \in Nat
  PROVE  Power(u, n) = IF n = 0 THEN 1 ELSE u * Power(u, n - 1)
<1> DEFINE IsPower(f) == f = [k \in Nat |-> IF k = 0 THEN 1 ELSE u * f[k - 1]]
           Upto(m, f) == \A k \in Nat : k <= m =>
                           f[k] = IF k = 0 THEN 1 ELSE u * f[k - 1]
           Q == {m \in Nat : \E f : Upto(m, f)}
           G(m) == CHOOSE f : Upto(m, f)
           whole == [k \in Nat |-> G(k)[k]]
<1>1. 0 \in Q
  <2>1. Upto(0, [k \in Nat |-> 1])
    OBVIOUS
  <2>2. QED
    BY <2>1
<1>2. ASSUME NEW m \in Nat, m \in Q
      PROVE  m + 1 \in Q
  <2>1. PICK f : Upto(m, f)
    BY <1>2
  <2> DEFINE h == [k \in Nat |-> IF k = 0 THEN 1 ELSE u * f[k - 1]]
  <2>2. Upto(m + 1, h)
    <3>1. SUFFICES ASSUME NEW k \in Nat, k <= m + 1, k # 0
                   PROVE  h[k] = u * h[k - 1]
      OBVIOUS
    <3>2. k - 1 \in Nat /\ k - 1 <= m
      BY <3>1
    <3>3. h[k] = u * f[k - 1]
      BY <3>1
    <3>4. f[k - 1] = h[k - 1]
      BY <2>1, <3>2
    <3>5. QED
      BY <3>3, <3>4
  <2> HIDE DEF h, Upto
  <2>3. QED
    BY <2>2
<1>3. ASSUME NEW m \in Nat PROVE Upto(m, G(m))
  <2>1. m \in Q
    <3> HIDE DEF Q
    <3>1. QED
      BY <1>1, <1>2, NaturalsInduct
  <2> HIDE DEF Upto
  <2>2. QED
    BY <2>1
<1>4. ASSUME NEW m \in Nat, NEW k \in Nat, k <= m
      PROVE  G(m)[k] = G(k)[k]
  <2> HIDE DEF G
  <2> DEFINE R == {j \in Nat : j <= k => G(m)[j] = G(k)[j]}
  <2>1. 0 \in R
    BY <1>3, <1>4
  <2>2. ASSUME NEW j \in Nat, j \in R
        PROVE  j + 1 \in R
    <3>1. SUFFICES ASSUME j + 1 <= k
                   PROVE  G(m)[j + 1] = G(k)[j + 1]
      OBVIOUS
    <3>2. G(m)[j] = G(k)[j]
      BY <2>2, <3>1
    <3>3. j + 1 \in Nat /\ j + 1 # 0 /\ (j + 1) - 1 = j /\ j + 1 <= m
      BY <1>4, <3>1
    <3>4. /\ G(m)[j + 1] = u * G(m)[(j + 1) - 1]
          /\ G(k)[j + 1] = u * G(k)[(j + 1) - 1]
      BY <1>3, <3>1, <3>3
    <3>5. QED
      BY <3>2, <3>3, <3>4
  <2>3. k \in R
    <3> HIDE DEF R
    <3>1. QED
      BY <2>1, <2>2, NaturalsInduct
  <2>4. QED
    BY <2>3
<1>5. ASSUME NEW k \in Nat
      PROVE  whole[k] = IF k = 0 THEN 1 ELSE u * whole[k - 1]
  <2> HIDE DEF G
  <2>1. G(k)[k] = IF k = 0 THEN 1 ELSE u * G(k)[k - 1]
    BY <1>3
  <2>2. k # 0 => k - 1 \in Nat /\ G(k)[k - 1] = G(k - 1)[k - 1]
    BY <1>4
  <2>3. QED
    BY <2>1, <2>2
<1>6. IsPower(whole)
  <2> DEFINE right == [k \in Nat |-> IF k = 0 THEN 1 ELSE u * whole[k - 1]]
  <2>1. ASSUME NEW k \in Nat
        PROVE  whole[k] = right[k]
    <3> HIDE DEF whole
    <3>1. QED
      BY <1>5
  <2>2. whole = right
    BY <2>1
  <2>3. QED
    BY <2>2
<1> DEFINE power == CHOOSE f : IsPower(f)
<1>7. IsPower(power)
  <2> HIDE DEF whole, IsPower
  <2>1. QED
    BY <1>6
<1>8. ASSUME NEW k \in Nat PROVE Power(u, k) = power[k]
  BY DEF Power
<1> HIDE DEF power
<1>9. QED
  BY <1>7, <1>8

\* Powers are natural numbers, each the next factor times the last.
LEMMA PowerStep ==
  ASSUME NEW u \in Nat, NEW n \in Nat
  PROVE  /\ Power(u, n) \in Nat
         /\ Power(u, 0) = 1 /\ Power(u, n + 1) = u * Power(u, n)
<1>1. Power(u, 0) = 1
  BY PowerEquation
<1>2. ASSUME NEW m \in Nat PROVE Power(u, m + 1) = u * Power(u, m)
  <2>1. m + 1 \in Nat /\ m + 1 # 0 /\ (m + 1) - 1 = m
    OBVIOUS
  <2>2. Power(u, m + 1) = u * Power(u, (m + 1) - 1)
    BY <2>1, PowerEquation
  <2>3. QED
    BY <2>1, <2>2
<1> DEFINE Q == {m \in Nat : Power(u, m) \in Nat}
<1>3. n \in Q
  <2>1. 0 \in Q
    BY <1>1
  <2>2. ASSUME NEW m \in Nat, m \in Q PROVE m + 1 \in Q
    <3>1. Power(u, m) \in Nat
      BY <2>2
    <3>2. u * Power(u, m) \in Nat
      BY <3>1
    <3>3. QED
      BY <1>2, <3>2
  <2> HIDE DEF Q
  <2>3. QED
    BY <2>1, <2>2, NaturalsInduct
<1>4. QED
  BY <1>1, <1>2, <1>3

\* Exponents add up.
LEMMA PowerAdd ==
  ASSUME NEW u \in Nat, NEW m \in Nat, NEW n \in Nat
  PROVE  Power(u, m + n) = Power(u, m) * Power(u, n)
<1> DEFINE Q == {k \in Nat : Power(u, m + k) = Power(u, m) * Power(u, k)}
<1>1. 0 \in Q
  <2>1. Power(u, m) \in Nat /\ Power(u, 0) = 1
    BY PowerStep
  <2>2. m + 0 = m
    OBVIOUS
  <2>3. QED
    BY <2>1, <2>2
<1>2. ASSUME NEW k \in Nat, k \in Q PROVE k + 1 \in Q
  <2>1. m + (k + 1) = (m + k) + 1 /\ m + k \in Nat
    OBVIOUS
  <2>2. Power(u, m + (k + 1)) = u * Power(u, m + k)
    BY <2>1, PowerStep
  <2>3. PICK p \in Nat : p = Power(u, m)
    BY PowerStep
  <2>4. PICK q \in Nat : q = Power(u, k)
    BY PowerStep
  <2>5. Power(u, m + k) = p * q /\ Power(u, k + 1) = u * q
    BY <1>2, <2>3, <2>4, PowerStep
  <2>6. u * (p * q) = p * (u * q)
    OBVIOUS
  <2>7. QED
    BY <2>2, <2>3, <2>5, <2>6
<1>3. n \in Q
  <2> HIDE DEF Q
  <2>1. QED
    BY <1>1, <1>2, NaturalsInduct
<1>4. QED
  BY <1>3

\* A power of a square is one of twice the exponent.
LEMMA PowerOfSquare ==
  ASSUME NEW u \in Nat, NEW n \in Nat
  PROVE  Power(u * u, n) = Power(u, 2 * n)
<1> DEFINE Q == {k \in Nat : Power(u * u, k) = Power(u, 2 * k)}
<1>1. 0 \in Q
  <2>1. u * u \in Nat /\ 2 * 0 = 0
    OBVIOUS
  <2>2. QED
    BY <2>1, PowerStep
<1>2. ASSUME NEW k \in Nat, k \in Q PROVE k + 1 \in Q
  <2>1. 2 * (k + 1) = (2 * k + 1) + 1 /\ 2 * k \in Nat /\ 2 * k + 1 \in Nat
        /\ u * u \in Nat
    OBVIOUS
  <2>2. PICK p \in Nat : p = Power(u, 2 * k)
    BY <2>1, PowerStep
  <2>3. Power(u, 2 * (k + 1)) = u * (u * p)
    BY <2>1, <2>2, PowerStep
  <2>4. Power(u * u, k + 1) = (u * u) * p
    BY <1>2, <2>1, <2>2, PowerStep
  <2>5. u * (u * p) = (u * u) * p
    OBVIOUS
  <2>6. QED
    BY <2>3, <2>4, <2>5
<1>3. n \in Q
  <2> HIDE DEF Q
  <2>1. QED
    BY <1>1, <1>2, NaturalsInduct
<1>4. QED
  BY <1>3

\* A result of the loop against the fraction x/y that it stands for, in parts
\* of the scale: never above it, and below it by a bounded part of what is
\* missing from one.
Rounds(result, x, y) ==
  /\ x \in Nat /\ y \in Nat \ {0} /\ x <= y
  /\ result * y <= SCALE * x
  /\ TwapAlpha * (SCALE * x - result * y) <= 2 * SCALE * (y - x)

\* Its base against u/v: there is room for one more rounding.
RoundsBase(base_ppm, u, v) ==
  /\ u \in Nat /\ v \in Nat \ {0} /\ u <= v
  /\ base_ppm * v <= SCALE * u
  /\ TwapAlpha * (SCALE * u - base_ppm * v) + TwapAlpha * v
       <= 2 * SCALE * (v - u)
  /\ TwapAlpha * v <= SCALE * (v - u)

\* What RoundsBase says, with names for the differences.
LEMMA BaseParts ==
  ASSUME NEW b \in Nat, NEW u, NEW v, RoundsBase(b, u, v)
  PROVE  \E d, e, k, l \in Nat :
           /\ v = u + d /\ SCALE * u = b * v + e
           /\ 2 * (SCALE * d) = TwapAlpha * e + TwapAlpha * v + k
           /\ SCALE * d = TwapAlpha * v + l
<1>1. u \in Nat /\ v \in Nat /\ u <= v /\ SCALE \in Nat /\ TwapAlpha \in Nat
  BY Scale DEF RoundsBase
<1>2. PICK d \in Nat : d = v - u
  BY <1>1
<1>3. SCALE * u \in Nat /\ b * v \in Nat
  BY <1>1
<1>4. PICK e \in Nat : e = SCALE * u - b * v
  BY <1>3 DEF RoundsBase
<1>5. /\ SCALE * d \in Nat /\ TwapAlpha * e \in Nat /\ TwapAlpha * v \in Nat
  BY <1>1
<1>6. 2 * SCALE * d = 2 * (SCALE * d)
  BY <1>1
<1>7. /\ TwapAlpha * e + TwapAlpha * v <= 2 * SCALE * d
      /\ TwapAlpha * v <= SCALE * d
  BY <1>2, <1>4 DEF RoundsBase
<1>8. PICK k \in Nat : k = 2 * (SCALE * d) - (TwapAlpha * e + TwapAlpha * v)
  BY <1>5, <1>6, <1>7
<1>9. PICK l \in Nat : l = SCALE * d - TwapAlpha * v
  BY <1>5, <1>7
<1>10. /\ v = u + d /\ SCALE * u = b * v + e
       /\ 2 * (SCALE * d) = TwapAlpha * e + TwapAlpha * v + k
       /\ SCALE * d = TwapAlpha * v + l
  BY <1>1, <1>2, <1>3, <1>4, <1>5, <1>8, <1>9
<1>11. QED
  BY <1>10

\* The same of a result.
LEMMA ResultParts ==
  ASSUME NEW r \in Nat, NEW x, NEW y, Rounds(r, x, y)
  PROVE  \E z, h, j \in Nat :
           /\ y = x + z /\ SCALE * x = r * y + h
           /\ 2 * (SCALE * z) = TwapAlpha * h + j
<1>1. x \in Nat /\ y \in Nat /\ x <= y /\ SCALE \in Nat /\ TwapAlpha \in Nat
  BY Scale DEF Rounds
<1>2. PICK z \in Nat : z = y - x
  BY <1>1
<1>3. SCALE * x \in Nat /\ r * y \in Nat
  BY <1>1
<1>4. PICK h \in Nat : h = SCALE * x - r * y
  BY <1>3 DEF Rounds
<1>5. SCALE * z \in Nat /\ TwapAlpha * h \in Nat
  BY <1>1
<1>6. 2 * SCALE * z = 2 * (SCALE * z)
  BY <1>1
<1>7. TwapAlpha * h <= 2 * SCALE * z
  BY <1>2, <1>4 DEF Rounds
<1>8. PICK j \in Nat : j = 2 * (SCALE * z) - TwapAlpha * h
  BY <1>5, <1>6, <1>7
<1>9. /\ y = x + z /\ SCALE * x = r * y + h
      /\ 2 * (SCALE * z) = TwapAlpha * h + j
  BY <1>1, <1>2, <1>3, <1>4, <1>5, <1>8
<1>10. QED
  BY <1>9

\* A quotient and its remainder.
LEMMA Quotient ==
  ASSUME NEW n \in Nat, NEW q, q = n \div SCALE
  PROVE  /\ q \in Nat
         /\ \E m \in Nat : n = q * SCALE + m /\ m <= SCALE
<1>1. q \in Nat /\ q * SCALE <= n /\ n - SCALE < q * SCALE
  BY Scale
<1>2. q * SCALE \in Nat
  BY <1>1, Scale
<1>3. PICK m \in Nat : m = n - q * SCALE
  BY <1>1, <1>2
<1>4. n = q * SCALE + m /\ m <= SCALE
  BY <1>1, <1>2, <1>3, Scale
<1>5. QED
  BY <1>1, <1>4

\* A round of the loop squares its base.
LEMMA SquareRounds ==
  ASSUME NEW b \in Nat, NEW u, NEW v, RoundsBase(b, u, v),
         NEW q, q = (b * b) \div SCALE
  PROVE  q \in Nat /\ RoundsBase(q, u * u, v * v)
<1>1. PICK d, e, k, l \in Nat :
        /\ v = u + d /\ SCALE * u = b * v + e
        /\ 2 * (SCALE * d) = TwapAlpha * e + TwapAlpha * v + k
        /\ SCALE * d = TwapAlpha * v + l
  BY BaseParts
<1>2. u \in Nat /\ v \in Nat \ {0}
  BY DEF RoundsBase
<1>3. PICK s \in Nat : s = SCALE
  BY Scale
<1>4. PICK a \in Nat : a = TwapAlpha
  BY Scale
<1>5. b * b \in Nat
  OBVIOUS
<1>6. PICK m \in Nat : b * b = q * s + m /\ m <= s
  BY <1>3, <1>5, Quotient
<1>7. q \in Nat
  BY <1>5, Quotient
<1>8. PICK n \in Nat : n = b * v /\ s * u = n + e
  BY <1>1, <1>2, <1>3
\* The missing part of the square.
<1>9. s * (s * (u * u)) = s * (q * (v * v)) + (e * (2 * n + e) + m * (v * v))
  <2>1. s * (s * (u * u)) = (s * u) * (s * u)
    BY <1>2
  <2>2. (s * u) * (s * u) = n * n + e * (2 * n + e)
    <3>1. s * u = n + e
      BY <1>8
    <3>2. (n + e) * (n + e) = n * n + e * (2 * n + e)
      OBVIOUS
    <3>3. QED
      BY <3>1, <3>2
  <2>3. n * n = (b * b) * (v * v)
    BY <1>2, <1>8
  <2>4. (q * s + m) * (v * v) = s * (q * (v * v)) + m * (v * v)
    BY <1>2, <1>7
  <2>5. QED
    <3>1. s * (s * (u * u)) = n * n + e * (2 * n + e)
      BY <2>1, <2>2
    <3>2. n * n = s * (q * (v * v)) + m * (v * v)
      BY <1>6, <2>3, <2>4
    <3>3. e * (2 * n + e) \in Nat /\ m * (v * v) \in Nat
           /\ s * (q * (v * v)) \in Nat
      BY <1>2, <1>7
    <3>4. QED
      BY <3>1, <3>2, <3>3
<1>10. e * (2 * n + e) + m * (v * v) <= s * (2 * (u * e) + v * v)
  <2>1. PICK i \in Nat : s = m + i
    <3>1. s - m \in Nat /\ s = m + (s - m)
      BY <1>6
    <3>2. QED
      BY <3>1
  <2>2. s * (v * v) = m * (v * v) + i * (v * v) /\ i * (v * v) \in Nat
    BY <1>2, <2>1
  <2>3. s * (2 * (u * e)) = e * (2 * n + e) + e * e
    <3>1. s * (2 * (u * e)) = 2 * ((s * u) * e)
      BY <1>2
    <3>2. 2 * ((n + e) * e) = e * (2 * n + e) + e * e
      OBVIOUS
    <3>3. QED
      BY <1>8, <3>1, <3>2
  <2>4. /\ s * (2 * (u * e) + v * v) = s * (2 * (u * e)) + s * (v * v)
        /\ e * e \in Nat /\ m * (v * v) \in Nat /\ e * (2 * n + e) \in Nat
    BY <1>2
  <2>5. QED
    BY <2>2, <2>3, <2>4
<1>11. PICK f \in Int : f = s * (u * u) - q * (v * v)
  BY <1>2, <1>7
<1>12. s * f = e * (2 * n + e) + m * (v * v)
  <2>1. s * f = s * (s * (u * u)) - s * (q * (v * v))
    BY <1>2, <1>7, <1>11
  <2>2. /\ s * (s * (u * u)) \in Nat /\ s * (q * (v * v)) \in Nat
        /\ e * (2 * n + e) \in Nat /\ m * (v * v) \in Nat
    BY <1>2, <1>7
  <2>3. QED
    BY <1>9, <2>1, <2>2
<1>13. 0 <= f
  <2>1. e * (2 * n + e) \in Nat /\ m * (v * v) \in Nat
    BY <1>2
  <2>2. 0 * s <= f * s
    BY <1>12, <2>1
  <2>3. QED
    BY <1>3, <2>2, ScaleCancel
<1>14. f <= 2 * (u * e) + v * v
  <2>1. f * s <= (2 * (u * e) + v * v) * s
    <3>1. /\ f * s = s * f
          /\ (2 * (u * e) + v * v) * s = s * (2 * (u * e) + v * v)
      BY <1>2
    <3>2. QED
      BY <1>10, <1>12, <3>1
  <2>2. 2 * (u * e) + v * v \in Int
    BY <1>2
  <2>3. QED
    BY <1>3, <2>1, <2>2, ScaleCancel
<1>15. a * f + a * (v * v) <= 2 * (s * (v * v - u * u))
  <2>1. a * f <= a * (2 * (u * e) + v * v)
    <3>1. 2 * (u * e) + v * v \in Int
      BY <1>2
    <3>2. f * a <= (2 * (u * e) + v * v) * a
      BY <1>14, <3>1, ProductMonotone
    <3>3. f * a = a * f
      OBVIOUS
    <3>4. (2 * (u * e) + v * v) * a = a * (2 * (u * e) + v * v)
      BY <3>1
    <3>5. QED
      BY <3>2, <3>3, <3>4
  <2>2. a * (2 * (u * e) + v * v) + a * (v * v) + (2 * (d * l) + 2 * (u * k))
          = 2 * (s * (v * v - u * u))
    <3>1. 2 * (s * (v * v - u * u)) = (2 * (s * d)) * (u + v)
      <4>1. v * v - u * u = d * (u + v)
        BY <1>1, <1>2
      <4>2. QED
        BY <1>2, <4>1
    <3>2. (2 * (s * d)) * (u + v)
            = 2 * ((2 * (s * d)) * u) + (2 * (s * d)) * d
      BY <1>1, <1>2
    <3>3. 2 * (s * d) = a * e + a * v + k /\ s * d = a * v + l
      BY <1>1, <1>3, <1>4
    <3>4. 2 * ((a * e + a * v + k) * u) + (2 * (a * v + l)) * d
            = a * (2 * (u * e)) + 2 * ((a * v) * (u + d)) + (2 * (d * l) + 2 * (u * k))
      BY <1>2
    <3>5. 2 * ((a * v) * (u + d)) = a * (v * v) + a * (v * v)
      BY <1>1, <1>2
    <3>6. a * (2 * (u * e) + v * v) = a * (2 * (u * e)) + a * (v * v)
      BY <1>2
    <3>7. a * (2 * (u * e)) \in Int /\ a * (v * v) \in Int /\ d * l \in Int
          /\ u * k \in Int
      BY <1>2
    <3>8. QED
      <4>1. 2 * (s * (v * v - u * u))
              = 2 * ((a * e + a * v + k) * u) + (2 * (a * v + l)) * d
        BY <3>1, <3>2, <3>3
      <4>2. QED
        BY <4>1, <3>4, <3>5, <3>6, <3>7
  <2>3. d * l \in Nat /\ u * k \in Nat
    BY <1>2
  <2>4. a * f \in Int /\ a * (v * v) \in Int
        /\ a * (2 * (u * e) + v * v) \in Int
    BY <1>2
  <2>5. QED
    BY <2>1, <2>2, <2>3, <2>4
<1>16. a * (v * v) <= s * (v * v - u * u)
  <2>1. s * (v * v - u * u) = (s * d) * (u + v)
    <3>1. v * v - u * u = d * (u + v)
      BY <1>1, <1>2
    <3>2. QED
      BY <1>2, <3>1
  <2>2. s * d = a * v + l
    BY <1>1, <1>3, <1>4
  <2>3. (a * v + l) * (u + v) = a * (v * v) + ((a * v) * u + l * (u + v))
    BY <1>2
  <2>4. (a * v) * u + l * (u + v) \in Nat /\ a * (v * v) \in Nat
    BY <1>2
  <2>5. QED
    BY <2>1, <2>2, <2>3, <2>4
<1>17. u * u \in Nat /\ v * v \in Nat \ {0} /\ u * u <= v * v
  <2>1. v * v = u * u + d * (u + v) /\ d * (u + v) \in Nat
    BY <1>1, <1>2
  <2>2. v * v # 0
    BY <1>2
  <2>3. QED
    BY <1>2, <2>1, <2>2
<1>18. q * (v * v) <= s * (u * u)
  <2>1. q * (v * v) \in Int /\ s * (u * u) \in Int
    BY <1>2, <1>7
  <2>2. QED
    BY <1>11, <1>13, <2>1
<1>19. 2 * s * (v * v - u * u) = 2 * (s * (v * v - u * u))
  BY <1>2
<1>20. QED
  BY <1>3, <1>4, <1>7, <1>11, <1>15, <1>16, <1>17, <1>18, <1>19 DEF RoundsBase

\* A round of the loop multiplies the result by the base.
LEMMA ProductRounds ==
  ASSUME NEW r \in Nat, NEW x, NEW y, Rounds(r, x, y),
         NEW b \in Nat, NEW u, NEW v, RoundsBase(b, u, v),
         NEW q, q = (r * b) \div SCALE
  PROVE  q \in Nat /\ Rounds(q, x * u, y * v)
<1>1. PICK d, e, k, l \in Nat :
        /\ v = u + d /\ SCALE * u = b * v + e
        /\ 2 * (SCALE * d) = TwapAlpha * e + TwapAlpha * v + k
        /\ SCALE * d = TwapAlpha * v + l
  BY BaseParts
<1>2. PICK z, h, j \in Nat :
        /\ y = x + z /\ SCALE * x = r * y + h
        /\ 2 * (SCALE * z) = TwapAlpha * h + j
  BY ResultParts
<1>3. /\ u \in Nat /\ v \in Nat \ {0}
      /\ x \in Nat /\ y \in Nat \ {0}
  BY DEF RoundsBase, Rounds
<1>4. PICK s \in Nat : s = SCALE
  BY Scale
<1>5. PICK a \in Nat : a = TwapAlpha
  BY Scale
<1>6. r * b \in Nat
  OBVIOUS
<1>7. q \in Nat
  BY <1>6, Quotient
<1>8. PICK m \in Nat : r * b = q * s + m /\ m <= s
  BY <1>4, <1>6, Quotient
<1>9. s * x = r * y + h /\ s * u = b * v + e
  BY <1>1, <1>2, <1>4
\* The missing part of the product.
<1>10. PICK f \in Int : f = s * (x * u) - q * (y * v)
  BY <1>3, <1>7
<1>11. s * f = (r * y) * e + h * (s * u) + m * (y * v)
  <2>1. s * f = (s * x) * (s * u) - (q * s) * (y * v)
    BY <1>3, <1>7, <1>10
  <2>2. (s * x) * (s * u) = (r * b) * (y * v) + (r * y) * e + h * (s * u)
    <3>1. (r * y + h) * (s * u) = (r * y) * (b * v + e) + h * (s * u)
      BY <1>3, <1>9
    <3>2. (r * y) * (b * v + e) = (r * b) * (y * v) + (r * y) * e
      BY <1>3
    <3>3. QED
      BY <1>9, <3>1, <3>2
  <2>3. (q * s + m) * (y * v) = (q * s) * (y * v) + m * (y * v)
    BY <1>3, <1>7
  <2>4. /\ (q * s) * (y * v) \in Int /\ m * (y * v) \in Int
        /\ (r * y) * e \in Int /\ h * (s * u) \in Int
    BY <1>3, <1>7
  <2>5. QED
    BY <1>8, <2>1, <2>2, <2>3, <2>4
<1>12. 0 <= f
  <2>1. (r * y) * e + h * (s * u) + m * (y * v) \in Nat
    BY <1>3
  <2>2. 0 * s <= f * s
    BY <1>11, <2>1
  <2>3. QED
    BY <1>4, <2>2, ScaleCancel
<1>13. f <= x * e + u * h + y * v
  <2>1. (r * y) * e <= s * (x * e)
    <3>1. (r * y + h) * e = (r * y) * e + h * e /\ h * e \in Nat
      BY <1>3
    <3>2. s * (x * e) = (s * x) * e
      BY <1>3
    <3>3. (r * y) * e \in Int
      BY <1>3
    <3>4. QED
      BY <1>9, <3>1, <3>2, <3>3
  <2>2. m * (y * v) <= s * (y * v)
    <3>1. y * v \in Nat
      BY <1>3
    <3>2. QED
      BY <1>8, <3>1, ProductMonotone
  <2>3. h * (s * u) = s * (u * h)
    BY <1>3
  <2>4. s * (x * e + u * h + y * v) = s * (x * e) + s * (u * h) + s * (y * v)
    BY <1>3
  <2>5. /\ (r * y) * e \in Int /\ m * (y * v) \in Int
        /\ s * (x * e) \in Int /\ s * (u * h) \in Int /\ s * (y * v) \in Int
        /\ x * e + u * h + y * v \in Int
    BY <1>3
  <2>6. s * f <= s * (x * e + u * h + y * v)
    BY <1>11, <2>1, <2>2, <2>3, <2>4, <2>5
  <2>7. /\ s * f = f * s
        /\ s * (x * e + u * h + y * v) = (x * e + u * h + y * v) * s
    BY <1>3
  <2>8. QED
    BY <1>4, <2>5, <2>6, <2>7, ScaleCancel
<1>14. a * f <= 2 * (s * (y * v - x * u))
  <2> DEFINE rest == x * k + u * j + z * (a * e + k)
  <2>1. a * f <= a * (x * e + u * h + y * v)
    <3>1. x * e + u * h + y * v \in Int
      BY <1>3
    <3>2. f * a <= (x * e + u * h + y * v) * a
      BY <1>13, <3>1, ProductMonotone
    <3>3. f * a = a * f
      OBVIOUS
    <3>4. (x * e + u * h + y * v) * a = a * (x * e + u * h + y * v)
      BY <3>1
    <3>5. QED
      BY <3>2, <3>3, <3>4
  <2>2. a * (x * e + u * h + y * v) + rest = 2 * (s * (y * v - x * u))
    <3>1. 2 * (s * (y * v - x * u))
            = x * (2 * (s * d)) + u * (2 * (s * z)) + z * (2 * (s * d))
      <4>1. y * v - x * u = x * d + z * u + z * d
        BY <1>1, <1>2, <1>3
      <4>2. s * (x * d + z * u + z * d) = x * (s * d) + u * (s * z) + z * (s * d)
        BY <1>3
      <4>3. x * (s * d) \in Int /\ u * (s * z) \in Int /\ z * (s * d) \in Int
        BY <1>3
      <4>4. /\ x * (2 * (s * d)) = 2 * (x * (s * d))
            /\ u * (2 * (s * z)) = 2 * (u * (s * z))
            /\ z * (2 * (s * d)) = 2 * (z * (s * d))
        BY <1>3
      <4>5. QED
        BY <4>1, <4>2, <4>3, <4>4
    <3>2. 2 * (s * d) = a * e + a * v + k /\ 2 * (s * z) = a * h + j
      BY <1>1, <1>2, <1>4, <1>5
    <3>3. x * (a * e + a * v + k) + u * (a * h + j) + z * (a * e + a * v + k)
            = a * (x * e) + a * (u * h) + a * ((x + z) * v) + rest
      BY <1>3
    <3>4. a * (x * e + u * h + y * v)
            = a * (x * e) + a * (u * h) + a * (y * v)
      BY <1>3
    <3>5. a * ((x + z) * v) = a * (y * v)
      BY <1>2
    <3>6. /\ a * (x * e) \in Int /\ a * (u * h) \in Int /\ a * (y * v) \in Int
          /\ rest \in Int
      BY <1>3
    <3> HIDE DEF rest
    <3>7. QED
      BY <3>1, <3>2, <3>3, <3>4, <3>5, <3>6
  <2>3. rest \in Nat
    BY <1>3
  <2>4. a * f \in Int /\ a * (x * e + u * h + y * v) \in Int
    BY <1>3
  <2> HIDE DEF rest
  <2>5. QED
    BY <2>1, <2>2, <2>3, <2>4
<1>15. x * u \in Nat /\ y * v \in Nat \ {0} /\ x * u <= y * v
  <2>1. y * v = x * u + (x * d + z * u + z * d)
    BY <1>1, <1>2, <1>3
  <2>2. x * d + z * u + z * d \in Nat /\ x * u \in Nat
    BY <1>3
  <2>3. y * v # 0
    BY <1>3
  <2>4. QED
    BY <2>1, <2>2, <2>3
<1>16. q * (y * v) <= s * (x * u)
  <2>1. q * (y * v) \in Int /\ s * (x * u) \in Int
    BY <1>3, <1>7
  <2>2. QED
    BY <1>10, <1>12, <2>1
<1>17. 2 * s * (y * v - x * u) = 2 * (s * (y * v - x * u))
  BY <1>3
<1>18. QED
  BY <1>4, <1>5, <1>7, <1>10, <1>14, <1>15, <1>16, <1>17 DEF Rounds

\* The loop of fixed_point_pow_ppm, from any of its states: its truncations
\* together keep to the bound of one.
LEMMA LoopRounds ==
  ASSUME NEW s \in LoopState, NEW x, NEW y, Rounds(s.result, x, y),
         NEW u, NEW v, RoundsBase(s.base_ppm, u, v)
  PROVE  Rounds(PowLoop[s], x * Power(u, s.exponent), y * Power(v, s.exponent))
<1> DEFINE Holds(t) ==
      \A x1, y1, u1, v1 \in Nat :
        Rounds(t.result, x1, y1) /\ RoundsBase(t.base_ppm, u1, v1)
          => Rounds(PowLoop[t], x1 * Power(u1, t.exponent),
                    y1 * Power(v1, t.exponent))
           Q == {n \in Nat : \A t \in LoopState : t.exponent <= n => Holds(t)}
<1>1. ASSUME NEW t \in LoopState
      PROVE  t.base_ppm \in Nat /\ t.exponent \in Nat /\ t.result \in Nat
  BY DEF LoopState
<1>2. ASSUME NEW t \in LoopState, t.exponent = 0
      PROVE  Holds(t)
  <2> SUFFICES ASSUME NEW x1 \in Nat, NEW y1 \in Nat, NEW u1 \in Nat,
                      NEW v1 \in Nat, Rounds(t.result, x1, y1)
               PROVE  Rounds(PowLoop[t], x1 * Power(u1, t.exponent),
                             y1 * Power(v1, t.exponent))
    OBVIOUS
  <2>1. PowLoop[t] = t.result
    BY <1>2, LoopEquation DEF Solves
  <2>2. Power(u1, t.exponent) = 1 /\ Power(v1, t.exponent) = 1
    BY <1>2, PowerStep
  <2>3. x1 * 1 = x1 /\ y1 * 1 = y1
    OBVIOUS
  <2>4. QED
    BY <2>1, <2>2, <2>3
<1>3. 0 \in Q
  <2>1. ASSUME NEW t \in LoopState, t.exponent <= 0 PROVE Holds(t)
    <3>1. t.exponent = 0
      BY <1>1, <2>1
    <3> HIDE DEF Holds
    <3>2. QED
      BY <1>2, <3>1
  <2> HIDE DEF Holds
  <2>2. QED
    BY <2>1
<1>4. ASSUME NEW n \in Nat, n \in Q
      PROVE  n + 1 \in Q
  <2>1. ASSUME NEW t \in LoopState, t.exponent <= n + 1, t.exponent # 0
        PROVE  Holds(t)
    <3> SUFFICES ASSUME NEW x1 \in Nat, NEW y1 \in Nat, NEW u1 \in Nat,
                        NEW v1 \in Nat, Rounds(t.result, x1, y1),
                        RoundsBase(t.base_ppm, u1, v1)
                 PROVE  Rounds(PowLoop[t], x1 * Power(u1, t.exponent),
                               y1 * Power(v1, t.exponent))
      OBVIOUS
    <3> DEFINE t2 == LoopBody(t)
               k == t.exponent \div 2
    <3>1. t2 \in LoopState /\ t2.exponent <= n
      <4>1. t2 \in LoopState /\ t2.exponent <= t.exponent - 1
        BY <2>1, BodyTypes
      <4>2. QED
        BY <1>1, <2>1, <4>1
    <3>2. k \in Nat /\ t2.exponent = k
      BY <1>1 DEF LoopBody
    <3>3. PowLoop[t] = PowLoop[t2]
      BY <2>1, LoopEquation DEF Solves
    <3>4. RoundsBase(t2.base_ppm, u1 * u1, v1 * v1)
      <4>1. t2.base_ppm = (t.base_ppm * t.base_ppm) \div SCALE
        BY DEF LoopBody
      <4> HIDE DEF t2
      <4>2. QED
        BY <1>1, <4>1, SquareRounds
    <3>5. Power(u1 * u1, k) = Power(u1, 2 * k)
          /\ Power(v1 * v1, k) = Power(v1, 2 * k)
      BY <3>2, PowerOfSquare
    <3>6. PICK p \in Nat : p = Power(u1, 2 * k)
      BY <3>2, PowerStep
    <3>7. PICK q \in Nat : q = Power(v1, 2 * k)
      BY <3>2, PowerStep
    <3>8. u1 * u1 \in Nat /\ v1 * v1 \in Nat /\ x1 * u1 \in Nat
          /\ y1 * v1 \in Nat
      OBVIOUS
    <3>9. Holds(t2)
      <4> HIDE DEF Holds, t2
      <4>1. QED
        BY <1>4, <3>1
    <3>10. CASE t.exponent % 2 = 1
      <4>1. Rounds(t2.result, x1 * u1, y1 * v1)
        <5>1. t2.result = (t.result * t.base_ppm) \div SCALE
          BY <3>10 DEF LoopBody
        <5> HIDE DEF t2
        <5>2. QED
          BY <1>1, <5>1, ProductRounds
      <4>2. t.exponent = 2 * k + 1
        BY <1>1, <3>10
      <4>3. Power(u1, t.exponent) = u1 * p /\ Power(v1, t.exponent) = v1 * q
        <5> HIDE DEF k
        <5>1. 2 * k \in Nat
          BY <3>2
        <5>2. QED
          BY <3>6, <3>7, <4>2, <5>1, PowerStep
      <4>4. Rounds(PowLoop[t2], (x1 * u1) * Power(u1 * u1, t2.exponent),
                   (y1 * v1) * Power(v1 * v1, t2.exponent))
        <5> HIDE DEF t2
        <5>1. QED
          BY <3>4, <3>8, <3>9, <4>1
      <4>5. (x1 * u1) * p = x1 * (u1 * p) /\ (y1 * v1) * q = y1 * (v1 * q)
        OBVIOUS
      <4> HIDE DEF t2, k
      <4>6. QED
        BY <3>2, <3>3, <3>5, <3>6, <3>7, <4>3, <4>4, <4>5
    <3>11. CASE t.exponent % 2 # 1
      <4>1. Rounds(t2.result, x1, y1)
        BY <3>11 DEF LoopBody
      <4>2. t.exponent = 2 * k
        BY <1>1, <3>11
      <4>3. Rounds(PowLoop[t2], x1 * Power(u1 * u1, t2.exponent),
                   y1 * Power(v1 * v1, t2.exponent))
        <5> HIDE DEF t2
        <5>1. QED
          BY <3>4, <3>8, <3>9, <4>1
      <4> HIDE DEF t2, k
      <4>4. QED
        BY <3>2, <3>3, <3>5, <4>2, <4>3
    <3>12. QED
      BY <3>10, <3>11
  <2>2. \A t \in LoopState : t.exponent <= n + 1 => Holds(t)
    <3> HIDE DEF Holds
    <3>1. QED
      BY <1>2, <2>1
  <2>3. QED
    BY <2>2
<1>5. s.exponent \in Q
  <2>1. s.exponent \in Nat
    BY <1>1
  <2> HIDE DEF Q
  <2>2. QED
    BY <1>3, <1>4, <2>1, NaturalsInduct
<1>6. x \in Nat /\ y \in Nat /\ u \in Nat /\ v \in Nat
  BY DEF Rounds, RoundsBase
<1>7. s.exponent <= s.exponent
  BY <1>1
<1>8. QED
  BY <1>5, <1>6, <1>7

\* What an average keeps over a number of slots, and the scale, both to the
\* power of that number.
Kept(n) == Power(SCALE - TwapAlpha, n)
Whole(n) == Power(SCALE, n)

\* fixed_point_pow_ppm as twap_alpha_for_slot_delta calls it.
LEMMA PowRounds ==
  ASSUME NEW n \in Nat
  PROVE  Rounds(FixedPointPow(SCALE - TwapAlpha, n), Kept(n), Whole(n))
<1> DEFINE s == [base_ppm |-> SCALE - TwapAlpha, exponent |-> n,
                 result |-> SCALE]
<1>1. s \in LoopState
  BY Scale DEF LoopState
<1>2. Rounds(SCALE, 1, 1)
  BY Scale DEF Rounds
<1>3. RoundsBase(SCALE - TwapAlpha, SCALE - TwapAlpha, SCALE)
  <2>1. PICK r \in Nat : SCALE = TwapAlpha + r /\ r = SCALE - TwapAlpha
    BY Scale
  <2>2. /\ r * SCALE = SCALE * r /\ SCALE * r \in Int
        /\ TwapAlpha * SCALE = SCALE * TwapAlpha /\ SCALE * TwapAlpha \in Nat
        /\ TwapAlpha * 0 = 0
        /\ 2 * SCALE * TwapAlpha = 2 * (SCALE * TwapAlpha)
    BY Scale, <2>1
  <2>3. SCALE - r = TwapAlpha
    BY Scale, <2>1
  <2>4. QED
    BY Scale, <2>1, <2>2, <2>3 DEF RoundsBase
<1>4. Rounds(PowLoop[s], 1 * Kept(n), 1 * Whole(n))
  <2>1. /\ s.result = SCALE /\ s.base_ppm = SCALE - TwapAlpha
        /\ s.exponent = n
    OBVIOUS
  <2> HIDE DEF s
  <2>2. QED
    BY <1>1, <1>2, <1>3, <2>1, LoopRounds DEF Kept, Whole
<1>5. Kept(n) \in Nat /\ Whole(n) \in Nat
  <2>1. SCALE - TwapAlpha \in Nat /\ SCALE \in Nat
    BY Scale
  <2>2. QED
    BY <2>1, PowerStep DEF Kept, Whole
<1>6. 1 * Kept(n) = Kept(n) /\ 1 * Whole(n) = Whole(n)
  BY <1>5
<1>7. FixedPointPow(SCALE - TwapAlpha, n) = PowLoop[s]
  BY DEF FixedPointPow
<1> HIDE DEF s
<1>8. QED
  BY <1>4, <1>6, <1>7

\* What is kept is at most all, and over a slot or more misses a TwapAlpha.
LEMMA KeptParts ==
  ASSUME NEW n \in Nat
  PROVE  /\ Kept(n) \in Nat /\ Whole(n) \in Nat \ {0} /\ Kept(n) <= Whole(n)
         /\ n # 0 => TwapAlpha * Whole(n) <= SCALE * (Whole(n) - Kept(n))
<1>1. ASSUME NEW m \in Nat
      PROVE  Kept(m) \in Nat /\ Whole(m) \in Nat \ {0} /\ Kept(m) <= Whole(m)
  BY <1>1, PowRounds DEF Rounds
<1>2. ASSUME n # 0
      PROVE  TwapAlpha * Whole(n) <= SCALE * (Whole(n) - Kept(n))
  <2>1. n - 1 \in Nat /\ (n - 1) + 1 = n
    BY <1>2
  <2>2. PICK x \in Nat : x = Kept(n - 1)
    BY <1>1, <2>1
  <2>3. PICK d \in Nat : Whole(n - 1) = x + d
    <3>1. /\ Whole(n - 1) \in Nat /\ x <= Whole(n - 1)
      BY <1>1, <2>1, <2>2
    <3>2. Whole(n - 1) - x \in Nat /\ Whole(n - 1) = x + (Whole(n - 1) - x)
      BY <3>1
    <3>3. QED
      BY <3>2
  <2>4. PICK r \in Nat : SCALE = TwapAlpha + r /\ r = SCALE - TwapAlpha
    BY Scale
  <2>5. Kept(n) = r * x /\ Whole(n) = SCALE * (x + d)
    <3>1. SCALE - TwapAlpha \in Nat
      BY Scale
    <3>2. /\ Power(SCALE - TwapAlpha, (n - 1) + 1)
               = (SCALE - TwapAlpha) * Power(SCALE - TwapAlpha, n - 1)
          /\ Power(SCALE, (n - 1) + 1) = SCALE * Power(SCALE, n - 1)
      BY <2>1, <3>1, Scale, PowerStep
    <3>3. QED
      BY <2>1, <2>2, <2>3, <2>4, <3>2 DEF Kept, Whole
  <2>6. PICK a \in Nat : a = TwapAlpha
    BY Scale
  <2>7. (a + r) * (x + d) - r * x = a * (x + d) + r * d
    OBVIOUS
  <2>8. (a + r) * (a * (x + d) + r * d)
          = a * ((a + r) * (x + d)) + (a + r) * (r * d)
    OBVIOUS
  <2>9. (a + r) * (r * d) \in Nat /\ a * ((a + r) * (x + d)) \in Nat
    OBVIOUS
  <2>10. SCALE = a + r
    BY <2>4, <2>6
  <2>11. QED
    BY <2>5, <2>6, <2>7, <2>8, <2>9, <2>10
<1>3. QED
  BY <1>1, <1>2

\* An average against the one that no truncation has touched: what is left of
\* the difference p - o of the base from the price, in U parts of V.
Near(twap, p, o, U, V, spread) ==
  LET error == twap * V - (o * V + (p - o) * U)
  IN  /\ TwapAlpha * error <= (2 * spread) * V
      /\ - ((2 * SCALE + 2 * spread) * V) <= TwapAlpha * error

\* A number within a bound either way times a natural is within the product.
LEMMA Within ==
  ASSUME NEW c \in Int, NEW spread \in Nat, c <= spread, - spread <= c,
         NEW n \in Nat
  PROVE  c * n <= spread * n /\ - (spread * n) <= c * n
<1>1. c * n <= spread * n /\ spread * n \in Int
  BY ProductMonotone
<1>2. (- c) * n <= spread * n /\ (- c) * n = - (c * n) /\ c * n \in Int
  <2>1. - c \in Int /\ - c <= spread
    OBVIOUS
  <2>2. (- c) * n <= spread * n
    BY <2>1, ProductMonotone
  <2>3. QED
    BY <2>2
<1>3. QED
  BY <1>1, <1>2

\* An update by the truncated weight keeps near to the untouched average: what
\* it truncates is forgotten as fast as it comes.
LEMMA StaysNear ==
  ASSUME NEW t \in Nat, NEW p \in Nat, NEW o \in Nat, NEW U \in Nat,
         NEW V \in Nat, NEW spread \in Nat, Near(t, p, o, U, V, spread),
         t - o <= spread, - spread <= t - o,
         NEW w \in Nat, NEW u \in Nat, NEW v \in Nat, Rounds(w, u, v),
         TwapAlpha * v <= SCALE * (v - u),
         NEW q \in Nat, NEW cut \in Nat, cut <= 2 * SCALE,
         q * SCALE + cut = t * w + o * (SCALE - w)
  PROVE  Near(q, p, o, U * u, V * v, spread)
<1>1. PICK z, g, j \in Nat :
        /\ v = u + z /\ SCALE * u = w * v + g
        /\ 2 * (SCALE * z) = TwapAlpha * g + j
  BY ResultParts
<1>2. PICK s \in Nat : s = SCALE
  BY Scale
<1>3. PICK a \in Nat : a = TwapAlpha
  BY Scale
<1>4. PICK c \in Int : c = t - o
  OBVIOUS
<1>5. PICK f \in Int : f = p - o
  OBVIOUS
<1>6. PICK before \in Int : before = t * V - (o * V + f * U)
  OBVIOUS
<1>7. PICK after \in Int : after = q * (V * v) - (o * (V * v) + f * (U * u))
  OBVIOUS
<1>8. /\ a * before <= (2 * spread) * V
      /\ - ((2 * s + 2 * spread) * V) <= a * before
  BY <1>2, <1>3, <1>5, <1>6 DEF Near
\* The new error in terms of the old one.
<1>9. s * after = (s * u) * before - (c * V) * g - cut * (V * v)
  <2>1. q * s + cut = c * w + o * s
    <3>1. t * w + o * (s - w) = (t - o) * w + o * s
      OBVIOUS
    <3>2. QED
      BY <1>2, <1>4, <3>1
  <2>2. s * after = (q * s) * (V * v) - ((o * s) * (V * v) + (s * u) * (f * U))
    BY <1>7
  <2>3. f * U = c * V - before
    <3>1. t * V - (o * V + f * U) = (t - o) * V - f * U
      OBVIOUS
    <3>2. f * U \in Int /\ c * V \in Int
      OBVIOUS
    <3>3. QED
      BY <1>4, <1>6, <3>1, <3>2
  <2>4. q * s = (c * w + o * s) - cut
    BY <2>1
  <2>5. ((c * w + o * s) - cut) * (V * v)
          = (c * w) * (V * v) + (o * s) * (V * v) - cut * (V * v)
    OBVIOUS
  <2>6. (s * u) * (c * V - before) = (s * u) * (c * V) - (s * u) * before
    OBVIOUS
  <2>7. (s * u) * (c * V) = (c * w) * (V * v) + (c * V) * g
    <3>1. (w * v + g) * (c * V) = (c * w) * (V * v) + (c * V) * g
      OBVIOUS
    <3>2. QED
      BY <1>1, <1>2, <3>1
  <2>8. /\ (c * w) * (V * v) \in Int /\ (o * s) * (V * v) \in Int
        /\ cut * (V * v) \in Int /\ (s * u) * before \in Int
        /\ (c * V) * g \in Int
    OBVIOUS
  <2>9. s * after = ((c * w) * (V * v) + (o * s) * (V * v) - cut * (V * v))
                      - ((o * s) * (V * v)
                           + ((c * w) * (V * v) + (c * V) * g
                                - (s * u) * before))
    BY <2>2, <2>3, <2>4, <2>5, <2>6, <2>7
  <2>10. QED
    BY <2>8, <2>9
<1>10. s * (a * after)
         = (s * u) * (a * before) - c * (V * (a * g)) - (a * cut) * (V * v)
  <2>1. s * (a * after) = a * (s * after)
    OBVIOUS
  <2>2. a * ((s * u) * before - (c * V) * g - cut * (V * v))
          = (s * u) * (a * before) - c * (V * (a * g)) - (a * cut) * (V * v)
    OBVIOUS
  <2>3. QED
    BY <1>9, <2>1, <2>2
\* Its three parts.
<1>11. /\ c * (V * (a * g)) <= spread * (V * (a * g))
       /\ - (spread * (V * (a * g))) <= c * (V * (a * g))
  <2>1. V * (a * g) \in Nat
    OBVIOUS
  <2>2. c <= spread /\ - spread <= c
    BY <1>4
  <2>3. QED
    BY <2>1, <2>2, Within
<1>12. spread * (V * (a * g)) <= (2 * spread) * (V * (s * z))
  <2>1. spread * (V * (2 * (s * z)))
          = spread * (V * (a * g)) + spread * (V * j)
    <3>1. 2 * (s * z) = a * g + j
      BY <1>1, <1>2, <1>3
    <3>2. spread * (V * (a * g + j))
            = spread * (V * (a * g)) + spread * (V * j)
      OBVIOUS
    <3>3. QED
      BY <3>1, <3>2
  <2>2. spread * (V * (2 * (s * z))) = (2 * spread) * (V * (s * z))
    OBVIOUS
  <2>3. spread * (V * j) \in Nat /\ spread * (V * (a * g)) \in Nat
    OBVIOUS
  <2>4. QED
    BY <2>1, <2>2, <2>3
<1>13. /\ (s * u) * (a * before) <= (s * u) * ((2 * spread) * V)
       /\ - ((s * u) * ((2 * s + 2 * spread) * V)) <= (s * u) * (a * before)
  <2> DEFINE x == a * before
             y == (2 * spread) * V
             k == (2 * s + 2 * spread) * V
             m == s * u
  <2>1. m \in Nat /\ x \in Int /\ y \in Int /\ k \in Int
    OBVIOUS
  <2>2. x <= y /\ - k <= x
    BY <1>8
  <2> HIDE DEF m, x, y, k
  <2>3. x * m <= y * m /\ (- k) * m <= x * m
    BY <2>1, <2>2, ProductMonotone
  <2>4. m * x <= m * y /\ - (m * k) <= m * x
    <3>1. x * m = m * x /\ y * m = m * y /\ (- k) * m = - (m * k)
      BY <2>1
    <3>2. QED
      BY <2>3, <3>1
  <2>5. QED
    BY <2>4 DEF m, x, y, k
<1>14. /\ 0 <= (a * cut) * (V * v)
       /\ (a * cut) * (V * v) <= (2 * s) * (V * (a * v))
  <2>1. cut * (V * (a * v)) <= (2 * s) * (V * (a * v))
    <3>1. V * (a * v) \in Nat
      OBVIOUS
    <3>2. cut <= 2 * s /\ 2 * s \in Int
      BY <1>2
    <3>3. QED
      BY <3>1, <3>2, ProductMonotone
  <2>2. (a * cut) * (V * v) = cut * (V * (a * v)) /\ cut * (V * (a * v)) \in Nat
    OBVIOUS
  <2>3. QED
    BY <2>1, <2>2
<1>15. (2 * s) * (V * (a * v)) <= (2 * s) * (V * (s * z))
  <2>1. s * z = s * (v - u)
    BY <1>1
  <2>2. PICK l \in Nat : s * z = a * v + l
    <3>1. a * v <= s * z /\ a * v \in Int /\ s * z \in Int
      BY <1>2, <1>3, <2>1
    <3>2. s * z - a * v \in Nat /\ s * z = a * v + (s * z - a * v)
      BY <3>1
    <3>3. QED
      BY <3>2
  <2>3. (2 * s) * (V * (a * v + l)) = (2 * s) * (V * (a * v)) + (2 * s) * (V * l)
    OBVIOUS
  <2>4. (2 * s) * (V * l) \in Nat /\ (2 * s) * (V * (a * v)) \in Nat
    OBVIOUS
  <2>5. QED
    BY <2>2, <2>3, <2>4
<1>16. a * after <= (2 * spread) * (V * v)
  <2>1. (s * u) * ((2 * spread) * V) + (2 * spread) * (V * (s * z))
          = ((2 * spread) * (V * v)) * s
    <3>1. (s * u) * ((2 * spread) * V) + (2 * spread) * (V * (s * z))
            = ((2 * spread) * (V * (u + z))) * s
      OBVIOUS
    <3>2. QED
      BY <1>1, <3>1
  <2>2. /\ (s * u) * (a * before) \in Int /\ c * (V * (a * g)) \in Int
        /\ (a * cut) * (V * v) \in Int /\ spread * (V * (a * g)) \in Int
        /\ (2 * spread) * (V * (s * z)) \in Int
        /\ (s * u) * ((2 * spread) * V) \in Int
    OBVIOUS
  <2>3. s * (a * after) <= ((2 * spread) * (V * v)) * s
    BY <1>10, <1>11, <1>12, <1>13, <1>14, <2>1, <2>2
  <2>4. /\ s * (a * after) = (a * after) * s /\ a * after \in Int
        /\ (2 * spread) * (V * v) \in Int
    OBVIOUS
  <2>5. QED
    BY <1>2, <2>3, <2>4, ScaleCancel
<1>17. - ((2 * s + 2 * spread) * (V * v)) <= a * after
  <2>1. (s * u) * ((2 * s + 2 * spread) * V) + (2 * spread) * (V * (s * z))
          + (2 * s) * (V * (s * z))
          = ((2 * s + 2 * spread) * (V * v)) * s
    <3>1. (s * u) * ((2 * s + 2 * spread) * V)
            + (2 * spread) * (V * (s * z)) + (2 * s) * (V * (s * z))
            = ((2 * s + 2 * spread) * (V * (u + z))) * s
      OBVIOUS
    <3>2. QED
      BY <1>1, <3>1
  <2>2. /\ (s * u) * (a * before) \in Int /\ c * (V * (a * g)) \in Int
        /\ (a * cut) * (V * v) \in Int /\ spread * (V * (a * g)) \in Int
        /\ (2 * spread) * (V * (s * z)) \in Int
        /\ (s * u) * ((2 * s + 2 * spread) * V) \in Int
        /\ (2 * s) * (V * (s * z)) \in Int /\ (2 * s) * (V * (a * v)) \in Int
    OBVIOUS
  <2>3. - (((2 * s + 2 * spread) * (V * v)) * s) <= s * (a * after)
    BY <1>10, <1>11, <1>12, <1>13, <1>14, <1>15, <2>1, <2>2
  <2>4. /\ s * (a * after) = (a * after) * s /\ a * after \in Int
        /\ - ((2 * s + 2 * spread) * (V * v)) \in Int
        /\ (- ((2 * s + 2 * spread) * (V * v))) * s
             = - (((2 * s + 2 * spread) * (V * v)) * s)
    OBVIOUS
  <2>5. (- ((2 * s + 2 * spread) * (V * v))) * s <= (a * after) * s
    BY <2>3, <2>4
  <2>6. QED
    BY <1>2, <2>4, <2>5, ScaleCancel
<1>18. QED
  BY <1>2, <1>3, <1>5, <1>7, <1>16, <1>17 DEF Near

\* Two averages near the same one are near each other.
LEMMA NearEachOther ==
  ASSUME NEW t \in Nat, NEW q \in Nat, NEW p \in Nat, NEW o \in Nat,
         NEW U \in Nat, NEW V \in Nat \ {0}, NEW spread \in Nat,
         Near(t, p, o, U, V, spread), Near(q, p, o, U, V, spread)
  PROVE  Distance(t, q) <= (2 * SCALE + 4 * spread) \div TwapAlpha
<1>1. PICK most \in Nat : most = 2 * SCALE + 4 * spread
  BY Scale
<1>2. ASSUME NEW x \in Nat, NEW y \in Nat, x <= y,
             Near(x, p, o, U, V, spread), Near(y, p, o, U, V, spread)
      PROVE  (y - x) * TwapAlpha <= most
  <2>1. PICK a \in Nat : a = TwapAlpha
    BY Scale
  <2>2. PICK s \in Nat : s = SCALE
    BY Scale
  <2>3. PICK m \in Int : m = o * V + (p - o) * U
    OBVIOUS
  <2>4. /\ a * (y * V - m) <= (2 * spread) * V
        /\ - ((2 * s + 2 * spread) * V) <= a * (x * V - m)
    BY <1>2, <2>1, <2>2, <2>3 DEF Near
  <2>5. a * (y * V - m) - a * (x * V - m) = ((y - x) * a) * V
    OBVIOUS
  <2>6. (2 * spread) * V + (2 * s + 2 * spread) * V
          = (2 * s + 4 * spread) * V
    OBVIOUS
  <2>7. /\ a * (y * V - m) \in Int /\ a * (x * V - m) \in Int
        /\ (2 * spread) * V \in Int /\ (2 * s + 2 * spread) * V \in Int
    OBVIOUS
  <2>8. ((y - x) * a) * V <= most * V
    BY <1>1, <2>2, <2>4, <2>5, <2>6, <2>7
  <2>9. PICK k \in Int : k = (y - x) * a
    OBVIOUS
  <2>10. ~ (most + 1 <= k)
    <3>1. SUFFICES ASSUME most + 1 <= k PROVE FALSE
      OBVIOUS
    <3>2. (most + 1) * V <= k * V
      BY <3>1, ProductMonotone
    <3>3. (most + 1) * V = most * V + V /\ most * V \in Int
      OBVIOUS
    <3>4. k * V \in Int
      OBVIOUS
    <3>5. QED
      BY <2>8, <2>9, <3>2, <3>3, <3>4
  <2>11. QED
    BY <2>1, <2>9, <2>10
<1>3. Distance(t, q) \in Nat /\ Distance(t, q) * TwapAlpha <= most
  BY <1>2 DEF Distance
<1>4. ASSUME NEW d \in Nat, d * TwapAlpha <= most
      PROVE  d <= most \div TwapAlpha
  <2>1. PICK k : k = most \div TwapAlpha
    OBVIOUS
  <2>2. k \in Nat /\ most < k * TwapAlpha + TwapAlpha
    BY <2>1, Scale
  <2>3. ~ (k + 1 <= d)
    <3>1. SUFFICES ASSUME k + 1 <= d PROVE FALSE
      OBVIOUS
    <3>2. (k + 1) * TwapAlpha <= d * TwapAlpha
      BY <2>2, <3>1, Scale, ProductMonotone
    <3>3. (k + 1) * TwapAlpha = k * TwapAlpha + TwapAlpha
      BY <2>2, Scale
    <3>4. d * TwapAlpha \in Int /\ k * TwapAlpha \in Int
      BY <2>2, Scale
    <3>5. QED
      BY <1>4, <2>2, <3>2, <3>3, <3>4, Scale
  <2>4. QED
    BY <2>1, <2>2, <2>3
<1>5. QED
  BY <1>1, <1>3, <1>4
-----------------------------------------------------------------------------
(***************************************************************************)
(* The invariant.                                                          *)
(***************************************************************************)

\* Facts about the constants.
LEMMA Constants ==
  /\ SCALE \in Nat /\ PublishMaxAge \in Nat /\ ManualMaxSlots \in Nat
  /\ PriceMin \in Nat /\ PriceMax \in Nat /\ ConfidenceMax \in Nat
  /\ MintStaleness \in Nat
  /\ HighVolMintStaleness \in Nat /\ HighVolMintStaleness <= MintStaleness
BY LimitAssumption

\* What is in bounds is a natural number.
LEMMA BoundsAreNat ==
  ASSUME NEW price, NEW confidence, InBounds(price, confidence)
  PROVE  price \in Nat /\ confidence \in Nat
BY Constants DEF InBounds

\* Whatever the average, a price that mints is not older than MintStaleness.
LEMMA MintableIsFresh ==
  ASSUME TypeOK, NEW v \in Vault, Mintable(v)
  PROVE  slot - vault[v].last_oracle_slot <= MintStaleness
<1> DEFINE limit == StalenessLimit(vault[v].price, twap_price[v], MintStaleness,
                                   HighVolMintStaleness)
<1>1. limit \in Nat /\ limit <= MintStaleness
  BY Constants DEF StalenessLimit
<1>2. Age(v) <= limit
  BY DEF Mintable
<1>3. slot \in Nat /\ vault[v].last_oracle_slot \in Nat
  BY DEF TypeOK
<1> HIDE DEF limit
<1>4. QED
  BY <1>1, <1>2, <1>3, Constants DEF Age, AtLeast

\* The initial prices are no quotes.
LEMMA InitEstablishesInv == Init => IInv
<1> SUFFICES ASSUME Init PROVE IInv
  OBVIOUS
<1> USE DEF Init
<1>1. NoMessage \in Message
  BY DEF NoMessage, Message
<1>2. account \in [Vault -> Account]
  BY <1>1 DEF Account
<1>3. SCALE \in Nat /\ SCALE \div 1000 \in Nat
  BY Constants
<1>4. vault \in [Vault -> [price : Nat, confidence : Nat,
                           last_oracle_slot : Nat]]
  BY <1>3
<1>5. TypeOK
  BY <1>2, <1>4, Scale DEF TypeOK
<1>6. ASSUME NEW v \in Vault PROVE VaultInv(v)
  <2>1. vault[v].last_oracle_slot = slot /\ source[v] = "initial"
    OBVIOUS
  <2>2. QED
    BY <2>1 DEF VaultInv, PythTimed, ManualTimed
<1>7. AverageInRange
  <2>1. Rounding \in Nat
    BY Scale, RoundingCovers
  <2>2. AtMost(PriceMin, SCALE) - Rounding <= SCALE
    BY <2>1, Constants DEF AtMost
  <2>3. SCALE <= AtLeast(PriceMax, SCALE)
    BY Constants DEF AtLeast
  <2>4. QED
    BY <2>2, <2>3 DEF AverageInRange
<1>8. QED
  BY <1>5, <1>6, <1>7 DEF IInv

\* A slot an update is accepted for is a natural.
LEMMA UpdatesAreTimed ==
  ASSUME IInv, NEW v \in Vault, NEW price, NEW confidence,
         NEW observed \in (slot - StalenessMax)..slot,
         UpdateVaultOracle(v, price, confidence, observed)
  PROVE  observed \in Nat
<1>1. AtLeast(last_twap_update_slots[v], vault[v].last_oracle_slot) \in Nat
  BY DEF IInv, TypeOK, AtLeast
<1>2. /\ observed \in Int
      /\ observed > AtLeast(last_twap_update_slots[v],
                            vault[v].last_oracle_slot)
  BY LimitAssumption DEF UpdateVaultOracle, IInv, TypeOK
<1>3. QED
  BY <1>1, <1>2

\* What an update does to the average of its vault.
LEMMA UpdateWeighs ==
  ASSUME IInv, NEW v \in Vault, NEW price \in Nat, NEW confidence \in Nat,
         NEW observed \in Nat,
         UpdateVaultOracle(v, price, confidence, observed)
  PROVE  /\ twap_price' = [twap_price EXCEPT ![v] = twap_price'[v]]
         /\ twap_price'[v] \in Nat \ {0}
         /\ twap_price'[v] <= AtLeast(twap_price[v], price)
         /\ twap_price'[v] >= AtMost(twap_price[v], price) - 1
         /\ PriceMin <= price =>
              twap_price'[v] >= AtMost(PriceMin, SCALE) - Rounding
<1> DEFINE reference == AtLeast(last_twap_update_slots[v],
                                vault[v].last_oracle_slot)
           previous == twap_price[v]
           alpha == AlphaForSlotDelta(observed - reference)
           next == EwmaNextPrice(previous, price, alpha)
<1>1. previous \in Nat \ {0} /\ reference \in Nat
  BY DEF IInv, TypeOK, AtLeast
<1>2. CanonicalTwap(vault[v].price, twap_price[v]) = previous
  BY <1>1 DEF CanonicalTwap, AtLeast
<1>3. observed - reference \in Nat \ {0}
  BY <1>1 DEF UpdateVaultOracle
<1>4. alpha \in TwapAlpha..SCALE
  <2> HIDE DEF reference
  <2>1. QED
    BY <1>3, AlphaBounds
<1>5. twap_price' = [twap_price EXCEPT ![v] = AtLeast(next, 1)]
  BY <1>2 DEF UpdateVaultOracle
<1>6. twap_price'[v] = AtLeast(next, 1)
  BY <1>5 DEF IInv, TypeOK
<1>7. /\ next \in Nat /\ next <= AtLeast(previous, price)
      /\ next >= AtMost(previous, price) - 1
  <2> HIDE DEF alpha
  <2>1. alpha \in 0..SCALE
    BY <1>4, Scale
  <2>2. QED
    BY <1>1, <2>1, EwmaFollows
<1>8. PriceMin <= price => next >= AtMost(PriceMin, SCALE) - Rounding
  <2>1. SUFFICES ASSUME PriceMin <= price
                 PROVE  AtMost(PriceMin, SCALE) - Rounding <= next
    BY <1>4, <1>7, RoundingCovers, Constants DEF AtMost
  <2>2. AtMost(PriceMin, SCALE) \in Nat /\ AtMost(PriceMin, SCALE) <= price
    BY <2>1, Constants DEF AtMost
  <2>3. AtMost(PriceMin, SCALE) - Rounding <= previous
    BY <1>1, <1>4, <2>2, RoundingCovers DEF IInv, AverageInRange
  <2> HIDE DEF alpha, previous
  <2>4. QED
    BY <1>1, <1>4, <2>2, <2>3, EwmaStaysInRange
<1>9. AtMost(PriceMin, SCALE) - Rounding \in Int
  BY <1>4, RoundingCovers, Constants DEF AtMost
<1> HIDE DEF next, alpha, reference
<1>10. /\ AtLeast(next, 1) \in Nat \ {0} /\ AtLeast(next, 1) >= next
       /\ AtLeast(next, 1) <= AtLeast(previous, price)
  BY <1>1, <1>7 DEF AtLeast
<1>11. AtMost(previous, price) \in Int
  BY <1>1 DEF AtMost
<1>12. twap_price' = [twap_price EXCEPT ![v] = twap_price'[v]]
  BY <1>5, <1>6
<1>13. AtLeast(previous, price) \in Int
  BY <1>1 DEF AtLeast
<1>14. PICK t : t = AtLeast(next, 1)
  OBVIOUS
<1>15. PICK least \in Int : least = AtMost(PriceMin, SCALE) - Rounding
  BY <1>9
<1>16. /\ t \in Nat \ {0}
       /\ t <= AtLeast(previous, price)
       /\ t >= AtMost(previous, price) - 1
       /\ PriceMin <= price => t >= least
  BY <1>7, <1>8, <1>10, <1>11, <1>13, <1>14, <1>15
<1>17. QED
  BY <1>6, <1>12, <1>14, <1>15, <1>16

\* A new observation of a vault: types, and what concerns the other vaults.
LEMMA QuoteKeepsInv ==
  ASSUME IInv, NEW v \in Vault, NEW price \in Nat, NEW confidence \in Nat,
         NEW observed \in Nat, NEW kind \in {"pyth", "manual"},
         NEW published \in Nat,
         InBounds(price, confidence),
         observed <= slot,
         kind = "pyth" => now - published <= PublishMaxAge,
         kind = "manual" => slot <= manual_oracle_mode_expiry_slot,
         UpdateVaultOracle(v, price, confidence, observed),
         source' = [source EXCEPT ![v] = kind],
         published_at' = [published_at EXCEPT ![v] = published],
         UNCHANGED <<clockVars, account, settingVars>>
  PROVE  IInv'
<1> USE DEF clockVars, settingVars
<1>1. vault' = [vault EXCEPT ![v] = [price |-> price, confidence |-> confidence,
                                     last_oracle_slot |-> observed]]
  BY DEF UpdateVaultOracle
<1>2. last_twap_update_slots' = [last_twap_update_slots EXCEPT ![v] = observed]
  BY DEF UpdateVaultOracle
<1>3. TypeOK'
  <2>1. vault' \in [Vault -> [price : Nat, confidence : Nat,
                              last_oracle_slot : Nat]]
    BY <1>1 DEF IInv, TypeOK
  <2>2. last_twap_update_slots' \in [Vault -> Nat]
    BY <1>2 DEF IInv, TypeOK
  <2>3. /\ source' \in [Vault -> {"initial", "pyth", "manual"}]
        /\ published_at' \in [Vault -> Nat]
    BY DEF IInv, TypeOK
  <2>4. twap_price' \in [Vault -> Nat \ {0}]
    BY UpdateWeighs DEF IInv, TypeOK
  <2>5. base' \in [Vault -> [twap : Nat, slot : Nat]]
    <3> DEFINE was == [twap |-> CanonicalTwap(vault[v].price, twap_price[v]),
                       slot |-> AtLeast(last_twap_update_slots[v],
                                        vault[v].last_oracle_slot)]
    <3>1. was \in [twap : Nat, slot : Nat]
      BY DEF IInv, TypeOK, CanonicalTwap, AtLeast
    <3>2. base' = [base EXCEPT ![v] = IF price = vault[v].price THEN base[v]
                                      ELSE was]
      BY DEF UpdateVaultOracle
    <3> HIDE DEF was
    <3>3. QED
      BY <3>1, <3>2 DEF IInv, TypeOK
  <2>6. QED
    BY <2>1, <2>2, <2>3, <2>4, <2>5 DEF IInv, TypeOK
<1>4. ASSUME NEW w \in Vault PROVE VaultInv(w)'
  <2>1. CASE w = v
    <3>1. /\ vault'[w].last_oracle_slot = observed
          /\ source'[w] = kind /\ published_at'[w] = published
      BY <1>1, <2>1 DEF IInv, TypeOK
    <3>2. /\ slot \in Nat /\ now \in Nat
          /\ manual_oracle_mode_expiry_slot \in Nat
      BY DEF IInv, TypeOK
    <3>3. QED
      BY <3>1, <3>2, Constants DEF VaultInv, PythTimed, ManualTimed
  <2>2. CASE w # v
    <3>1. /\ vault'[w] = vault[w] /\ source'[w] = source[w]
          /\ published_at'[w] = published_at[w]
      BY <1>1, <2>2 DEF IInv, TypeOK
    <3>2. VaultInv(w)
      BY DEF IInv
    <3>3. QED
      BY <3>1, <3>2 DEF VaultInv, PythTimed, ManualTimed
  <2>3. QED
    BY <2>1, <2>2
<1>5. AverageInRange'
  <2> DEFINE least == AtMost(PriceMin, SCALE) - Rounding
             most == AtLeast(PriceMax, SCALE)
  <2>1. ASSUME NEW w \in Vault
        PROVE  twap_price'[w] >= least /\ twap_price'[w] <= most
    <3>1. CASE w = v
      <4>1. PriceMin <= price /\ price <= PriceMax
        BY Constants DEF InBounds
      <4>2. twap_price[v] <= most /\ twap_price[v] \in Nat
        BY DEF IInv, TypeOK, AverageInRange
      <4>3. AtLeast(twap_price[v], price) <= most
        BY <4>1, <4>2, Constants DEF AtLeast
      <4>4. /\ twap_price'[v] \in Nat /\ most \in Nat
            /\ AtLeast(twap_price[v], price) \in Nat
        BY <4>2, UpdateWeighs, Constants DEF AtLeast
      <4>5. QED
        BY <3>1, <4>1, <4>3, <4>4, UpdateWeighs
    <3>2. CASE w # v
      <4>1. twap_price'[w] = twap_price[w]
        BY <3>2, UpdateWeighs DEF IInv, TypeOK
      <4>2. QED
        BY <4>1 DEF IInv, AverageInRange
    <3>3. QED
      BY <3>1, <3>2
  <2>2. QED
    BY <2>1 DEF AverageInRange
<1>6. QED
  BY <1>3, <1>4, <1>5 DEF IInv

\* What touches neither prices, nor clocks, nor the window of manual prices.
LEMMA AsideKeepsInv ==
  ASSUME IInv, TypeOK',
         UNCHANGED <<clockVars, priceVars, manual_oracle_mode_expiry_slot>>
  PROVE  IInv'
BY DEF IInv, AverageInRange, VaultInv, PythTimed, ManualTimed, clockVars,
       priceVars

\* Every step keeps the invariant.
LEMMA StepKeepsInv == IInv /\ [Next]_vars => IInv'
<1> SUFFICES ASSUME IInv, [Next]_vars PROVE IInv'
  OBVIOUS
<1>1. ASSUME NEW v \in Vault, UpdateOraclePyth(v) PROVE IInv'
  <2> DEFINE a == account[v]
             price == ToDecimals(a.message.value, a.message.exponent)
             confidence == ToDecimals(a.message.conf, a.message.exponent)
  <2>1. InBounds(price, confidence) /\ price \in Nat /\ confidence \in Nat
    BY <1>1, BoundsAreNat DEF UpdateOraclePyth
  <2>2. a.posted_slot \in Nat /\ a.publish_time \in Nat
    BY DEF IInv, TypeOK, Account
  <2>3. /\ a.posted_slot <= slot
        /\ now - a.publish_time <= PublishMaxAge
    BY <1>1 DEF UpdateOraclePyth, FreshPublication
  <2>4. /\ UpdateVaultOracle(v, price, confidence, a.posted_slot)
        /\ source' = [source EXCEPT ![v] = "pyth"]
        /\ published_at' = [published_at EXCEPT ![v] = a.publish_time]
        /\ UNCHANGED <<clockVars, account, settingVars>>
    BY <1>1 DEF UpdateOraclePyth
  <2> HIDE DEF price, confidence, a
  <2>5. QED
    BY <2>1, <2>2, <2>3, <2>4, QuoteKeepsInv
<1>2. ASSUME NEW v \in Vault, NEW q \in ManualQuotes,
             NEW observed \in (slot - StalenessMax)..slot,
             UpdateOracle(v, q.price, q.confidence, observed)
      PROVE  IInv'
  <2>1. /\ InBounds(q.price, q.confidence)
        /\ q.price \in Nat /\ q.confidence \in Nat
    BY <1>2, BoundsAreNat DEF UpdateOracle
  <2>2. observed \in Nat
    BY <1>2, UpdatesAreTimed DEF UpdateOracle
  <2>3. observed <= slot /\ slot <= manual_oracle_mode_expiry_slot
    BY <1>2 DEF UpdateOracle
  <2>4. /\ UpdateVaultOracle(v, q.price, q.confidence, observed)
        /\ source' = [source EXCEPT ![v] = "manual"]
        /\ published_at' = [published_at EXCEPT ![v] = now]
        /\ UNCHANGED <<clockVars, account, settingVars>>
    BY <1>2 DEF UpdateOracle
  <2>5. now \in Nat
    BY DEF IInv, TypeOK
  <2>6. QED
    BY <2>1, <2>2, <2>3, <2>4, <2>5, QuoteKeepsInv
<1>3. ASSUME NEW v \in Vault, SetPythFeed(v) PROVE IInv'
  <2>1. TypeOK'
    BY <1>3, FeedAssumption
    DEF SetPythFeed, IInv, TypeOK, clockVars, priceVars
  <2>2. QED
    BY <1>3, <2>1, AsideKeepsInv DEF SetPythFeed
<1>4. ASSUME NEW v \in Vault, NEW message \in Messages, NEW lag \in Lags,
             Post(v, message, lag)
      PROVE  IInv'
  <2>1. /\ message \in Message /\ lag \in Nat /\ lag <= now
        /\ slot \in Nat /\ now \in Nat
    BY <1>4, InputAssumption DEF Post, IInv, TypeOK
  <2>2. [message |-> message, posted_slot |-> slot, publish_time |-> now - lag]
          \in Account
    BY <2>1 DEF Account
  <2>3. account' \in [Vault -> Account]
    BY <1>4, <2>2 DEF Post, IInv, TypeOK
  <2>4. TypeOK'
    BY <1>4, <2>3 DEF Post, IInv, TypeOK, clockVars, settingVars, priceVars
  <2>5. QED
    BY <1>4, <2>4, AsideKeepsInv DEF Post, settingVars
<1>5. ASSUME NEW n \in 1..ManualMaxSlots, EnableManualOracleMode(n) PROVE IInv'
  <2>1. /\ slot \in Nat /\ n \in Nat /\ manual_oracle_mode_expiry_slot \in Nat
        /\ slot > manual_oracle_mode_expiry_slot
        /\ manual_oracle_mode_expiry_slot' = slot + n
    BY <1>5, Constants DEF EnableManualOracleMode, IInv, TypeOK
  <2>2. TypeOK'
    BY <1>5, <2>1
    DEF EnableManualOracleMode, IInv, TypeOK, clockVars, priceVars
  <2>3. ASSUME NEW v \in Vault PROVE VaultInv(v)'
    <3>1. VaultInv(v) /\ vault[v].last_oracle_slot \in Nat
      BY DEF IInv, TypeOK
    <3>2. UNCHANGED <<clockVars, priceVars>>
      BY <1>5 DEF EnableManualOracleMode
    <3>3. QED
      BY <2>1, <3>1, <3>2
      DEF VaultInv, PythTimed, ManualTimed, clockVars, priceVars
  <2>4. AverageInRange'
    BY <1>5 DEF EnableManualOracleMode, priceVars, IInv, AverageInRange
  <2>5. QED
    BY <2>2, <2>3, <2>4 DEF IInv
<1>6. CASE ToggleShutdown
  <2>1. TypeOK'
    BY <1>6 DEF ToggleShutdown, IInv, TypeOK, clockVars, priceVars
  <2>2. QED
    BY <1>6, <2>1, AsideKeepsInv DEF ToggleShutdown
<1>7. CASE Tick
  <2>1. /\ slot \in Nat /\ now \in Nat /\ slot' = slot + 1
        /\ now' \in {now, now + 1}
        /\ UNCHANGED <<account, settingVars, priceVars>>
    BY <1>7 DEF Tick, IInv, TypeOK
  <2>2. TypeOK'
    BY <2>1 DEF IInv, TypeOK, settingVars, priceVars
  <2>3. ASSUME NEW v \in Vault PROVE VaultInv(v)'
    <3>1. /\ VaultInv(v) /\ vault[v].last_oracle_slot \in Nat
          /\ published_at[v] \in Nat
      BY DEF IInv, TypeOK
    <3>2. QED
      BY <2>1, <3>1, Constants
      DEF VaultInv, PythTimed, ManualTimed, settingVars, priceVars
  <2>4. AverageInRange'
    BY <2>1 DEF priceVars, IInv, AverageInRange
  <2>5. QED
    BY <2>2, <2>3, <2>4 DEF IInv
<1>8. CASE UNCHANGED vars
  <2>1. TypeOK'
    BY <1>8 DEF IInv, TypeOK, vars, clockVars, settingVars, priceVars
  <2>2. QED
    BY <1>8, <2>1, AsideKeepsInv DEF vars, settingVars
<1>9. QED
  BY <1>1, <1>2, <1>3, <1>4, <1>5, <1>6, <1>7, <1>8 DEF Next
-----------------------------------------------------------------------------
(***************************************************************************)
(* How often a price is confirmed. The average that no truncation touches  *)
(* forgets the base at the power of the slots since then, however they are *)
(* divided into updates; the average of the vault and the one that a       *)
(* single update would have given both stay near to it.                    *)
(***************************************************************************)

\* The slots in which the price of a vault was only confirmed.
Confirmed(v) == vault[v].last_oracle_slot - base[v].slot

\* The prices of a vault, and its averages.
Prices == AtMost(PriceMin, SCALE)..AtLeast(PriceMax, SCALE)
Averages == (AtMost(PriceMin, SCALE) - Rounding)..AtLeast(PriceMax, SCALE)

\* The invariant that is added for it: the vault's two slots are one, and its
\* average is near that of an exact computation from the base.
CadenceInv(v) ==
  /\ last_twap_update_slots[v] = vault[v].last_oracle_slot
  /\ Confirmed(v) \in Nat
  /\ vault[v].price \in Prices
  /\ base[v].twap \in Averages \ {0}
  /\ Near(twap_price[v], base[v].twap, vault[v].price, Kept(Confirmed(v)),
          Whole(Confirmed(v)), Spread)

\* Prices are positive, and no average is further from one than Spread.
LEMMA SpreadCovers ==
  /\ Spread \in Nat
  /\ \A price \in Prices : price \in Nat \ {0}
  /\ \A t \in Averages, price \in Prices :
       t \in Int /\ t - price <= Spread /\ - Spread <= t - price
<1>1. PICK least \in Nat \ {0} : least = AtMost(PriceMin, SCALE)
  BY Scale, LimitAssumption DEF AtMost
<1>2. PICK most \in Nat : most = AtLeast(PriceMax, SCALE)
  BY Scale, LimitAssumption DEF AtLeast
<1>3. least <= most
  BY <1>1, <1>2, Constants DEF AtMost, AtLeast
<1>4. PICK r \in Nat : r = Rounding
  BY Scale, RoundingCovers
<1>5. Spread = most - (least - r)
  BY <1>1, <1>2, <1>4 DEF Spread
<1>6. Prices = least..most /\ Averages = (least - r)..most
  BY <1>1, <1>2, <1>4 DEF Prices, Averages
<1>7. QED
  BY <1>3, <1>5, <1>6

\* What an update cuts, also when it lifts an average to one.
LEMMA WeighingCuts ==
  ASSUME NEW t \in Nat \ {0}, NEW o \in Nat \ {0}, NEW w \in 0..SCALE,
         NEW next, next = EwmaNextPrice(t, o, SCALE - w),
         NEW q \in {next, AtLeast(next, 1)}
  PROVE  /\ q \in Nat
         /\ \E cut \in Nat : /\ cut <= 2 * SCALE
                             /\ q * SCALE + cut = t * w + o * (SCALE - w)
<1>1. PICK s \in Nat \ {0} : s = SCALE
  BY Scale
<1>2. PICK r \in Nat : r = s - w /\ w \in Nat
  BY <1>1
<1>3. PICK x \in Nat : x = t * w
  BY <1>2
<1>4. PICK y \in Nat : y = o * r
  OBVIOUS
<1>5. next = (x \div SCALE) + (y \div SCALE)
  <2>1. SCALE - (SCALE - w) = w
    BY <1>1, <1>2
  <2>2. QED
    BY <1>1, <1>2, <1>3, <1>4, <2>1 DEF EwmaNextPrice
<1>6. next \in Nat /\ next * s <= x + y /\ x + y - 2 * s < next * s
  BY <1>1, <1>5, FloorParts
<1>7. s <= x + y
  <2>1. PICK i \in Nat : t = 1 + i
    <3>1. t - 1 \in Nat /\ t = 1 + (t - 1)
      OBVIOUS
    <3>2. QED
      BY <3>1
  <2>2. PICK j \in Nat : o = 1 + j
    <3>1. o - 1 \in Nat /\ o = 1 + (o - 1)
      OBVIOUS
    <3>2. QED
      BY <3>1
  <2>3. (1 + i) * w = w + i * w /\ i * w \in Nat
    BY <1>2
  <2>4. (1 + j) * r = r + j * r /\ j * r \in Nat
    OBVIOUS
  <2>5. QED
    BY <1>2, <1>3, <1>4, <2>1, <2>2, <2>3, <2>4
<1>8. q \in Nat /\ q * s <= x + y /\ x + y - 2 * s <= q * s
  <2>1. CASE q = next
    <3>1. next * s \in Int
      BY <1>6
    <3>2. QED
      BY <1>6, <2>1, <3>1
  <2>2. CASE next = 0 /\ q = 1
    <3>1. q * s = s /\ next * s = 0
      BY <2>2
    <3>2. QED
      BY <1>6, <1>7, <2>2, <3>1
  <2>3. QED
    BY <1>6, <2>1, <2>2 DEF AtLeast
<1>9. q * s \in Nat
  BY <1>8
<1>10. PICK cut \in Nat : cut = x + y - q * s
  BY <1>8, <1>9
<1>11. cut <= 2 * s /\ q * s + cut = x + y
  BY <1>8, <1>9, <1>10
<1>12. QED
  BY <1>1, <1>2, <1>3, <1>4, <1>8, <1>11

\* The weight of what is kept is the power rounded down.
LEMMA WeightOfKept ==
  ASSUME NEW n \in Nat
  PROVE  \E w \in 0..SCALE : /\ Rounds(w, Kept(n), Whole(n))
                             /\ AlphaForSlotDelta(n) = SCALE - w
                             /\ n = 0 => w = SCALE
<1> DEFINE s == [base_ppm |-> SCALE - TwapAlpha, exponent |-> n,
                 result |-> SCALE]
<1>1. s \in LoopState
  BY Scale DEF LoopState
<1>2. PowLoop[s] \in 0..SCALE
  <2>1. s.base_ppm <= SCALE /\ s.result <= SCALE /\ s.result = SCALE
    BY Scale
  <2> HIDE DEF s
  <2>2. PowLoop[s] \in Nat /\ PowLoop[s] <= SCALE
    BY <1>1, <2>1, PowerIsShare
  <2>3. QED
    BY <2>2, Scale
<1>3. FixedPointPow(SCALE - TwapAlpha, n) = PowLoop[s]
  BY DEF FixedPointPow
<1>4. n = 0 => PowLoop[s] = SCALE
  <2>1. s.exponent = n /\ s.result = SCALE
    OBVIOUS
  <2> HIDE DEF s
  <2>2. QED
    BY <1>1, <2>1, LoopEquation DEF Solves
<1> HIDE DEF s
<1>5. QED
  BY <1>2, <1>3, <1>4, PowRounds DEF AlphaForSlotDelta

\* Before any slot has passed, an average is the base.
LEMMA NearBase ==
  ASSUME NEW t \in Nat, NEW o \in Nat
  PROVE  Near(t, t, o, 1, 1, Spread)
<1>1. t * 1 - (o * 1 + (t - o) * 1) = 0
  OBVIOUS
<1>2. TwapAlpha * 0 = 0
  BY Scale
<1>3. PICK h \in Nat : h = Spread
  BY SpreadCovers
<1>4. 0 <= (2 * h) * 1 /\ - ((2 * SCALE + 2 * h) * 1) <= 0
  BY Scale
<1>5. QED
  BY <1>1, <1>2, <1>3, <1>4 DEF Near

\* One update after n slots, d slots later.
LEMMA UpdateStaysNear ==
  ASSUME NEW t \in Averages, t \in Nat \ {0}, NEW p \in Nat, NEW o \in Prices,
         NEW n \in Nat, NEW d \in Nat \ {0},
         Near(t, p, o, Kept(n), Whole(n), Spread),
         NEW next, next = EwmaNextPrice(t, o, AlphaForSlotDelta(d)),
         NEW q \in {next, AtLeast(next, 1)}
  PROVE  q \in Nat /\ Near(q, p, o, Kept(n + d), Whole(n + d), Spread)
<1>1. PICK w \in 0..SCALE : /\ Rounds(w, Kept(d), Whole(d))
                            /\ AlphaForSlotDelta(d) = SCALE - w
  BY WeightOfKept
<1>2. o \in Nat \ {0} /\ Spread \in Nat /\ t - o <= Spread
      /\ - Spread <= t - o
  BY SpreadCovers
<1>3. next = EwmaNextPrice(t, o, SCALE - w)
  BY <1>1
<1>4. q \in Nat
  BY <1>2, <1>3, WeighingCuts
<1>5. PICK cut \in Nat : /\ cut <= 2 * SCALE
                         /\ q * SCALE + cut = t * w + o * (SCALE - w)
  BY <1>2, <1>3, WeighingCuts
<1>6. /\ Kept(n) \in Nat /\ Whole(n) \in Nat
      /\ Kept(d) \in Nat /\ Whole(d) \in Nat
      /\ TwapAlpha * Whole(d) <= SCALE * (Whole(d) - Kept(d))
  BY KeptParts
<1>7. t \in Nat /\ p \in Nat /\ o \in Nat /\ w \in Nat
  BY <1>2, Scale
<1>8. Near(q, p, o, Kept(n) * Kept(d), Whole(n) * Whole(d), Spread)
  BY <1>1, <1>2, <1>4, <1>5, <1>6, <1>7, StaysNear
<1>9. /\ Kept(n + d) = Kept(n) * Kept(d)
      /\ Whole(n + d) = Whole(n) * Whole(d)
  <2>1. SCALE - TwapAlpha \in Nat /\ SCALE \in Nat
    BY Scale
  <2>2. QED
    BY <2>1, PowerAdd DEF Kept, Whole
<1>10. QED
  BY <1>4, <1>8, <1>9

\* No slots keep all.
LEMMA NothingForgotten == Kept(0) = 1 /\ Whole(0) = 1
<1>1. SCALE - TwapAlpha \in Nat /\ SCALE \in Nat
  BY Scale
<1>2. QED
  BY <1>1, PowerStep DEF Kept, Whole

\* The averages of the vaults.
LEMMA AveragesHold ==
  ASSUME IInv, NEW v \in Vault
  PROVE  twap_price[v] \in Averages /\ twap_price[v] \in Nat \ {0}
<1>1. twap_price[v] \in Nat \ {0}
  BY DEF IInv, TypeOK
<1>2. /\ AtMost(PriceMin, SCALE) - Rounding \in Int
      /\ AtLeast(PriceMax, SCALE) \in Int
  BY Scale, RoundingCovers, LimitAssumption DEF AtMost, AtLeast
<1>3. QED
  BY <1>1, <1>2 DEF IInv, AverageInRange, Averages

\* The initial average is that of the initial price.
LEMMA InitEstablishesCadence ==
  ASSUME Init, NEW v \in Vault
  PROVE  CadenceInv(v)
<1>1. /\ vault[v].price = SCALE /\ vault[v].last_oracle_slot = slot
      /\ last_twap_update_slots[v] = slot /\ twap_price[v] = SCALE
      /\ base[v].twap = SCALE /\ base[v].slot = slot /\ slot = 1
  BY DEF Init
<1>2. Confirmed(v) = 0
  BY <1>1 DEF Confirmed
<1>3. SCALE \in Prices
  BY Scale, Constants DEF Prices, AtMost, AtLeast
<1>4. SCALE \in Averages \ {0}
  BY <1>1, Scale, InitEstablishesInv, AveragesHold
<1>5. Near(SCALE, SCALE, SCALE, Kept(0), Whole(0), Spread)
  BY Scale, NearBase, NothingForgotten
<1>6. QED
  BY <1>1, <1>2, <1>3, <1>4, <1>5 DEF CadenceInv

\* An update of a vault, at the same price or at another.
LEMMA UpdateKeepsCadence ==
  ASSUME IInv, IInv', \A w \in Vault : CadenceInv(w),
         NEW v \in Vault, NEW price, NEW confidence, NEW observed \in Nat,
         InBounds(price, confidence),
         UpdateVaultOracle(v, price, confidence, observed)
  PROVE  \A w \in Vault : CadenceInv(w)'
<1> DEFINE reference == AtLeast(last_twap_update_slots[v],
                                vault[v].last_oracle_slot)
           previous == CanonicalTwap(vault[v].price, twap_price[v])
           d == observed - reference
           next == EwmaNextPrice(previous, price, AlphaForSlotDelta(d))
<1>1. /\ vault' = [vault EXCEPT ![v] = [price |-> price,
                                        confidence |-> confidence,
                                        last_oracle_slot |-> observed]]
      /\ twap_price' = [twap_price EXCEPT ![v] = AtLeast(next, 1)]
      /\ last_twap_update_slots' = [last_twap_update_slots EXCEPT
                                      ![v] = observed]
      /\ base' = [base EXCEPT ![v] = IF price = vault[v].price THEN base[v]
                                     ELSE [twap |-> previous,
                                           slot |-> reference]]
      /\ observed > reference
  BY DEF UpdateVaultOracle
<1>2. CadenceInv(v)
  OBVIOUS
<1>3. reference = vault[v].last_oracle_slot /\ reference \in Nat
  BY <1>2 DEF CadenceInv, AtLeast, IInv, TypeOK
<1>4. /\ previous = twap_price[v] /\ previous \in Averages
      /\ previous \in Nat \ {0}
  <2>1. twap_price[v] \in Averages /\ twap_price[v] \in Nat \ {0}
    BY AveragesHold
  <2>2. QED
    BY <2>1 DEF CanonicalTwap, AtLeast
<1>5. price \in Prices /\ price \in Nat
  <2>1. price \in Nat /\ PriceMin <= price /\ price <= PriceMax
    BY BoundsAreNat, Constants DEF InBounds
  <2>2. QED
    BY <2>1, Constants DEF Prices, AtMost, AtLeast
<1>6. d \in Nat \ {0}
  BY <1>1, <1>3
<1>7. base[v].twap \in Averages /\ base[v].twap \in Nat /\ base[v].slot \in Nat
  BY <1>2 DEF CadenceInv, IInv, TypeOK
<1>8. /\ vault'[v].price = price /\ vault'[v].last_oracle_slot = observed
      /\ twap_price'[v] = AtLeast(next, 1)
      /\ last_twap_update_slots'[v] = observed
      /\ base'[v] = IF price = vault[v].price THEN base[v]
                    ELSE [twap |-> previous, slot |-> reference]
  BY <1>1 DEF IInv, TypeOK
<1>9. ASSUME price = vault[v].price
      PROVE  CadenceInv(v)'
  <2>1. PICK n \in Nat : n = Confirmed(v)
    BY <1>2 DEF CadenceInv
  <2>2. Near(previous, base[v].twap, price, Kept(n), Whole(n), Spread)
    BY <1>2, <1>4, <1>9, <2>1 DEF CadenceInv
  <2>3. base'[v] = base[v]
    BY <1>8, <1>9
  <2>4. Confirmed(v)' = n + d /\ n + d \in Nat
    BY <1>3, <1>6, <1>7, <1>8, <2>1, <2>3 DEF Confirmed
  <2>5. Near(AtLeast(next, 1), base[v].twap, price, Kept(n + d), Whole(n + d),
             Spread)
    <3> HIDE DEF d, previous
    <3>1. QED
      BY <1>4, <1>5, <1>6, <1>7, <2>2, UpdateStaysNear
  <2> HIDE DEF d, next
  <2>6. QED
    BY <1>5, <1>7, <1>8, <2>3, <2>4, <2>5 DEF CadenceInv
<1>10. ASSUME price # vault[v].price
       PROVE  CadenceInv(v)'
  <2>1. base'[v].twap = previous /\ base'[v].slot = reference
    BY <1>8, <1>10
  <2>2. Confirmed(v)' = d
    BY <1>8, <2>1 DEF Confirmed
  <2>3. Near(previous, previous, price, Kept(0), Whole(0), Spread)
    <3> HIDE DEF previous
    <3>1. QED
      BY <1>4, <1>5, NearBase, NothingForgotten
  <2>4. Near(AtLeast(next, 1), previous, price, Kept(0 + d), Whole(0 + d),
             Spread)
    <3> HIDE DEF d, previous
    <3>1. QED
      BY <1>4, <1>5, <1>6, <2>3, UpdateStaysNear
  <2>5. 0 + d = d
    BY <1>6
  <2> HIDE DEF d, next, previous
  <2>6. QED
    BY <1>4, <1>5, <1>6, <1>8, <2>1, <2>2, <2>4, <2>5 DEF CadenceInv
<1>11. ASSUME NEW w \in Vault, w # v
       PROVE  CadenceInv(w)'
  <2>1. /\ vault'[w] = vault[w] /\ twap_price'[w] = twap_price[w]
        /\ last_twap_update_slots'[w] = last_twap_update_slots[w]
        /\ base'[w] = base[w]
    BY <1>1, <1>11 DEF IInv, TypeOK
  <2>2. CadenceInv(w)
    OBVIOUS
  <2>3. Confirmed(w)' = Confirmed(w)
    BY <2>1 DEF Confirmed
  <2>4. QED
    BY <2>1, <2>2, <2>3 DEF CadenceInv
<1>12. QED
  BY <1>9, <1>10, <1>11

\* What touches no price keeps it, whatever its vault.
LEMMA StepKeepsCadence ==
  ASSUME IInv, IInv', \A w \in Vault : CadenceInv(w), [Next]_vars
  PROVE  \A w \in Vault : CadenceInv(w)'
<1>1. ASSUME NEW v \in Vault, UpdateOraclePyth(v)
      PROVE  \A w \in Vault : CadenceInv(w)'
  <2> DEFINE a == account[v]
             price == ToDecimals(a.message.value, a.message.exponent)
             confidence == ToDecimals(a.message.conf, a.message.exponent)
  <2>1. /\ InBounds(price, confidence)
        /\ UpdateVaultOracle(v, price, confidence, a.posted_slot)
    BY <1>1 DEF UpdateOraclePyth
  <2>2. a.posted_slot \in Nat
    BY DEF IInv, TypeOK, Account
  <2> HIDE DEF price, confidence, a
  <2>3. QED
    BY <2>1, <2>2, UpdateKeepsCadence
<1>2. ASSUME NEW v \in Vault, NEW q \in ManualQuotes,
             NEW observed \in (slot - StalenessMax)..slot,
             UpdateOracle(v, q.price, q.confidence, observed)
      PROVE  \A w \in Vault : CadenceInv(w)'
  <2>1. /\ InBounds(q.price, q.confidence)
        /\ UpdateVaultOracle(v, q.price, q.confidence, observed)
    BY <1>2 DEF UpdateOracle
  <2>2. observed \in Nat
    BY <2>1, UpdatesAreTimed
  <2>3. QED
    BY <2>1, <2>2, UpdateKeepsCadence
<1>3. CASE UNCHANGED priceVars
  <2>1. ASSUME NEW w \in Vault PROVE CadenceInv(w)'
    <3>1. CadenceInv(w)
      OBVIOUS
    <3>2. /\ vault' = vault /\ twap_price' = twap_price /\ base' = base
          /\ last_twap_update_slots' = last_twap_update_slots
      BY <1>3 DEF priceVars
    <3>3. Confirmed(w)' = Confirmed(w)
      BY <3>2 DEF Confirmed
    <3>4. QED
      BY <3>1, <3>2, <3>3 DEF CadenceInv
  <2>2. QED
    BY <2>1
<1>4. \/ \E v \in Vault : UpdateOraclePyth(v)
      \/ \E v \in Vault : \E q \in ManualQuotes,
           observed \in (slot - StalenessMax)..slot :
             UpdateOracle(v, q.price, q.confidence, observed)
      \/ UNCHANGED priceVars
  BY DEF Next, SetPythFeed, Post, EnableManualOracleMode, ToggleShutdown, Tick,
     vars
<1>5. QED
  BY <1>1, <1>2, <1>3, <1>4
-----------------------------------------------------------------------------
(***************************************************************************)
(* The theorems.                                                           *)
(***************************************************************************)

\* The inductive invariant holds in every state.
THEOREM Invariance == Spec => []IInv
<1>1. Init => IInv
  BY InitEstablishesInv
<1>2. IInv /\ [Next]_vars => IInv'
  BY StepKeepsInv
<1>3. QED
  BY <1>1, <1>2, PTL DEF Spec

\* The types of the clocks, the accounts, the prices and their averages.
THEOREM TypeCorrectness == Spec => []TypeOK
BY Invariance, PTL DEF IInv

\* No sequence of posts and updates makes an old publication mint: the two
\* clocks, the one that update_oracle_pyth asks and the one that mint asks,
\* never let more time through than the sum of their limits.
THEOREM RecentQuotes == Spec => []QuotesAreRecent
<1>1. IInv => QuotesAreRecent
  <2> SUFFICES ASSUME IInv, NEW v \in Vault, Mintable(v), source[v] = "pyth"
               PROVE  now - published_at[v] <= PublishMaxAge + MintStaleness
    BY DEF QuotesAreRecent
  <2>1. /\ now \in Nat /\ slot \in Nat /\ published_at[v] \in Nat
        /\ vault[v].last_oracle_slot \in Nat
    BY DEF IInv, TypeOK
  <2>2. now - published_at[v]
          <= PublishMaxAge + (slot - vault[v].last_oracle_slot)
    BY DEF IInv, VaultInv, PythTimed
  <2>3. slot - vault[v].last_oracle_slot <= MintStaleness
    BY MintableIsFresh DEF IInv
  <2>4. QED
    BY <2>1, <2>2, <2>3, Constants
<1>2. QED
  BY <1>1, Invariance, PTL

\* A price that keepers set by hand is of no use to mint soon after its window.
THEOREM ManualPricesDie == Spec => []ManualPricesExpire
<1>1. IInv => ManualPricesExpire
  <2> SUFFICES ASSUME IInv, NEW v \in Vault, Mintable(v), source[v] = "manual"
               PROVE  slot <= manual_oracle_mode_expiry_slot + MintStaleness
    BY DEF ManualPricesExpire
  <2>1. /\ slot \in Nat /\ manual_oracle_mode_expiry_slot \in Nat
        /\ vault[v].last_oracle_slot \in Nat
    BY DEF IInv, TypeOK
  <2>2. vault[v].last_oracle_slot <= manual_oracle_mode_expiry_slot
    BY DEF IInv, VaultInv, ManualTimed
  <2>3. slot - vault[v].last_oracle_slot <= MintStaleness
    BY MintableIsFresh DEF IInv
  <2>4. QED
    BY <2>1, <2>2, <2>3, Constants
<1>2. QED
  BY <1>1, Invariance, PTL

\* update_vault_oracle: in any number of updates, however the slots between
\* them weigh, the roundings of the average never add up to more than one
\* constant, and no average passes the highest price.
THEOREM AverageKeepsRange == Spec => []AverageInRange
BY Invariance, PTL DEF IInv

\* update_vault_oracle: an update never takes the average past the new price,
\* nor away from it by more than a part.
THEOREM AverageFollows == Spec => AverageFollowsPrice
<1> DEFINE Follows(v) ==
      twap_price'[v] # twap_price[v] =>
        /\ twap_price'[v] >= AtMost(twap_price[v], vault'[v].price) - 1
        /\ twap_price'[v] <= AtLeast(twap_price[v], vault'[v].price)
<1>1. IInv /\ [Next]_vars => [\A v \in Vault : Follows(v)]_vars
  <2> SUFFICES ASSUME IInv, Next, NEW w \in Vault,
                      twap_price'[w] # twap_price[w]
               PROVE  Follows(w)
    OBVIOUS
  <2>1. ASSUME NEW v \in Vault, NEW price \in Nat, NEW confidence \in Nat,
               NEW observed \in Nat,
               UpdateVaultOracle(v, price, confidence, observed)
        PROVE  Follows(w)
    <3>1. twap_price' = [twap_price EXCEPT ![v] = twap_price'[v]]
      BY <2>1, UpdateWeighs
    <3>2. w = v
      BY <3>1 DEF IInv, TypeOK
    <3>3. vault'[v].price = price
      BY <2>1 DEF UpdateVaultOracle, IInv, TypeOK
    <3>4. QED
      BY <2>1, <3>2, <3>3, UpdateWeighs
  <2>2. CASE \E v \in Vault : UpdateOraclePyth(v)
    <3>1. PICK v \in Vault : UpdateOraclePyth(v)
      BY <2>2
    <3> DEFINE a == account[v]
               price == ToDecimals(a.message.value, a.message.exponent)
               confidence == ToDecimals(a.message.conf, a.message.exponent)
    <3>2. price \in Nat /\ confidence \in Nat
      BY <3>1, BoundsAreNat DEF UpdateOraclePyth
    <3>3. a.posted_slot \in Nat
      BY DEF IInv, TypeOK, Account
    <3>4. UpdateVaultOracle(v, price, confidence, a.posted_slot)
      BY <3>1 DEF UpdateOraclePyth
    <3> HIDE DEF price, confidence, a, Follows
    <3>5. QED
      BY <2>1, <3>2, <3>3, <3>4
  <2>3. CASE \E v \in Vault : \E q \in ManualQuotes,
               observed \in (slot - StalenessMax)..slot :
                 UpdateOracle(v, q.price, q.confidence, observed)
    <3>1. PICK v \in Vault, q \in ManualQuotes,
               observed \in (slot - StalenessMax)..slot :
                 UpdateOracle(v, q.price, q.confidence, observed)
      BY <2>3
    <3>2. q.price \in Nat /\ q.confidence \in Nat
      BY <3>1, BoundsAreNat DEF UpdateOracle
    <3>3. observed \in Nat
      BY <3>1, UpdatesAreTimed DEF UpdateOracle
    <3>4. UpdateVaultOracle(v, q.price, q.confidence, observed)
      BY <3>1 DEF UpdateOracle
    <3> HIDE DEF Follows
    <3>5. QED
      BY <2>1, <3>2, <3>3, <3>4
  <2>4. CASE UNCHANGED twap_price
    BY <2>4
  <2>5. QED
    <3>1. \/ \E v \in Vault : UpdateOraclePyth(v)
          \/ \E v \in Vault : \E q \in ManualQuotes,
               observed \in (slot - StalenessMax)..slot :
                 UpdateOracle(v, q.price, q.confidence, observed)
          \/ UNCHANGED twap_price
      BY DEF Next, SetPythFeed, Post, EnableManualOracleMode, ToggleShutdown,
         Tick, priceVars
    <3>2. QED
      BY <2>2, <2>3, <2>4, <3>1
<1>2. QED
  BY Invariance, <1>1, PTL DEF Spec, AverageFollowsPrice

\* twap_alpha_for_slot_delta and ewma_next_price: however many updates confirm
\* a price, and however the slots between them are divided, the average is the
\* one that a single update over all these slots would have given, but for
\* what two computations truncate.
THEOREM CadenceIsIgnored == Spec => []TwapIgnoresCadence
<1> DEFINE Inv == \A v \in Vault : CadenceInv(v)
<1>1. Init => Inv
  BY InitEstablishesCadence
<1>2. IInv /\ IInv' /\ Inv /\ [Next]_vars => Inv'
  BY StepKeepsCadence
<1>3. IInv /\ Inv => TwapIgnoresCadence
  <2> SUFFICES ASSUME IInv, NEW v \in Vault, CadenceInv(v)
               PROVE  Distance(twap_price[v],
                               EwmaNextPrice(base[v].twap, vault[v].price,
                                             AlphaForSlotDelta(Confirmed(v))))
                        <= CadenceError
    BY DEF TwapIgnoresCadence, Confirmed
  <2>1. PICK n \in Nat : n = Confirmed(v)
    BY DEF CadenceInv
  <2>2. PICK p \in Nat : p = base[v].twap /\ p \in Averages /\ p # 0
    BY DEF CadenceInv, IInv, TypeOK
  <2>3. PICK o \in Prices : o = vault[v].price
    BY DEF CadenceInv
  <2>4. PICK t \in Nat : t = twap_price[v]
    BY DEF IInv, TypeOK
  <2>5. o \in Nat /\ Spread \in Nat
    BY SpreadCovers
  <2>6. Near(t, p, o, Kept(n), Whole(n), Spread)
    BY <2>1, <2>2, <2>3, <2>4 DEF CadenceInv
  <2> DEFINE expected == EwmaNextPrice(p, o, AlphaForSlotDelta(n))
  <2>7. Near(p, p, o, Kept(0), Whole(0), Spread)
    BY <2>5, NearBase, NothingForgotten
  <2>8. expected \in Nat /\ Near(expected, p, o, Kept(n), Whole(n), Spread)
    <3>1. CASE n = 0
      <4>1. AlphaForSlotDelta(n) = 0
        BY <3>1, WeightOfKept, Scale
      <4>2. (p * SCALE) \div SCALE = p /\ (o * 0) \div SCALE = 0
        <5>1. PICK x : x = (p * SCALE) \div SCALE
          OBVIOUS
        <5>2. p * SCALE \in Nat
          BY Scale
        <5>3. /\ x \in Nat /\ x * SCALE \in Nat /\ x * SCALE <= p * SCALE
              /\ p * SCALE < x * SCALE + SCALE
          BY <5>1, <5>2, Scale
        <5>4. x <= p
          BY <5>3, ScaleCancel
        <5>5. ~ (x + 1 <= p)
          <6>1. x + 1 <= p => (x + 1) * SCALE <= p * SCALE
            BY <5>3, Scale, ProductMonotone
          <6>2. (x + 1) * SCALE = x * SCALE + SCALE
            BY <5>3, Scale
          <6>3. QED
            BY <5>2, <5>3, <6>1, <6>2, Scale
        <5>6. (o * 0) \div SCALE = 0
          BY <2>5, Scale
        <5>7. QED
          BY <5>1, <5>3, <5>4, <5>5, <5>6
      <4>3. expected = p
        BY <2>5, <4>1, <4>2, Scale DEF EwmaNextPrice
      <4>4. QED
        BY <2>7, <3>1, <4>3
    <3>2. CASE n # 0
      <4>1. 0 + n = n /\ n \in Nat \ {0} /\ p \in Nat \ {0}
        BY <2>2, <3>2
      <4>2. /\ expected \in Nat
            /\ Near(expected, p, o, Kept(0 + n), Whole(0 + n), Spread)
        BY <2>2, <2>7, <4>1, UpdateStaysNear
      <4>3. QED
        BY <4>1, <4>2
    <3>3. QED
      BY <3>1, <3>2
  <2>9. Distance(t, expected) <= (2 * SCALE + 4 * Spread) \div TwapAlpha
    <3> HIDE DEF expected
    <3>1. Kept(n) \in Nat /\ Whole(n) \in Nat \ {0}
      BY KeptParts
    <3>2. QED
      BY <2>5, <2>6, <2>8, <3>1, NearEachOther
  <2>10. QED
    BY <2>1, <2>2, <2>3, <2>4, <2>9 DEF CadenceError
<1>4. QED
  BY <1>1, <1>2, <1>3, Invariance, PTL DEF Spec

-----------------------------------------------------------------------------
(***************************************************************************)
(* The daemon's oracle step, OracleCycle, over the same Pyth accounts.     *)
(***************************************************************************)
CONSTANTS DegradeThreshold, MaxAttempts, Steady

VARIABLES quality, fresh, same, secondary, shutdown, flying, failures, pc,
          attempt, todo, feed, observed, prepared

Cycle == INSTANCE OracleCycle

\* A registration keeps the count of failures in its range.
LEMMA RegistrationsCount ==
  ASSUME Cycle!CycleAssumption, failures \in 0..DegradeThreshold,
         Cycle!RegisterFailure \/ Cycle!RegisterSuccess \/ UNCHANGED failures
  PROVE  failures' \in 0..DegradeThreshold
BY DEF Cycle!CycleAssumption, Cycle!RegisterFailure, Cycle!RegisterSuccess,
   Cycle!AtMost

\* A failed comparison of the snapshots counts or not, and then tries again,
\* goes on with the one node, which the record must allow, or leaves.
LEMMA SnapshotOutcomes ==
  ASSUME Cycle!CycleAssumption, attempt \in 1..MaxAttempts,
         NEW counts \in BOOLEAN,
         Cycle!CompareFails(counts, Cycle!WithSnapshot)
  PROVE  /\ Cycle!RegisterFailure \/ UNCHANGED failures
         /\ \/ /\ attempt' \in 1..MaxAttempts
               /\ UNCHANGED <<pc, todo, feed, observed, prepared>>
            \/ Cycle!WithSnapshot /\ Cycle!IsDegraded'
            \/ Cycle!Leave
<1>0. MaxAttempts \in Nat \ {0}
  BY DEF Cycle!CycleAssumption
<1>1. CASE attempt < MaxAttempts
  BY <1>0, <1>1 DEF Cycle!CompareFails
<1>2. CASE ~(attempt < MaxAttempts)
  BY <1>0, <1>2 DEF Cycle!CompareFails, Cycle!IsDegraded
<1>3. QED
  BY <1>1, <1>2

\* The same of a failed comparison of a feed.
LEMMA FeedOutcomes ==
  ASSUME Cycle!CycleAssumption, attempt \in 1..MaxAttempts,
         NEW counts \in BOOLEAN,
         Cycle!CompareFails(counts, Cycle!Filtered(feed, observed))
  PROVE  /\ Cycle!RegisterFailure \/ UNCHANGED failures
         /\ \/ /\ attempt' \in 1..MaxAttempts
               /\ UNCHANGED <<pc, todo, feed, observed, prepared>>
            \/ Cycle!Filtered(feed, observed) /\ Cycle!IsDegraded'
            \/ Cycle!Leave
<1>0. MaxAttempts \in Nat \ {0}
  BY DEF Cycle!CycleAssumption
<1>1. CASE attempt < MaxAttempts
  BY <1>0, <1>1 DEF Cycle!CompareFails
<1>2. CASE ~(attempt < MaxAttempts)
  BY <1>0, <1>2 DEF Cycle!CompareFails, Cycle!IsDegraded
<1>3. QED
  BY <1>1, <1>2

\* The step keeps its types: its attempts end, and what it compares or has
\* accepted it does not look at again.
LEMMA CycleKeepsTypes ==
  Cycle!CycleAssumption /\ Cycle!TypeOK /\ [Cycle!Next]_Cycle!vars
    => Cycle!TypeOK'
<1> SUFFICES ASSUME Cycle!CycleAssumption, Cycle!TypeOK,
                    [Cycle!Next]_Cycle!vars
             PROVE  Cycle!TypeOK'
  OBVIOUS
<1> USE DEF Cycle!TypeOK, Cycle!envVars, Cycle!cycleVars, Cycle!None
<1>0. MaxAttempts \in Nat \ {0} /\ DegradeThreshold \in Nat \ {0}
  BY DEF Cycle!CycleAssumption
<1>1. CASE Cycle!Begin
  BY <1>0, <1>1 DEF Cycle!Begin
<1>2. CASE Cycle!ReadSnapshot
  <2>1. failures' \in 0..DegradeThreshold
    <3>1. Cycle!RegisterFailure \/ Cycle!RegisterSuccess \/ UNCHANGED failures
      BY <1>2, SnapshotOutcomes DEF Cycle!ReadSnapshot
    <3>2. QED
      BY <3>1, RegistrationsCount
  <2>2. \/ /\ attempt' \in 1..MaxAttempts
           /\ UNCHANGED <<pc, todo, feed, observed, prepared>>
        \/ Cycle!WithSnapshot \/ Cycle!Leave
    BY <1>2, SnapshotOutcomes DEF Cycle!ReadSnapshot
  <2>3. pc = "snapshot" /\ UNCHANGED <<Cycle!envVars, flying>>
    BY <1>2 DEF Cycle!ReadSnapshot
  <2>4. QED
    BY <1>0, <2>1, <2>2, <2>3 DEF Cycle!WithSnapshot, Cycle!Leave
<1>3. ASSUME NEW f \in Feed, Cycle!FetchFeed(f)
      PROVE  Cycle!TypeOK'
  <2>1. /\ pc = "feeds" /\ f \in todo /\ feed = Cycle!None
        /\ UNCHANGED <<Cycle!envVars, flying, failures>>
    BY <1>3 DEF Cycle!FetchFeed
  <2>2. \/ /\ todo' = todo \ {f}
           /\ prepared' \in {prepared, prepared \union {f}}
           /\ UNCHANGED <<pc, attempt, feed, observed>>
        \/ /\ pc' = "compare" /\ feed' = f /\ observed' = quality[f]
           /\ quality[f] # "unreadable"
           /\ todo' = todo \ {f}
           /\ UNCHANGED <<attempt, prepared>>
    BY <1>3 DEF Cycle!FetchFeed, Cycle!FetchFails
  <2>3. quality[f] \in {"good", "unfit", "unreadable"}
    BY DEF Cycle!Quality
  <2>4. QED
    BY <2>1, <2>2, <2>3
<1>4. CASE Cycle!CompareFeed
  <2> DEFINE q == IF attempt = 1 THEN observed ELSE quality[feed]
  <2>1. failures' \in 0..DegradeThreshold
    <3>1. Cycle!RegisterFailure \/ Cycle!RegisterSuccess \/ UNCHANGED failures
      BY <1>4, FeedOutcomes DEF Cycle!CompareFeed
    <3>2. QED
      BY <3>1, RegistrationsCount
  <2>2. \/ /\ attempt' \in 1..MaxAttempts
           /\ UNCHANGED <<pc, todo, feed, observed, prepared>>
        \/ Cycle!Filtered(feed, observed) \/ Cycle!Filtered(feed, q)
        \/ Cycle!Leave
    BY <1>4, FeedOutcomes DEF Cycle!CompareFeed
  <2>3. pc = "compare" /\ UNCHANGED <<Cycle!envVars, flying>>
    BY <1>4 DEF Cycle!CompareFeed
  <2>4. ASSUME NEW m, Cycle!Filtered(feed, m)
        PROVE  Cycle!TypeOK'
    BY <1>0, <2>1, <2>3, <2>4 DEF Cycle!Filtered
  <2>5. CASE Cycle!Leave
    BY <1>0, <2>1, <2>3, <2>5 DEF Cycle!Leave
  <2>6. QED
    BY <2>1, <2>2, <2>3, <2>4, <2>5
<1>5. CASE Cycle!FeedsDone
  BY <1>5 DEF Cycle!FeedsDone
<1>6. ASSUME NEW f \in Feed, NEW sent \in BOOLEAN, Cycle!Send(f, sent)
      PROVE  Cycle!TypeOK'
  <2>1. failures' \in 0..DegradeThreshold
    BY <1>6, RegistrationsCount DEF Cycle!Send
  <2>2. QED
    BY <1>6, <2>1 DEF Cycle!Send
<1>7. CASE Cycle!Finish
  BY <1>0, <1>7 DEF Cycle!Finish, Cycle!Leave
<1>8. CASE Cycle!Recover \/ Cycle!OtherSteps
  <2>1. failures' \in 0..DegradeThreshold
    BY <1>8, RegistrationsCount DEF Cycle!Recover, Cycle!OtherSteps
  <2>2. CASE Cycle!Recover
    BY <1>0, <2>1, <2>2 DEF Cycle!Recover
  <2>3. CASE Cycle!OtherSteps
    BY <2>1, <2>3 DEF Cycle!OtherSteps
  <2>4. QED
    BY <1>8, <2>2, <2>3
<1>9. ASSUME NEW f \in Feed, Cycle!Land(f) \/ Cycle!Expire(f) \/ Cycle!Post(f)
      PROVE  Cycle!TypeOK'
  BY <1>9 DEF Cycle!Land, Cycle!Expire, Cycle!Post, Cycle!Quality
<1>10. CASE Cycle!NodeChanges
  <2>1. same' \subseteq Feed
    BY <1>10 DEF Cycle!NodeChanges, Cycle!CycleAssumption
  <2>2. QED
    BY <1>10, <2>1 DEF Cycle!NodeChanges
<1>11. CASE Cycle!ToggleShutdown
  BY <1>11 DEF Cycle!ToggleShutdown
<1>12. CASE UNCHANGED Cycle!vars
  BY <1>12 DEF Cycle!vars
<1>13. QED
  BY <1>1, <1>2, <1>3, <1>4, <1>5, <1>6, <1>7, <1>8, <1>9, <1>10, <1>11, <1>12
  DEF Cycle!Next, Cycle!Daemon

\* run_oracle_cycle: whatever the nodes do between its calls, its attempts are
\* limited, and no feed is accepted twice or while it is yet to be looked at.
THEOREM CycleTypeCorrectness ==
  ASSUME Cycle!CycleAssumption
  PROVE  Cycle!Spec => []Cycle!TypeOK
<1>1. Cycle!Init => Cycle!TypeOK
  <2>1. 0 \in 0..DegradeThreshold /\ 1 \in 1..MaxAttempts
    BY DEF Cycle!CycleAssumption
  <2>2. QED
    BY <2>1 DEF Cycle!Init, Cycle!TypeOK, Cycle!Quality, Cycle!None
<1>2. Cycle!TypeOK /\ [Cycle!Next]_Cycle!vars => Cycle!TypeOK'
  BY CycleKeepsTypes
<1>3. QED
  BY <1>1, <1>2, PTL DEF Cycle!Spec

\* validate_oracle_observation_consistency and the record of the secondary
\* node: while the record does not say degraded, a feed on which the nodes
\* differ is never accepted, whatever the attempts before have counted.
THEOREM DifferencesStopUpdates ==
  ASSUME Cycle!CycleAssumption
  PROVE  Cycle!Spec => Cycle!DifferenceStopsAll
<1> USE DEF Cycle!envVars, Cycle!cycleVars
<1>1. Cycle!TypeOK /\ [Cycle!Next]_Cycle!vars
        => [prepared' \ prepared # {} /\ ~Cycle!IsDegraded'
              => feed \in same]_Cycle!vars
  <2> SUFFICES ASSUME Cycle!TypeOK, Cycle!Next, prepared' \ prepared # {},
                      ~Cycle!IsDegraded'
               PROVE  feed \in same
    OBVIOUS
  <2>1. CASE Cycle!CompareFeed
    <3> DEFINE q == IF attempt = 1 THEN observed ELSE quality[feed]
    <3>1. CASE Cycle!ObservationsAgree(feed)
      BY <3>1 DEF Cycle!ObservationsAgree
    <3>2. CASE ~Cycle!ObservationsAgree(feed)
      <4>1. \/ Cycle!CompareFails(FALSE, Cycle!Filtered(feed, observed))
            \/ Cycle!CompareFails(TRUE, Cycle!Filtered(feed, observed))
        BY <2>1, <3>2 DEF Cycle!CompareFeed
      <4>2. \/ UNCHANGED prepared
            \/ Cycle!IsDegraded'
            \/ Cycle!Leave
        BY <4>1, FeedOutcomes DEF Cycle!TypeOK
      <4>3. ~Cycle!Leave
        BY DEF Cycle!Leave
      <4>4. QED
        BY <4>2, <4>3
    <3>3. QED
      BY <3>1, <3>2
  <2>2. CASE \E f \in Feed : Cycle!FetchFeed(f)
    <3>1. \/ UNCHANGED prepared
          \/ Cycle!IsDegraded /\ UNCHANGED failures
      BY <2>2 DEF Cycle!FetchFeed, Cycle!FetchFails
    <3>2. QED
      BY <3>1 DEF Cycle!IsDegraded
  <2>3. CASE Cycle!ReadSnapshot
    <3>1. \/ UNCHANGED prepared
          \/ Cycle!WithSnapshot \/ Cycle!Leave
      BY <2>3, SnapshotOutcomes DEF Cycle!ReadSnapshot, Cycle!TypeOK
    <3>2. prepared' \subseteq prepared
      BY <3>1 DEF Cycle!WithSnapshot, Cycle!Leave
    <3>3. QED
      BY <3>2
  <2>4. CASE \E f \in Feed, sent \in BOOLEAN : Cycle!Send(f, sent)
    BY <2>4 DEF Cycle!Send
  <2>5. CASE prepared' \subseteq prepared
    BY <2>5
  <2>6. QED
    <3>1. \/ Cycle!CompareFeed \/ Cycle!ReadSnapshot
          \/ \E f \in Feed : Cycle!FetchFeed(f)
          \/ \E f \in Feed, sent \in BOOLEAN : Cycle!Send(f, sent)
          \/ prepared' \subseteq prepared
      BY DEF Cycle!Next, Cycle!Daemon, Cycle!Begin, Cycle!FeedsDone,
         Cycle!Finish, Cycle!Leave, Cycle!Recover, Cycle!OtherSteps,
         Cycle!Land, Cycle!Expire, Cycle!Post, Cycle!NodeChanges,
         Cycle!ToggleShutdown
    <3>2. QED
      BY <2>1, <2>2, <2>3, <2>4, <2>5, <3>1
<1>2. QED
  BY CycleTypeCorrectness, <1>1, PTL DEF Cycle!Spec, Cycle!DifferenceStopsAll
=============================================================================
