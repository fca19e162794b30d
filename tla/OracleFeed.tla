----------------------------- MODULE OracleFeed -----------------------------
(***************************************************************************)
(* The price of each vault: taken from the vault's Pyth account or, while  *)
(* a manual window is open, from two keepers; its moving average (TWAP);   *)
(* and what mint and redeem ask of a price before they use it.             *)
(*                                                                         *)
(* Two clocks meet here. An observation carries the slot at which it was   *)
(* posted and the second at which it was published; the program checks the *)
(* second when the observation is taken over, the slot whenever the price  *)
(* is used. The keepers' quorum is that of KeeperSet; breakers, shutdowns  *)
(* and the rules for opening a manual window are those of CircuitBreakers. *)
(***************************************************************************)
EXTENDS Integers

CONSTANTS
  Vault,
  Feed, NoFeed,          \* Pyth accounts, and the default key
  FeedOf,                \* PYTH_USDC_USD, ...: the account of each vault
  SCALE, DECIMALS,       \* one, and its decimals
  PriceMin, PriceMax,    \* PRICE_MIN, PRICE_MAX
  ConfidenceMax,         \* ORACLE_CONFIDENCE_MAX
  MintConfidenceMax,     \* MINT_ORACLE_CONFIDENCE_MAX
  PublishMaxAge,         \* PYTH_PUBLISH_TIME_MAX_AGE, seconds
  StalenessMax, HighVolStaleness,          \* ORACLE_STALENESS_MAX, ...
  MintStaleness, HighVolMintStaleness,     \* MINT_ORACLE_STALENESS_MAX, ...
  TwapAlpha,             \* TWAP_ALPHA_PPM
  TwapMaxDeviation,      \* TWAP_MAX_DEVIATION_PPM
  HighVolatility,        \* HIGH_VOLATILITY_DEVIATION_PPM
  MintDepegPause,        \* MINT_DEPEG_PAUSE_THRESHOLD
  ManualMaxSlots,        \* MANUAL_ORACLE_MODE_MAX_SLOTS
  ManualDelay            \* MANUAL_ORACLE_MODE_REENABLE_COOLDOWN_SLOTS

CONSTANTS  \* The inputs and the bounds of an instance.
  Messages,              \* what Pyth may post
  ManualQuotes,          \* the prices and confidences keepers may set
  Lags,                  \* how old a message is when it is posted
  MaxSlot

Message == [value : Nat, conf : Nat, exponent : Int, readable : BOOLEAN]

ASSUME FeedAssumption == FeedOf \in [Vault -> Feed] /\ NoFeed \notin Feed

ASSUME LimitAssumption ==
  /\ {SCALE, PublishMaxAge, ManualMaxSlots, ManualDelay, DECIMALS, PriceMax,
      ConfidenceMax, MintConfidenceMax, TwapMaxDeviation, HighVolatility,
      MintDepegPause} \subseteq Nat
  /\ PriceMin \in Nat \ {0}
  /\ StalenessMax \in Nat /\ HighVolStaleness \in 0..StalenessMax
  /\ MintStaleness \in Nat /\ HighVolMintStaleness \in 0..MintStaleness
  /\ TwapAlpha \in 1..SCALE

ASSUME InputAssumption ==
  /\ Messages \subseteq Message
  /\ ManualQuotes \subseteq [price : Nat, confidence : Nat]
  /\ Lags \subseteq Nat
  /\ MaxSlot \in Nat

VARIABLES
  slot, now,                       \* the slot and the unix time of the clock
  account,                         \* the Pyth account of each vault
  pyth_price_feed,                 \* the account a vault is configured for
  vault,                           \* price, confidence, last_oracle_slot
  twap_price,
  last_twap_update_slots,
  manual_oracle_mode_expiry_slot,
  emergency_shutdown

\* History: where the price in use comes from, when it was published, and the
\* average before the present run of equal prices with its slot.
VARIABLES source, published_at, base

clockVars == <<slot, now>>
settingVars ==
  <<pyth_price_feed, manual_oracle_mode_expiry_slot, emergency_shutdown>>
priceVars == <<vault, twap_price, last_twap_update_slots, source,
               published_at, base>>
vars == <<clockVars, account, settingVars, priceVars>>

AtMost(a, b) == IF a <= b THEN a ELSE b
AtLeast(a, b) == IF a >= b THEN a ELSE b
Distance(a, b) == IF a >= b THEN a - b ELSE b - a
-----------------------------------------------------------------------------
(***************************************************************************)
(* The moving average.                                                     *)
(***************************************************************************)

\* The variables of the loop of fixed_point_pow_ppm, and a round of it.
LoopState == [base_ppm : Nat, exponent : Nat, result : Nat]

LoopBody(s) ==
  [base_ppm |-> (s.base_ppm * s.base_ppm) \div SCALE,
   exponent |-> s.exponent \div 2,
   result |-> IF s.exponent % 2 = 1 THEN (s.result * s.base_ppm) \div SCALE
              ELSE s.result]

\* The result with which the loop ends.
PowLoop[s \in LoopState] ==
  IF s.exponent = 0 THEN s.result ELSE PowLoop[LoopBody(s)]

FixedPointPow(base_ppm, exponent) ==
  PowLoop[[base_ppm |-> base_ppm, exponent |-> exponent, result |-> SCALE]]

\* Faulty: an observation weighs the same however long ago the last one was.
AlphaForSlotDelta_Fixed(delta) == TwapAlpha

\* twap_alpha_for_slot_delta
AlphaForSlotDelta(delta) == SCALE - FixedPointPow(SCALE - TwapAlpha, delta)

\* ewma_next_price
EwmaNextPrice(previous, observed, alpha) ==
  (previous * (SCALE - alpha)) \div SCALE + (observed * alpha) \div SCALE

\* canonical_twap_price
CanonicalTwap(spot, twap) == AtLeast(IF twap = 0 THEN spot ELSE twap, 1)

\* price_deviation_ppm
PriceDeviation(spot, twap) ==
  LET average == CanonicalTwap(spot, twap)
  IN  AtMost((Distance(spot, average) * SCALE) \div average, SCALE)

\* dynamic_oracle_staleness_limit
StalenessLimit(spot, twap, normal, high_vol) ==
  IF PriceDeviation(spot, twap) >= HighVolatility THEN high_vol ELSE normal

Age(v) == AtLeast(slot - vault[v].last_oracle_slot, 0)
-----------------------------------------------------------------------------
(***************************************************************************)
(* What is asked of a price before it is used.                             *)
(***************************************************************************)

\* vault_oracle_degraded
Degraded(v) ==
  LET price == vault[v].price
  IN  \/ price = 0
      \/ vault[v].confidence > ConfidenceMax
      \/ PriceDeviation(price, twap_price[v]) > TwapMaxDeviation
      \/ Age(v) > StalenessLimit(price, twap_price[v], StalenessMax,
                                 HighVolStaleness)

\* Faulty: the general limit on the age, not that of mint.
Mintable_AnyAge(v) ==
  /\ ~emergency_shutdown
  /\ ~Degraded(v)
  /\ vault[v].confidence <= MintConfidenceMax
  /\ \A w \in Vault : Distance(vault[w].price, SCALE) < MintDepegPause

\* What mint asks of the price of the vault it is given collateral for.
Mintable(v) ==
  /\ ~emergency_shutdown
  /\ ~Degraded(v)
  /\ Age(v) <= StalenessLimit(vault[v].price, twap_price[v], MintStaleness,
                              HighVolMintStaleness)
  /\ vault[v].confidence <= MintConfidenceMax
  /\ \A w \in Vault : Distance(vault[w].price, SCALE) < MintDepegPause
-----------------------------------------------------------------------------
(***************************************************************************)
(* New prices.                                                             *)
(***************************************************************************)

InBounds(price, confidence) ==
  price \in PriceMin..PriceMax /\ confidence \in 0..ConfidenceMax

\* update_vault_oracle: only observations of later slots are taken.
UpdateVaultOracle(v, price, confidence, observed) ==
  LET reference == AtLeast(last_twap_update_slots[v],
                           vault[v].last_oracle_slot)
      previous == CanonicalTwap(vault[v].price, twap_price[v])
      alpha == AlphaForSlotDelta(observed - reference)
  IN  /\ observed > reference
      /\ vault' = [vault EXCEPT ![v] = [price |-> price,
                                        confidence |-> confidence,
                                        last_oracle_slot |-> observed]]
      /\ twap_price' = [twap_price EXCEPT
                          ![v] = AtLeast(EwmaNextPrice(previous, price, alpha),
                                         1)]
      /\ last_twap_update_slots' = [last_twap_update_slots EXCEPT
                                      ![v] = observed]
      /\ base' = [base EXCEPT ![v] = IF price = vault[v].price THEN @
                                     ELSE [twap |-> previous,
                                           slot |-> reference]]

\* Faulty: the window of manual prices is not looked at.
UpdateOracle_AnyTime(v, price, confidence, observed) ==
  /\ InBounds(price, confidence)
  /\ observed <= slot
  /\ slot - observed <= StalenessMax
  /\ UpdateVaultOracle(v, price, confidence, observed)
  /\ source' = [source EXCEPT ![v] = "manual"]
  /\ published_at' = [published_at EXCEPT ![v] = now]
  /\ UNCHANGED <<clockVars, account, settingVars>>

\* update_oracle: keepers set a price by hand, also during a shutdown.
UpdateOracle(v, price, confidence, observed) ==
  /\ slot <= manual_oracle_mode_expiry_slot
  /\ InBounds(price, confidence)
  /\ observed <= slot
  /\ slot - observed <= StalenessMax
  /\ UpdateVaultOracle(v, price, confidence, observed)
  /\ source' = [source EXCEPT ![v] = "manual"]
  /\ published_at' = [published_at EXCEPT ![v] = now]
  /\ UNCHANGED <<clockVars, account, settingVars>>

\* scale_unsigned_to_six_decimals: a value that is shortened is rounded up.
ToDecimals(value, exponent) ==
  LET shift == exponent + DECIMALS
  IN  IF shift >= 0 THEN value * 10 ^ shift
      ELSE (value + 10 ^ (-shift) - 1) \div 10 ^ (-shift)

\* Faulty: only the slot of the observation is looked at.
FreshPublication_BySlot(a) == a.publish_time <= now

\* The time of publication, checked when a message is taken over.
FreshPublication(a) ==
  a.publish_time <= now /\ now - a.publish_time <= PublishMaxAge

\* update_oracle_pyth: the message that is in the vault's account now.
UpdateOraclePyth(v) ==
  LET a == account[v]
      price == ToDecimals(a.message.value, a.message.exponent)
      confidence == ToDecimals(a.message.conf, a.message.exponent)
  IN  /\ ~emergency_shutdown
      /\ pyth_price_feed[v] = FeedOf[v]
      /\ a.message.readable /\ a.message.value > 0
      /\ FreshPublication(a)
      /\ InBounds(price, confidence)
      /\ a.posted_slot <= slot
      /\ slot - a.posted_slot
           <= StalenessLimit(price, CanonicalTwap(price, twap_price[v]),
                             StalenessMax, HighVolStaleness)
      /\ UpdateVaultOracle(v, price, confidence, a.posted_slot)
      /\ source' = [source EXCEPT ![v] = "pyth"]
      /\ published_at' = [published_at EXCEPT ![v] = a.publish_time]
      /\ UNCHANGED <<clockVars, account, settingVars>>

\* set_pyth_feed: the account the program expects, and no vault's twice.
SetPythFeed(v) ==
  /\ \A w \in Vault \ {v} : pyth_price_feed[w] # FeedOf[v]
  /\ pyth_price_feed' = [pyth_price_feed EXCEPT ![v] = FeedOf[v]]
  /\ UNCHANGED <<clockVars, account, manual_oracle_mode_expiry_slot,
                 emergency_shutdown, priceVars>>

\* enable_manual_oracle_mode, with the shortest delay between two windows.
EnableManualOracleMode(n) ==
  /\ slot > manual_oracle_mode_expiry_slot
  /\ \/ manual_oracle_mode_expiry_slot = 0
     \/ slot >= manual_oracle_mode_expiry_slot + ManualDelay
  /\ manual_oracle_mode_expiry_slot' = slot + n
  /\ UNCHANGED <<clockVars, account, pyth_price_feed, emergency_shutdown,
                 priceVars>>

\* emergency_shutdown and resume_from_shutdown.
ToggleShutdown ==
  /\ emergency_shutdown' = ~emergency_shutdown
  /\ UNCHANGED <<clockVars, account, pyth_price_feed,
                 manual_oracle_mode_expiry_slot, priceVars>>

\* The Pyth receiver writes a message to an account; nothing keeps it from
\* writing one that is older than the last.
Post(v, message, lag) ==
  /\ lag <= now
  /\ account' = [account EXCEPT ![v] = [message |-> message,
                                        posted_slot |-> slot,
                                        publish_time |-> now - lag]]
  /\ UNCHANGED <<clockVars, settingVars, priceVars>>

\* A slot takes less than a second.
Tick ==
  /\ slot < MaxSlot
  /\ slot' = slot + 1
  /\ now' \in {now, now + 1}
  /\ UNCHANGED <<account, settingVars, priceVars>>

NoMessage == [value |-> 0, conf |-> 0, exponent |-> 0, readable |-> FALSE]

\* init_vault
Init ==
  /\ slot = 1
  /\ now = 1
  /\ account = [v \in Vault |-> [message |-> NoMessage, posted_slot |-> 0,
                                 publish_time |-> 0]]
  /\ pyth_price_feed = [v \in Vault |-> NoFeed]
  /\ vault = [v \in Vault |-> [price |-> SCALE, confidence |-> SCALE \div 1000,
                               last_oracle_slot |-> slot]]
  /\ twap_price = [v \in Vault |-> SCALE]
  /\ last_twap_update_slots = [v \in Vault |-> slot]
  /\ manual_oracle_mode_expiry_slot = 0
  /\ emergency_shutdown = FALSE
  /\ source = [v \in Vault |-> "initial"]
  /\ published_at = [v \in Vault |-> now]
  /\ base = [v \in Vault |-> [twap |-> SCALE, slot |-> slot]]

Next ==
  \/ \E v \in Vault :
       \/ UpdateOraclePyth(v)
       \/ \E q \in ManualQuotes, observed \in (slot - StalenessMax)..slot :
            UpdateOracle(v, q.price, q.confidence, observed)
       \/ SetPythFeed(v)
       \/ \E message \in Messages, lag \in Lags : Post(v, message, lag)
  \/ \E n \in 1..ManualMaxSlots : EnableManualOracleMode(n)
  \/ ToggleShutdown
  \/ Tick

Spec == Init /\ [][Next]_vars
-----------------------------------------------------------------------------
(***************************************************************************)
(* Properties.                                                             *)
(***************************************************************************)

Account ==
  [message : Message, posted_slot : Nat, publish_time : Nat]

\* The types of the variables.
TypeOK ==
  /\ slot \in Nat /\ now \in Nat
  /\ account \in [Vault -> Account]
  /\ pyth_price_feed \in [Vault -> Feed \union {NoFeed}]
  /\ vault \in [Vault -> [price : Nat, confidence : Nat,
                          last_oracle_slot : Nat]]
  /\ twap_price \in [Vault -> Nat \ {0}]
  /\ last_twap_update_slots \in [Vault -> Nat]
  /\ manual_oracle_mode_expiry_slot \in Nat
  /\ emergency_shutdown \in BOOLEAN
  /\ source \in [Vault -> {"initial", "pyth", "manual"}]
  /\ published_at \in [Vault -> Nat]
  /\ base \in [Vault -> [twap : Nat, slot : Nat]]

\* A Pyth price that mints was published recently: the age at which messages
\* are taken over and the age at which prices are used, counted on different
\* clocks, add up, and no sequence of posts and updates gets around them.
QuotesAreRecent ==
  \A v \in Vault :
    Mintable(v) /\ source[v] = "pyth" =>
      now - published_at[v] <= PublishMaxAge + MintStaleness

\* A price set by hand mints for a mint's staleness after its window at most.
ManualPricesExpire ==
  \A v \in Vault :
    Mintable(v) /\ source[v] = "manual" =>
      slot <= manual_oracle_mode_expiry_slot + MintStaleness

\* The rounding of the average: two halves a step, each step forgetting a
\* TwapAlpha of what was lost before.
Rounding == (2 * SCALE) \div TwapAlpha + 2

\* The average stays among the prices that are admitted, though each update
\* cuts it twice: what is lost so is bounded, whatever the number of updates.
AverageInRange ==
  \A v \in Vault :
    /\ twap_price[v] >= AtMost(PriceMin, SCALE) - Rounding
    /\ twap_price[v] <= AtLeast(PriceMax, SCALE)

\* An update moves the average towards the new price: never past it, and
\* never away from it by more than the part that is cut.
AverageFollowsPrice ==
  [][\A v \in Vault :
       twap_price'[v] # twap_price[v] =>
         /\ twap_price'[v] >= AtMost(twap_price[v], vault'[v].price) - 1
         /\ twap_price'[v] <= AtLeast(twap_price[v], vault'[v].price)]_vars

\* How far an average and a price may be apart.
Spread == AtLeast(PriceMax, SCALE) - (AtMost(PriceMin, SCALE) - Rounding)

\* What the truncations of one power and of several, and of one average and of
\* several, can differ by: each is a part of the scale or of a spread, and is
\* forgotten at the rate of TwapAlpha. 24 parts per million in the program.
CadenceError == (2 * SCALE + 4 * Spread) \div TwapAlpha

\* The average does not depend on how often a price is confirmed: as many
\* updates in a few slots as one likes move it as one update would.
TwapIgnoresCadence ==
  \A v \in Vault :
    LET expected == EwmaNextPrice(base[v].twap, vault[v].price,
                                  AlphaForSlotDelta(vault[v].last_oracle_slot
                                                      - base[v].slot))
    IN  Distance(twap_price[v], expected) <= CadenceError
=============================================================================
