---------------------------- MODULE MintRedeem ----------------------------
(***************************************************************************)
(* The stablecoin itself: mint takes collateral into a vault and issues    *)
(* MSTB against it, redeem burns MSTB for a share of every vault. Three    *)
(* books are kept: total_deposits and total_supply in the program's own    *)
(* accounts, a usd_balance for each user's position, and the token         *)
(* accounts, which holders also move without the program.                  *)
(*                                                                         *)
(* Amounts are integers in base units and every division rounds as the     *)
(* code's does. Confidence and staleness of a feed enter as a penalty      *)
(* chosen by the environment. Of the circuit breakers only mint_rate_limit *)
(* is seen: it is zero while CB-2 is in force (CircuitBreakers, invariant  *)
(* MintRateFollowsCB2).                                                    *)
(***************************************************************************)
EXTENDS Integers, FiniteSets, Functions

CONSTANTS
  Vault, User,
  SCALE,                \* one, in parts per million
  MintDepegPause,       \* MINT_DEPEG_PAUSE_THRESHOLD
  MaxMintPenalty,       \* the cap on the penalties of a mint
  MaxRedeemPenalty,     \* and on those of a redemption
  DegradedPenalty,      \* the least penalty while an oracle is degraded
  MinUnits,             \* SLOT_FLOW_LIMIT_MIN_UNITS
  MaxMintPerTx, MaxRedeemPerTx, MaxMintPerSlot, MaxRedeemPerSlot,
  MaxAbsoluteRedeem,    \* MAX_ABSOLUTE_REDEEM_PER_SLOT
  FeeRateMax, VelocityFeeStart,
  InitialSettings

CONSTANTS  \* The bounds of an instance.
  Amounts,     \* of collateral and of MSTB in one transaction
  Prices, MaxPrice,  \* of a unit of collateral
  Penalties,   \* for confidence and staleness
  MintRates,   \* the values of mint_rate_limit
  Settings,    \* the cr_target and the fee rates keepers set
  MaxSlot, MaxSupply,
  MaxDonation  \* to each vault

Setting ==
  [cr_target : Nat \ {0}, mint_fee_rate : 0..FeeRateMax,
   redeem_fee_rate : 0..FeeRateMax]

ASSUME VaultAssumption == Vault # {} /\ IsFiniteSet(Vault)
ASSUME UserAssumption == IsFiniteSet(User)

ASSUME ScaleAssumption ==
  /\ SCALE \in Nat \ {0}
  /\ FeeRateMax \in 0..SCALE
  /\ VelocityFeeStart \in 0..(SCALE - 1)
  /\ {MintDepegPause, MaxMintPenalty, MaxRedeemPenalty, DegradedPenalty}
       \subseteq 0..SCALE

ASSUME FlowAssumption ==
  /\ {MaxMintPerTx, MaxRedeemPerTx, MaxMintPerSlot, MaxRedeemPerSlot}
       \subseteq 0..SCALE
  /\ MinUnits \in Nat \ {0}
  /\ MaxAbsoluteRedeem \in Nat

ASSUME InputAssumption ==
  /\ Amounts \subseteq Nat \ {0}
  /\ MaxPrice \in Nat
  /\ Prices \subseteq 1..MaxPrice
  /\ SCALE \in Prices
  /\ Penalties \subseteq Nat
  /\ MintRates \subseteq 0..SCALE
  /\ Settings \subseteq Setting
  /\ InitialSettings \in Setting
  /\ {MaxSlot, MaxSupply, MaxDonation} \subseteq Nat

VARIABLES
  slot,
  \* CollateralVault
  price, total_deposits,
  \* ProtocolState
  settings, total_supply, emergency_shutdown,
  flow_control_slot, minted_in_flow_slot, redeemed_in_flow_slot,
  mint_rate_limit,
  usd_balance,  \* of each user's position
  \* the token program's accounts
  mstb,         \* of each user
  vault_ata     \* the collateral each vault holds

\* History: the supply when the slot began, and what was minted and redeemed
\* in it.
VARIABLES opening_supply, minted_now, redeemed_now

flowVars == <<flow_control_slot, minted_in_flow_slot, redeemed_in_flow_slot>>
bookVars == <<total_deposits, total_supply, usd_balance>>
tokenVars == <<mstb, vault_ata>>
policyVars == <<price, settings, emergency_shutdown, mint_rate_limit>>
historyVars == <<opening_supply, minted_now, redeemed_now>>
vars == <<slot, flowVars, bookVars, tokenVars, policyVars, historyVars>>

-----------------------------------------------------------------------------
(***************************************************************************)
(* Arithmetic.                                                             *)
(***************************************************************************)
MulDivFloor(a, b, d) == (a * b) \div d
MulDivCeil(a, b, d) == (a * b + d - 1) \div d

AtMost(a, b) == IF a <= b THEN a ELSE b
AtLeast(a, b) == IF a >= b THEN a ELSE b
AbsDiff(a, b) == IF a >= b THEN a - b ELSE b - a

ProtocolFee(amount, rate) == MulDivCeil(amount, rate, SCALE)

\* total_collateral_value of the deposits d.
ValueOf(d) == SumFunction([v \in Vault |-> MulDivFloor(d[v], price[v], SCALE)])

WorstDepeg ==
  CHOOSE d \in {AbsDiff(price[v], SCALE) : v \in Vault} :
    \A v \in Vault : AbsDiff(price[v], SCALE) <= d

\* mint_haircut_ppm
MintHaircut(v, penalty) ==
  SCALE - AtMost(2 * AbsDiff(price[v], SCALE) + penalty, MaxMintPenalty)

\* redeem_discount_ppm
RedeemDiscount(penalty, is_degraded) ==
  SCALE - AtLeast(AtMost(2 * WorstDepeg + penalty, MaxRedeemPenalty),
                  IF is_degraded THEN DegradedPenalty ELSE 0)

-----------------------------------------------------------------------------
(***************************************************************************)
(* Flow limits: per transaction and, on a counter that is reset by the     *)
(* first flow of a slot, per slot.                                         *)
(***************************************************************************)
FlowCap(limit) ==
  AtLeast(MulDivFloor(AtLeast(total_supply, MinUnits), limit, SCALE), MinUnits)

MintSlotCap == FlowCap(MaxMintPerSlot)

RedeemSlotCap ==
  AtLeast(AtMost(FlowCap(MaxRedeemPerSlot), MaxAbsoluteRedeem), MinUnits)

\* What the counter holds after refresh_slot_flow_window.
InWindow(counter) == IF flow_control_slot = slot THEN counter ELSE 0

\* Faulty: a mint is checked against the limit on its own.
MintFlow_PerTransaction(amount) ==
  /\ amount <= FlowCap(MaxMintPerTx)
  /\ amount <= MintSlotCap

MintFlow(amount) ==
  /\ amount <= FlowCap(MaxMintPerTx)
  /\ InWindow(minted_in_flow_slot) + amount <= MintSlotCap

RedeemFlow(amount) ==
  /\ amount <= FlowCap(MaxRedeemPerTx)
  /\ InWindow(redeemed_in_flow_slot) + amount <= RedeemSlotCap

\* progressive_redeem_fee_rate: a surcharge on the fuller part of the slot.
RedeemFeeRate ==
  LET velocity  == MulDivFloor(
                     AtMost(InWindow(redeemed_in_flow_slot), RedeemSlotCap),
                     SCALE, RedeemSlotCap)
      surcharge == IF velocity <= VelocityFeeStart THEN 0
                   ELSE MulDivFloor(velocity - VelocityFeeStart, FeeRateMax,
                                    SCALE - VelocityFeeStart)
  IN  AtMost(settings.redeem_fee_rate + surcharge, FeeRateMax)

-----------------------------------------------------------------------------
Gross(v, amount, penalty) ==
  MulDivFloor(amount, MulDivFloor(price[v], MintHaircut(v, penalty), SCALE),
              SCALE)

\* What amount units of collateral v are worth in MSTB, after the fee.
Minted(v, amount, penalty) ==
  LET mintable == MulDivFloor(Gross(v, amount, penalty), SCALE,
                              settings.cr_target)
  IN  mintable - ProtocolFee(mintable, settings.mint_fee_rate)

\* The value of the deposits covers the supply at the target ratio.
Covers(deposits, supply) ==
  ValueOf(deposits) >= MulDivCeil(supply, settings.cr_target, SCALE)

\* mint: u deposits amount units of collateral v.
Mint(u, v, amount, penalty) ==
  LET minted   == Minted(v, amount, penalty)
      deposits == [total_deposits EXCEPT ![v] = @ + amount]
  IN  /\ ~emergency_shutdown
      /\ mint_rate_limit > 0
      /\ WorstDepeg < MintDepegPause
      /\ minted > 0
      /\ MintFlow(minted)
      /\ minted <= MulDivFloor(Gross(v, amount, penalty), mint_rate_limit,
                               SCALE)
      /\ Covers(deposits, total_supply + minted)
      /\ total_supply + minted <= MaxSupply
      /\ total_deposits' = deposits
      /\ total_supply' = total_supply + minted
      /\ usd_balance' = [usd_balance EXCEPT ![u] = @ + minted]
      /\ mstb' = [mstb EXCEPT ![u] = @ + minted]
      /\ vault_ata' = [vault_ata EXCEPT ![v] = @ + amount]
      /\ flow_control_slot' = slot
      /\ minted_in_flow_slot' = InWindow(minted_in_flow_slot) + minted
      /\ redeemed_in_flow_slot' = InWindow(redeemed_in_flow_slot)
      /\ minted_now' = minted_now + minted
      /\ UNCHANGED <<slot, policyVars, opening_supply, redeemed_now>>

NetOfFee(amount) == amount - ProtocolFee(amount, RedeemFeeRate)

\* Faulty: the share of a vault is rounded up.
Payout_RoundedUp(v, amount, penalty, is_degraded) ==
  MulDivFloor(MulDivCeil(total_deposits[v], NetOfFee(amount), total_supply),
              RedeemDiscount(penalty, is_degraded), SCALE)

\* Faulty: the share is one of what the token account holds.
Payout_OfBalance(v, amount, penalty, is_degraded) ==
  MulDivFloor(MulDivFloor(vault_ata[v], NetOfFee(amount), total_supply),
              RedeemDiscount(penalty, is_degraded), SCALE)

\* Faulty: the supply is read after the burn.
Payout_AfterBurn(v, amount, penalty, is_degraded) ==
  MulDivFloor(MulDivFloor(total_deposits[v], NetOfFee(amount),
                          AtLeast(total_supply - amount, 1)),
              RedeemDiscount(penalty, is_degraded), SCALE)

\* preview_redeem_from_vault: the share of vault v for amount MSTB.
Payout(v, amount, penalty, is_degraded) ==
  MulDivFloor(MulDivFloor(total_deposits[v], NetOfFee(amount), total_supply),
              RedeemDiscount(penalty, is_degraded), SCALE)

\* Faulty: the fee stays in circulation.
Retired_Net(amount) == NetOfFee(amount)

\* What a redemption takes off the supply and off the position: the fee is
\* burned with the rest.
Retired(amount) == amount

\* The checks redeem makes before it moves any token.
CanRedeem(u, amount) ==
  /\ ~emergency_shutdown
  /\ usd_balance[u] >= amount
  /\ total_supply >= amount
  /\ RedeemFlow(amount)

\* redeem: u burns amount MSTB and is paid out of every vault.
Redeem(u, amount, penalty, is_degraded) ==
  LET payout == [v \in Vault |-> Payout(v, amount, penalty, is_degraded)]
  IN  /\ CanRedeem(u, amount)
      /\ mstb[u] >= amount
      /\ NetOfFee(amount) > 0
      /\ \A v \in Vault : payout[v] <= vault_ata[v]
      /\ \A v \in Vault : payout[v] <= total_deposits[v]
      /\ mstb' = [mstb EXCEPT ![u] = @ - amount]
      /\ vault_ata' = [v \in Vault |-> vault_ata[v] - payout[v]]
      /\ total_deposits' = [v \in Vault |-> total_deposits[v] - payout[v]]
      /\ usd_balance' = [usd_balance EXCEPT ![u] = @ - amount]
      /\ total_supply' = total_supply - Retired(amount)
      /\ flow_control_slot' = slot
      /\ minted_in_flow_slot' = InWindow(minted_in_flow_slot)
      /\ redeemed_in_flow_slot' = InWindow(redeemed_in_flow_slot) + amount
      /\ redeemed_now' = redeemed_now + amount
      /\ UNCHANGED <<slot, policyVars, opening_supply, minted_now>>

-----------------------------------------------------------------------------
(***************************************************************************)
(* The instructions of the keepers, and what token holders do without the  *)
(* program.                                                                *)
(***************************************************************************)

\* A new observation of the price of v.
UpdatePrice(v, p) ==
  /\ price' = [price EXCEPT ![v] = p]
  /\ UNCHANGED <<slot, flowVars, bookVars, tokenVars, settings,
                 emergency_shutdown, mint_rate_limit, historyVars>>

\* update_protocol_params
UpdateSettings(s) ==
  /\ ~emergency_shutdown
  /\ settings' = s
  /\ UNCHANGED <<slot, flowVars, bookVars, tokenVars, price,
                 emergency_shutdown, mint_rate_limit, historyVars>>

\* The circuit breakers, a shutdown or a resume set the limit.
Govern(rate, shutdown) ==
  /\ mint_rate_limit' = rate
  /\ emergency_shutdown' = shutdown
  /\ UNCHANGED <<slot, flowVars, bookVars, tokenVars, price, settings,
                 historyVars>>

Transfer(u, w, amount) ==
  /\ u # w
  /\ mstb[u] >= amount
  /\ mstb' = [mstb EXCEPT ![u] = @ - amount, ![w] = @ + amount]
  /\ UNCHANGED <<slot, flowVars, bookVars, vault_ata, policyVars, historyVars>>

\* A holder may burn tokens of its own.
BurnOwn(u, amount) ==
  /\ mstb[u] >= amount
  /\ mstb' = [mstb EXCEPT ![u] = @ - amount]
  /\ UNCHANGED <<slot, flowVars, bookVars, vault_ata, policyVars, historyVars>>

\* Anyone may send collateral to a vault's token account.
Donate(v, amount) ==
  /\ vault_ata[v] + amount <= total_deposits[v] + MaxDonation
  /\ vault_ata' = [vault_ata EXCEPT ![v] = @ + amount]
  /\ UNCHANGED <<slot, flowVars, bookVars, mstb, policyVars, historyVars>>

Tick ==
  /\ slot < MaxSlot
  /\ slot' = slot + 1
  /\ opening_supply' = total_supply
  /\ minted_now' = 0
  /\ redeemed_now' = 0
  /\ UNCHANGED <<flowVars, bookVars, tokenVars, policyVars>>

Init ==
  /\ slot = 0
  /\ price = [v \in Vault |-> SCALE]
  /\ total_deposits = [v \in Vault |-> 0]
  /\ settings = InitialSettings
  /\ total_supply = 0
  /\ emergency_shutdown = FALSE
  /\ flow_control_slot = 0
  /\ minted_in_flow_slot = 0
  /\ redeemed_in_flow_slot = 0
  /\ mint_rate_limit = SCALE
  /\ usd_balance = [u \in User |-> 0]
  /\ mstb = [u \in User |-> 0]
  /\ vault_ata = [v \in Vault |-> 0]
  /\ opening_supply = 0
  /\ minted_now = 0
  /\ redeemed_now = 0

Trade ==
  \E u \in User, amount \in Amounts, penalty \in Penalties :
    \/ \E v \in Vault : Mint(u, v, amount, penalty)
    \/ \E is_degraded \in BOOLEAN : Redeem(u, amount, penalty, is_degraded)

Holders ==
  \E u \in User, amount \in Amounts :
    \/ \E w \in User : Transfer(u, w, amount)
    \/ BurnOwn(u, amount)
    \/ \E v \in Vault : Donate(v, amount)

Governance ==
  \/ \E v \in Vault, p \in Prices : UpdatePrice(v, p)
  \/ \E s \in Settings : UpdateSettings(s)
  \/ \E rate \in MintRates, shutdown \in BOOLEAN : Govern(rate, shutdown)

Next == Trade \/ Holders \/ Governance \/ Tick

Spec == Init /\ [][Next]_vars
-----------------------------------------------------------------------------
(***************************************************************************)
(* Properties.                                                             *)
(***************************************************************************)

\* The types of the variables.
TypeOK ==
  /\ slot \in Nat
  /\ price \in [Vault -> Prices]
  /\ total_deposits \in [Vault -> Nat]
  /\ settings \in Setting
  /\ total_supply \in Nat
  /\ emergency_shutdown \in BOOLEAN
  /\ flow_control_slot \in 0..slot
  /\ minted_in_flow_slot \in Nat
  /\ redeemed_in_flow_slot \in Nat
  /\ mint_rate_limit \in 0..SCALE
  /\ usd_balance \in [User -> Nat]
  /\ mstb \in [User -> Nat]
  /\ vault_ata \in [Vault -> Nat]
  /\ {opening_supply, minted_now, redeemed_now} \subseteq Nat

\* The three books agree however holders move their tokens: the positions
\* add up to the supply, the tokens in circulation are at most that, and
\* every recorded deposit is in the vault's token account.
BooksAgree ==
  /\ SumFunction(usd_balance) = total_supply
  /\ SumFunction(mstb) <= total_supply
  /\ \A v \in Vault : total_deposits[v] <= vault_ata[v]

\* A redemption that passes the first checks is never refused or cut short
\* for want of supply, of recorded deposits or of tokens in a vault.
RedeemIsServed ==
  \A u \in User, amount \in Amounts :
    usd_balance[u] >= amount =>
      /\ total_supply >= amount
      /\ \A v \in Vault, penalty \in Penalties, is_degraded \in BOOLEAN :
           LET payout == Payout(v, amount, penalty, is_degraded)
           IN  payout <= total_deposits[v] /\ payout <= vault_ata[v]

\* A redemption never takes from those who stay: what each vault holds per
\* unit of supply does not fall, whatever the fee, the discount and the
\* roundings.
RedeemNeverDilutes ==
  [][total_supply' < total_supply =>
     \A v \in Vault : total_deposits'[v] * total_supply
                       >= total_deposits[v] * total_supply']_vars

\* The deposits are worth the supply at the target ratio, no rounding done.
Backed ==
  SumFunction([v \in Vault |-> total_deposits[v] * price[v]])
    >= total_supply * settings.cr_target

\* Once the deposits back the supply at the target ratio, no sequence of
\* mints and redemptions, whatever their roundings, fees and discounts, makes
\* them fall short: only a price or new settings can.
BackingKept ==
  [][Backed /\ UNCHANGED <<price, settings>> => Backed']_vars

\* The counters tell what was minted and redeemed in the current slot,
\* although they are reset only by the first flow of a later one.
FlowCountersExact ==
  /\ InWindow(minted_in_flow_slot) = minted_now
  /\ InWindow(redeemed_in_flow_slot) = redeemed_now

\* However many transactions a slot holds, they mint at most the limit and
\* redeem at most theirs. The limits follow the supply, so mints of the same
\* slot count in the base of both.
SlotFlowsBounded ==
  /\ \/ minted_now <= MinUnits
     \/ minted_now * SCALE <= MaxMintPerSlot * (opening_supply + minted_now)
  /\ \/ redeemed_now <= MinUnits
     \/ /\ redeemed_now <= MaxAbsoluteRedeem
        /\ redeemed_now * SCALE
             <= MaxRedeemPerSlot * (opening_supply + minted_now)
=============================================================================
