----------------------------- MODULE KeeperSet -----------------------------
(***************************************************************************)
(* Who the keepers are, and how they are replaced. Any two of the three    *)
(* keepers form a quorum, and one instruction, rotate_keeper_set, both     *)
(* proposes a new set and puts it in force: called with a set that is not  *)
(* pending it proposes, called again after the delay with the same set it  *)
(* activates.                                                              *)
(***************************************************************************)
EXTENDS Integers, Functions

CONSTANTS
  Key,
  NoKey,          \* Pubkey::default()
  RotationDelay,  \* KEEPER_ROTATION_DELAY_SLOTS
  Founders,       \* the keeper set initialize is given
  MaxSlot         \* bounds the clock of an instance

Position == 1..3
KeeperArray == [Position -> Key \union {NoKey}]
NoKeepers == [i \in Position |-> NoKey]

\* validate_keeper_set
ValidKeeperSet(keys) ==
  /\ \A i \in Position : keys[i] # NoKey
  /\ \A i, j \in Position : i # j => keys[i] # keys[j]

ASSUME KeySetAssumption ==
  /\ NoKey \notin Key
  /\ RotationDelay \in Nat
  /\ MaxSlot \in Nat
  /\ Founders \in KeeperArray
  /\ ValidKeeperSet(Founders)

VARIABLES slot, keeper_set, pending_keeper_set, pending_keeper_activation_slot

\* History: who signed the latest instruction, and who proposed the pending
\* set, and when.
VARIABLES signers, proposers, proposed_at

proposalVars == <<pending_keeper_set, pending_keeper_activation_slot>>
historyVars == <<signers, proposers, proposed_at>>
vars == <<slot, keeper_set, proposalVars, historyVars>>

Members(keys) == {keys[i] : i \in Position}

\* require_keeper_quorum
KeeperQuorum(a, b) == a # b /\ {a, b} \subseteq Members(keeper_set)

\* Faulty: the time lock is that of the proposal before.
Proposed_KeepTimelock(keys) ==
  /\ pending_keeper_set' = keys
  /\ pending_keeper_activation_slot' =
       IF pending_keeper_set = NoKeepers THEN slot + RotationDelay
       ELSE pending_keeper_activation_slot

\* A set that was not pending becomes so; the time lock starts anew.
Proposed(keys) ==
  /\ pending_keeper_set' = keys
  /\ pending_keeper_activation_slot' = slot + RotationDelay

Propose(a, b, keys) ==
  /\ pending_keeper_set # keys
  /\ Proposed(keys)
  /\ proposers' = {a, b}
  /\ proposed_at' = slot
  /\ UNCHANGED <<slot, keeper_set>>

Activate(keys) ==
  /\ pending_keeper_set = keys
  /\ slot >= pending_keeper_activation_slot
  /\ keeper_set' = keys
  /\ pending_keeper_set' = NoKeepers
  /\ pending_keeper_activation_slot' = 0
  /\ UNCHANGED <<slot, proposers, proposed_at>>

RotateKeeperSet(a, b, keys) ==
  /\ KeeperQuorum(a, b)
  /\ ValidKeeperSet(keys)
  /\ signers' = {a, b}
  /\ Propose(a, b, keys) \/ Activate(keys)

Tick ==
  /\ slot < MaxSlot
  /\ slot' = slot + 1
  /\ UNCHANGED <<keeper_set, proposalVars, historyVars>>

Init ==
  /\ slot = 0
  /\ keeper_set = Founders
  /\ pending_keeper_set = NoKeepers
  /\ pending_keeper_activation_slot = 0
  /\ signers = {}
  /\ proposers = {}
  /\ proposed_at = 0

Next ==
  \/ \E a, b \in Key, keys \in KeeperArray : RotateKeeperSet(a, b, keys)
  \/ Tick

Spec == Init /\ [][Next]_vars
-----------------------------------------------------------------------------
(***************************************************************************)
(* Properties.                                                             *)
(***************************************************************************)

\* The types of the variables.
TypeOK ==
  /\ slot \in Nat
  /\ keeper_set \in KeeperArray
  /\ pending_keeper_set \in KeeperArray
  /\ pending_keeper_activation_slot \in Nat
  /\ signers \subseteq Key
  /\ proposers \subseteq Key
  /\ proposed_at \in 0..slot

\* However often it is rotated, the set in force holds three keepers, of
\* whom any two form a quorum: the protocol never loses its keepers, in
\* particular not to the empty set that stands for no proposal.
KeepersComplete ==
  /\ ValidKeeperSet(keeper_set)
  /\ \A i, j \in Position : i # j => KeeperQuorum(keeper_set[i], keeper_set[j])

\* A set comes into force only if it has been pending, unchanged, for the
\* whole delay, and a keeper in office signed both its proposal and its
\* activation: no keeper can be outvoted by two signatures of another, and
\* no approval of an earlier set of keepers counts.
RotationIsDeliberate ==
  [][keeper_set' # keeper_set =>
       /\ keeper_set' = pending_keeper_set
       /\ slot >= proposed_at + RotationDelay
       /\ \E k \in proposers \intersect signers' : k \in Members(keeper_set)]_vars
=============================================================================
