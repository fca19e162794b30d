--------------------------- MODULE RebalanceCommit ---------------------------
(***************************************************************************)
(* The on-chain side of a rebalance: commit_rebalance stores the hash of a *)
(* proposal, rebalance reveals a proposal and applies it. A reveal moves   *)
(* the weights by a limited step; only one whose turnover is large must    *)
(* match the commit, and only that one consumes it.                        *)
(*                                                                         *)
(* A proposal stands for its own hash, which covers all of its fields.     *)
(***************************************************************************)
EXTENDS Integers

CONSTANTS
  Allocation,        \* the weight vectors: each passes validate_weight_sum
  InitialAllocation,
  Reachable,         \* the pairs within the step, turnover and cap limits
  Large,             \* the pairs whose turnover calls for a commit
  Params,            \* the settings of update_protocol_params
  InitialParams,
  BatchWindow, RevealDelay, MaxValidity,
  None

ASSUME AllocationAssumption ==
  /\ InitialAllocation \in Allocation
  /\ Reachable \subseteq Allocation \X Allocation
  /\ Large \subseteq Allocation \X Allocation
  /\ InitialParams \in Params
  /\ None \notin Params

ASSUME CommitAssumption ==
  /\ BatchWindow \in Nat \ {0}
  /\ RevealDelay \in Nat
  /\ MaxValidity \in Nat

VARIABLES
  slot,
  weights, params, emergency_shutdown,
  pending_rebalance_commit, pending_rebalance_slot, pending_rebalance_expiry

pendingVars ==
  <<pending_rebalance_commit, pending_rebalance_slot, pending_rebalance_expiry>>
chainVars == <<weights, params, emergency_shutdown, pendingVars>>

\* What a commit hashes. The salt is fresh for every proposal.
Proposal ==
  [target : Allocation, params : Params \cup {None}, batch_slot : Nat,
   salt : Nat]

ASSUME NoneAssumption == None \notin Proposal /\ None \notin Nat

SameWindow(s, t) == s \div BatchWindow = t \div BatchWindow

CanCommit(valid) ==
  /\ ~emergency_shutdown
  /\ valid \in RevealDelay..MaxValidity

\* commit_rebalance: it overwrites whatever is pending.
CommitRebalance(p, valid) ==
  /\ CanCommit(valid)
  /\ pending_rebalance_commit' = p
  /\ pending_rebalance_slot' = slot
  /\ pending_rebalance_expiry' = slot + valid
  /\ UNCHANGED <<weights, params, emergency_shutdown>>

IsLarge(p) == <<weights, p.target>> \in Large

\* Faulty: any commit that is old enough will do.
MatchesCommit_AnyHash(p) ==
  /\ pending_rebalance_commit # None
  /\ slot >= pending_rebalance_slot + RevealDelay
  /\ slot <= pending_rebalance_expiry

MatchesCommit(p) ==
  /\ slot >= pending_rebalance_slot + RevealDelay
  /\ slot <= pending_rebalance_expiry
  /\ pending_rebalance_commit = p

CanReveal(p) ==
  /\ ~emergency_shutdown
  /\ SameWindow(slot, p.batch_slot)
  /\ <<weights, p.target>> \in Reachable
  /\ IsLarge(p) => MatchesCommit(p)

Consume(p) ==
  IF IsLarge(p)
  THEN /\ pending_rebalance_commit' = None
       /\ pending_rebalance_slot' = 0
       /\ pending_rebalance_expiry' = 0
  ELSE UNCHANGED pendingVars

\* rebalance
Rebalance(p) ==
  /\ CanReveal(p)
  /\ Consume(p)
  /\ weights' = p.target
  /\ UNCHANGED <<params, emergency_shutdown>>

\* update_protocol_params
UpdateParams(new) ==
  /\ ~emergency_shutdown
  /\ params' = new
  /\ UNCHANGED <<weights, emergency_shutdown, pendingVars>>

\* emergency_shutdown and resume_from_shutdown leave the commit in place.
ToggleShutdown ==
  /\ emergency_shutdown' = ~emergency_shutdown
  /\ UNCHANGED <<weights, params, pendingVars>>

ChainInit ==
  /\ slot = 0
  /\ weights = InitialAllocation
  /\ params = InitialParams
  /\ emergency_shutdown = FALSE
  /\ pending_rebalance_commit = None
  /\ pending_rebalance_slot = 0
  /\ pending_rebalance_expiry = 0
=============================================================================
