-------------------------- MODULE KeeperRebalance --------------------------
(***************************************************************************)
(* The rebalance cycle of the keeper daemon against the chain of           *)
(* RebalanceCommit: commit in one cycle, reveal in a later one (or in the  *)
(* same one when the daemon is configured to execute immediately).         *)
(*                                                                         *)
(* The daemon reads a snapshot, decides on it, sends a transaction and     *)
(* waits for its confirmation; the chain moves on in between. A            *)
(* transaction in flight may land at any slot until its blockhash expires, *)
(* or never; an error says nothing about whether it landed. The preimage   *)
(* of a commit lives in memory and in a checkpoint file, which may be      *)
(* neither written nor removed, and a crash loses the memory.              *)
(***************************************************************************)
EXTENDS RebalanceCommit, FiniteSets

CONSTANTS
  KeeperDelay,       \* commit_reveal_delay_slots
  CommitValidity,    \* commit_valid_for_slots
  DriftTolerance,    \* slots between a batch slot and its commit's landing
  TxLifetime         \* slots for which a blockhash is accepted

CONSTANTS  \* The bounds of an instance.
  MaxSlot, MaxProposals, MaxCrashes, MaxToggles

\* RevealDelay <= KeeperDelay holds of the defaults, 5 and 5; the daemon's
\* configuration does not enforce it.
ASSUME KeeperAssumption ==
  /\ KeeperDelay \in Nat \ {0}
  /\ RevealDelay <= KeeperDelay
  /\ CommitValidity \in Nat
  /\ KeeperDelay <= CommitValidity
  /\ DriftTolerance \in Nat
  /\ TxLifetime \in Nat

ASSUME KeeperBounds ==
  {MaxSlot, MaxProposals, MaxCrashes, MaxToggles} \subseteq Nat

VARIABLES
  immediate, \* execute_rebalance_immediately, as the daemon is configured
  pc,        \* where the cycle is
  seen,      \* the snapshot the cycle acts on
  draft,     \* the proposal it is committing or revealing
  pending,   \* memory.pending_reveal
  disk,      \* the checkpoint file
  awaited,   \* the transaction it waits for
  landed,    \* whether that transaction has been executed with success
  wire,      \* the transactions in flight
  salts,     \* the number of salts drawn so far
  crashes, toggles

\* History: the slot at which the commit of each salt landed; which salts'
\* reveals landed, or moved the weights; the last to move them.
VARIABLES announced, effects, last_mover

daemonVars == <<pc, seen, draft, pending, disk, awaited>>
historyVars == <<announced, effects, last_mover>>
vars == <<immediate, slot, chainVars, daemonVars, landed, wire, salts, crashes, toggles,
          historyVars>>

-----------------------------------------------------------------------------
Snapshot ==
  [weights |-> weights, params |-> params, shutdown |-> emergency_shutdown,
   commit |-> pending_rebalance_commit, slot |-> pending_rebalance_slot,
   expiry |-> pending_rebalance_expiry]

\* Faulty: asks for the delay only, without the margin for a late landing.
BatchWindowHasRoom_NoMargin(s) ==
  BatchWindow - (s % BatchWindow) > KeeperDelay

\* batch_window_has_room
BatchWindowHasRoom(s) ==
  BatchWindow - (s % BatchWindow) > KeeperDelay + DriftTolerance

AbsDiff(a, b) == IF a >= b THEN a - b ELSE b - a

\* Faulty: the delay runs from the batch slot the daemon chose.
RevealableFrom_BatchSlot(commit_slot, batch_slot) == batch_slot + KeeperDelay

\* The first slot at which a commit that landed at commit_slot is revealed.
RevealableFrom(commit_slot, batch_slot) == commit_slot + KeeperDelay

\* deferred_reveal_ready
DeferredRevealReady(now, batch_slot, commit_slot) ==
  /\ AbsDiff(batch_slot, commit_slot) <= DriftTolerance
  /\ now >= RevealableFrom(commit_slot, batch_slot)
  /\ SameWindow(now, commit_slot)

\* Faulty: takes a commit to be over when it becomes revealable.
ActiveAt_UntilRevealable(now) ==
  /\ seen.commit # None
  /\ now <= seen.slot + KeeperDelay

\* The snapshot shows a commit that has not expired.
ActiveAt(now) == seen.commit # None /\ now <= seen.expiry

ExpiredAt(now) == seen.commit # None /\ now > seen.expiry

Tx(kind, p) ==
  [kind |-> kind, proposal |-> p, sent |-> slot,
   over |-> IF kind = "commit" THEN seen.commit ELSE None]

-----------------------------------------------------------------------------
(***************************************************************************)
(* The daemon.                                                             *)
(***************************************************************************)
Rest == pc' = "idle" /\ seen' = None /\ draft' = None /\ awaited' = None

\* run_rebalance_cycle reads the accounts; the slot is read later.
BeginCycle ==
  /\ pc = "idle"
  /\ ~emergency_shutdown
  /\ seen' = Snapshot
  /\ pc' = "decide"
  /\ UNCHANGED <<slot, chainVars, draft, pending, disk, awaited, landed, wire,
                 salts, crashes, toggles, historyVars>>

\* load_pending_reveal_from_disk: only when memory holds none; it may fail.
Loaded == IF pending # None THEN {pending} ELSE {None, disk}

\* clear_pending_reveal: the file may stay.
Clear == pending' = None /\ disk' \in {None, disk}

\* The preimage p of a commit that is seen to have expired is dropped.
KeepUnlessExpired(p) ==
  IF p # None /\ p = seen.commit /\ ExpiredAt(slot)
  THEN Clear
  ELSE pending' = p /\ disk' = disk

\* The commit is active and revealable, and p is its preimage.
DecideReveal(p) ==
  /\ p # None
  /\ p = seen.commit
  /\ ActiveAt(slot)
  /\ DeferredRevealReady(slot, p.batch_slot, seen.slot)
  /\ draft' = p
  /\ pc' = "reveal"
  /\ pending' = p
  /\ UNCHANGED <<seen, disk, awaited, salts>>

\* No commit is active in the snapshot: commit to a new target, provided the
\* batch window has room for a deferred reveal.
DecideCommit(p, target, settings) ==
  /\ target # seen.weights
  /\ ~ActiveAt(slot)
  /\ immediate \/ BatchWindowHasRoom(slot)
  /\ salts < MaxProposals
  /\ salts' = salts + 1
  /\ draft' = [target |-> target, params |-> settings, batch_slot |-> slot,
               salt |-> salts']
  /\ pc' = "commit"
  /\ KeepUnlessExpired(p)
  /\ UNCHANGED <<seen, awaited>>

\* Nothing to send: the weights are close to the target, the commit cannot
\* be revealed yet or its preimage is lost, no agent is eligible.
DecideNothing(p) ==
  /\ KeepUnlessExpired(p)
  /\ Rest
  /\ UNCHANGED salts

Decide ==
  /\ pc = "decide"
  /\ \E p \in Loaded :
       \/ DecideReveal(p)
       \/ \E target \in Allocation, settings \in Params \cup {None} :
            DecideCommit(p, target, settings)
       \/ DecideNothing(p)
  /\ UNCHANGED <<slot, chainVars, landed, wire, crashes, toggles, historyVars>>

\* send_instructions up to the wait: the transaction is on the wire.
Send ==
  /\ pc \in {"commit", "reveal", "params"}
  /\ awaited' = Tx(pc, draft)
  /\ wire' = wire \cup {awaited'}
  /\ landed' = FALSE
  /\ pc' = "await"
  /\ UNCHANGED <<slot, chainVars, seen, draft, pending, disk, salts, crashes,
                 toggles, historyVars>>

\* Faulty: a transaction that nobody saw land counts as confirmed.
Confirmed_Timeout == TRUE

\* assess_tx_confirmation_outcome: only a transaction that landed is
\* confirmed, but one that landed may fail to be confirmed in time.
Confirmed == landed

\* maybe_submit_protocol_params_update has something to submit.
HasParamsUpdate == draft.params \notin {None, seen.params}

\* The commit is confirmed: its preimage goes to memory, then to the file.
CommitConfirmed ==
  /\ awaited.kind = "commit"
  /\ Confirmed
  /\ pending' = draft
  /\ pc' = "persist"
  /\ UNCHANGED <<seen, draft, disk, awaited>>

RevealConfirmed ==
  /\ awaited.kind = "reveal"
  /\ Confirmed
  /\ IF HasParamsUpdate
     THEN pc' = "params" /\ UNCHANGED <<seen, draft, pending, disk, awaited>>
     ELSE Clear /\ Rest

\* Whatever became of the update of the parameters, the cycle is over.
ParamsReturned == awaited.kind = "params" /\ Clear /\ Rest

SendFailed ==
  /\ awaited.kind \in {"commit", "reveal"}
  /\ Rest
  /\ UNCHANGED <<pending, disk>>

Return ==
  /\ pc = "await"
  /\ CommitConfirmed \/ RevealConfirmed \/ ParamsReturned \/ SendFailed
  /\ UNCHANGED <<slot, chainVars, landed, wire, salts, crashes, toggles,
                 historyVars>>

\* persist_pending_reveal: a failure is only logged.
Persist ==
  /\ pc = "persist"
  /\ disk' \in {draft, disk}
  /\ IF immediate
     THEN pc' = "wait" /\ UNCHANGED <<seen, draft, awaited>>
     ELSE Rest
  /\ UNCHANGED <<slot, chainVars, pending, landed, wire, salts, crashes,
                 toggles, historyVars>>

\* wait_until_slot gives up after a while, so the wait may end at any slot;
\* outside the batch window, or when the slot cannot be read, so does the cycle.
EndWait ==
  /\ pc = "wait"
  /\ \/ /\ SameWindow(slot, draft.batch_slot)
        /\ pc' = "reveal"
        /\ UNCHANGED <<seen, draft, awaited>>
     \/ Rest
  /\ UNCHANGED <<slot, chainVars, pending, disk, landed, wire, salts, crashes,
                 toggles, historyVars>>

\* The process dies and is started again: only the file is left.
Crash ==
  /\ crashes < MaxCrashes
  /\ crashes' = crashes + 1
  /\ pending' = None
  /\ Rest
  /\ UNCHANGED <<slot, chainVars, disk, landed, wire, salts, toggles,
                 historyVars>>

-----------------------------------------------------------------------------
(***************************************************************************)
(* The chain and the network.                                              *)
(***************************************************************************)

\* A commit in flight is executed.
LandCommit(tx) ==
  /\ tx.kind = "commit"
  /\ CommitRebalance(tx.proposal, CommitValidity)
  /\ announced' = [announced EXCEPT ![tx.proposal.salt] = slot]
  /\ UNCHANGED <<effects, last_mover>>

\* A reveal in flight is executed. One that leaves the weights where they
\* are moves nothing.
LandReveal(tx) ==
  LET of(effect) == <<effect, tx.proposal.salt>>
      moves      == weights' # weights
  IN  /\ tx.kind = "reveal"
      /\ Rebalance(tx.proposal)
      /\ effects' = effects \cup {of("revealed")}
                            \cup (IF moves THEN {of("moved")} ELSE {})
      /\ last_mover' = IF moves THEN tx.proposal.salt ELSE last_mover
      /\ UNCHANGED announced

LandParams(tx) ==
  /\ tx.kind = "params"
  /\ UpdateParams(tx.proposal.params)
  /\ UNCHANGED historyVars

\* A transaction lands at most once, before its blockhash expires. One that
\* the program rejects leaves no trace, like one that never lands.
Land(tx) ==
  /\ slot <= tx.sent + TxLifetime
  /\ LandCommit(tx) \/ LandReveal(tx) \/ LandParams(tx)
  /\ wire' = wire \ {tx}
  /\ landed' = (landed \/ tx = awaited)
  /\ UNCHANGED <<slot, daemonVars, salts, crashes, toggles>>

Toggle ==
  /\ toggles < MaxToggles
  /\ toggles' = toggles + 1
  /\ ToggleShutdown
  /\ UNCHANGED <<slot, daemonVars, landed, wire, salts, crashes, historyVars>>

Tick ==
  /\ slot < MaxSlot
  /\ slot' = slot + 1
  /\ wire' = {tx \in wire : slot' <= tx.sent + TxLifetime}
  /\ UNCHANGED <<chainVars, daemonVars, landed, salts, crashes, toggles,
                 historyVars>>

-----------------------------------------------------------------------------
Init ==
  /\ ChainInit
  /\ immediate \in BOOLEAN
  /\ pc = "idle"
  /\ seen = None
  /\ draft = None
  /\ pending = None
  /\ disk = None
  /\ awaited = None
  /\ landed = FALSE
  /\ wire = {}
  /\ salts = 0
  /\ crashes = 0
  /\ toggles = 0
  /\ announced = [s \in 1..MaxProposals |-> None]
  /\ effects = {}
  /\ last_mover = 0

Daemon == BeginCycle \/ Decide \/ Send \/ Return \/ Persist \/ EndWait

Environment ==
  \/ \E tx \in wire : Land(tx)
  \/ Toggle
  \/ Crash
  \/ Tick

Next == (Daemon \/ Environment) /\ UNCHANGED immediate

Spec == Init /\ [][Next]_vars

-----------------------------------------------------------------------------
(***************************************************************************)
(* Properties.                                                             *)
(***************************************************************************)
Salt == 1..MaxProposals

TxType ==
  [kind : {"commit", "reveal", "params"}, proposal : Proposal, sent : Nat,
   over : Proposal \cup {None}]

SnapshotType ==
  [weights : Allocation, params : Params, shutdown : BOOLEAN,
   commit : Proposal \cup {None}, slot : Nat, expiry : Nat]

\* The types of the variables.
TypeOK ==
  /\ immediate \in BOOLEAN
  /\ slot \in Nat
  /\ weights \in Allocation
  /\ params \in Params
  /\ emergency_shutdown \in BOOLEAN
  /\ pending_rebalance_commit \in Proposal \cup {None}
  /\ pending_rebalance_slot \in Nat
  /\ pending_rebalance_expiry \in Nat
  /\ pc \in {"idle", "decide", "commit", "reveal", "params", "await",
             "persist", "wait"}
  /\ seen \in SnapshotType \cup {None}
  /\ {draft, pending, disk} \subseteq Proposal \cup {None}
  /\ awaited \in TxType \cup {None}
  /\ landed \in BOOLEAN
  /\ wire \subseteq TxType
  /\ salts \in 0..MaxProposals
  /\ announced \in [Salt -> Nat \cup {None}]
  /\ effects \subseteq {"revealed", "moved"} \X Salt
  /\ last_mover \in Salt \cup {0}

\* In deferred mode the weights only ever move to a target whose commit
\* landed at least the delay earlier, although the chain asks a small reveal
\* for no commit at all: late landings, lost answers, stale files and
\* restarts included.
MovesAnnounced ==
  [][weights' # weights /\ ~immediate
     => /\ announced[last_mover'] # None
        /\ slot >= announced[last_mover'] + KeeperDelay]_vars

\* A large move is that of the latest commit, which landed at least the
\* chain's delay earlier: no late, early or retried reveal slips through.
LargeMovesAnnounced ==
  [][\A tx \in wire :
       Land(tx) /\ tx.kind = "reveal" /\ IsLarge(tx.proposal)
       => LET at == announced[tx.proposal.salt]
          IN  /\ at # None
              /\ slot >= at + RevealDelay
              /\ \A s \in Salt : announced[s] # None => announced[s] <= at]_vars

\* A commit that lands on time is never in a dead zone: some slot of its
\* batch window is one at which the daemon reveals it and the chain accepts.
NoDeadZone ==
  pending_rebalance_commit # None /\ ~immediate
  /\ AbsDiff(pending_rebalance_commit.batch_slot, pending_rebalance_slot)
       <= DriftTolerance
  => LET first == pending_rebalance_slot + KeeperDelay
     IN  /\ SameWindow(first, pending_rebalance_slot)
         /\ SameWindow(first, pending_rebalance_commit.batch_slot)
         /\ first >= pending_rebalance_slot + RevealDelay
         /\ first <= pending_rebalance_expiry

\* A commit overwrites an active one only if the daemon had not seen that
\* one when it decided: it landed in between, unconfirmed.
OverwritesOnlyUnseen ==
  [][\A tx \in wire :
       Land(tx) /\ tx.kind = "commit" /\ pending_rebalance_commit # None
       /\ slot <= pending_rebalance_expiry
       => tx.over # pending_rebalance_commit]_vars

\* The parameters of a proposal take effect only after its reveal has landed.
ParamsFollowReveal ==
  [][\A tx \in wire :
       Land(tx) /\ tx.kind = "params"
       => <<"revealed", tx.proposal.salt>> \in effects]_vars

\* docs/whitepaper.md 6.2: commit/reveal is one-shot and replay-safe, so one
\* commit moves the weights at most once.
OneShotReveal ==
  [][weights' # weights => <<"moved", last_mover'>> \notin effects]_vars
=============================================================================
