------------------------ MODULE KeeperRebalanceProofs ------------------------
(***************************************************************************)
(* Theorems about KeeperRebalance, for any weights, delays, windows and    *)
(* bounds that satisfy its assumptions. What is true of a transaction when *)
(* it is sent must still be true whenever it lands; the invariant says of  *)
(* each one in flight what the daemon knew when it sent it.                *)
(***************************************************************************)
EXTENDS KeeperRebalance, TLAPS

Numbered(p) == p.salt \in 1..salts
Announced(p) == announced[p.salt] # None
Revealed(p) == <<"revealed", p.salt>> \in effects

\* The commit of p landed the delay ago.
Ripe(p) == Announced(p) /\ slot >= announced[p.salt] + KeeperDelay

\* p was decided on when its batch window had room.
Timely(p) == BatchWindowHasRoom(p.batch_slot) /\ p.batch_slot <= slot

\* If c is still pending, it has expired.
Past(c) ==
  c # None => /\ Numbered(c) /\ Announced(c)
              /\ pending_rebalance_commit = c => slot > pending_rebalance_expiry

\* What the state of the daemon says of its variables.
Phase ==
  /\ pc # "idle" => seen \in SnapshotType
  /\ pc \notin {"idle", "decide"} => draft \in Proposal /\ Numbered(draft)
  /\ pc = "await" => awaited \in TxType /\ awaited.proposal = draft
  /\ pc = "params" => draft.params \in Params
  /\ pc = "wait" => immediate

\* What the daemon knows of the transaction it sends next or waits for.
DaemonKnows ==
  /\ pc = "commit" =>
       /\ ~Announced(draft)
       /\ \A tx \in wire : tx.kind = "commit" => tx.proposal.salt # draft.salt
       /\ Past(seen.commit)
       /\ ~immediate => Timely(draft)
  /\ pc = "reveal" /\ ~immediate => Ripe(draft)
  /\ pc = "params" => Revealed(draft)
  /\ pc = "await" /\ awaited.kind = "reveal" /\ landed => Revealed(draft)

\* The commit in a snapshot landed when the snapshot says, and only once.
SeenInv ==
  pc # "idle" /\ seen.commit # None =>
    /\ Numbered(seen.commit)
    /\ announced[seen.commit.salt] = seen.slot
    /\ pending_rebalance_commit = seen.commit
         => pending_rebalance_expiry = seen.expiry

\* A transaction in flight.
WireInv(tx) ==
  /\ Numbered(tx.proposal)
  /\ tx.kind = "commit" =>
       /\ ~Announced(tx.proposal)
       /\ Past(tx.over)
       /\ ~immediate => Timely(tx.proposal)
  /\ tx.kind = "reveal" /\ ~immediate => Ripe(tx.proposal)
  /\ tx.kind = "params" => tx.proposal.params \in Params /\ Revealed(tx.proposal)

\* A proposal is committed to by one transaction.
CommitsDiffer ==
  \A tx, other \in wire :
    tx.kind = "commit" /\ other.kind = "commit"
      /\ tx.proposal.salt = other.proposal.salt => tx = other

\* The pending commit is the one that landed last.
PendingInv ==
  pending_rebalance_commit # None =>
    /\ Numbered(pending_rebalance_commit)
    /\ announced[pending_rebalance_commit.salt] = pending_rebalance_slot
    /\ pending_rebalance_slot <= slot
    /\ pending_rebalance_expiry = pending_rebalance_slot + CommitValidity
    /\ \A s \in Salt :
         announced[s] # None => announced[s] <= pending_rebalance_slot
    /\ ~immediate => /\ BatchWindowHasRoom(pending_rebalance_commit.batch_slot)
                     /\ pending_rebalance_commit.batch_slot
                          <= pending_rebalance_slot

\* Nothing is announced but proposals that were made.
AnnouncedInv ==
  \A s \in Salt : announced[s] # None => s <= salts /\ announced[s] <= slot

OutsideInv ==
  /\ \A tx \in wire : WireInv(tx)
  /\ CommitsDiffer
  /\ PendingInv
  /\ AnnouncedInv

InsideInv == Phase /\ DaemonKnows /\ SeenInv

\* The inductive invariant.
IInv == TypeOK /\ OutsideInv /\ InsideInv

-----------------------------------------------------------------------------
\* Facts about the constants.
LEMMA Constants ==
  /\ KeeperDelay \in Nat /\ KeeperDelay > 0 /\ RevealDelay \in Nat
  /\ RevealDelay <= KeeperDelay
  /\ CommitValidity \in Nat /\ KeeperDelay <= CommitValidity
  /\ DriftTolerance \in Nat /\ TxLifetime \in Nat
  /\ BatchWindow \in Nat /\ BatchWindow > 0
  /\ MaxProposals \in Nat
  /\ None \notin Proposal /\ None \notin Nat /\ None \notin Params
BY KeeperAssumption, KeeperBounds, CommitAssumption, NoneAssumption,
   AllocationAssumption

\* What is left of a window is left of it for all its slots.
LEMMA StaysInWindow ==
  ASSUME NEW s \in Nat, NEW d \in Nat, d < BatchWindow - (s % BatchWindow)
  PROVE  SameWindow(s + d, s)
<1> DEFINE B == BatchWindow
           q == s \div B
           r == s % B
<1>1. B \in Nat /\ B > 0
  BY Constants
<1>2. q \in Nat /\ r \in 0..(B - 1) /\ s = B * q + r
  BY <1>1
<1>3. s + d = B * q + (r + d) /\ r + d \in 0..(B - 1)
  BY <1>1, <1>2
<1>4. (s + d) \div B = q
  BY <1>1, <1>2, <1>3
<1>5. QED
  BY <1>4 DEF SameWindow

\* A commit that lands on time has its reveal slot in its batch window.
LEMMA RoomSuffices ==
  ASSUME NEW batch_slot \in Nat, NEW at \in Nat, batch_slot <= at,
         at - batch_slot <= DriftTolerance, BatchWindowHasRoom(batch_slot)
  PROVE  /\ SameWindow(at + KeeperDelay, at)
         /\ SameWindow(at + KeeperDelay, batch_slot)
<1> DEFINE d == at - batch_slot
<1>1. batch_slot % BatchWindow \in Nat /\ BatchWindow \in Nat
  BY Constants
<1>2. /\ d \in Nat /\ d + KeeperDelay \in Nat
      /\ at = batch_slot + d /\ at + KeeperDelay = batch_slot + (d + KeeperDelay)
  BY Constants
<1>3. d + KeeperDelay < BatchWindow - (batch_slot % BatchWindow)
  BY <1>1, <1>2, Constants DEF BatchWindowHasRoom
<1>4. d < BatchWindow - (batch_slot % BatchWindow)
  BY <1>1, <1>2, <1>3, Constants
<1> HIDE DEF d
<1>5. SameWindow(batch_slot + (d + KeeperDelay), batch_slot)
  BY <1>2, <1>3, StaysInWindow
<1>6. SameWindow(batch_slot + d, batch_slot)
  BY <1>2, <1>4, StaysInWindow
<1>7. QED
  BY <1>2, <1>5, <1>6 DEF SameWindow

\* What the daemon does with its own variables changes nothing outside.
LEMMA OutsideStays ==
  ASSUME TypeOK, OutsideInv, salts' \in Nat, salts <= salts',
         UNCHANGED <<immediate, slot, chainVars, wire, historyVars>>
  PROVE  OutsideInv'
<1> USE DEF chainVars, pendingVars, historyVars
<1>1. ASSUME NEW tx \in wire PROVE WireInv(tx)'
  <2>1. WireInv(tx)
    BY DEF OutsideInv
  <2>2. /\ Numbered(tx.proposal)'
        /\ Numbered(tx.over) => Numbered(tx.over)'
    BY <2>1 DEF WireInv, Numbered, TypeOK
  <2>3. QED
    BY <2>1, <2>2
    DEF WireInv, Announced, Past, Timely, Ripe, Revealed
<1>2. CommitsDiffer'
  BY DEF OutsideInv, CommitsDiffer
<1>3. salts \in Nat /\ Salt \subseteq Nat
  BY Constants DEF TypeOK, Salt
<1>4. PendingInv'
  <2>1. PendingInv
    BY DEF OutsideInv
  <2>2. Numbered(pending_rebalance_commit)
          => Numbered(pending_rebalance_commit)'
    BY <1>3 DEF Numbered
  <2>3. QED
    BY <2>1, <2>2 DEF PendingInv
<1>5. AnnouncedInv'
  <2>1. ASSUME NEW s \in Salt, announced[s] # None
        PROVE  s <= salts' /\ announced[s] <= slot
    BY <1>3, <2>1 DEF OutsideInv, AnnouncedInv
  <2>2. QED
    BY <2>1 DEF AnnouncedInv
<1>6. QED
  BY <1>1, <1>2, <1>4, <1>5 DEF OutsideInv

\* A cycle may end at any point.
LEMMA RestKeepsInv ==
  ASSUME IInv, Rest,
         pending' \in Proposal \cup {None}, disk' \in Proposal \cup {None},
         UNCHANGED <<immediate, slot, chainVars, landed, wire, salts, historyVars>>
  PROVE  IInv'
<1>1. TypeOK'
  BY DEF Rest, IInv, TypeOK, chainVars, pendingVars, historyVars
<1>2. OutsideInv'
  BY OutsideStays DEF IInv, TypeOK
<1>3. InsideInv'
  BY DEF Rest, InsideInv, Phase, DaemonKnows, SeenInv
<1>4. QED
  BY <1>1, <1>2, <1>3 DEF IInv

\* The initial state.
LEMMA InitEstablishesInv == Init => IInv
<1> SUFFICES ASSUME Init PROVE IInv
  OBVIOUS
<1>1. TypeOK
  <2>1. announced \in [Salt -> Nat \cup {None}]
    BY DEF Init, Salt
  <2>2. /\ weights \in Allocation /\ params \in Params
        /\ pending_rebalance_commit \in Proposal \cup {None}
        /\ slot \in Nat /\ pending_rebalance_slot \in Nat
        /\ pending_rebalance_expiry \in Nat /\ emergency_shutdown \in BOOLEAN
    BY AllocationAssumption DEF Init, ChainInit
  <2>3. salts \in 0..MaxProposals
    BY Constants DEF Init
  <2>4. QED
    BY <2>1, <2>2, <2>3 DEF Init, TypeOK
<1>2. OutsideInv
  <2>1. wire = {} /\ pending_rebalance_commit = None
    BY DEF Init, ChainInit
  <2>2. \A s \in Salt : announced[s] = None
    BY DEF Init, Salt
  <2>3. QED
    BY <2>1, <2>2 DEF OutsideInv, CommitsDiffer, PendingInv, AnnouncedInv
<1>3. InsideInv
  BY DEF Init, InsideInv, Phase, DaemonKnows, SeenInv
<1>4. QED
  BY <1>1, <1>2, <1>3 DEF IInv

-----------------------------------------------------------------------------
(***************************************************************************)
(* The steps of the daemon.                                                *)
(***************************************************************************)

\* A snapshot is taken as it is.
LEMMA BeginCycleKeepsInv ==
  ASSUME IInv, BeginCycle, immediate' = immediate
  PROVE  IInv'
<1> USE DEF BeginCycle, chainVars, pendingVars, historyVars
<1>1. Snapshot \in SnapshotType
  BY DEF Snapshot, SnapshotType, IInv, TypeOK
<1>2. TypeOK'
  BY <1>1 DEF IInv, TypeOK
<1>3. OutsideInv'
  BY OutsideStays DEF IInv, TypeOK
<1>4. Phase'
  BY <1>1 DEF Phase
<1>5. DaemonKnows'
  BY DEF DaemonKnows
<1>6. SeenInv'
  <2>1. /\ seen'.commit = pending_rebalance_commit
        /\ seen'.slot = pending_rebalance_slot
        /\ seen'.expiry = pending_rebalance_expiry
    BY DEF Snapshot
  <2>2. PendingInv
    BY DEF IInv, OutsideInv
  <2>3. QED
    BY <2>1, <2>2 DEF PendingInv, SeenInv, Numbered
<1>7. QED
  BY <1>2, <1>3, <1>4, <1>5, <1>6 DEF IInv, InsideInv

\* A loaded preimage is one of the daemon's proposals.
LEMMA LoadedTypes ==
  ASSUME TypeOK, NEW p \in Loaded
  PROVE  p \in Proposal \cup {None}
BY DEF Loaded, TypeOK

LEMMA DecideRevealKeepsInv ==
  ASSUME IInv, NEW p \in Loaded, pc = "decide", DecideReveal(p),
         UNCHANGED <<immediate, slot, chainVars, landed, wire, crashes, toggles,
                     historyVars>>
  PROVE  IInv'
<1> USE DEF DecideReveal
<1>1. p \in Proposal
  BY LoadedTypes DEF IInv
<1>2. TypeOK'
  BY <1>1 DEF IInv, TypeOK, chainVars, pendingVars, historyVars
<1>3. OutsideInv'
  BY OutsideStays DEF IInv, TypeOK
<1>4. /\ p = seen.commit /\ p # None /\ seen \in SnapshotType
      /\ Numbered(p) /\ announced[p.salt] = seen.slot
  BY <1>1 DEF IInv, InsideInv, Phase, SeenInv
<1>5. Phase'
  BY <1>1, <1>4 DEF Phase, Numbered
<1>6. Ripe(p)
  <2>1. seen.slot \in Nat
    BY <1>4 DEF SnapshotType
  <2>2. slot >= seen.slot + KeeperDelay
    BY DEF DeferredRevealReady, RevealableFrom
  <2>3. QED
    BY <1>4, <2>1, <2>2, Constants DEF Ripe, Announced
<1>7. DaemonKnows'
  BY <1>6 DEF DaemonKnows, Ripe, Announced, historyVars
<1>8. SeenInv'
  BY DEF IInv, InsideInv, SeenInv, Numbered, chainVars, pendingVars, historyVars
<1>9. QED
  BY <1>2, <1>3, <1>5, <1>7, <1>8 DEF IInv, InsideInv

\* A new proposal gets a salt that nothing outside has.
LEMMA DecideCommitKeepsInv ==
  ASSUME IInv, NEW p \in Loaded, NEW target \in Allocation,
         NEW settings \in Params \cup {None}, pc = "decide",
         DecideCommit(p, target, settings),
         UNCHANGED <<immediate, slot, chainVars, landed, wire, crashes, toggles,
                     historyVars>>
  PROVE  IInv'
<1> USE DEF DecideCommit
<1>1. /\ salts \in 0..MaxProposals /\ slot \in Nat
      /\ salts' = salts + 1 /\ salts' \in 1..MaxProposals
      /\ pc' = "commit" /\ seen' = seen /\ seen \in SnapshotType
  BY Constants DEF IInv, TypeOK, InsideInv, Phase
<1>2. /\ draft' \in Proposal /\ draft'.salt = salts + 1
      /\ draft'.batch_slot = slot
  BY <1>1 DEF Proposal
<1>3. TypeOK'
  <2>1. {pending', disk'} \subseteq Proposal \cup {None}
    BY LoadedTypes DEF KeepUnlessExpired, Clear, IInv, TypeOK
  <2>2. QED
    BY <1>1, <1>2, <2>1 DEF IInv, TypeOK, chainVars, pendingVars, historyVars
<1>4. OutsideInv'
  BY <1>1, OutsideStays DEF IInv
<1>5. Phase'
  BY <1>1, <1>2 DEF Phase, Numbered
<1>6. SeenInv'
  <2>1. SeenInv /\ pc # "idle"
    BY DEF IInv, InsideInv
  <2>2. seen.commit # None => Numbered(seen.commit)'
    BY <1>1, <2>1 DEF SeenInv, Numbered
  <2>3. QED
    BY <1>1, <2>1, <2>2 DEF SeenInv, chainVars, pendingVars, historyVars
<1>7. DaemonKnows'
  <2>1. announced'[draft'.salt] = None
    <3>1. AnnouncedInv /\ salts + 1 \in Salt
      BY <1>1 DEF IInv, OutsideInv, Salt
    <3>2. QED
      BY <1>1, <1>2, <3>1 DEF AnnouncedInv, historyVars
  <2>2. ASSUME NEW tx \in wire' PROVE tx.proposal.salt # draft'.salt
    <3>1. tx.proposal.salt \in 1..salts
      BY DEF IInv, OutsideInv, WireInv, Numbered
    <3>2. QED
      BY <1>1, <1>2, <3>1
  <2>3. Past(seen.commit)'
    <3>1. ASSUME seen.commit # None
          PROVE  /\ Announced(seen.commit)
                 /\ pending_rebalance_commit = seen.commit
                      => slot > pending_rebalance_expiry
      <4>1. SeenInv /\ pc # "idle"
        BY DEF IInv, InsideInv
      <4>2. seen.slot \in Nat /\ seen.expiry \in Nat
        BY <1>1 DEF SnapshotType
      <4>3. ~(slot <= seen.expiry)
        BY <3>1 DEF ActiveAt
      <4>4. QED
        BY <1>1, <3>1, <4>1, <4>2, <4>3, Constants DEF SeenInv, Announced
    <3>2. seen.commit # None => Numbered(seen.commit)'
      BY <1>1, <1>6 DEF SeenInv
    <3>3. QED
      BY <1>1, <3>1, <3>2 DEF Past, Announced, chainVars, pendingVars, historyVars
  <2>4. ~immediate => Timely(draft)'
    BY <1>1, <1>2 DEF Timely
  <2>5. QED
    BY <1>1, <2>1, <2>2, <2>3, <2>4 DEF DaemonKnows, Announced
<1>8. QED
  BY <1>3, <1>4, <1>5, <1>6, <1>7 DEF IInv, InsideInv

LEMMA DecideKeepsInv ==
  ASSUME IInv, Decide, immediate' = immediate
  PROVE  IInv'
<1>1. PICK p \in Loaded :
        \/ DecideReveal(p)
        \/ \E target \in Allocation, settings \in Params \cup {None} :
             DecideCommit(p, target, settings)
        \/ DecideNothing(p)
  BY DEF Decide
<1>2. /\ pc = "decide"
      /\ UNCHANGED <<immediate, slot, chainVars, landed, wire, crashes, toggles,
                     historyVars>>
  BY DEF Decide
<1>3. CASE DecideReveal(p)
  BY <1>2, <1>3, DecideRevealKeepsInv
<1>4. ASSUME NEW target \in Allocation, NEW settings \in Params \cup {None},
             DecideCommit(p, target, settings)
      PROVE  IInv'
  BY <1>2, <1>4, DecideCommitKeepsInv
<1>5. CASE DecideNothing(p)
  <2>1. pending' \in Proposal \cup {None} /\ disk' \in Proposal \cup {None}
    BY <1>5, LoadedTypes DEF DecideNothing, KeepUnlessExpired, Clear, IInv, TypeOK
  <2>2. QED
    BY <1>2, <1>5, <2>1, RestKeepsInv DEF DecideNothing
<1>6. QED
  BY <1>1, <1>3, <1>4, <1>5

\* What is sent goes on the wire with what the daemon knows of it.
LEMMA SendKeepsInv ==
  ASSUME IInv, Send, immediate' = immediate
  PROVE  IInv'
<1> USE DEF Send
<1>1. /\ pc \in {"commit", "reveal", "params"} /\ pc' = "await"
      /\ draft \in Proposal /\ Numbered(draft) /\ seen \in SnapshotType
      /\ draft' = draft /\ seen' = seen /\ landed' = FALSE
      /\ slot \in Nat
      /\ UNCHANGED <<immediate, slot, chainVars, salts, historyVars>>
  BY DEF IInv, InsideInv, Phase, TypeOK
<1>2. /\ awaited' \in TxType
      /\ awaited'.kind = pc /\ awaited'.proposal = draft
      /\ awaited'.over = IF pc = "commit" THEN seen.commit ELSE None
  BY <1>1 DEF Tx, TxType, SnapshotType
<1>3. wire' = wire \cup {awaited'}
  OBVIOUS
<1>4. TypeOK'
  BY <1>1, <1>2, <1>3 DEF IInv, TypeOK, chainVars, pendingVars, historyVars
<1>5. DaemonKnows /\ SeenInv /\ OutsideInv
  BY DEF IInv, InsideInv
<1>6. ASSUME NEW tx \in wire' PROVE WireInv(tx)'
  <2>1. WireInv(tx)
    <3>1. CASE tx \in wire
      BY <1>5, <3>1 DEF OutsideInv
    <3>2. CASE tx = awaited'
      <4>1. /\ tx.kind = pc /\ tx.proposal = draft
            /\ tx.over = IF pc = "commit" THEN seen.commit ELSE None
        BY <1>2, <3>2
      <4>2. pc = "params" => draft.params \in Params
        BY DEF IInv, InsideInv, Phase
      <4>3. QED
        BY <1>1, <1>5, <4>1, <4>2 DEF DaemonKnows, WireInv
    <3>3. QED
      BY <1>3, <3>1, <3>2
  <2>2. QED
    BY <1>1, <2>1
    DEF WireInv, Numbered, Announced, Past, Timely, Ripe, Revealed, chainVars,
        pendingVars, historyVars
<1>7. CommitsDiffer'
  BY <1>2, <1>3, <1>5 DEF OutsideInv, CommitsDiffer, DaemonKnows
<1>8. PendingInv' /\ AnnouncedInv'
  BY <1>1, <1>5
  DEF OutsideInv, PendingInv, AnnouncedInv, Numbered, chainVars, pendingVars,
      historyVars
<1>9. Phase' /\ DaemonKnows'
  BY <1>1, <1>2 DEF Phase, DaemonKnows, Numbered
<1>10. SeenInv'
  BY <1>1, <1>5 DEF SeenInv, Numbered, chainVars, pendingVars, historyVars
<1>11. QED
  BY <1>4, <1>6, <1>7, <1>8, <1>9, <1>10 DEF IInv, InsideInv, OutsideInv

\* The daemon goes on to another step of the cycle with the same proposal.
LEMMA GoOnKeepsInv ==
  ASSUME IInv, pc \notin {"idle", "decide"}, pc' \in {"params", "persist", "wait", "reveal"},
         pc' = "params" => draft.params \in Params /\ Revealed(draft),
         pc' \in {"wait", "reveal"} => immediate,
         pending' \in Proposal \cup {None}, disk' \in Proposal \cup {None},
         UNCHANGED <<immediate, slot, chainVars, seen, draft, awaited, landed,
                     wire, salts, historyVars>>
  PROVE  IInv'
<1>1. TypeOK'
  BY DEF IInv, TypeOK, chainVars, pendingVars, historyVars
<1>2. OutsideInv'
  BY OutsideStays DEF IInv, TypeOK
<1>3. Phase'
  BY DEF IInv, InsideInv, Phase, Numbered
<1>4. DaemonKnows'
  BY DEF DaemonKnows, Revealed, historyVars
<1>5. SeenInv'
  BY DEF IInv, InsideInv, SeenInv, Numbered, chainVars, pendingVars, historyVars
<1>6. QED
  BY <1>1, <1>2, <1>3, <1>4, <1>5 DEF IInv, InsideInv

LEMMA ReturnKeepsInv ==
  ASSUME IInv, Return, immediate' = immediate
  PROVE  IInv'
<1>1. /\ pc = "await" /\ draft \in Proposal /\ awaited.proposal = draft
      /\ UNCHANGED <<immediate, slot, chainVars, landed, wire, salts, historyVars>>
  BY DEF Return, IInv, InsideInv, Phase
<1>2. /\ pending \in Proposal \cup {None} /\ disk \in Proposal \cup {None}
      /\ draft.params \in Params \cup {None}
  BY <1>1 DEF IInv, TypeOK, Proposal
<1>3. CASE CommitConfirmed
  BY <1>1, <1>2, <1>3, GoOnKeepsInv DEF CommitConfirmed
<1>4. CASE RevealConfirmed /\ HasParamsUpdate
  <2>1. Revealed(draft)
    BY <1>1, <1>4 DEF RevealConfirmed, Confirmed, IInv, InsideInv, DaemonKnows
  <2>2. draft.params \in Params
    BY <1>2, <1>4 DEF HasParamsUpdate
  <2>3. QED
    BY <1>1, <1>2, <1>4, <2>1, <2>2, GoOnKeepsInv DEF RevealConfirmed
<1>5. CASE \/ RevealConfirmed /\ ~HasParamsUpdate
           \/ ParamsReturned \/ SendFailed
  <2>1. /\ Rest
        /\ pending' \in Proposal \cup {None} /\ disk' \in Proposal \cup {None}
    BY <1>2, <1>5 DEF RevealConfirmed, ParamsReturned, SendFailed, Clear
  <2>2. QED
    BY <1>1, <2>1, RestKeepsInv
<1>6. QED
  BY <1>3, <1>4, <1>5 DEF Return

LEMMA PersistKeepsInv ==
  ASSUME IInv, Persist, immediate' = immediate
  PROVE  IInv'
<1>1. /\ pc = "persist" /\ draft \in Proposal
      /\ UNCHANGED <<immediate, slot, chainVars, landed, wire, salts, historyVars>>
  BY DEF Persist, IInv, InsideInv, Phase
<1>2. pending' \in Proposal \cup {None} /\ disk' \in Proposal \cup {None}
  BY <1>1 DEF Persist, IInv, TypeOK
<1>3. CASE immediate
  BY <1>1, <1>2, <1>3, GoOnKeepsInv DEF Persist
<1>4. CASE ~immediate
  BY <1>1, <1>2, <1>4, RestKeepsInv DEF Persist
<1>5. QED
  BY <1>3, <1>4

LEMMA EndWaitKeepsInv ==
  ASSUME IInv, EndWait, immediate' = immediate
  PROVE  IInv'
<1>1. /\ pc = "wait" /\ immediate
      /\ UNCHANGED <<immediate, slot, chainVars, landed, wire, salts, historyVars>>
  BY DEF EndWait, IInv, InsideInv, Phase
<1>2. pending' \in Proposal \cup {None} /\ disk' \in Proposal \cup {None}
  BY DEF EndWait, IInv, TypeOK
<1>3. CASE pc' = "reveal" /\ UNCHANGED <<seen, draft, awaited>>
  BY <1>1, <1>2, <1>3, GoOnKeepsInv
<1>4. CASE Rest
  BY <1>1, <1>2, <1>4, RestKeepsInv
<1>5. QED
  BY <1>3, <1>4 DEF EndWait

LEMMA CrashKeepsInv ==
  ASSUME IInv, Crash, immediate' = immediate
  PROVE  IInv'
<1>1. pending' \in Proposal \cup {None} /\ disk' \in Proposal \cup {None}
  BY DEF Crash, IInv, TypeOK
<1>2. QED
  BY <1>1, RestKeepsInv DEF Crash

-----------------------------------------------------------------------------
(***************************************************************************)
(* The steps of the chain and the network.                                 *)
(***************************************************************************)

\* The types are kept.
LEMMA LandKeepsTypes ==
  ASSUME IInv, NEW tx \in wire, Land(tx), immediate' = immediate
  PROVE  TypeOK'
<1> USE DEF Land
<1>1. /\ tx \in TxType /\ tx.proposal \in Proposal
      /\ tx.proposal.target \in Allocation /\ tx.proposal.salt \in 1..salts
      /\ tx.kind = "params" => tx.proposal.params \in Params
      /\ salts \in 0..MaxProposals
  BY DEF IInv, OutsideInv, TypeOK, TxType, Proposal, WireInv, Numbered
<1>2. tx.proposal.salt \in Salt
  BY <1>1, Constants DEF Salt
<1>3. /\ UNCHANGED <<slot, daemonVars, salts>>
      /\ wire' \subseteq wire /\ landed' \in BOOLEAN
  BY DEF IInv, TypeOK
<1>4. CASE LandCommit(tx)
  <2>1. announced' \in [Salt -> Nat \cup {None}]
    BY <1>2, <1>4 DEF LandCommit, IInv, TypeOK
  <2>2. /\ slot \in Nat /\ slot + CommitValidity \in Nat
    BY Constants DEF IInv, TypeOK
  <2>3. QED
    BY <1>1, <1>3, <1>4, <2>1, <2>2
    DEF LandCommit, CommitRebalance, IInv, TypeOK, daemonVars
<1>5. CASE LandReveal(tx)
  <2>1. /\ effects' \subseteq {"revealed", "moved"} \X Salt
        /\ last_mover' \in Salt \cup {0}
    BY <1>2, <1>5 DEF LandReveal, IInv, TypeOK
  <2>2. /\ pending_rebalance_commit' \in Proposal \cup {None}
        /\ pending_rebalance_slot' \in Nat /\ pending_rebalance_expiry' \in Nat
    BY <1>5 DEF LandReveal, Rebalance, Consume, pendingVars, IInv, TypeOK
  <2>3. QED
    BY <1>1, <1>3, <1>5, <2>1, <2>2
    DEF LandReveal, Rebalance, IInv, TypeOK, daemonVars
<1>6. CASE LandParams(tx)
  BY <1>1, <1>3, <1>6
  DEF LandParams, UpdateParams, IInv, TypeOK, daemonVars, pendingVars, historyVars
<1>7. QED
  BY <1>4, <1>5, <1>6

\* The landing of a commit is the first of its proposal, and the only one.
LEMMA LandCommitKeepsInv ==
  ASSUME IInv, NEW tx \in wire, Land(tx), LandCommit(tx), immediate' = immediate
  PROVE  IInv'
<1> DEFINE p == tx.proposal
<1>1. TypeOK'
  BY LandKeepsTypes
<1>2. /\ tx.kind = "commit" /\ p \in Proposal
      /\ pending_rebalance_commit' = p
      /\ pending_rebalance_slot' = slot
      /\ pending_rebalance_expiry' = slot + CommitValidity
      /\ announced' = [announced EXCEPT ![p.salt] = slot]
      /\ UNCHANGED <<immediate, slot, daemonVars, salts, effects>>
      /\ wire' = wire \ {tx}
      /\ landed' = (landed \/ tx = awaited)
  BY DEF Land, LandCommit, CommitRebalance, IInv, TypeOK, TxType
<1>3. /\ WireInv(tx) /\ DaemonKnows /\ SeenInv /\ Phase
      /\ CommitsDiffer /\ AnnouncedInv
  BY DEF IInv, OutsideInv, InsideInv
<1>4. /\ salts \in 0..MaxProposals /\ slot \in Nat /\ slot # None
      /\ p.salt \in 1..salts /\ p.salt \in Salt
      /\ announced[p.salt] = None
      /\ announced \in [Salt -> Nat \cup {None}]
  BY <1>2, <1>3, Constants DEF IInv, TypeOK, WireInv, Numbered, Announced, Salt
<1>5. /\ announced'[p.salt] = slot
      /\ \A s \in Salt : s # p.salt => announced'[s] = announced[s]
  BY <1>2, <1>4
<1>6. ASSUME NEW c \in Proposal, Numbered(c), c.salt # p.salt
      PROVE  announced'[c.salt] = announced[c.salt]
  BY <1>4, <1>5, <1>6, Constants DEF Numbered, Salt
<1> HIDE DEF p
<1>7. ASSUME NEW c \in Proposal \cup {None}, Past(c)
      PROVE  Past(c)'
  <2>1. c # None => c.salt # p.salt
    BY <1>4, <1>7 DEF Past, Announced
  <2>2. QED
    BY <1>2, <1>6, <1>7, <2>1 DEF Past, Announced, Numbered
<1>8. ASSUME NEW o \in wire' PROVE WireInv(o)'
  <2>1. /\ o \in wire /\ o # tx /\ WireInv(o) /\ o \in TxType
        /\ o.proposal \in Proposal /\ Numbered(o.proposal)
        /\ o.over \in Proposal \cup {None}
    BY <1>2 DEF IInv, OutsideInv, TypeOK, TxType, WireInv
  <2>2. o.kind = "commit" => o.proposal.salt # p.salt
    BY <1>2, <1>3, <2>1 DEF CommitsDiffer, p
  <2>3. o.kind = "commit" => ~Announced(o.proposal)' /\ Past(o.over)'
    BY <1>6, <1>7, <2>1, <2>2 DEF WireInv, Announced
  <2>4. o.kind = "reveal" /\ ~immediate => Ripe(o.proposal)'
    <3>1. ASSUME o.kind = "reveal", ~immediate PROVE Ripe(o.proposal)'
      <4>1. Ripe(o.proposal)
        BY <2>1, <3>1 DEF WireInv
      <4>2. o.proposal.salt # p.salt
        BY <1>4, <4>1 DEF Ripe, Announced
      <4>3. announced'[o.proposal.salt] = announced[o.proposal.salt]
        BY <1>6, <2>1, <4>2
      <4>4. QED
        BY <1>2, <4>1, <4>3 DEF Ripe, Announced
    <3>2. QED
      BY <3>1
  <2>5. QED
    BY <1>2, <2>1, <2>3, <2>4 DEF WireInv, Numbered, Timely, Revealed
<1>9. CommitsDiffer'
  BY <1>2, <1>3 DEF CommitsDiffer
<1>10. PendingInv'
  <2>1. Numbered(p)' /\ (~immediate => Timely(p))
    BY <1>2, <1>3 DEF WireInv, Numbered, p
  <2>2. ASSUME NEW s \in Salt, announced'[s] # None PROVE announced'[s] <= slot
    BY <1>3, <1>4, <1>5, <2>2 DEF AnnouncedInv
  <2>3. QED
    BY <1>2, <1>4, <1>5, <2>1, <2>2 DEF PendingInv, Timely
<1>11. AnnouncedInv'
  BY <1>2, <1>3, <1>4, <1>5 DEF AnnouncedInv
<1>12. Phase'
  BY <1>2, <1>3 DEF Phase, Numbered, daemonVars
<1>13. DaemonKnows'
  <2>1. /\ pc' = pc /\ draft' = draft /\ seen' = seen /\ awaited' = awaited
    BY <1>2 DEF daemonVars
  <2>2. ASSUME pc = "commit"
        PROVE  /\ ~Announced(draft)' /\ Past(seen.commit)'
               /\ ~immediate => Timely(draft)'
    <3>1. /\ draft \in Proposal /\ Numbered(draft) /\ seen \in SnapshotType
      BY <1>3, <2>2 DEF Phase
    <3>2. draft.salt # p.salt
      BY <1>2, <1>3, <2>2 DEF DaemonKnows, p
    <3>3. seen.commit \in Proposal \cup {None}
      BY <3>1 DEF SnapshotType
    <3>4. Past(seen.commit)'
      BY <1>3, <1>7, <2>1, <2>2, <3>3 DEF DaemonKnows, Past
    <3>5. QED
      BY <1>2, <1>3, <1>6, <2>1, <2>2, <3>1, <3>2, <3>4
      DEF DaemonKnows, Announced, Timely
  <2>3. ASSUME pc = "reveal", ~immediate PROVE Ripe(draft)'
    <3>1. draft \in Proposal /\ Numbered(draft) /\ Ripe(draft)
      BY <1>3, <2>3 DEF Phase, DaemonKnows
    <3>2. draft.salt # p.salt
      BY <1>4, <3>1 DEF Ripe, Announced
    <3>3. QED
      BY <1>2, <1>6, <2>1, <3>1, <3>2 DEF Ripe, Announced
  <2>4. awaited.kind = "reveal" /\ landed' => landed
    BY <1>2
  <2>5. QED
    BY <1>2, <1>3, <2>1, <2>2, <2>3, <2>4 DEF DaemonKnows, Revealed
<1>14. SeenInv'
  <2>1. pc' = pc /\ seen' = seen
    BY <1>2 DEF daemonVars
  <2>2. ASSUME pc # "idle", seen.commit # None
        PROVE  /\ Numbered(seen.commit)'
               /\ announced'[seen.commit.salt] = seen.slot
               /\ p # seen.commit
    <3>1. /\ Numbered(seen.commit) /\ announced[seen.commit.salt] = seen.slot
          /\ seen \in SnapshotType
      BY <1>3, <2>2 DEF SeenInv, Phase
    <3>2. seen.commit \in Proposal /\ seen.slot \in Nat
      BY <2>2, <3>1 DEF SnapshotType
    <3>3. seen.commit.salt # p.salt
      BY <1>4, <3>1, <3>2, Constants
    <3>4. QED
      BY <1>2, <1>6, <2>1, <3>1, <3>2, <3>3 DEF Numbered
  <2>3. QED
    BY <1>2, <2>1, <2>2 DEF SeenInv
<1>15. QED
  BY <1>1, <1>8, <1>9, <1>10, <1>11, <1>12, <1>13, <1>14
  DEF IInv, InsideInv, OutsideInv

\* What does not announce anything: transactions land or expire, reveals may
\* consume the pending commit, time passes.
LEMMA MovesOnKeepsInv ==
  ASSUME IInv, TypeOK', slot <= slot', wire' \subseteq wire,
         effects \subseteq effects',
         UNCHANGED <<immediate, daemonVars, salts, announced>>,
         UNCHANGED pendingVars \/ pending_rebalance_commit' = None,
         landed' /\ pc = "await" /\ awaited.kind = "reveal"
           => landed \/ Revealed(draft)'
  PROVE  IInv'
<1>1. /\ slot \in Nat /\ slot' \in Nat
      /\ announced \in [Salt -> Nat \cup {None}] /\ salts \in 0..MaxProposals
      /\ pending_rebalance_slot \in Nat /\ pending_rebalance_expiry \in Nat
  BY DEF IInv, TypeOK
<1>2. /\ pc' = pc /\ draft' = draft /\ seen' = seen /\ awaited' = awaited
  BY DEF daemonVars
<1>3. ASSUME NEW c, Past(c) PROVE Past(c)'
  BY <1>1, <1>3 DEF Past, Numbered, Announced, pendingVars
<1>4. ASSUME NEW q \in Proposal, Numbered(q), Ripe(q) PROVE Ripe(q)'
  <2>1. announced[q.salt] \in Nat
    BY <1>1, <1>4, Constants DEF Ripe, Announced, Numbered, Salt
  <2>2. QED
    BY <1>1, <1>4, <2>1, Constants DEF Ripe, Announced
<1>5. ASSUME NEW q \in Proposal, Timely(q) PROVE Timely(q)'
  <2>1. q.batch_slot \in Nat
    BY DEF Proposal
  <2>2. QED
    BY <1>1, <1>5, <2>1 DEF Timely
<1>6. ASSUME NEW o \in wire' PROVE WireInv(o)'
  <2>1. o \in wire /\ WireInv(o) /\ o.proposal \in Proposal
    BY DEF IInv, OutsideInv, TypeOK, TxType
  <2>2. o.kind = "commit" =>
          ~Announced(o.proposal)' /\ Past(o.over)'
            /\ (~immediate => Timely(o.proposal)')
    BY <1>3, <1>5, <2>1 DEF WireInv, Announced
  <2>3. o.kind = "reveal" /\ ~immediate => Ripe(o.proposal)'
    BY <1>4, <2>1 DEF WireInv
  <2>4. o.kind = "params" =>
          o.proposal.params \in Params /\ Revealed(o.proposal)'
    BY <2>1 DEF WireInv, Revealed
  <2>5. QED
    BY <2>1, <2>2, <2>3, <2>4 DEF WireInv, Numbered
<1>7. CommitsDiffer'
  BY DEF IInv, OutsideInv, CommitsDiffer
<1>8. PendingInv'
  BY <1>1 DEF IInv, OutsideInv, PendingInv, Numbered, pendingVars
<1>9. AnnouncedInv'
  <2>1. ASSUME NEW s \in Salt, announced[s] # None
        PROVE  s <= salts /\ announced[s] <= slot'
    <3>1. announced[s] \in Nat /\ s <= salts /\ announced[s] <= slot
      BY <1>1, <2>1 DEF IInv, OutsideInv, AnnouncedInv
    <3>2. QED
      BY <1>1, <3>1
  <2>2. QED
    BY <2>1 DEF AnnouncedInv
<1>10. Phase'
  BY <1>2 DEF IInv, InsideInv, Phase, Numbered
<1>11. DaemonKnows'
  <2>1. DaemonKnows
    BY DEF IInv, InsideInv
  <2>2. pc \notin {"idle", "decide"} => draft \in Proposal /\ Numbered(draft)
    BY DEF IInv, InsideInv, Phase
  <2>3. pc = "commit" =>
          /\ ~Announced(draft)'
          /\ \A tx \in wire' : tx.kind = "commit" => tx.proposal.salt # draft.salt
          /\ Past(seen.commit)'
          /\ ~immediate => Timely(draft)'
    BY <1>2, <1>3, <1>5, <2>1, <2>2 DEF DaemonKnows, Announced, Past
  <2>4. pc = "reveal" /\ ~immediate => Ripe(draft)'
    BY <1>2, <1>4, <2>1, <2>2 DEF DaemonKnows, Ripe
  <2>5. /\ pc = "params" => Revealed(draft)'
        /\ pc = "await" /\ awaited.kind = "reveal" /\ landed' => Revealed(draft)'
    BY <1>2, <2>1 DEF DaemonKnows, Revealed
  <2>6. QED
    BY <1>2, <2>3, <2>4, <2>5 DEF DaemonKnows
<1>12. SeenInv'
  BY <1>2 DEF IInv, InsideInv, SeenInv, Numbered, pendingVars
<1>13. QED
  BY <1>6, <1>7, <1>8, <1>9, <1>10, <1>11, <1>12
  DEF IInv, InsideInv, OutsideInv

LEMMA LandKeepsInv ==
  ASSUME IInv, NEW tx \in wire, Land(tx), immediate' = immediate
  PROVE  IInv'
<1>1. TypeOK' /\ slot \in Nat
  BY LandKeepsTypes DEF IInv, TypeOK
<1>2. /\ UNCHANGED <<slot, daemonVars, salts>>
      /\ wire' \subseteq wire /\ landed' = (landed \/ tx = awaited)
  BY DEF Land
<1>3. CASE LandCommit(tx)
  BY <1>3, LandCommitKeepsInv
<1>4. CASE LandReveal(tx)
  <2>1. /\ tx.kind = "reveal" /\ effects \subseteq effects'
        /\ Revealed(tx.proposal)' /\ announced' = announced
    BY <1>4 DEF LandReveal, Revealed
  <2>2. UNCHANGED pendingVars \/ pending_rebalance_commit' = None
    BY <1>4 DEF LandReveal, Rebalance, Consume
  <2>3. pc = "await" => awaited.proposal = draft
    BY DEF IInv, InsideInv, Phase
  <2>4. landed' /\ pc = "await" /\ awaited.kind = "reveal"
          => landed \/ Revealed(draft)'
    BY <1>2, <2>1, <2>3 DEF Revealed, daemonVars
  <2>5. QED
    BY <1>1, <1>2, <2>1, <2>2, <2>4, MovesOnKeepsInv
<1>5. CASE LandParams(tx)
  <2>1. /\ tx.kind = "params" /\ UNCHANGED <<pendingVars, announced, effects>>
    BY <1>5 DEF LandParams, UpdateParams, historyVars
  <2>2. landed' /\ pc = "await" /\ awaited.kind = "reveal" => landed
    BY <1>2, <2>1
  <2>3. QED
    BY <1>1, <1>2, <2>1, <2>2, MovesOnKeepsInv
<1>6. QED
  BY <1>3, <1>4, <1>5 DEF Land

LEMMA ToggleKeepsInv ==
  ASSUME IInv, Toggle, immediate' = immediate
  PROVE  IInv'
<1>1. TypeOK'
  BY DEF Toggle, ToggleShutdown, IInv, TypeOK, daemonVars, pendingVars, historyVars
<1>2. slot <= slot'
  BY DEF Toggle, IInv, TypeOK
<1>3. QED
  BY <1>1, <1>2, MovesOnKeepsInv DEF Toggle, ToggleShutdown, historyVars

LEMMA TickKeepsInv ==
  ASSUME IInv, Tick, immediate' = immediate
  PROVE  IInv'
<1>1. slot \in Nat /\ slot' = slot + 1 /\ wire' \subseteq wire
  BY DEF Tick, IInv, TypeOK
<1>2. TypeOK'
  BY <1>1 DEF Tick, IInv, TypeOK, chainVars, daemonVars, pendingVars, historyVars
<1>3. QED
  BY <1>1, <1>2, MovesOnKeepsInv DEF Tick, chainVars, historyVars

\* Every step keeps the invariant.
LEMMA StepKeepsInv == IInv /\ [Next]_vars => IInv'
<1> SUFFICES ASSUME IInv, [Next]_vars PROVE IInv'
  OBVIOUS
<1>1. CASE Daemon /\ immediate' = immediate
  BY <1>1, BeginCycleKeepsInv, DecideKeepsInv, SendKeepsInv, ReturnKeepsInv,
     PersistKeepsInv, EndWaitKeepsInv DEF Daemon
<1>2. CASE Environment /\ immediate' = immediate
  BY <1>2, LandKeepsInv, ToggleKeepsInv, CrashKeepsInv, TickKeepsInv
  DEF Environment
<1>3. CASE UNCHANGED vars
  <2>1. TypeOK'
    BY <1>3 DEF IInv, TypeOK, vars, chainVars, daemonVars, pendingVars, historyVars
  <2>2. slot <= slot'
    BY <1>3 DEF vars, IInv, TypeOK
  <2>3. QED
    BY <1>3, <2>1, <2>2, MovesOnKeepsInv DEF vars, chainVars, historyVars
<1>4. QED
  BY <1>1, <1>2, <1>3 DEF Next

-----------------------------------------------------------------------------
(***************************************************************************)
(* The theorems.                                                           *)
(***************************************************************************)

\* What the daemon knows, and what is true of each transaction in flight.
THEOREM Invariance == Spec => []IInv
BY InitEstablishesInv, StepKeepsInv, PTL DEF Spec

\* The variables keep their types.
THEOREM TypeCorrectness == Spec => []TypeOK
BY Invariance, PTL DEF IInv

\* The window check at the decision, with its margin, suffices whenever the
\* commit lands: a commit on time has a slot at which it can be revealed.
THEOREM CommitsCanBeRevealed == Spec => []NoDeadZone
<1>1. IInv => NoDeadZone
  <2> SUFFICES ASSUME IInv, pending_rebalance_commit # None, ~immediate,
                      AbsDiff(pending_rebalance_commit.batch_slot,
                              pending_rebalance_slot) <= DriftTolerance
               PROVE  LET first == pending_rebalance_slot + KeeperDelay
                      IN  /\ SameWindow(first, pending_rebalance_slot)
                          /\ SameWindow(first,
                                        pending_rebalance_commit.batch_slot)
                          /\ first >= pending_rebalance_slot + RevealDelay
                          /\ first <= pending_rebalance_expiry
    BY DEF NoDeadZone
  <2> DEFINE batch == pending_rebalance_commit.batch_slot
             at == pending_rebalance_slot
  <2>1. PendingInv /\ at \in Nat /\ pending_rebalance_commit \in Proposal
    BY DEF IInv, OutsideInv, TypeOK
  <2>2. batch \in Nat /\ batch <= at /\ BatchWindowHasRoom(batch)
    BY <2>1 DEF PendingInv, Proposal
  <2>3. at - batch <= DriftTolerance
    BY <2>1, <2>2 DEF AbsDiff
  <2>4. SameWindow(at + KeeperDelay, at) /\ SameWindow(at + KeeperDelay, batch)
    BY <2>1, <2>2, <2>3, RoomSuffices
  <2>5. pending_rebalance_expiry = at + CommitValidity
    BY <2>1 DEF PendingInv
  <2>6. QED
    BY <2>1, <2>4, <2>5, Constants
<1>2. QED
  BY <1>1, Invariance, PTL

\* The weights move by the landing of a reveal alone.
LEMMA MovesAreReveals ==
  ASSUME [Next]_vars, weights' # weights
  PROVE  \E tx \in wire : Land(tx) /\ LandReveal(tx)
<1> USE DEF chainVars
<1>1. ~UNCHANGED vars
  BY DEF vars
<1>2. ~Daemon
  BY DEF Daemon, BeginCycle, Decide, Send, Return, Persist, EndWait
<1>3. ~(Toggle \/ Crash \/ Tick)
  BY DEF Toggle, ToggleShutdown, Crash, Tick
<1>4. PICK tx \in wire : Land(tx)
  BY <1>1, <1>2, <1>3 DEF Next, Environment
<1>5. ~LandCommit(tx) /\ ~LandParams(tx)
  BY DEF LandCommit, CommitRebalance, LandParams, UpdateParams
<1>6. QED
  BY <1>4, <1>5 DEF Land

\* In deferred mode no move of the weights comes unannounced, although the
\* chain would let the daemon make small ones at will.
THEOREM MovesComeAnnounced == Spec => MovesAnnounced
<1>1. IInv /\ [Next]_vars
        => [weights' # weights /\ ~immediate
              => /\ announced[last_mover'] # None
                 /\ slot >= announced[last_mover'] + KeeperDelay]_vars
  <2> SUFFICES ASSUME IInv, [Next]_vars, weights' # weights, ~immediate
               PROVE  /\ announced[last_mover'] # None
                      /\ slot >= announced[last_mover'] + KeeperDelay
    OBVIOUS
  <2>1. PICK tx \in wire : LandReveal(tx)
    BY MovesAreReveals
  <2>2. last_mover' = tx.proposal.salt /\ tx.kind = "reveal"
    BY <2>1 DEF LandReveal
  <2>3. Ripe(tx.proposal)
    BY <2>2 DEF IInv, OutsideInv, WireInv
  <2>4. QED
    BY <2>2, <2>3 DEF Ripe, Announced
<1>2. QED
  BY <1>1, Invariance, PTL DEF Spec, MovesAnnounced

\* A large move is that of the last commit to land, whatever else landed.
THEOREM LargeMovesComeAnnounced == Spec => LargeMovesAnnounced
<1>1. IInv /\ [Next]_vars
        => [\A tx \in wire :
              Land(tx) /\ tx.kind = "reveal" /\ IsLarge(tx.proposal)
              => LET at == announced[tx.proposal.salt]
                 IN  /\ at # None
                     /\ slot >= at + RevealDelay
                     /\ \A s \in Salt :
                          announced[s] # None => announced[s] <= at]_vars
  <2> SUFFICES ASSUME IInv, NEW tx \in wire, Land(tx), tx.kind = "reveal",
                      IsLarge(tx.proposal)
               PROVE  LET at == announced[tx.proposal.salt]
                      IN  /\ at # None
                          /\ slot >= at + RevealDelay
                          /\ \A s \in Salt :
                               announced[s] # None => announced[s] <= at
    OBVIOUS
  <2>1. tx.proposal \in Proposal /\ pending_rebalance_slot \in Nat
    BY DEF IInv, TypeOK, TxType
  <2>2. /\ pending_rebalance_commit = tx.proposal
        /\ slot >= pending_rebalance_slot + RevealDelay
    BY DEF Land, LandCommit, LandReveal, LandParams, Rebalance, CanReveal,
           MatchesCommit
  <2>3. PendingInv /\ tx.proposal # None
    BY <2>1, Constants DEF IInv, OutsideInv
  <2>4. QED
    BY <2>1, <2>2, <2>3, Constants DEF PendingInv
<1>2. QED
  BY <1>1, Invariance, PTL DEF Spec, LargeMovesAnnounced

\* A commit that is overwritten while it is active was not in the snapshot.
THEOREM OnlyUnseenOverwritten == Spec => OverwritesOnlyUnseen
<1>1. IInv /\ [Next]_vars
        => [\A tx \in wire :
              Land(tx) /\ tx.kind = "commit" /\ pending_rebalance_commit # None
              /\ slot <= pending_rebalance_expiry
              => tx.over # pending_rebalance_commit]_vars
  <2> SUFFICES ASSUME IInv, NEW tx \in wire, tx.kind = "commit",
                      pending_rebalance_commit # None,
                      slot <= pending_rebalance_expiry,
                      tx.over = pending_rebalance_commit
               PROVE  FALSE
    OBVIOUS
  <2>1. slot > pending_rebalance_expiry
    BY DEF IInv, OutsideInv, WireInv, Past
  <2>2. slot \in Nat /\ pending_rebalance_expiry \in Nat
    BY DEF IInv, TypeOK
  <2>3. QED
    BY <2>1, <2>2
<1>2. QED
  BY <1>1, Invariance, PTL DEF Spec, OverwritesOnlyUnseen

\* Parameters are never ahead of the reveal they belong to.
THEOREM ParamsComeAfter == Spec => ParamsFollowReveal
<1>1. IInv /\ [Next]_vars
        => [\A tx \in wire :
              Land(tx) /\ tx.kind = "params"
              => <<"revealed", tx.proposal.salt>> \in effects]_vars
  BY DEF IInv, OutsideInv, WireInv, Revealed
<1>2. QED
  BY <1>1, Invariance, PTL DEF Spec, ParamsFollowReveal
=============================================================================
