----------------------------- MODULE OracleCycle -----------------------------
(***************************************************************************)
(* The oracle step of the keeper's loop, call by call: it compares the     *)
(* protocol's accounts on both RPC nodes, then one feed after the other,   *)
(* leaves out the feeds whose message it does not like, and sends an       *)
(* update for each of the rest. What the program does with an update is    *)
(* OracleFeed's UpdateOraclePyth: it looks at the account as it is then.   *)
(*                                                                         *)
(* Time is left out: a message is good or not, and new to the vault or     *)
(* not. The health record of the secondary node is that of KeeperCycle,    *)
(* without the throttle of its probe.                                      *)
(***************************************************************************)
EXTENDS Integers

CONSTANTS
  Feed,               \* pyth_feeds of the configuration
  DegradeThreshold,   \* SECONDARY_RPC_DEGRADE_THRESHOLD
  MaxAttempts         \* CROSS_RPC_MAX_ATTEMPTS

CONSTANTS  \* The bounds of an instance.
  Steady              \* feeds whose messages are always good and the same

ASSUME CycleAssumption ==
  /\ {DegradeThreshold, MaxAttempts} \subseteq Nat \ {0}
  /\ Steady \subseteq Feed

\* A message is too old or too uncertain, or does not decode as one.
Quality == {"good", "unfit", "unreadable"}

None == "none"

VARIABLES
  quality, fresh,     \* of each Pyth account: its message, new to the vault?
  same,               \* the feeds on which the secondary node agrees
  secondary,          \* up, lagging (its vaults differ) or down
  shutdown,           \* emergency_shutdown
  flying,             \* the feeds with an update that may still land
  failures,           \* consecutive_failures of the secondary node
  pc, attempt, todo,  \* where the cycle is; the feeds it has yet to look at
  feed, observed,     \* the feed it looks at, with the message it has read
  prepared            \* prepared_updates

envVars == <<quality, fresh, same, secondary, shutdown>>
cycleVars == <<pc, attempt, todo, feed, observed, prepared>>
vars == <<envVars, flying, failures, cycleVars>>

IsDegraded == failures >= DegradeThreshold

AtMost(a, b) == IF a <= b THEN a ELSE b

\* Failures past the threshold are not counted: nothing tells them apart.
RegisterFailure == failures' = AtMost(failures + 1, DegradeThreshold)
RegisterSuccess == failures' = 0

\* validate_oracle_cross_rpc and validate_oracle_observation_consistency: what
\* both nodes say is within the tolerances.
SnapshotsAgree == secondary = "up"
ObservationsAgree(f) == f \in same
-----------------------------------------------------------------------------
(***************************************************************************)
(* The cycle. The primary node answers: without it there is no cycle.      *)
(***************************************************************************)

\* In degraded mode the loop leaves the oracle step out.
Begin ==
  /\ pc = "idle"
  /\ ~IsDegraded
  /\ pc' = "snapshot" /\ attempt' = 1
  /\ UNCHANGED <<envVars, flying, failures, todo, feed, observed, prepared>>

Leave ==
  /\ pc' = "idle" /\ attempt' = 1
  /\ todo' = {} /\ prepared' = {} /\ feed' = None /\ observed' = "good"

\* After the snapshot; nothing is done in a shutdown.
WithSnapshot ==
  IF shutdown THEN Leave
  ELSE /\ pc' = "feeds" /\ attempt' = 1 /\ todo' = Feed
       /\ UNCHANGED <<feed, observed, prepared>>

\* Faulty: after the last attempt the cycle goes on alone whatever the record
\* says.
CompareFails_GoesOn(counts, alone) ==
  /\ IF counts THEN RegisterFailure ELSE UNCHANGED failures
  /\ IF attempt < MaxAttempts
     THEN /\ attempt' = attempt + 1
          /\ UNCHANGED <<pc, todo, feed, observed, prepared>>
     ELSE alone

\* A comparison has failed: a node that is down counts, one that differs does
\* not. After the last attempt the cycle goes on with the primary node alone
\* if the record says degraded, and is abandoned if not.
CompareFails(counts, alone) ==
  /\ IF counts THEN RegisterFailure ELSE UNCHANGED failures
  /\ CASE attempt < MaxAttempts ->
            /\ attempt' = attempt + 1
            /\ UNCHANGED <<pc, todo, feed, observed, prepared>>
       [] attempt = MaxAttempts /\ failures' >= DegradeThreshold -> alone
       [] OTHER -> Leave

ReadSnapshot ==
  /\ pc = "snapshot"
  /\ IF SnapshotsAgree THEN RegisterSuccess /\ WithSnapshot
     ELSE CompareFails(secondary = "down", WithSnapshot)
  /\ UNCHANGED <<envVars, flying>>

\* The filters of the daemon, on the message it has read.
Filtered(f, q) ==
  /\ prepared' = IF q = "good" THEN prepared \union {f} ELSE prepared
  /\ pc' = "feeds" /\ attempt' = 1 /\ feed' = None /\ observed' = "good"
  /\ UNCHANGED todo

\* Faulty: an account that cannot be read ends the cycle.
FetchFails_Abort(f) == Leave

\* An account that cannot be read is left out.
FetchFails(f) ==
  /\ todo' = todo \ {f}
  /\ UNCHANGED <<pc, attempt, feed, observed, prepared>>

\* The first read of a feed.
FetchFeed(f) ==
  /\ pc = "feeds"
  /\ f \in todo
  /\ IF quality[f] = "unreadable" THEN FetchFails(f)
     ELSE IF IsDegraded
          THEN /\ todo' = todo \ {f}
               /\ prepared' = IF quality[f] = "good" THEN prepared \union {f}
                              ELSE prepared
               /\ UNCHANGED <<pc, attempt, feed, observed>>
          ELSE /\ pc' = "compare" /\ feed' = f /\ observed' = quality[f]
               /\ todo' = todo \ {f}
               /\ UNCHANGED <<attempt, prepared>>
  /\ UNCHANGED <<envVars, flying, failures>>

\* Each attempt but the first reads the primary node again, and this read may
\* fail; the fallback keeps what was read first.
CompareFeed ==
  /\ pc = "compare"
  /\ LET q == IF attempt = 1 THEN observed ELSE quality[feed]
         alone == Filtered(feed, observed)
     IN  IF q = "unreadable" THEN CompareFails(FALSE, alone)
         ELSE IF secondary = "down" THEN CompareFails(TRUE, alone)
         ELSE IF ~ObservationsAgree(feed) THEN CompareFails(FALSE, alone)
         ELSE RegisterSuccess /\ Filtered(feed, q)
  /\ UNCHANGED <<envVars, flying>>

FeedsDone ==
  /\ pc = "feeds" /\ todo = {}
  /\ pc' = "send"
  /\ UNCHANGED <<envVars, flying, failures, attempt, todo, feed, observed,
                 prepared>>

\* An update is sent, or not even that; the loop goes on to the next. Its
\* confirmation is one more word on the secondary node: one that fails to
\* come in time counts against it, whatever the transaction died of.
Send(f, sent) ==
  /\ pc = "send"
  /\ f \in prepared
  /\ prepared' = prepared \ {f}
  /\ flying' = IF sent THEN flying \union {f} ELSE flying
  /\ \/ secondary = "up" /\ RegisterSuccess
     \/ RegisterFailure
     \/ UNCHANGED failures
  /\ UNCHANGED <<envVars, pc, attempt, todo, feed, observed>>

Finish ==
  /\ pc = "send" /\ prepared = {}
  /\ Leave
  /\ UNCHANGED <<envVars, flying, failures>>

Daemon ==
  \/ Begin \/ ReadSnapshot
  \/ \E f \in Feed : FetchFeed(f)
  \/ CompareFeed \/ FeedsDone
  \/ \E f \in Feed, sent \in BOOLEAN : Send(f, sent)
  \/ Finish

\* A later cycle starts with the recovery probe; its oracle step comes next.
Recover ==
  /\ pc = "idle" /\ IsDegraded
  /\ secondary # "down"
  /\ RegisterSuccess
  /\ pc' = "snapshot" /\ attempt' = 1
  /\ UNCHANGED <<envVars, flying, todo, feed, observed, prepared>>

\* The other steps of the loop use the same record: their reads fail with the
\* secondary node, and what they send may go unconfirmed at any time.
OtherSteps ==
  /\ pc = "idle"
  /\ \/ RegisterFailure
     \/ secondary # "down" /\ ~IsDegraded /\ RegisterSuccess
  /\ UNCHANGED <<envVars, flying, cycleVars>>
-----------------------------------------------------------------------------
(***************************************************************************)
(* The program, and the world around.                                      *)
(***************************************************************************)

\* The program takes the message that is in the account when the update
\* lands, if it is fit and new.
Land(f) ==
  /\ f \in flying
  /\ flying' = flying \ {f}
  /\ fresh' = IF quality[f] = "good" /\ ~shutdown
              THEN [fresh EXCEPT ![f] = FALSE] ELSE fresh
  /\ UNCHANGED <<quality, same, secondary, shutdown, failures, cycleVars>>

Expire(f) ==
  /\ f \in flying
  /\ flying' = flying \ {f}
  /\ UNCHANGED <<envVars, failures, cycleVars>>

Post(f) ==
  /\ \E q \in IF f \in Steady THEN {"good"} ELSE Quality :
       quality' = [quality EXCEPT ![f] = q]
  /\ fresh' = [fresh EXCEPT ![f] = TRUE]
  /\ UNCHANGED <<same, secondary, shutdown, flying, failures, cycleVars>>

NodeChanges ==
  /\ same' \in {Steady \union s : s \in SUBSET (Feed \ Steady)}
  /\ secondary' \in {"up", "lagging", "down"}
  /\ UNCHANGED <<quality, fresh, shutdown, flying, failures, cycleVars>>

ToggleShutdown ==
  /\ shutdown' = ~shutdown
  /\ UNCHANGED <<quality, fresh, same, secondary, flying, failures, cycleVars>>

Init ==
  /\ quality = [f \in Feed |-> "good"]
  /\ fresh = [f \in Feed |-> FALSE]
  /\ same = Feed
  /\ secondary = "up"
  /\ shutdown = FALSE
  /\ flying = {}
  /\ failures = 0
  /\ pc = "idle" /\ attempt = 1 /\ todo = {}
  /\ feed = None /\ observed = "good" /\ prepared = {}

Next ==
  \/ Daemon \/ Recover \/ OtherSteps
  \/ \E f \in Feed : Land(f) \/ Expire(f) \/ Post(f)
  \/ NodeChanges \/ ToggleShutdown

Spec == Init /\ [][Next]_vars

\* The loop runs on, and so do its probes; an update that is sent again and
\* again is really sent and lands again and again.
Fairness ==
  /\ WF_vars(Daemon)
  /\ WF_vars(Recover)
  /\ \A f \in Feed : SF_vars(Send(f, TRUE)) /\ SF_vars(Land(f))

FairSpec == Spec /\ Fairness
-----------------------------------------------------------------------------
(***************************************************************************)
(* Properties.                                                             *)
(***************************************************************************)

\* The types of the variables. A feed that is being compared was readable, and
\* is neither to be looked at again nor accepted yet; none is accepted before
\* the snapshots have been compared.
TypeOK ==
  /\ quality \in [Feed -> Quality] /\ fresh \in [Feed -> BOOLEAN]
  /\ same \subseteq Feed /\ flying \subseteq Feed
  /\ secondary \in {"up", "lagging", "down"}
  /\ shutdown \in BOOLEAN
  /\ failures \in 0..DegradeThreshold
  /\ pc \in {"idle", "snapshot", "feeds", "compare", "send"}
  /\ attempt \in 1..MaxAttempts
  /\ todo \subseteq Feed /\ prepared \subseteq Feed \ todo
  /\ pc \in {"idle", "snapshot"} => todo = {} /\ prepared = {}
  /\ observed \in {"good", "unfit"}
  /\ IF pc = "compare" THEN feed \in Feed \ (todo \union prepared)
     ELSE feed = None

\* Nothing in the way of feed f, whatever the messages of the others are.
Calm(f) ==
  /\ secondary = "up" /\ same = Feed
  /\ ~shutdown
  /\ quality[f] = "good"

\* A feed with good messages is served again and again, although other feeds
\* stay unfit or come and go while they are compared: one bad feed does not
\* take the others with it. (One on which the nodes differ does: a difference
\* never counts as a failure, and ends every cycle before the first update.)
FeedsServed == \A f \in Feed : <>[]Calm(f) => []<>~fresh[f]

\* An update rests on the word of both nodes unless the secondary node has
\* failed as often as the threshold says: while it merely differs, nothing
\* gets past it, however often the failures and the differences alternate.
DifferenceStopsAll ==
  [][prepared' \ prepared # {} /\ ~IsDegraded' => feed \in same]_vars
=============================================================================
