----------------------------- MODULE KeeperCycle -----------------------------
(***************************************************************************)
(* The main loop of the keeper daemon against two RPC nodes that fail: the *)
(* health record of the secondary node, the mode it puts a cycle in, the   *)
(* reads that compare both nodes, the confirmation of what is sent, and    *)
(* the monitor, whose count of low readings ends in a shutdown.            *)
(*                                                                         *)
(* The daemon is one thread; nodes, chain and clock change between any two *)
(* of its calls. The other steps of a cycle are kept for what they do to   *)
(* the health record: they read, and they may have something to send.      *)
(***************************************************************************)
EXTENDS Integers

CONSTANTS
  DegradeThreshold,   \* SECONDARY_RPC_DEGRADE_THRESHOLD
  MaxAttempts,        \* CROSS_RPC_MAX_ATTEMPTS
  Debounce            \* emergency_debounce_cycles

CONSTANTS  \* The bounds of an instance.
  PrimaryStates, SecondaryStates,
  MaxSends,           \* of a step other than the monitor
  MaxRestarts

\* The daemon does not start degraded.
ASSUME CycleAssumption ==
  /\ DegradeThreshold \in Nat \ {0, 1}
  /\ {MaxAttempts, Debounce} \subseteq Nat \ {0}

ASSUME CycleBounds ==
  /\ PrimaryStates \subseteq {"up", "down"}
  /\ SecondaryStates \subseteq {"up", "lagging", "unreadable", "down"}
  /\ "up" \in PrimaryStates \cap SecondaryStates
  /\ {MaxSends, MaxRestarts} \subseteq Nat

VARIABLES
  \* A node that is lagging answers from an older state, one that is
  \* unreadable answers everything but the reads of accounts.
  primary, secondary,
  health,             \* SecondaryRpcHealthState
  mode,               \* the mode of the current cycle
  step, phase,        \* where the cycle is
  attempt,            \* of a read that compares both nodes
  sends,              \* what the step has sent so far
  active,             \* the transaction went to the secondary node too
  observations,       \* consecutive_emergency_cycles
  \* the chain
  low,                \* there is supply and its ratio is below the threshold
  shutdown,           \* emergency_shutdown
  in_flight,          \* a shutdown transaction may still land
  landed,             \* the awaited shutdown transaction has landed
  restarts

nodeVars == <<primary, secondary>>
placeVars == <<step, phase, attempt, sends>>
daemonVars == <<health, mode, placeVars, active, observations>>
chainVars == <<low, shutdown, in_flight, landed>>
vars == <<nodeVars, daemonVars, chainVars, restarts>>

-----------------------------------------------------------------------------
(***************************************************************************)
(* The health of the secondary node.                                       *)
(***************************************************************************)
Healthy == [degraded |-> FALSE, failures |-> 0, throttled |-> FALSE]

\* Faulty: a success forgives the failures but does not lift the flag.
Succeeded_FlagStays(h) == [h EXCEPT !.failures = 0, !.throttled = FALSE]

\* register_secondary_rpc_success
Succeeded(h) == Healthy

\* register_secondary_rpc_failure. Failures past the threshold are not
\* counted: nothing tells them apart.
Failed(h) ==
  LET n == IF h.failures < DegradeThreshold THEN h.failures + 1 ELSE h.failures
  IN  [h EXCEPT !.failures = n,
                !.degraded = h.degraded \/ n >= DegradeThreshold]

\* maybe_probe_secondary_rpc_recovery: a failed probe is not repeated for a
\* while.
Probed(h) ==
  IF ~h.degraded \/ h.throttled THEN h
  ELSE IF secondary # "down" THEN Succeeded(h)
  ELSE [h EXCEPT !.throttled = TRUE]

\* secondary_rpc_mode; the configuration always names a secondary node.
ModeOf(h) == IF h.degraded THEN "Degraded" ELSE "Normal"

\* Faulty: takes the primary node's word in every mode.
Accepted_PrimaryOnly(primary_ok, secondary_ok, m) == primary_ok

\* assess_tx_confirmation_outcome, once the retry is used up.
Accepted(primary_ok, secondary_ok, m) ==
  IF m = "Degraded" THEN primary_ok \/ secondary_ok
  ELSE primary_ok /\ secondary_ok

-----------------------------------------------------------------------------
(***************************************************************************)
(* The steps of a cycle. In degraded mode those that only change things    *)
(* are skipped.                                                            *)
(***************************************************************************)
Step == {"oracle", "rebalance", "risk", "agents", "monitor", "watchdog"}

Successor ==
  [oracle |-> "rebalance", rebalance |-> "risk",
   risk |-> IF mode = "Normal" THEN "agents" ELSE "monitor",
   agents |-> "monitor", monitor |-> "watchdog", watchdog |-> "none"]

Enter(s) ==
  /\ step' = s
  /\ phase' = CASE s = "none" -> "idle"
                [] s = "agents" -> "act"
                [] OTHER -> "read"
  /\ attempt' = 1
  /\ sends' = 0

GoOn == Enter(Successor[step])

StayIn(p) == phase' = p /\ step' = step /\ attempt' = 1 /\ sends' = sends

\* The tick of the main loop.
BeginCycle ==
  /\ phase = "idle"
  /\ health' = Probed(health)
  /\ mode' = ModeOf(health')
  /\ Enter(IF mode' = "Normal" THEN "oracle" ELSE "risk")
  /\ UNCHANGED <<nodeVars, active, observations, chainVars, restarts>>

\* The step compares the two nodes; the mode is that of the cycle's start.
IsDual ==
  mode = "Normal" /\ step \in {"oracle", "rebalance", "monitor", "watchdog"}

EmergencyCondition == low /\ ~shutdown

\* Faulty: a degraded cycle does not shut down.
Debounced_NotDegraded(n) == n >= Debounce /\ mode = "Normal"

Debounced(n) == n >= Debounce

\* run_monitor_cycle on its snapshot. Readings past the debounce are not
\* counted.
Decide ==
  LET n == IF ~EmergencyCondition THEN 0
           ELSE IF observations < Debounce THEN observations + 1
           ELSE observations
  IN  /\ observations' = n
      /\ IF Debounced(n) THEN StayIn("act") ELSE GoOn

\* A step whose snapshot is read goes on to act on it.
Proceed ==
  IF step = "monitor" THEN Decide
  ELSE StayIn("act") /\ UNCHANGED observations

ReadSucceeds ==
  /\ phase = "read"
  /\ primary = "up"
  /\ IsDual => secondary \in {"up", "lagging"}
  /\ health' = IF IsDual THEN Succeeded(health) ELSE health
  /\ Proceed
  /\ UNCHANGED <<nodeVars, mode, active, chainVars, restarts>>

\* Only a secondary node that does not answer counts as a failure: not a
\* primary node that does not, and not a mismatch.
ReadError ==
  \/ primary = "down" /\ UNCHANGED health
  \/ /\ primary = "up" /\ IsDual
     /\ \/ secondary \in {"unreadable", "down"} /\ health' = Failed(health)
        \/ secondary = "lagging" /\ UNCHANGED health

\* The last attempt has failed. The monitor then forgets its readings, and a
\* step goes on with the primary node alone if the record says degraded.
Exhausted ==
  /\ observations' = IF IsDual /\ step = "monitor" THEN 0 ELSE observations
  /\ IF IsDual /\ health'.degraded THEN StayIn("fallback") ELSE GoOn

\* retry_with_backoff
MoreAttempts == IsDual /\ attempt < MaxAttempts

ReadFails ==
  /\ phase = "read"
  /\ ReadError
  /\ IF MoreAttempts
     THEN /\ attempt' = attempt + 1
          /\ UNCHANGED <<step, phase, sends, observations>>
     ELSE Exhausted
  /\ UNCHANGED <<nodeVars, mode, active, chainVars, restarts>>

\* The read of the primary node alone that follows.
Fallback ==
  /\ phase = "fallback"
  /\ IF primary = "up" THEN Proceed ELSE GoOn /\ UNCHANGED observations
  /\ UNCHANGED <<nodeVars, health, mode, active, chainVars, restarts>>

-----------------------------------------------------------------------------
(***************************************************************************)
(* send_instructions.                                                      *)
(***************************************************************************)
MaySend == step = "monitor" \/ (mode = "Normal" /\ sends < MaxSends)

\* These steps go on to their next transaction when one has failed.
Tolerant == {"oracle", "agents"}

\* The primary node gives the blockhash, without which nothing is sent. In a
\* degraded cycle the secondary node is neither probed nor sent to.
Submit ==
  /\ phase = "act"
  /\ MaySend
  /\ health' = IF mode = "Normal" THEN Probed(health) ELSE health
  /\ IF primary = "up" \/ step \in Tolerant
     THEN /\ phase' = IF primary = "up" THEN "confirm" ELSE "act"
          /\ sends' = sends + 1
          /\ UNCHANGED <<step, attempt>>
     ELSE GoOn
  /\ active' = (primary = "up" /\ mode = "Normal" /\ ~health'.degraded)
  /\ in_flight' = (in_flight \/ (primary = "up" /\ step = "monitor"))
  /\ UNCHANGED <<nodeVars, mode, observations, low, shutdown, landed,
                 restarts>>

\* What the nodes say within the windows, retry included. A node confirms
\* only what has landed; a secondary node in order confirms what the primary
\* one does.
Confirmable(primary_ok, secondary_ok) ==
  /\ primary_ok => primary = "up"
  /\ secondary_ok => active /\ secondary # "down"
  /\ primary_ok /\ active /\ secondary = "up" => secondary_ok
  /\ (primary_ok \/ secondary_ok) /\ step = "monitor" => landed

\* The mode is read again after the outcome has been registered.
Confirm(primary_ok, secondary_ok) ==
  /\ phase = "confirm"
  /\ Confirmable(primary_ok, secondary_ok)
  /\ health' = CASE ~active -> health
                 [] active /\ secondary_ok -> Succeeded(health)
                 [] OTHER -> Failed(health)
  /\ LET go_on == Accepted(primary_ok, secondary_ok, ModeOf(health'))
                    \/ step \in Tolerant
     IN  IF go_on /\ step # "monitor" THEN StayIn("act") ELSE GoOn
  /\ active' = FALSE
  /\ landed' = FALSE
  /\ UNCHANGED <<nodeVars, mode, observations, low, shutdown, in_flight,
                 restarts>>

\* A step other than the monitor has nothing more to send, or cannot.
FinishStep ==
  /\ phase = "act"
  /\ step # "monitor"
  /\ GoOn
  /\ UNCHANGED <<nodeVars, health, mode, active, observations, chainVars,
                 restarts>>

Keeper ==
  \/ BeginCycle
  \/ ReadSucceeds \/ ReadFails \/ Fallback
  \/ Submit
  \/ \E primary_ok, secondary_ok \in BOOLEAN :
       Confirm(primary_ok, secondary_ok)
  \/ FinishStep

-----------------------------------------------------------------------------
(***************************************************************************)
(* The environment.                                                        *)
(***************************************************************************)
NodeChanges ==
  /\ primary' \in PrimaryStates
  /\ secondary' \in SecondaryStates
  /\ UNCHANGED <<daemonVars, chainVars, restarts>>

AwaitsShutdown == phase = "confirm" /\ step = "monitor"

Land ==
  /\ in_flight
  /\ shutdown' = TRUE
  /\ in_flight' = FALSE
  /\ landed' = AwaitsShutdown
  /\ UNCHANGED <<nodeVars, daemonVars, low, restarts>>

Expire ==
  /\ in_flight
  /\ in_flight' = FALSE
  /\ UNCHANGED <<nodeVars, daemonVars, low, shutdown, landed, restarts>>

\* Keepers resume the protocol by hand.
Resume ==
  /\ shutdown
  /\ shutdown' = FALSE
  /\ UNCHANGED <<nodeVars, daemonVars, low, in_flight, landed, restarts>>

Market ==
  /\ low' = ~low
  /\ UNCHANGED <<nodeVars, daemonVars, shutdown, in_flight, landed, restarts>>

\* SECONDARY_RPC_RECOVERY_PROBE_INTERVAL_SECS have passed since the probe.
IntervalElapses ==
  /\ health.throttled
  /\ health' = [health EXCEPT !.throttled = FALSE]
  /\ UNCHANGED <<nodeVars, mode, placeVars, active, observations, chainVars,
                 restarts>>

\* The start of the daemon, which needs the primary node. It asks the
\* secondary node for its epoch and, if not degraded, for the program.
Started ==
  LET asked ==
        IF secondary = "down" THEN Failed(Healthy) ELSE Succeeded(Healthy)
      unverified == secondary \in {"unreadable", "down"} /\ ~asked.degraded
  IN  IF unverified THEN Failed(asked) ELSE asked

Restart ==
  /\ restarts < MaxRestarts
  /\ primary = "up"
  /\ restarts' = restarts + 1
  /\ health' = Started
  /\ mode' = "Normal"
  /\ Enter("none")
  /\ active' = FALSE
  /\ observations' = 0
  /\ landed' = FALSE
  /\ UNCHANGED <<nodeVars, low, shutdown, in_flight>>

Init ==
  /\ primary = "up"
  /\ secondary \in SecondaryStates
  /\ health = Started
  /\ mode = "Normal"
  /\ step = "none" /\ phase = "idle" /\ attempt = 1 /\ sends = 0
  /\ active = FALSE
  /\ observations = 0
  /\ low \in BOOLEAN
  /\ shutdown = FALSE /\ in_flight = FALSE /\ landed = FALSE
  /\ restarts = 0

Environment ==
  \/ NodeChanges \/ Land \/ Expire \/ Resume \/ Market \/ IntervalElapses
  \/ Restart

Next == Keeper \/ Environment

\* The loop runs on, time passes, and a transaction that is sent and awaited
\* again and again lands again and again.
Fairness ==
  /\ WF_vars(Keeper)
  /\ WF_vars(IntervalElapses)
  /\ SF_vars(Land /\ AwaitsShutdown)

Spec == Init /\ [][Next]_vars
FairSpec == Spec /\ Fairness
-----------------------------------------------------------------------------
(***************************************************************************)
(* Properties.                                                             *)
(***************************************************************************)

\* The types of the variables.
TypeOK ==
  /\ primary \in {"up", "down"}
  /\ secondary \in {"up", "lagging", "unreadable", "down"}
  /\ health \in [degraded : BOOLEAN, failures : 0..DegradeThreshold,
                 throttled : BOOLEAN]
  /\ mode \in {"Normal", "Degraded"}
  /\ step \in Step \cup {"none"}
  /\ phase \in {"idle", "read", "fallback", "act", "confirm"}
  /\ attempt \in 1..MaxAttempts
  /\ sends \in Nat
  /\ observations \in 0..Debounce
  /\ {active, low, shutdown, in_flight, landed} \subseteq BOOLEAN
  /\ restarts \in 0..MaxRestarts

\* One node's word is enough for a transaction only after the secondary node
\* has failed as often as the threshold says, whichever steps, reads and
\* sends the failures came from (utils.rs, PKV5-002 of blue-keeper-v6-tc.md).
SingleTrustIsEarned ==
  [][\A primary_ok, secondary_ok \in BOOLEAN :
       /\ Confirm(primary_ok, secondary_ok)
       /\ Accepted(primary_ok, secondary_ok, ModeOf(health'))
       => \/ primary_ok /\ secondary_ok
          \/ health'.failures >= DegradeThreshold]_vars

\* If the ratio stays low while the primary node answers, and the secondary
\* node is either in order or gone, the protocol is shut down, however the
\* nodes failed and the daemon restarted before (main.rs: the emergency
\* shutdown stays enabled in degraded mode).
EmergencyShutsDown ==
  \A s \in {"up", "down"} :
    <>[](low /\ primary = "up" /\ secondary = s) => []<>shutdown

\* Once both nodes stay in order, full cycles come back, although a node in
\* degraded mode is neither read nor sent to.
SecondaryComesBack ==
  <>[](primary = "up" /\ secondary = "up") => []<>(mode = "Normal")

\* docs/blue-keeper-v6-tc.md:36-39: a transaction that went to both nodes
\* and is confirmed by the primary node alone is rejected.
DualOrRejected ==
  [][\A primary_ok, secondary_ok \in BOOLEAN :
       Confirm(primary_ok, secondary_ok) /\ active /\ ~secondary_ok
       => ~Accepted(primary_ok, secondary_ok, ModeOf(health'))]_vars

\* main.rs:821, 828: degraded mode keeps the automatic shutdown enabled; here,
\* when the secondary node answers everything but the reads.
UnreadableShutsDown ==
  <>[](low /\ primary = "up" /\ secondary = "unreadable") => []<>shutdown
=============================================================================
