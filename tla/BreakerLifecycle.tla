-------------------------- MODULE BreakerLifecycle --------------------------
(***************************************************************************)
(* What a circuit breaker promises, as the state diagram of docs/spec.md   *)
(* 3.6.5 draws it: NORMAL -> ACTIVE -> COOLDOWN -> NORMAL, where a breaker *)
(* in force holds for its minimal time, three times as long when extended, *)
(* and one that cools down is not triggered again before the cooldown is   *)
(* over. Any number of breakers may move in one step.                      *)
(***************************************************************************)
EXTENDS Integers

CONSTANTS Breaker, Hold, Cooldown

VARIABLES
  now,    \* the clock
  phase,  \* the phase of each breaker
  since   \* when it was last triggered, or released when it is not in force

lifecycleVars == <<now, phase, since>>

Phase == {"Normal", "InForce", "Extended", "Cooldown"}

Engaged(p) == p \in {"InForce", "Extended"}

HoldOf(b) == IF phase[b] = "Extended" THEN 3 * Hold[b] ELSE Hold[b]

Cooled(b) == now >= since[b] + Cooldown

Trigger(b) ==
  /\ \/ phase[b] = "Normal"
     \/ phase[b] = "Cooldown" /\ Cooled(b)
  /\ Engaged(phase'[b])
  /\ since'[b] = now

Release(b) ==
  /\ Engaged(phase[b])
  /\ now >= since[b] + HoldOf(b)
  /\ phase'[b] = "Cooldown"
  /\ since'[b] = now

Cool(b) ==
  /\ phase[b] = "Cooldown"
  /\ Cooled(b)
  /\ phase'[b] = "Normal"
  /\ since'[b] = since[b]

Rest(b) == phase'[b] = phase[b] /\ since'[b] = since[b]

LifecycleInit ==
  /\ now \in Nat
  /\ phase = [b \in Breaker |-> "Normal"]
  /\ since = [b \in Breaker |-> 0]

Move ==
  /\ now' = now
  /\ \A b \in Breaker : Trigger(b) \/ Release(b) \/ Cool(b) \/ Rest(b)

Pass == now' = now + 1 /\ UNCHANGED <<phase, since>>

LifecycleNext == Move \/ Pass

LifecycleSpec == LifecycleInit /\ [][LifecycleNext]_lifecycleVars
=============================================================================
