-------------------------- MODULE MissionLifecycle --------------------------
(***************************************************************************)
(* What the mission manager promises to whoever follows mission/state: a   *)
(* mission is ready, runs its steps one after the other, may be paused,    *)
(* and ends completed or canceled.  No clock, no messages, no operators.   *)
(***************************************************************************)
EXTENDS Integers

CONSTANT NumSteps

VARIABLES
  phase,   \* what the mission is doing
  step     \* index of the current step, -1 before the first

lifecycle == <<phase, step>>

Phases == {"ready", "running", "paused", "completed", "canceled"}

LifecycleInit == phase = "ready" /\ step = -1

Start ==
  /\ phase \in {"ready", "completed", "canceled"}
  /\ phase' = "running"
  /\ step' = 0

Pause ==
  /\ phase = "running"
  /\ phase' = "paused"
  /\ UNCHANGED step

Resume ==
  /\ phase = "paused"
  /\ phase' = "running"
  /\ UNCHANGED step

\* A mission that has not started can be canceled as well.
Cancel ==
  /\ phase \in {"ready", "running", "paused"}
  /\ phase' = "canceled"
  /\ UNCHANGED step

Reset ==
  /\ phase' = "ready"
  /\ step' = -1

Advance ==
  /\ phase = "running"
  /\ step' = step + 1
  /\ phase' = IF step + 1 >= NumSteps THEN "completed" ELSE "running"

LifecycleNext == Start \/ Pause \/ Resume \/ Cancel \/ Reset \/ Advance

LifecycleSafety == LifecycleInit /\ [][LifecycleNext]_lifecycle

\* Left alone, a running mission works through its steps.
LifecycleSpec == LifecycleSafety /\ WF_lifecycle(Advance)
=============================================================================
