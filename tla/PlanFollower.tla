---------------------------- MODULE PlanFollower ----------------------------
(***************************************************************************)
(* How the planners drive along a plan of their solver                     *)
(* (evasive_maneuver/src/avoid_obs.cpp, in the same words                  *)
(* drift_cornering/src/drift_cornering.cpp): one command of the plan per   *)
(* turn of the 50 Hz loop, and a fallback command when the plan is used    *)
(* up.  Of a plan only its lengths and whether its commands move the       *)
(* vehicle are kept; the small corrections by the tracking error are not.  *)
(***************************************************************************)
EXTENDS Integers

CONSTANT Horizon        \* HORIZON: commands of a plan

NoPlan == [commands |-> 0, states |-> 0, kind |-> "zeros"]
Plan   == [commands : {0, Horizon}, states : {0, Horizon + 1}, kind : {"drive", "zeros"}]
Motion == {"drive", "zeros"}

VARIABLES
  plan_,          \* plan_: the numbers of its commands and states
  cmd_on_plan_,   \* cmd_on_plan_: the next command to send
  cmd_            \* cmd_.drive, as last published

followVars == <<plan_, cmd_on_plan_, cmd_>>

FollowTypeOK ==
  plan_ \in Plan /\ cmd_on_plan_ \in 0 .. plan_.commands /\ cmd_ \in Motion

FollowInit == plan_ = NoPlan /\ cmd_on_plan_ = 0 /\ cmd_ = "zeros"

Exhausted == cmd_on_plan_ >= plan_.commands
Remaining == plan_.commands - cmd_on_plan_    \* remainingcommands of a request

\* One command: the next of the plan, else the fallback.
KeepLastFollow(fallback) ==
  /\ IF Exhausted
       THEN UNCHANGED <<cmd_, cmd_on_plan_>>
       ELSE cmd_' = plan_.kind /\ cmd_on_plan_' = cmd_on_plan_ + 1
  /\ UNCHANGED plan_

Follow(fallback) ==
  /\ IF Exhausted
       THEN cmd_' = fallback /\ UNCHANGED cmd_on_plan_
       ELSE cmd_' = plan_.kind /\ cmd_on_plan_' = cmd_on_plan_ + 1
  /\ UNCHANGED plan_

\* A plan arrives and is followed from its first command on.
Adopt(msg) ==
  /\ plan_' = msg
  /\ cmd_on_plan_' = 0
  /\ UNCHANGED cmd_
=============================================================================
