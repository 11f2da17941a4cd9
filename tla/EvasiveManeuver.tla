--------------------------- MODULE EvasiveManeuver ---------------------------
(***************************************************************************)
(* The evasive manoeuvre: the planner node (avoid_obs.cpp) and the solver  *)
(* node (avoid_obs_ilqr.cpp).                                              *)
(*                                                                         *)
(* The planner waits for a first position, sends the solver a request, and *)
(* from then on sends a command of its current plan in every turn of a     *)
(* loop, serving what has arrived in between; a plan that arrives is       *)
(* answered by the next request.  The solver serves one request at a time. *)
(* Requests and plans travel over topics with a queue of one, and nobody   *)
(* repeats anything.                                                       *)
(***************************************************************************)
EXTENDS PlanFollower, Sequences

CONSTANT Distance     \* distances to the goal that positions may mean

ASSUME ManeuverAssumption ==
  /\ Horizon \in Nat \ {0}
  /\ Distance \subseteq Int

VARIABLES
  pc,             \* the planner: "wait" in the constructor; "command" and
                  \* "serve" in the loop; "reached" once spin has returned
  dist_to_goal_,  \* dist_to_goal_
  odom,           \* positions that wait to be served; the newest decides
  ilqr_input,     \* requests on their way, each its remainingcommands' number
  ilqr_output,    \* plans on their way
  solver,         \* "starting", "idle", "solving" or "down"
  warm,           \* how many entries of u0_ the request being solved wrote
  asked,          \* history: the solver was there when the first request came
  turns           \* history: commands sent since a plan arrived, at most
                  \* Horizon + 1

exchangeVars == <<ilqr_input, ilqr_output, solver, warm, asked>>
vars == <<followVars, pc, dist_to_goal_, odom, exchangeVars, turns>>

Request == 0 .. Horizon

TypeOK ==
  /\ FollowTypeOK
  /\ pc \in {"wait", "command", "serve", "reached"}
  /\ dist_to_goal_ \in Int
  /\ odom \in Seq(Distance) /\ Len(odom) <= 1
  /\ ilqr_input \in Seq(Request) /\ ilqr_output \in Seq(Plan)
  /\ solver \in {"starting", "idle", "solving", "down"}
  /\ warm \in Request
  /\ asked \in BOOLEAN /\ turns \in 0 .. Horizon + 1

Init ==
  /\ FollowInit
  /\ pc = "wait" /\ dist_to_goal_ = 5
  /\ odom = <<>>
  /\ ilqr_input = <<>> /\ ilqr_output = <<>>
  /\ solver = "starting" /\ warm = 0
  /\ asked = FALSE /\ turns = 0

----------------------------------------------------------------------------
\* A request on the topic: it replaces one not yet taken, and is lost when
\* the solver does not subscribe.
Subscribed == solver \in {"idle", "solving"}
Requested(n) == IF Subscribed THEN <<n>> ELSE ilqr_input

\* The localisation publishes a position, whoever listens.
Odometry(d) ==
  /\ odom' = <<d>>
  /\ UNCHANGED <<followVars, pc, dist_to_goal_, exchangeVars, turns>>

\* The constructor has slept and finds a first position: the first request.
StartManeuver ==
  /\ pc = "wait" /\ odom # <<>>
  /\ dist_to_goal_' = Head(odom) /\ odom' = <<>>
  /\ ilqr_input' = Requested(0)
  /\ asked' = Subscribed
  /\ pc' = "command"
  /\ UNCHANGED <<followVars, ilqr_output, solver, warm, turns>>

\* One turn of the loop: a command, then ros::spinOnce.  A planner that asks
\* again when its plan is used up comes first.
AskAgain ==
  /\ pc = "command" /\ dist_to_goal_ > 0
  /\ Follow("zeros")
  /\ turns' = IF turns <= Horizon THEN turns + 1 ELSE turns
  /\ ilqr_input' = IF Exhausted THEN Requested(0) ELSE ilqr_input
  /\ pc' = "serve"
  /\ UNCHANGED <<dist_to_goal_, odom, ilqr_output, solver, warm, asked>>

SendCommand ==
  /\ pc = "command" /\ dist_to_goal_ > 0
  /\ Follow("zeros")
  /\ turns' = IF turns <= Horizon THEN turns + 1 ELSE turns
  /\ pc' = "serve"
  /\ UNCHANGED <<dist_to_goal_, odom, exchangeVars>>

\* spinOnce: stateCb for the positions, ilqrCb for a plan, which sends the
\* rest of the plan followed so far as the start of the next search.
NeverAsks ==
  /\ pc = "serve"
  /\ dist_to_goal_' = IF odom = <<>> THEN dist_to_goal_ ELSE Head(odom)
  /\ odom' = <<>>
  /\ IF ilqr_output = <<>>
       THEN UNCHANGED <<followVars, turns>>
       ELSE Adopt(Head(ilqr_output)) /\ turns' = 0
  /\ ilqr_output' = <<>>
  /\ pc' = "command"
  /\ UNCHANGED <<ilqr_input, solver, warm, asked>>

SpinOnce ==
  /\ pc = "serve"
  /\ dist_to_goal_' = IF odom = <<>> THEN dist_to_goal_ ELSE Head(odom)
  /\ odom' = <<>>
  /\ IF ilqr_output = <<>>
       THEN UNCHANGED <<followVars, turns, ilqr_input>>
       ELSE /\ ilqr_input' = Requested(Remaining)
            /\ Adopt(Head(ilqr_output))
            /\ turns' = 0
  /\ ilqr_output' = <<>>
  /\ pc' = "command"
  /\ UNCHANGED <<solver, warm, asked>>

\* The goal is behind: the loop ends, and with it the node.
ReachGoal ==
  /\ pc = "command" /\ dist_to_goal_ <= 0
  /\ pc' = "reached"
  /\ UNCHANGED <<followVars, dist_to_goal_, odom, exchangeVars, turns>>

----------------------------------------------------------------------------
\* The solver node comes up and subscribes.
SolverStart ==
  /\ solver = "starting"
  /\ solver' = "idle"
  /\ UNCHANGED <<followVars, pc, dist_to_goal_, odom, ilqr_input, ilqr_output, warm,
                 asked, turns>>

\* ilqrCb begins: the commands of the request are copied into u0_.
TakeRequest ==
  /\ solver = "idle" /\ ilqr_input # <<>>
  /\ warm' = Head(ilqr_input)
  /\ ilqr_input' = Tail(ilqr_input)
  /\ solver' = "solving"
  /\ UNCHANGED <<followVars, pc, dist_to_goal_, odom, ilqr_output, asked, turns>>

\* ilqrCb ends.  The lists were resized before the search; where init_opt or
\* the first forward pass failed they are still all zeros.
ShortStates(kind) ==
  /\ solver = "solving"
  /\ ilqr_output' = <<[commands |-> Horizon, states |-> Horizon, kind |-> kind]>>
  /\ solver' = "idle"
  /\ UNCHANGED <<followVars, pc, dist_to_goal_, odom, ilqr_input, warm, asked, turns>>

PublishPlan(kind) ==
  /\ solver = "solving"
  /\ ilqr_output' = <<[commands |-> Horizon, states |-> Horizon + 1, kind |-> kind]>>
  /\ solver' = "idle"
  /\ UNCHANGED <<followVars, pc, dist_to_goal_, odom, ilqr_input, warm, asked, turns>>

\* The solver node dies; the launch file does not respawn it.
SolverDies ==
  /\ solver # "down"
  /\ solver' = "down"
  /\ ilqr_input' = <<>>
  /\ UNCHANGED <<followVars, pc, dist_to_goal_, odom, ilqr_output, warm, asked, turns>>

Next ==
  \/ \E d \in Distance : Odometry(d)
  \/ StartManeuver \/ SendCommand \/ SpinOnce \/ ReachGoal
  \/ SolverStart \/ TakeRequest
  \/ \E kind \in Motion : PublishPlan(kind)
  \/ SolverDies

\* The planner's loop turns and the solver, which always ends (SolverLoop),
\* serves its topic.
Fairness ==
  /\ WF_vars(SendCommand) /\ WF_vars(SpinOnce) /\ WF_vars(ReachGoal)
  /\ WF_vars(TakeRequest)
  /\ WF_vars(\E kind \in Motion : PublishPlan(kind))

Spec     == Init /\ [][Next]_vars
FairSpec == Spec /\ Fairness

----------------------------------------------------------------------------
\* One request circulates: at most one is queued, being solved, or answered
\* by a plan on its way.  So no queue of one ever drops anything, and no plan
\* arrives for a request that a later one has superseded.
OneRequest ==
  Len(ilqr_input) + Len(ilqr_output) + (IF solver = "solving" THEN 1 ELSE 0) <= 1

\* Every index the two nodes use is in range: the command loop advances
\* cmd_on_plan_ before it looks up the state to track, and the solver copies
\* the request into an array of Horizon commands.
InBounds ==
  /\ ~Exhausted => cmd_on_plan_ + 1 < plan_.states
  /\ \A i \in DOMAIN ilqr_input : ilqr_input[i] <= Horizon
  /\ warm <= Horizon

\* A vehicle whose plan is not renewed for as many turns as the plan has
\* commands is told to stand still: a slow solver cannot leave it driving.
StalePlanHalts == turns > Horizon => cmd_ = "zeros"

\* If the solver was there to get the first request, plans keep coming until
\* the goal is reached or the solver dies.
PlansKeepComing ==
  (asked /\ turns > 0) ~> (turns = 0 \/ solver = "down" \/ pc = "reached")

\* When the solver dies, the vehicle stands still from some time on, unless
\* it reaches the goal.
DeadSolverHalts ==
  (solver = "down" /\ pc # "wait") ~> [](cmd_ = "zeros" \/ pc = "reached")
=============================================================================
