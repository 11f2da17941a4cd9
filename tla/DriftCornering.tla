--------------------------- MODULE DriftCornering ---------------------------
(***************************************************************************)
(* Drift cornering: the planner node (drift_cornering.cpp) and the solver  *)
(* node (drift_cornering_ilqr.cpp with its stationary and steady-state     *)
(* halves).                                                                *)
(*                                                                         *)
(* As in the evasive manoeuvre the two take turns with requests and plans. *)
(* Here the planner drives towards a steady drift, tells the solver over a *)
(* second topic when it finds itself in it, upon which the solver plans    *)
(* one command ahead instead of fifty, and ends when it has stayed there.  *)
(***************************************************************************)
EXTENDS PlanFollower, Sequences

CONSTANTS
  HorizonSteady,          \* HORIZON_STEADYSTATE; Horizon is HORIZON_STATIONARY
  MIN_EQUILIBRIUM_TIME,   \* seconds
  Clock,                  \* what the clock may say: seconds since 1970, or since
                          \* the beginning where ROS runs on simulated time
  TurnsToStay             \* loop turns in MIN_EQUILIBRIUM_TIME

ASSUME CorneringAssumption ==
  /\ Horizon \in Nat \ {0} /\ HorizonSteady \in 1 .. Horizon
  /\ TurnsToStay \in Nat
  /\ MIN_EQUILIBRIUM_TIME \in Nat /\ Clock \subseteq Nat

VARIABLES
  pc,                     \* the planner: "sleep" in the constructor, "approach"
                          \* and "serve" in the first inner loop, "steady" and
                          \* "serve_steady" in the second, "stop", "ended"
  state_,                 \* state_, as it compares with the equilibrium
  equilibrium_reached_,   \* the planner's equilibrium_reached_
  equilibrium_time_,      \* equilibrium_time_
  odom,                   \* states that wait to be served; the newest decides
  ilqr_input, ilqr_output, timer,   \* messages on their way
  solver,                 \* "starting", "idle", "solving" or "down"
  steady,                 \* the solver's equilibrium_reached_, which fixes N_
  warm,                   \* commands copied from the request being solved
  asked,                  \* history: the solver was there when first asked
  turns,                  \* history: commands sent since a plan arrived, at
                          \* most Horizon + 1
  stayed                  \* history: turns without leaving the equilibrium, at
                          \* most TurnsToStay

driveVars  == <<pc, state_, equilibrium_reached_, equilibrium_time_, odom, stayed>>
solverVars == <<solver, steady, warm>>
vars == <<followVars, driveVars, ilqr_input, ilqr_output, timer, solverVars, asked, turns>>

\* A state compared with the equilibrium: speed or slip angle out of
\* tolerance; only the yaw rate; nothing; or the yaw rate equal to the digit.
Reading == {"off", "yaw_off", "in", "exact"}
Request == 0 .. Horizon

CornerPlan ==
  { [commands |-> n, states |-> n + 1, kind |-> k] : n \in {Horizon, HorizonSteady}, k \in Motion}
Pc == {"sleep", "approach", "serve", "steady", "serve_steady", "stop", "ended"}

TypeOK ==
  /\ plan_ \in CornerPlan \cup {NoPlan}
  /\ cmd_on_plan_ \in 0 .. plan_.commands
  /\ cmd_ \in Motion \cup {"nearly", "equilibrium"}
  /\ pc \in Pc
  /\ state_ \in Reading \cup {"none"}
  /\ equilibrium_reached_ \in BOOLEAN /\ equilibrium_time_ \in Nat
  /\ odom \in Seq(Reading) /\ Len(odom) <= 1
  /\ ilqr_input \in Seq(Request) /\ ilqr_output \in Seq(CornerPlan)
  /\ timer \in Seq(BOOLEAN) /\ Len(timer) <= 1
  /\ solver \in {"starting", "idle", "solving", "down"}
  /\ steady \in BOOLEAN /\ warm \in Request
  /\ asked \in BOOLEAN /\ turns \in 0 .. Horizon + 1 /\ stayed \in 0 .. TurnsToStay

Init ==
  /\ FollowInit
  /\ pc = "sleep" /\ state_ = "none"
  /\ equilibrium_reached_ = FALSE /\ equilibrium_time_ = 0
  /\ odom = <<>> /\ stayed = 0
  /\ ilqr_input = <<>> /\ ilqr_output = <<>> /\ timer = <<>>
  /\ solver = "starting" /\ steady = FALSE /\ warm = 0
  /\ asked = FALSE /\ turns = 0

----------------------------------------------------------------------------
\* The topics to the solver have a queue of one, in which the newest message
\* replaces the one before it, and carry nothing to a solver that does not
\* subscribe.
Subscribed == solver \in {"idle", "solving"}
Behind(topic, m) == IF Subscribed THEN Append(topic, m) ELSE topic
Sent(topic, m)   == IF Subscribed THEN <<m>> ELSE topic

\* stateCb: its condition compares the truth value of the three tests with
\* the tolerance of the yaw rate, and so holds when one of them fails.
InTolerance(s) == s \in {"in", "exact"}
Reached(s)     == ~(s \in {"in", "yaw_off"})

StateCb ==
  IF odom = <<>>
    THEN UNCHANGED <<state_, equilibrium_reached_, odom>>
    ELSE /\ state_' = Head(odom)
         /\ equilibrium_reached_' = Reached(Head(odom))
         /\ odom' = <<>>

\* ilqrCb: the rest of the plan so far is the start of the next search.  A
\* planner that takes a plan without asking for the next comes first.
NeverAsks ==
  IF ilqr_output = <<>>
    THEN UNCHANGED <<followVars, turns, ilqr_input, ilqr_output>>
    ELSE /\ Adopt(Head(ilqr_output))
         /\ turns' = 0
         /\ ilqr_output' = <<>>
         /\ UNCHANGED ilqr_input

IlqrCb ==
  IF ilqr_output = <<>>
    THEN UNCHANGED <<followVars, turns, ilqr_input, ilqr_output>>
    ELSE /\ ilqr_input' = Sent(ilqr_input, Remaining)
         /\ Adopt(Head(ilqr_output))
         /\ turns' = 0
         /\ ilqr_output' = <<>>

\* The localisation publishes a state, whoever listens.
Odometry(s) ==
  /\ odom' = <<s>>
  /\ UNCHANGED <<followVars, pc, state_, equilibrium_reached_, equilibrium_time_, stayed,
                 ilqr_input, ilqr_output, timer, solverVars, asked, turns>>

\* The constructor has slept and finds a first state: the first request, and
\* the solver is told to plan from stationary.
StartCornering ==
  /\ pc = "sleep" /\ odom # <<>>
  /\ StateCb
  /\ ilqr_input' = Sent(ilqr_input, 0)
  /\ timer' = Sent(timer, FALSE)
  /\ asked' = Subscribed
  /\ pc' = "approach"
  /\ UNCHANGED <<followVars, equilibrium_time_, stayed, ilqr_output, solverVars, turns>>

\* One command; turns counts it.
Command(fallback) ==
  /\ Follow(fallback)
  /\ turns' = IF turns <= Horizon THEN turns + 1 ELSE turns
  /\ UNCHANGED <<state_, equilibrium_reached_, odom, stayed, ilqr_input, ilqr_output, timer,
                 solverVars, asked>>

\* ros::spinOnce and the turn's sleep.
Serve ==
  /\ StateCb
  /\ IlqrCb
  /\ stayed' = IF ~InTolerance(state_') THEN 0
               ELSE IF stayed < TurnsToStay THEN stayed + 1 ELSE stayed
  /\ UNCHANGED <<equilibrium_time_, timer, solverVars, asked>>

\* Not there yet: a command, or 80 % of the speed and a steering angle that
\* turns the vehicle into the drift.  A planner that asks again when its plan
\* is used up comes first.
ApproachAsking ==
  /\ pc = "approach" /\ ~equilibrium_reached_
  /\ Follow("nearly")
  /\ turns' = IF turns <= Horizon THEN turns + 1 ELSE turns
  /\ ilqr_input' = IF Exhausted THEN Sent(ilqr_input, 0) ELSE ilqr_input
  /\ pc' = "serve"
  /\ UNCHANGED <<state_, equilibrium_reached_, equilibrium_time_, odom, stayed, ilqr_output,
                 timer, solverVars, asked>>

Approach ==
  /\ pc = "approach" /\ ~equilibrium_reached_
  /\ Command("nearly")
  /\ pc' = "serve"
  /\ UNCHANGED equilibrium_time_

ServeApproach ==
  /\ pc = "serve"
  /\ Serve
  /\ pc' = "approach"

\* The loop ends: the solver is told.
ReachEquilibrium ==
  /\ pc = "approach" /\ equilibrium_reached_
  /\ timer' = Sent(timer, TRUE)
  /\ pc' = "steady"
  /\ UNCHANGED <<followVars, state_, equilibrium_reached_, equilibrium_time_, odom, stayed,
                 ilqr_input, ilqr_output, solverVars, asked, turns>>

\* There: the time since equilibrium_start_time_, which is never set, and a
\* command, or the equilibrium's own.
Stay ==
  /\ pc = "steady"
  /\ equilibrium_time_' \in Clock
  /\ Command("equilibrium")
  /\ pc' = "serve_steady"

ServeSteady ==
  /\ pc = "serve_steady"
  /\ Serve
  /\ pc' = CASE equilibrium_time_ >= MIN_EQUILIBRIUM_TIME -> "stop"
             [] OTHER -> IF equilibrium_reached_' THEN "steady" ELSE "approach"

\* Both loops have ended: the solver is told, the message logged, the node ends.
Quit ==
  /\ pc = "stop"
  /\ timer' = Sent(timer, FALSE)
  /\ pc' = "ended"
  /\ UNCHANGED <<followVars, state_, equilibrium_reached_, equilibrium_time_, odom, stayed,
                 ilqr_input, ilqr_output, solverVars, asked, turns>>

----------------------------------------------------------------------------
PlannerUnchanged == UNCHANGED <<followVars, driveVars, asked, turns>>

\* The solver node has its parameters and subscribes.
SolverStart ==
  /\ solver = "starting"
  /\ solver' = "idle"
  /\ PlannerUnchanged /\ UNCHANGED <<ilqr_input, ilqr_output, timer, steady, warm>>

\* timerCb
TimerCb ==
  /\ solver = "idle" /\ timer # <<>>
  /\ steady' = Head(timer)
  /\ timer' = Tail(timer)
  /\ PlannerUnchanged /\ UNCHANGED <<ilqr_input, ilqr_output, solver, warm>>

\* ilqrCb begins: the commands of the request are copied, all of them.
TakeRequest ==
  /\ solver = "idle" /\ ilqr_input # <<>>
  /\ warm' = Head(ilqr_input)
  /\ ilqr_input' = Tail(ilqr_input)
  /\ solver' = "solving"
  /\ PlannerUnchanged /\ UNCHANGED <<ilqr_output, timer, steady>>

\* ilqrCb ends: a plan of the horizon in force, all zeros if it failed early.
PlanAhead == IF steady THEN HorizonSteady ELSE Horizon

\* A solver that returns one state too few comes first.
SameStates(kind) ==
  /\ solver = "solving"
  /\ ilqr_output' = <<[commands |-> PlanAhead, states |-> PlanAhead, kind |-> kind]>>
  /\ solver' = "idle"
  /\ PlannerUnchanged /\ UNCHANGED <<ilqr_input, timer, steady, warm>>

PublishPlan(kind) ==
  /\ solver = "solving"
  /\ ilqr_output' = <<[commands |-> PlanAhead, states |-> PlanAhead + 1, kind |-> kind]>>
  /\ solver' = "idle"
  /\ PlannerUnchanged /\ UNCHANGED <<ilqr_input, timer, steady, warm>>

\* The solver node dies; the launch file does not respawn it.
SolverDies ==
  /\ solver # "down"
  /\ solver' = "down"
  /\ ilqr_input' = <<>> /\ timer' = <<>>
  /\ PlannerUnchanged /\ UNCHANGED <<ilqr_output, steady, warm>>

Next ==
  \/ \E s \in Reading : Odometry(s)
  \/ StartCornering \/ Approach \/ ServeApproach \/ ReachEquilibrium
  \/ Stay \/ ServeSteady \/ Quit
  \/ SolverStart \/ TimerCb \/ TakeRequest
  \/ \E kind \in Motion : PublishPlan(kind)
  \/ SolverDies

\* The planner's loops turn, the solver serves its topics, a search ends.
Fairness ==
  /\ WF_vars(Approach) /\ WF_vars(ServeApproach) /\ WF_vars(ReachEquilibrium)
  /\ WF_vars(Stay) /\ WF_vars(ServeSteady) /\ WF_vars(Quit)
  /\ WF_vars(TakeRequest)
  /\ WF_vars(\E kind \in Motion : PublishPlan(kind))

Spec     == Init /\ [][Next]_vars
FairSpec == Spec /\ Fairness

----------------------------------------------------------------------------
\* Where the one request is: on its way to the solver, being solved, on its
\* way back as a plan; lost once the planner has asked and none of these.
Token ==
  IF pc = "sleep" THEN "unsent"
  ELSE IF solver = "solving" THEN "search"
  ELSE IF ilqr_input # <<>> THEN "request"
  ELSE IF ilqr_output # <<>> THEN "plan"
  ELSE "lost"

Loop == INSTANCE RequestLoop WITH token <- Token

\* The exchange is a token that goes round: the planner asks by itself only
\* once, every plan is answered by one request and every request by one plan,
\* and after a loss nobody asks again.
ImplementsLoop == Loop!LoopSpec

\* At most one request is queued, being solved, or answered by a plan on its
\* way, whatever the second topic does to the solver in between.
OneRequest ==
  Len(ilqr_input) + Len(ilqr_output) + (IF solver = "solving" THEN 1 ELSE 0) <= 1

\* Every index the planner uses is in range whichever horizon its plan was
\* made for, and a request fits the array of the stationary solver.  (The one
\* of the steady-state solver it need not fit: see the README.)
InBounds ==
  /\ ~Exhausted => cmd_on_plan_ + 1 < plan_.states
  /\ \A i \in DOMAIN ilqr_input : ilqr_input[i] <= Horizon
  /\ ~steady => warm <= Horizon

\* A plan that is not renewed for as many turns as the longest plan has
\* commands no longer drives the vehicle: the fallback of the loop does.
StalePlanFallsBack == turns > Horizon => cmd_ \in {"nearly", "equilibrium"}

\* If the solver was there to be asked, plans keep coming until the planner
\* ends or the solver dies.
PlansKeepComing ==
  (asked /\ turns > 0) ~> (turns = 0 \/ solver = "down" \/ pc = "ended")

\* The message the planner ends with: "Stayed on equilibrium for at least %d
\* seconds. Quitting."
StayedOnEquilibrium == pc = "ended" => stayed = TurnsToStay
=============================================================================
