------------------------ MODULE DriftCornering_proofs ------------------------
(***************************************************************************)
(* Drift cornering (drift_cornering.cpp, drift_cornering_ilqr.cpp) for     *)
(* every pair of horizons and every clock: one request circulates, and the *)
(* exchange implements RequestLoop; every index is in range; a plan that   *)
(* is not renewed leaves the vehicle to the fallback.                      *)
(***************************************************************************)
EXTENDS DriftCornering, TLAPS

USE CorneringAssumption

----------------------------------------------------------------------------
(* The inductive invariant.  *)

\* Commands and turns are counted alike until the plan is used up.
Counted == Exhausted \/ cmd_on_plan_ = turns

\* While the planner sleeps, nothing has been asked.
Unasked == pc = "sleep" => ilqr_input = <<>> /\ ilqr_output = <<>> /\ solver # "solving"

IInv == TypeOK /\ Counted /\ Unasked /\ OneRequest /\ StalePlanFallsBack

----------------------------------------------------------------------------
(* Facts about the operators.  *)

LEMMA HorizonTypes ==
  /\ Horizon \in Nat /\ Horizon > 0
  /\ HorizonSteady \in Nat /\ HorizonSteady > 0 /\ HorizonSteady <= Horizon
  BY DEF CorneringAssumption

\* A plan has one state more than it has commands.
LEMMA PlanShape ==
  ASSUME NEW p \in CornerPlan
  PROVE  /\ p.commands \in Nat /\ p.commands > 0 /\ p.commands <= Horizon
         /\ p.states = p.commands + 1
         /\ p.kind \in Motion
<1>1. PICK n \in {Horizon, HorizonSteady}, k \in Motion :
        p = [commands |-> n, states |-> n + 1, kind |-> k]
  BY DEF CornerPlan
<1>2. p.commands = n /\ p.states = n + 1 /\ p.kind = k
  BY <1>1
<1> QED
  BY <1>2, HorizonTypes

LEMMA CurrentPlanShape ==
  ASSUME plan_ \in CornerPlan \cup {NoPlan}
  PROVE  /\ plan_.commands \in Nat /\ plan_.commands <= Horizon
         /\ plan_.commands > 0 => plan_.states = plan_.commands + 1
         /\ plan_.kind \in Motion
<1>1. CASE plan_ \in CornerPlan
  BY <1>1, PlanShape
<1>2. CASE plan_ = NoPlan
  <2>1. plan_.commands = 0 /\ plan_.kind = "zeros"
    BY <1>2 DEF NoPlan
  <2> QED
    BY <2>1, HorizonTypes DEF Motion
<1> QED
  BY <1>1, <1>2

\* A request leaves at most itself on an empty topic.
LEMMA SentOne ==
  ASSUME NEW S, NEW topic \in Seq(S), Len(topic) = 0, NEW m \in S
  PROVE  Sent(topic, m) \in Seq(S) /\ Len(Sent(topic, m)) <= 1
<1>1. <<m>> \in Seq(S) /\ Len(<<m>>) = 1
  OBVIOUS
<1>2. CASE Subscribed
  BY <1>1, <1>2 DEF Sent
<1>3. CASE ~Subscribed
  BY <1>3 DEF Sent
<1> QED
  BY <1>2, <1>3

\* A message for the timer is the only one on its topic.
LEMMA SentTimer ==
  ASSUME timer \in Seq(BOOLEAN), Len(timer) <= 1, NEW m \in BOOLEAN
  PROVE  Sent(timer, m) \in Seq(BOOLEAN) /\ Len(Sent(timer, m)) <= 1
<1>1. <<m>> \in Seq(BOOLEAN) /\ Len(<<m>>) <= 1
  OBVIOUS
<1>2. Sent(timer, m) = <<m>> \/ Sent(timer, m) = timer
  BY DEF Sent
<1>3. CASE Sent(timer, m) = <<m>>
  BY <1>1, <1>3, Zenon
<1>4. CASE Sent(timer, m) = timer
  BY <1>4, Zenon
<1> QED
  BY <1>2, <1>3, <1>4, Zenon

\* What a command does to the invariant.
LEMMA CommandKeeps ==
  ASSUME IInv, NEW fallback \in {"nearly", "equilibrium"}, Command(fallback)
  PROVE  /\ plan_' \in CornerPlan \cup {NoPlan}
         /\ cmd_on_plan_' \in 0 .. plan_.commands /\ plan_' = plan_
         /\ cmd_' \in Motion \cup {"nearly", "equilibrium"}
         /\ turns' \in 0 .. Horizon + 1
         /\ Counted' /\ StalePlanFallsBack'
<1>1. /\ plan_ \in CornerPlan \cup {NoPlan} /\ cmd_on_plan_ \in 0 .. plan_.commands
      /\ turns \in 0 .. Horizon + 1 /\ plan_' = plan_
  BY DEF IInv, TypeOK, Command, Follow
<1>2. plan_.commands \in Nat /\ plan_.commands <= Horizon /\ plan_.kind \in Motion
  BY <1>1, CurrentPlanShape
<1>3. turns' = IF turns <= Horizon THEN turns + 1 ELSE turns
  BY DEF Command
<1>4. turns' \in 0 .. Horizon + 1
  BY <1>1, <1>3, HorizonTypes
<1>5. CASE Exhausted
  <2>1. cmd_' = fallback /\ cmd_on_plan_' = cmd_on_plan_
    BY <1>5 DEF Command, Follow
  <2> QED
    BY <1>1, <1>2, <1>4, <1>5, <2>1 DEF Counted, Exhausted, StalePlanFallsBack
<1>6. CASE ~Exhausted
  <2>1. cmd_' = plan_.kind /\ cmd_on_plan_' = cmd_on_plan_ + 1
    BY <1>6 DEF Command, Follow
  <2>2. cmd_on_plan_ < plan_.commands /\ cmd_on_plan_ = turns
    BY <1>1, <1>2, <1>6 DEF Exhausted, Counted, IInv
  <2>3. turns' = turns + 1 /\ turns' <= Horizon /\ cmd_on_plan_' \in 0 .. plan_.commands
    BY <1>1, <1>2, <1>3, <2>1, <2>2, HorizonTypes
  <2> QED
    BY <1>1, <1>2, <1>4, <2>1, <2>2, <2>3, HorizonTypes DEF Counted, StalePlanFallsBack
<1> QED
  BY <1>5, <1>6

\* What serving the callbacks does to the invariant.
LEMMA ServeKeeps ==
  ASSUME IInv, Serve
  PROVE  /\ plan_' \in CornerPlan \cup {NoPlan}
         /\ cmd_on_plan_' \in 0 .. plan_'.commands
         /\ cmd_' = cmd_ /\ turns' \in 0 .. Horizon + 1
         /\ state_' \in Reading \cup {"none"} /\ equilibrium_reached_' \in BOOLEAN
         /\ odom' \in Seq(Reading) /\ Len(odom') <= 1
         /\ ilqr_input' \in Seq(Request) /\ ilqr_output' = <<>>
         /\ stayed' \in 0 .. TurnsToStay
         /\ Counted' /\ StalePlanFallsBack' /\ OneRequest'
<1>1. /\ state_' \in Reading \cup {"none"} /\ equilibrium_reached_' \in BOOLEAN
      /\ odom' \in Seq(Reading) /\ Len(odom') <= 1
  <2>1. odom \in Seq(Reading) /\ Len(odom) <= 1
        /\ state_ \in Reading \cup {"none"} /\ equilibrium_reached_ \in BOOLEAN
    BY DEF IInv, TypeOK
  <2>2. CASE odom = <<>>
    BY <2>1, <2>2 DEF Serve, StateCb
  <2>3. CASE odom # <<>>
    <3>1. Head(odom) \in Reading
      BY <2>1, <2>3
    <3>2. state_' = Head(odom) /\ equilibrium_reached_' = Reached(Head(odom)) /\ odom' = <<>>
      BY <2>3 DEF Serve, StateCb
    <3> QED
      BY <3>1, <3>2 DEF Reached
  <2> QED
    BY <2>2, <2>3
<1>2. stayed' \in 0 .. TurnsToStay
  BY DEF IInv, TypeOK, Serve
<1>3. UNCHANGED <<solver, cmd_>>
  BY DEF Serve, solverVars, IlqrCb, Adopt, followVars
<1>4. CASE ilqr_output = <<>>
  <2>1. UNCHANGED <<plan_, cmd_on_plan_, cmd_, turns, ilqr_input, ilqr_output>>
    BY <1>4 DEF Serve, IlqrCb, followVars
  <2> QED
    BY <1>1, <1>2, <1>3, <1>4, <2>1
    DEF IInv, TypeOK, Counted, Exhausted, StalePlanFallsBack, OneRequest
<1>5. CASE ilqr_output # <<>>
  <2>1. /\ ilqr_input' = Sent(ilqr_input, Remaining)
        /\ plan_' = Head(ilqr_output) /\ cmd_on_plan_' = 0 /\ turns' = 0
        /\ ilqr_output' = <<>>
    BY <1>5 DEF Serve, IlqrCb, Adopt
  <2>2. /\ ilqr_output \in Seq(CornerPlan) /\ Len(ilqr_output) >= 1
        /\ ilqr_input \in Seq(Request)
    BY <1>5 DEF IInv, TypeOK
  <2>3. Len(ilqr_input) = 0 /\ solver # "solving"
    BY <2>2 DEF IInv, OneRequest
  <2>4. Remaining \in Request
    <3>1. /\ plan_ \in CornerPlan \cup {NoPlan} /\ cmd_on_plan_ \in 0 .. plan_.commands
      BY DEF IInv, TypeOK
    <3>2. plan_.commands \in Nat /\ plan_.commands <= Horizon
      BY <3>1, CurrentPlanShape
    <3> QED
      BY <3>1, <3>2, HorizonTypes DEF Remaining, Request
  <2>5. ilqr_input' \in Seq(Request) /\ Len(ilqr_input') <= 1
    BY <2>1, <2>2, <2>3, <2>4, SentOne
  <2>6. plan_' \in CornerPlan /\ plan_'.commands \in Nat
    <3>1. Head(ilqr_output) \in CornerPlan
      BY <2>2
    <3> QED
      BY <2>1, <3>1, PlanShape
  <2>7. Counted' /\ StalePlanFallsBack'
    BY <2>1, HorizonTypes DEF Counted, StalePlanFallsBack
  <2>8. OneRequest'
    BY <1>3, <2>1, <2>3, <2>5 DEF OneRequest
  <2> QED
    BY <1>1, <1>2, <1>3, <2>1, <2>5, <2>6, <2>7, <2>8, HorizonTypes
<1> QED
  BY <1>4, <1>5

----------------------------------------------------------------------------
(* The invariant is inductive.  *)

LEMMA InitIInv == Init => IInv
<1> SUFFICES ASSUME Init PROVE IInv
  OBVIOUS
<1> USE DEF Init, FollowInit, NoPlan
<1>1. /\ odom \in Seq(Reading) /\ Len(odom) <= 1
      /\ ilqr_input \in Seq(Request) /\ ilqr_output \in Seq(CornerPlan)
      /\ timer \in Seq(BOOLEAN) /\ Len(timer) <= 1
  OBVIOUS
<1>2. 0 \in 0 .. Horizon /\ 0 \in 0 .. Horizon + 1 /\ 0 \in 0 .. TurnsToStay
  BY HorizonTypes
<1>3. /\ plan_ \in CornerPlan \cup {NoPlan} /\ cmd_on_plan_ \in 0 .. plan_.commands
      /\ cmd_ \in Motion
  BY DEF Motion
<1>4. pc \in Pc /\ warm \in Request
  BY <1>2 DEF Pc, Request
<1>5. TypeOK
  BY <1>1, <1>2, <1>3, <1>4 DEF TypeOK
<1> QED
  BY <1>5, HorizonTypes DEF IInv, Counted, Exhausted, Unasked, OneRequest, StalePlanFallsBack

LEMMA NextIInv == IInv /\ [Next]_vars => IInv'
<1> SUFFICES ASSUME IInv, [Next]_vars PROVE IInv'
  OBVIOUS
<1> USE DEF followVars, driveVars, solverVars, PlannerUnchanged
<1>1. ASSUME NEW s \in Reading, Odometry(s) PROVE IInv'
  <2>1. odom' \in Seq(Reading) /\ Len(odom') <= 1
    BY <1>1 DEF Odometry
  <2> QED
    BY <1>1, <2>1 DEF IInv, Odometry, TypeOK, Counted, Exhausted, Unasked, OneRequest,
        StalePlanFallsBack
<1>2. CASE StartCornering
  <2> USE DEF StartCornering
  <2>1. ilqr_input' \in Seq(Request) /\ Len(ilqr_input') <= 1
    <3>1. 0 \in Request
      BY HorizonTypes DEF Request
    <3>2. ilqr_input \in Seq(Request) /\ Len(ilqr_input) = 0
      BY <1>2 DEF IInv, TypeOK, Unasked
    <3>3. ilqr_input' = Sent(ilqr_input, 0)
      BY <1>2
    <3> QED
      BY <3>1, <3>2, <3>3, SentOne
  <2>2. timer' \in Seq(BOOLEAN) /\ Len(timer') <= 1
    <3>1. timer' = Sent(timer, FALSE) /\ FALSE \in BOOLEAN
      BY <1>2
    <3> QED
      BY <3>1, SentTimer DEF IInv, TypeOK
  <2>3. /\ state_' \in Reading \cup {"none"} /\ equilibrium_reached_' \in BOOLEAN
        /\ odom' \in Seq(Reading) /\ Len(odom') <= 1
    <3>1. odom \in Seq(Reading) /\ odom # <<>>
      BY <1>2 DEF IInv, TypeOK
    <3>2. Head(odom) \in Reading
      BY <3>1
    <3>3. state_' = Head(odom) /\ equilibrium_reached_' = Reached(Head(odom)) /\ odom' = <<>>
      BY <1>2 DEF StateCb
    <3> QED
      BY <3>2, <3>3 DEF Reached
  <2>4. asked' \in BOOLEAN /\ pc' = "approach"
    BY <1>2 DEF Subscribed
  <2>5. TypeOK'
    BY <1>2, <2>1, <2>2, <2>3, <2>4 DEF IInv, TypeOK, Pc
  <2>6. OneRequest'
    BY <1>2, <2>1 DEF IInv, OneRequest, Unasked, TypeOK
  <2> QED
    BY <1>2, <2>4, <2>5, <2>6 DEF IInv, Counted, Exhausted, Unasked, StalePlanFallsBack
<1>3. CASE Approach
  <2>1. Command("nearly") /\ pc' = "serve"
    BY <1>3 DEF Approach
  <2>2. /\ plan_' \in CornerPlan \cup {NoPlan}
        /\ cmd_on_plan_' \in 0 .. plan_.commands /\ plan_' = plan_
        /\ cmd_' \in Motion \cup {"nearly", "equilibrium"}
        /\ turns' \in 0 .. Horizon + 1
        /\ Counted' /\ StalePlanFallsBack'
    BY <2>1, CommandKeeps
  <2> QED
    BY <1>3, <2>1, <2>2 DEF IInv, Approach, Command, TypeOK, Pc, Unasked, OneRequest
<1>4. CASE ServeApproach
  <2>1. Serve /\ pc' = "approach"
    BY <1>4 DEF ServeApproach
  <2>2. UNCHANGED <<equilibrium_time_, timer, solver, steady, warm, asked>>
    BY <2>1 DEF Serve
  <2>3. TypeOK'
    <3>1. /\ equilibrium_time_ \in Nat /\ timer \in Seq(BOOLEAN) /\ Len(timer) <= 1
          /\ solver \in {"starting", "idle", "solving", "down"}
          /\ steady \in BOOLEAN /\ warm \in Request /\ asked \in BOOLEAN
          /\ cmd_ \in Motion \cup {"nearly", "equilibrium"}
      BY DEF IInv, TypeOK
    <3>2. ilqr_output' \in Seq(CornerPlan)
      BY <2>1, ServeKeeps
    <3>3. pc' \in Pc
      BY <2>1 DEF Pc
    <3> QED
      BY <2>1, <2>2, <3>1, <3>2, <3>3, ServeKeeps DEF TypeOK
  <2> QED
    BY <2>1, <2>3, ServeKeeps DEF IInv, Unasked
<1>5. CASE ReachEquilibrium
  <2>1. timer' \in Seq(BOOLEAN) /\ Len(timer') <= 1
    <3>1. timer' = Sent(timer, TRUE) /\ TRUE \in BOOLEAN
      BY <1>5 DEF ReachEquilibrium
    <3> QED
      BY <3>1, SentTimer DEF IInv, TypeOK
  <2> QED
    BY <1>5, <2>1, ZenonT(60) DEF IInv, ReachEquilibrium, TypeOK, Pc, Counted, Exhausted, Unasked,
        OneRequest, StalePlanFallsBack
<1>6. CASE Stay
  <2>1. Command("equilibrium") /\ pc' = "serve_steady" /\ equilibrium_time_' \in Nat
    BY <1>6 DEF Stay, CorneringAssumption
  <2>2. /\ plan_' \in CornerPlan \cup {NoPlan}
        /\ cmd_on_plan_' \in 0 .. plan_.commands /\ plan_' = plan_
        /\ cmd_' \in Motion \cup {"nearly", "equilibrium"}
        /\ turns' \in 0 .. Horizon + 1
        /\ Counted' /\ StalePlanFallsBack'
    BY <2>1, CommandKeeps
  <2> QED
    BY <1>6, <2>1, <2>2 DEF IInv, Command, TypeOK, Pc, Unasked, OneRequest
<1>7. CASE ServeSteady
  <2>1. Serve /\ pc' \in {"stop", "steady", "approach"}
    BY <1>7 DEF ServeSteady
  <2>2. UNCHANGED <<equilibrium_time_, timer, solver, steady, warm, asked>>
    BY <2>1 DEF Serve
  <2>3. TypeOK'
    <3>1. /\ equilibrium_time_ \in Nat /\ timer \in Seq(BOOLEAN) /\ Len(timer) <= 1
          /\ solver \in {"starting", "idle", "solving", "down"}
          /\ steady \in BOOLEAN /\ warm \in Request /\ asked \in BOOLEAN
          /\ cmd_ \in Motion \cup {"nearly", "equilibrium"}
      BY DEF IInv, TypeOK
    <3>2. ilqr_output' \in Seq(CornerPlan)
      BY <2>1, ServeKeeps
    <3>3. pc' \in Pc
      BY <2>1 DEF Pc
    <3> QED
      BY <2>1, <2>2, <3>1, <3>2, <3>3, ServeKeeps DEF TypeOK
  <2> QED
    BY <2>1, <2>3, ServeKeeps DEF IInv, Unasked
<1>8. CASE Quit
  <2>1. timer' \in Seq(BOOLEAN) /\ Len(timer') <= 1
    <3>1. timer' = Sent(timer, FALSE) /\ FALSE \in BOOLEAN
      BY <1>8 DEF Quit
    <3> QED
      BY <3>1, SentTimer DEF IInv, TypeOK
  <2> QED
    BY <1>8, <2>1, ZenonT(30) DEF IInv, Quit, TypeOK, Pc, Counted, Exhausted, Unasked, OneRequest,
        StalePlanFallsBack
<1>9. CASE SolverStart
  BY <1>9 DEF IInv, SolverStart, TypeOK, Counted, Exhausted, Unasked, OneRequest, StalePlanFallsBack
<1>10. CASE TimerCb
  <2>1. timer \in Seq(BOOLEAN) /\ timer # <<>> /\ Len(timer) <= 1
    BY <1>10 DEF IInv, TypeOK, TimerCb
  <2>2. Head(timer) \in BOOLEAN /\ Tail(timer) \in Seq(BOOLEAN) /\ Len(Tail(timer)) <= 1
    BY <2>1
  <2> QED
    BY <1>10, <2>2 DEF IInv, TimerCb, TypeOK, Counted, Exhausted, Unasked, OneRequest,
        StalePlanFallsBack
<1>11. CASE TakeRequest
  <2>1. ilqr_input \in Seq(Request) /\ ilqr_input # <<>>
    BY <1>11 DEF IInv, TakeRequest, TypeOK
  <2>2. warm' \in Request /\ ilqr_input' \in Seq(Request) /\ Len(ilqr_input') = Len(ilqr_input) - 1
    BY <1>11, <2>1 DEF TakeRequest
  <2> QED
    BY <1>11, <2>1, <2>2 DEF IInv, TakeRequest, TypeOK, Counted, Exhausted, Unasked, OneRequest,
        StalePlanFallsBack
<1>12. ASSUME NEW kind \in Motion, PublishPlan(kind) PROVE IInv'
  <2> DEFINE plan == [commands |-> PlanAhead, states |-> PlanAhead + 1, kind |-> kind]
  <2>1. plan \in CornerPlan
    BY DEF CornerPlan, PlanAhead
  <2>2. ilqr_output' = <<plan>> /\ solver = "solving" /\ solver' = "idle"
    BY <1>12 DEF PublishPlan
  <2>3. ilqr_output' \in Seq(CornerPlan) /\ Len(ilqr_output') = 1
    <3> HIDE DEF plan
    <3> QED
      BY <2>1, <2>2
  <2>4. pc # "sleep" /\ Len(ilqr_input) = 0
    BY <2>2 DEF IInv, Unasked, OneRequest, TypeOK
  <2>5. TypeOK'
    BY <1>12, <2>2, <2>3 DEF IInv, PublishPlan, TypeOK
  <2>6. Counted' /\ Unasked' /\ StalePlanFallsBack'
    BY <1>12, <2>4 DEF IInv, PublishPlan, Counted, Exhausted, Unasked, StalePlanFallsBack
  <2>7. OneRequest'
    BY <1>12, <2>2, <2>3, <2>4 DEF PublishPlan, OneRequest
  <2> QED
    BY <2>5, <2>6, <2>7 DEF IInv
<1>13. CASE SolverDies
  <2>1. ilqr_input' \in Seq(Request) /\ timer' \in Seq(BOOLEAN) /\ Len(timer') <= 1
    BY <1>13 DEF SolverDies
  <2> QED
    BY <1>13, <2>1 DEF IInv, SolverDies, TypeOK, Counted, Exhausted, Unasked, OneRequest,
        StalePlanFallsBack
<1>14. CASE UNCHANGED vars
  BY <1>14 DEF IInv, vars, TypeOK, Counted, Exhausted, Unasked, OneRequest, StalePlanFallsBack
<1> QED
  BY <1>1, <1>2, <1>3, <1>4, <1>5, <1>6, <1>7, <1>8, <1>9, <1>10, <1>11, <1>12, <1>13, <1>14
  DEF Next

LEMMA Invariant == Spec => []IInv
  BY InitIInv, NextIInv, PTL DEF Spec

----------------------------------------------------------------------------
(* The results.  *)

\* Every variable keeps its range.
THEOREM CorneringTypeCorrect == Spec => []TypeOK
<1>1. IInv => TypeOK
  BY DEF IInv
<1> QED
  BY <1>1, Invariant, PTL

\* At most one request is queued, being solved or answered.
THEOREM OneCorneringRequest == Spec => []OneRequest
<1>1. IInv => OneRequest
  BY DEF IInv
<1> QED
  BY <1>1, Invariant, PTL

\* The planner indexes no list beyond its end, whichever horizon its plan was
\* made for, and no request is larger than the array of the stationary solver.
THEOREM CorneringInBounds == Spec => []InBounds
<1>1. IInv => InBounds
  <2> SUFFICES ASSUME IInv PROVE InBounds
    OBVIOUS
  <2>1. plan_ \in CornerPlan \cup {NoPlan} /\ cmd_on_plan_ \in 0 .. plan_.commands
    BY DEF IInv, TypeOK
  <2>2. ~Exhausted => cmd_on_plan_ + 1 < plan_.states
    BY <2>1, CurrentPlanShape DEF Exhausted
  <2>3. \A i \in DOMAIN ilqr_input : ilqr_input[i] <= Horizon
    BY HorizonTypes DEF IInv, TypeOK, Request
  <2>4. warm <= Horizon
    BY HorizonTypes DEF IInv, TypeOK, Request
  <2> QED
    BY <2>2, <2>3, <2>4 DEF InBounds
<1> QED
  BY <1>1, Invariant, PTL

\* A plan that is not renewed for Horizon turns leaves the vehicle to the
\* fallback of the loop.
THEOREM StalePlanAlwaysFallsBack == Spec => []StalePlanFallsBack
<1>1. IInv => StalePlanFallsBack
  BY DEF IInv
<1> QED
  BY <1>1, Invariant, PTL

\* The exchange of the two nodes implements the token of RequestLoop: the
\* planner asks by itself once, requests and plans alternate, and after a loss
\* nobody asks again.
THEOREM CorneringImplementsLoop == Spec => ImplementsLoop
<1> USE DEF Token, Loop!LoopNext, Loop!Ask, Loop!Take, Loop!Answer, Loop!Renew, Loop!Lose
<1>1. Init => Loop!LoopInit
  BY DEF Init, Loop!LoopInit
<1>2. IInv /\ [Next]_vars => [Loop!LoopNext]_Token
  <2> SUFFICES ASSUME IInv, [Next]_vars PROVE [Loop!LoopNext]_Token
    OBVIOUS
  <2> USE DEF followVars, driveVars, solverVars, PlannerUnchanged
  <2>1. ASSUME NEW s \in Reading, Odometry(s) PROVE [Loop!LoopNext]_Token
    BY <2>1 DEF Odometry
  <2>2. CASE StartCornering
    <3>1. Token = "unsent" /\ pc' = "approach" /\ solver' = solver /\ solver # "solving"
          /\ ilqr_output' = <<>>
      BY <2>2 DEF StartCornering, IInv, Unasked
    <3>2. Token' \in {"request", "lost"}
      BY <3>1
    <3> QED
      BY <3>1, <3>2
  <2>3. CASE Approach
    BY <2>3 DEF Approach, Command
  <2>4. ASSUME Serve, pc # "sleep", pc' # "sleep" PROVE [Loop!LoopNext]_Token
    <3>1. CASE ilqr_output = <<>>
      BY <2>4, <3>1 DEF Serve, IlqrCb
    <3>2. CASE ilqr_output # <<>>
      <4>1. Len(ilqr_input) = 0 /\ solver # "solving" /\ ilqr_input = <<>>
        BY <3>2 DEF IInv, TypeOK, OneRequest
      <4>2. solver' = solver /\ ilqr_output' = <<>>
        BY <2>4, <3>2 DEF Serve, IlqrCb
      <4>3. Token = "plan" /\ Token' \in {"request", "lost"}
        BY <2>4, <3>2, <4>1, <4>2
      <4> QED
        BY <4>3
    <3> QED
      BY <3>1, <3>2
  <2>5. CASE ServeApproach
    BY <2>4, <2>5 DEF ServeApproach
  <2>6. CASE ReachEquilibrium
    BY <2>6 DEF ReachEquilibrium
  <2>7. CASE Stay
    BY <2>7 DEF Stay, Command
  <2>8. CASE ServeSteady
    <3>1. Serve /\ pc # "sleep" /\ pc' # "sleep"
      BY <2>8 DEF ServeSteady
    <3> QED
      BY <2>4, <3>1
  <2>9. CASE Quit
    BY <2>9 DEF Quit
  <2>10. CASE SolverStart
    BY <2>10 DEF SolverStart
  <2>11. CASE TimerCb
    BY <2>11 DEF TimerCb
  <2>12. CASE TakeRequest
    <3>1. pc # "sleep" /\ pc' = pc
      BY <2>12 DEF TakeRequest, IInv, Unasked
    <3> QED
      BY <2>12, <3>1 DEF TakeRequest
  <2>13. ASSUME NEW kind \in Motion, PublishPlan(kind) PROVE [Loop!LoopNext]_Token
    <3>1. /\ solver = "solving" /\ solver' = "idle" /\ pc' = pc /\ ilqr_input' = ilqr_input
          /\ ilqr_output' # <<>>
      BY <2>13 DEF PublishPlan
    <3>2. pc # "sleep" /\ ilqr_input = <<>>
      BY <3>1 DEF IInv, Unasked, OneRequest, TypeOK
    <3>3. Token = "search" /\ Token' = "plan"
      BY <3>1, <3>2
    <3> QED
      BY <3>3
  <2>14. CASE SolverDies
    <3>1. solver' = "down" /\ ilqr_input' = <<>> /\ UNCHANGED <<pc, ilqr_output>>
      BY <2>14 DEF SolverDies
    <3>2. solver = "solving" \/ ilqr_input # <<>> => ilqr_output = <<>>
      BY DEF IInv, OneRequest, TypeOK
    <3> QED
      BY <3>1, <3>2
  <2>15. CASE UNCHANGED vars
    BY <2>15 DEF vars
  <2> QED
    BY <2>1, <2>2, <2>3, <2>5, <2>6, <2>7, <2>8, <2>9, <2>10, <2>11, <2>12, <2>13, <2>14, <2>15
    DEF Next
<1> QED
  BY <1>1, <1>2, Invariant, PTL DEF Spec, ImplementsLoop, Loop!LoopSpec
=============================================================================
