------------------------ MODULE EvasiveManeuver_proofs ------------------------
(***************************************************************************)
(* The evasive manoeuvre (avoid_obs.cpp, avoid_obs_ilqr.cpp) for every     *)
(* Horizon and every set of distances: one request circulates, every index *)
(* is in range, and a vehicle whose plan is not renewed stands still.      *)
(***************************************************************************)
EXTENDS EvasiveManeuver, TLAPS

USE ManeuverAssumption

----------------------------------------------------------------------------
(* The inductive invariant.  *)

\* A plan that has commands has one state more; and commands and turns are
\* counted alike until the plan is used up.
Whole(plan) == plan.commands = Horizon => plan.states = Horizon + 1
PlansWhole  == Whole(plan_) /\ \A i \in DOMAIN ilqr_output : Whole(ilqr_output[i])
Counted     == Exhausted \/ cmd_on_plan_ = turns

\* While the planner waits, nothing has been asked.
Unasked == pc = "wait" => ilqr_input = <<>> /\ ilqr_output = <<>> /\ solver # "solving"

IInv == TypeOK /\ PlansWhole /\ Counted /\ Unasked /\ OneRequest /\ StalePlanHalts

----------------------------------------------------------------------------
(* Facts about the operators.  *)

LEMMA HorizonType == Horizon \in Nat /\ Horizon > 0
  BY DEF ManeuverAssumption

\* A request holds no more commands than a plan.
LEMMA RemainingRequest ==
  ASSUME FollowTypeOK PROVE Remaining \in Request
<1>1. plan_.commands \in {0, Horizon} /\ cmd_on_plan_ \in 0 .. plan_.commands
  BY DEF FollowTypeOK, Plan
<1> QED
  BY <1>1, HorizonType DEF Remaining, Request

\* A request leaves at most itself on an empty topic.
LEMMA RequestedOne ==
  ASSUME ilqr_input \in Seq(Request), Len(ilqr_input) = 0, NEW n \in Request
  PROVE  Requested(n) \in Seq(Request) /\ Len(Requested(n)) <= 1
<1>1. <<n>> \in Seq(Request) /\ Len(<<n>>) = 1
  OBVIOUS
<1> QED
  BY <1>1 DEF Requested

\* A command keeps the types, and the count of commands along with the turns.
LEMMA FollowKeeps ==
  ASSUME FollowTypeOK, Counted, PlansWhole, turns \in 0 .. Horizon + 1,
         Follow("zeros"), turns' = IF turns <= Horizon THEN turns + 1 ELSE turns
  PROVE  /\ FollowTypeOK' /\ Counted' /\ Whole(plan_)'
         /\ turns' \in 0 .. Horizon + 1
         /\ turns' > Horizon => cmd_' = "zeros"
<1>1. plan_ \in Plan /\ plan_.commands \in {0, Horizon} /\ plan_.kind \in Motion
  BY DEF FollowTypeOK, Plan, Motion
<1>2. cmd_on_plan_ \in 0 .. plan_.commands /\ cmd_ \in Motion /\ plan_' = plan_
  BY DEF FollowTypeOK, Follow
<1>3. turns' \in 0 .. Horizon + 1
  BY HorizonType
<1>4. CASE Exhausted
  <2>1. cmd_' = "zeros" /\ cmd_on_plan_' = cmd_on_plan_
    BY <1>4 DEF Follow
  <2> QED
    BY <1>1, <1>2, <1>3, <1>4, <2>1 DEF FollowTypeOK, Counted, Exhausted, Motion, PlansWhole, Whole
<1>5. CASE ~Exhausted
  <2>1. cmd_' = plan_.kind /\ cmd_on_plan_' = cmd_on_plan_ + 1
    BY <1>5 DEF Follow
  <2>2. cmd_on_plan_ < plan_.commands /\ cmd_on_plan_ = turns
    BY <1>1, <1>2, <1>5, HorizonType DEF Exhausted, Counted
  <2>3. cmd_on_plan_' \in 0 .. plan_.commands /\ turns' = turns + 1 /\ turns' <= Horizon
    BY <1>1, <1>2, <2>1, <2>2, HorizonType
  <2> QED
    BY <1>1, <1>2, <1>3, <2>1, <2>2, <2>3, HorizonType
    DEF FollowTypeOK, Counted, PlansWhole, Whole
<1> QED
  BY <1>4, <1>5

----------------------------------------------------------------------------
(* The invariant is inductive.  *)

LEMMA InitIInv == Init => IInv
<1> SUFFICES ASSUME Init PROVE IInv
  OBVIOUS
<1> USE DEF Init, FollowInit, NoPlan
<1>1. FollowTypeOK
  BY HorizonType DEF FollowTypeOK, Plan, Motion
<1>2. TypeOK
  <2>1. odom \in Seq(Distance) /\ Len(odom) <= 1
    OBVIOUS
  <2>2. ilqr_input \in Seq(Request) /\ ilqr_output \in Seq(Plan)
    OBVIOUS
  <2>3. dist_to_goal_ \in Int /\ warm \in Request /\ turns \in 0 .. Horizon + 1
    BY HorizonType DEF Request
  <2>4. asked \in BOOLEAN
    OBVIOUS
  <2> QED
    BY <1>1, <2>1, <2>2, <2>3, <2>4 DEF TypeOK
<1>3. PlansWhole /\ Counted
  BY HorizonType DEF PlansWhole, Whole, Counted, Exhausted
<1> QED
  BY <1>2, <1>3, HorizonType DEF IInv, Unasked, OneRequest, StalePlanHalts

LEMMA NextIInv == IInv /\ [Next]_vars => IInv'
<1> SUFFICES ASSUME IInv, [Next]_vars PROVE IInv'
  OBVIOUS
<1> USE DEF IInv
<1>1. ASSUME NEW d \in Distance, Odometry(d) PROVE IInv'
  <2>1. odom' \in Seq(Distance) /\ Len(odom') <= 1
    BY <1>1 DEF Odometry
  <2> QED
    BY <1>1, <2>1 DEF Odometry, followVars, exchangeVars, TypeOK, FollowTypeOK, PlansWhole, Whole,
        Counted, Exhausted, Unasked, OneRequest, StalePlanHalts
<1>2. CASE StartManeuver
  <2> USE DEF StartManeuver, followVars
  <2>1. ilqr_input' \in Seq(Request) /\ Len(ilqr_input') <= 1
    <3>1. 0 \in Request
      BY HorizonType DEF Request
    <3>2. ilqr_input \in Seq(Request) /\ Len(ilqr_input) = 0
      BY <1>2 DEF TypeOK, Unasked
    <3>3. Requested(0) \in Seq(Request) /\ Len(Requested(0)) <= 1
      BY <3>1, <3>2, RequestedOne
    <3> QED
      BY <1>2, <3>3
  <2>2. dist_to_goal_' \in Int /\ odom' \in Seq(Distance) /\ Len(odom') <= 1
    <3>1. odom \in Seq(Distance) /\ odom # <<>>
      BY <1>2 DEF TypeOK
    <3>2. Head(odom) \in Distance
      BY <3>1
    <3>3. dist_to_goal_' = Head(odom) /\ odom' = <<>>
      BY <1>2
    <3>4. dist_to_goal_' \in Int
      BY <3>2, <3>3 DEF ManeuverAssumption
    <3>5. odom' \in Seq(Distance) /\ Len(odom') <= 1
      BY <3>3
    <3> QED
      BY <3>4, <3>5
  <2>3. TypeOK'
    BY <1>2, <2>1, <2>2 DEF TypeOK, FollowTypeOK, Subscribed
  <2>4. PlansWhole' /\ Counted' /\ StalePlanHalts' /\ Unasked'
    BY <1>2 DEF PlansWhole, Whole, Counted, Exhausted, StalePlanHalts, Unasked
  <2>5. OneRequest'
    BY <1>2, <2>1 DEF OneRequest, Unasked, TypeOK
  <2> QED
    BY <2>3, <2>4, <2>5
<1>3. CASE SendCommand
  <2>1. /\ FollowTypeOK' /\ Counted' /\ Whole(plan_)'
        /\ turns' \in 0 .. Horizon + 1
        /\ turns' > Horizon => cmd_' = "zeros"
    BY <1>3, FollowKeeps DEF SendCommand, TypeOK
  <2> QED
    BY <1>3, <2>1 DEF SendCommand, exchangeVars, TypeOK, PlansWhole, Whole, Unasked, OneRequest,
        StalePlanHalts
<1>4. CASE SpinOnce
  <2> USE DEF SpinOnce
  <2>1. dist_to_goal_' \in Int /\ odom' \in Seq(Distance) /\ Len(odom') <= 1
    <3>1. dist_to_goal_ \in Int /\ odom \in Seq(Distance)
      BY DEF TypeOK
    <3>2. odom # <<>> => Head(odom) \in Distance
      BY <3>1
    <3> QED
      BY <1>4, <3>1, <3>2 DEF ManeuverAssumption
  <2>2. ilqr_output' = <<>> /\ pc' = "command" /\ UNCHANGED <<solver, warm, asked>>
    BY <1>4
  <2>3. CASE ilqr_output = <<>>
    BY <1>4, <2>1, <2>2, <2>3 DEF followVars, TypeOK, FollowTypeOK, PlansWhole, Whole, Counted,
        Exhausted, Unasked, OneRequest, StalePlanHalts
  <2>4. CASE ilqr_output # <<>>
    <3>1. ilqr_output \in Seq(Plan) /\ ilqr_input \in Seq(Request) /\ Len(ilqr_output) >= 1
      BY <2>4 DEF TypeOK
    <3>2. Len(ilqr_input) = 0 /\ solver # "solving"
      BY <3>1 DEF OneRequest
    <3>3. ilqr_input' \in Seq(Request) /\ Len(ilqr_input') <= 1
      <4>1. Remaining \in Request
        BY RemainingRequest DEF TypeOK
      <4>2. ilqr_input' = Requested(Remaining)
        BY <1>4, <2>4
      <4>3. Requested(Remaining) \in Seq(Request) /\ Len(Requested(Remaining)) <= 1
        BY <3>1, <3>2, <4>1, RequestedOne
      <4> QED
        BY <4>2, <4>3
    <3>4. plan_' \in Plan /\ Whole(plan_)'
      <4>1. plan_' = ilqr_output[1] /\ 1 \in DOMAIN ilqr_output
        BY <1>4, <2>4, <3>1 DEF Adopt
      <4> QED
        BY <3>1, <4>1 DEF PlansWhole, Whole
    <3>5. cmd_on_plan_' = 0 /\ turns' = 0 /\ cmd_' = cmd_
      BY <1>4, <2>4 DEF Adopt
    <3>6. FollowTypeOK'
      <4>1. plan_'.commands \in Nat
        BY <3>4, HorizonType DEF Plan
      <4> QED
        BY <3>4, <3>5, <4>1 DEF FollowTypeOK, TypeOK
    <3>7. TypeOK'
      BY <2>1, <2>2, <3>3, <3>5, <3>6, HorizonType DEF TypeOK
    <3>8. PlansWhole' /\ Counted' /\ Unasked' /\ StalePlanHalts'
      BY <2>2, <3>4, <3>5, HorizonType DEF PlansWhole, Counted, Unasked, StalePlanHalts
    <3>9. OneRequest'
      BY <2>2, <3>2, <3>3 DEF OneRequest
    <3> QED
      BY <3>7, <3>8, <3>9
  <2> QED
    BY <2>3, <2>4
<1>5. CASE ReachGoal
  BY <1>5 DEF ReachGoal, followVars, exchangeVars, TypeOK, FollowTypeOK, PlansWhole, Whole, Counted,
      Exhausted, Unasked, OneRequest, StalePlanHalts
<1>6. CASE SolverStart
  BY <1>6 DEF SolverStart, followVars, TypeOK, FollowTypeOK, PlansWhole, Whole, Counted, Exhausted,
      Unasked, OneRequest, StalePlanHalts
<1>7. CASE TakeRequest
  <2>1. ilqr_input \in Seq(Request) /\ ilqr_input # <<>>
    BY <1>7 DEF TakeRequest, TypeOK
  <2>2. warm' \in Request /\ ilqr_input' \in Seq(Request) /\ Len(ilqr_input') = Len(ilqr_input) - 1
    BY <1>7, <2>1 DEF TakeRequest
  <2> QED
    BY <1>7, <2>1, <2>2 DEF TakeRequest, followVars, TypeOK, FollowTypeOK, PlansWhole, Whole, Counted,
        Exhausted, Unasked, OneRequest, StalePlanHalts
<1>8. ASSUME NEW kind \in Motion, PublishPlan(kind) PROVE IInv'
  <2> DEFINE plan == [commands |-> Horizon, states |-> Horizon + 1, kind |-> kind]
  <2>1. plan \in Plan /\ Whole(plan)
    BY DEF Plan, Motion, Whole
  <2>2. ilqr_output' = <<plan>> /\ solver = "solving" /\ solver' = "idle"
    BY <1>8 DEF PublishPlan
  <2>3. ilqr_output' \in Seq(Plan) /\ Len(ilqr_output') = 1
        /\ \A i \in DOMAIN ilqr_output' : Whole(ilqr_output'[i])
    <3> HIDE DEF plan
    <3> QED
      BY <2>1, <2>2
  <2>4. pc # "wait" /\ Len(ilqr_input) = 0
    BY <2>2 DEF Unasked, OneRequest, TypeOK
  <2>5. TypeOK'
    BY <1>8, <2>2, <2>3 DEF PublishPlan, followVars, TypeOK, FollowTypeOK
  <2>6. PlansWhole' /\ Counted' /\ Unasked' /\ StalePlanHalts'
    BY <1>8, <2>2, <2>3, <2>4 DEF PublishPlan, followVars, PlansWhole, Whole, Counted, Exhausted,
        Unasked, StalePlanHalts
  <2>7. OneRequest'
    BY <1>8, <2>2, <2>3, <2>4 DEF PublishPlan, OneRequest
  <2> QED
    BY <2>5, <2>6, <2>7
<1>9. CASE SolverDies
  BY <1>9 DEF SolverDies, followVars, TypeOK, FollowTypeOK, PlansWhole, Whole, Counted, Exhausted,
      Unasked, OneRequest, StalePlanHalts
<1>10. CASE UNCHANGED vars
  BY <1>10 DEF vars, followVars, exchangeVars, TypeOK, FollowTypeOK, PlansWhole, Whole, Counted,
      Exhausted, Unasked, OneRequest, StalePlanHalts
<1> QED
  BY <1>1, <1>2, <1>3, <1>4, <1>5, <1>6, <1>7, <1>8, <1>9, <1>10 DEF Next

LEMMA Invariant == Spec => []IInv
  BY InitIInv, NextIInv, PTL DEF Spec

----------------------------------------------------------------------------
(* The results.  *)

\* Every variable keeps its range.
THEOREM ManeuverTypeCorrect == Spec => []TypeOK
<1>1. IInv => TypeOK
  BY DEF IInv
<1> QED
  BY <1>1, Invariant, PTL

\* At most one request is queued, being solved or answered.
THEOREM OneRequestAlways == Spec => []OneRequest
<1>1. IInv => OneRequest
  BY DEF IInv
<1> QED
  BY <1>1, Invariant, PTL

\* The command loop and the solver index no list beyond its end.
THEOREM AlwaysInBounds == Spec => []InBounds
<1>1. IInv => InBounds
  <2> SUFFICES ASSUME IInv PROVE InBounds
    OBVIOUS
  <2>1. plan_.commands \in {0, Horizon} /\ cmd_on_plan_ \in 0 .. plan_.commands
    BY DEF IInv, TypeOK, FollowTypeOK, Plan
  <2>2. ~Exhausted => cmd_on_plan_ + 1 < plan_.states
    <3> SUFFICES ASSUME ~Exhausted PROVE cmd_on_plan_ + 1 < plan_.states
      OBVIOUS
    <3>1. cmd_on_plan_ < Horizon /\ plan_.commands = Horizon
      BY <2>1, HorizonType DEF Exhausted
    <3>2. plan_.states = Horizon + 1
      BY <3>1 DEF IInv, PlansWhole, Whole
    <3> QED
      BY <2>1, <3>1, <3>2, HorizonType
  <2>3. \A i \in DOMAIN ilqr_input : ilqr_input[i] <= Horizon
    BY HorizonType DEF IInv, TypeOK, Request
  <2>4. warm <= Horizon
    BY HorizonType DEF IInv, TypeOK, Request
  <2> QED
    BY <2>2, <2>3, <2>4 DEF InBounds
<1> QED
  BY <1>1, Invariant, PTL

\* A vehicle whose plan is not renewed for Horizon turns is told to stand.
THEOREM StalePlanAlwaysHalts == Spec => []StalePlanHalts
<1>1. IInv => StalePlanHalts
  BY DEF IInv
<1> QED
  BY <1>1, Invariant, PTL
=============================================================================
