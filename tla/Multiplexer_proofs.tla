------------------------- MODULE Multiplexer_proofs -------------------------
(***************************************************************************)
(* Proofs about the command multiplexer, for every set of speeds, angles   *)
(* and stamps, every timeout, timer latency and clock bound.               *)
(*                                                                         *)
(* Authority and StaleCommandStops are not inductive by themselves.  The   *)
(* first needs nothing but types; the second needs the timer's schedule    *)
(* (ClockInv) and the halt a stopped multiplexer keeps (EstopHoldsHalt),   *)
(* and is carried by DueInv, which bounds the NEXT firing of the timer     *)
(* instead of the clock.                                                   *)
(***************************************************************************)
EXTENDS Multiplexer, TLAPS

\* The names this module takes from the arbiter are plain constants.
LEMMA Names ==
  /\ JOY = 3 /\ KB = 2 /\ NAV = 1 /\ DEFAULT = 0 /\ ESTOP = -1
  /\ Source = {1, 2, 3}
  /\ Arbiter!Mode = {-1, 0, 1, 2, 3}
  /\ Command = [speed : Speed, steering_angle : Angle]
  /\ Halt = [speed |-> 0, steering_angle |-> 0]
  /\ Halt \in Command
BY MuxAssumption DEF JOY, KB, NAV, DEFAULT, ESTOP, Source, Command, Halt,
   Arbiter!JOY, Arbiter!KB, Arbiter!NAV, Arbiter!DEFAULT, Arbiter!ESTOP,
   Arbiter!Source, Arbiter!Mode, Arbiter!Command, Arbiter!Halt

\* A step that serves a message of source p: the navigation callback sends a
\* well-formed command too.
LEMMA CallbackSteps ==
  ASSUME Next
  PROVE  \/ \E p \in Source, stamp \in Int, c \in Command : Callback(p, stamp, c)
         \/ \E v \in Speed, omega \in Angle : NavCallback(v, omega)
         \/ \E data \in BOOLEAN : EstopCallback(data)
         \/ PubTimerCallback
         \/ Tick
BY Names, MuxAssumption DEF Next, JoyCallback, KbCallback

LEMMA NavCommand ==
  ASSUME NEW v \in Speed, NEW omega \in Angle
  PROVE  [speed |-> v, steering_angle |-> AngVelToSteer(v, omega)] \in Command
BY Names, SteerAssumption

----------------------------------------------------------------------------
\* Every variable keeps its type.
THEOREM TypeCorrect == Spec => []TypeOK
<1>1. Init => TypeOK
  <2> SUFFICES ASSUME Init PROVE TypeOK
    OBVIOUS
  <2>1. mode \in Arbiter!Mode /\ ackermann_msg \in Command /\ stray \in BOOLEAN
    BY Names DEF Init
  <2>2. last_cb_time \in [Source -> Int]
    BY DEF Init
  <2>3. now \in Nat /\ due \in Nat /\ forwarded \in Nat
    BY MuxAssumption DEF Init, Period
  <2> QED
    BY <2>1, <2>2, <2>3 DEF TypeOK
<1>2. TypeOK /\ [Next]_vars => TypeOK'
  <2> SUFFICES ASSUME TypeOK, [Next]_vars PROVE TypeOK'
    OBVIOUS
  <2> USE Names, MuxAssumption DEF TypeOK
  <2>1. ASSUME NEW p \in Source, NEW stamp \in Int, NEW c \in Command,
               Callback(p, stamp, c)
        PROVE  TypeOK'
    BY <2>1 DEF Callback
  <2>2. ASSUME NEW v \in Speed, NEW omega \in Angle, NavCallback(v, omega)
        PROVE  TypeOK'
    <3> DEFINE c == [speed |-> v, steering_angle |-> AngVelToSteer(v, omega)]
    <3>1. c \in Command
      BY NavCommand
    <3>2. NAV \in Source /\ now \in Int /\ Callback(NAV, now, c)
      BY <2>2 DEF NavCallback
    <3> QED
      BY <3>1, <3>2, <2>1
  <2>3. ASSUME NEW data \in BOOLEAN, EstopCallback(data) PROVE TypeOK'
    BY <2>3 DEF EstopCallback
  <2>4. CASE PubTimerCallback
    <3>1. [ackermann_msg EXCEPT !.speed = 0] \in Command
      OBVIOUS
    <3> QED
      BY <2>4, <3>1 DEF PubTimerCallback, Period
  <2>5. CASE Tick
    BY <2>5 DEF Tick
  <2>6. CASE UNCHANGED vars
    BY <2>6 DEF vars
  <2> QED
    BY <2>1, <2>2, <2>3, <2>4, <2>5, <2>6, CallbackSteps
<1> QED
  BY <1>1, <1>2, PTL DEF Spec

\* Every forwarded or swallowed command is one callback of some source with a
\* well-formed command, the navigation's with the clock for its stamp.
LEMMA NextCases ==
  ASSUME TypeOK, Next
  PROVE  \/ \E p \in Source, stamp \in Int, c \in Command : Callback(p, stamp, c)
         \/ \E data \in BOOLEAN : EstopCallback(data)
         \/ PubTimerCallback
         \/ Tick
<1>1. ASSUME NEW v \in Speed, NEW omega \in Angle, NavCallback(v, omega)
      PROVE  \E p \in Source, stamp \in Int, c \in Command : Callback(p, stamp, c)
  BY <1>1, NavCommand, Names DEF NavCallback, TypeOK
<1> QED
  BY <1>1, CallbackSteps

----------------------------------------------------------------------------
\* No source above the driver is live, in every reachable state.
THEOREM AuthorityHolds == Spec => []Authority
<1>1. Init => Authority
  BY Names DEF Init, Authority
<1>2. TypeOK /\ Authority /\ [Next]_vars => Authority'
  <2> SUFFICES ASSUME TypeOK, Authority, [Next]_vars PROVE Authority'
    OBVIOUS
  <2> USE Names, MuxAssumption DEF TypeOK, Authority, Held
  <2>1. ASSUME NEW p \in Source, NEW stamp \in Int, NEW c \in Command,
               Callback(p, stamp, c)
        PROVE  Authority'
    <3>1. last_cb_time' = [last_cb_time EXCEPT ![p] = stamp] /\ now' = now
      BY <2>1 DEF Callback
    <3>2. CASE ~Held(p, last_cb_time') /\ mode >= 0
      BY <2>1, <3>1, <3>2 DEF Callback
    <3>3. CASE Held(p, last_cb_time') /\ mode \in Source
      <4>1. mode' = mode
        BY <2>1, <3>3 DEF Callback
      <4>2. PICK q \in Source : q > p /\ now - last_cb_time'[q] < Timeout
        BY <3>3
      <4>3. last_cb_time'[q] = last_cb_time[q]
        BY <3>1, <4>2
      <4>4. q <= mode
        BY <3>3, <4>2, <4>3
      <4>5. \A i \in Source : i > mode => last_cb_time'[i] = last_cb_time[i]
        BY <3>1, <3>3, <4>2, <4>4
      <4> QED
        BY <3>1, <3>3, <4>1, <4>5
    <3>4. CASE mode \notin Source /\ ~(~Held(p, last_cb_time') /\ mode >= 0)
      BY <2>1, <3>4 DEF Callback
    <3> QED
      BY <3>2, <3>3, <3>4
  <2>2. ASSUME NEW data \in BOOLEAN, EstopCallback(data) PROVE Authority'
    BY <2>2 DEF EstopCallback
  <2>3. CASE PubTimerCallback
    BY <2>3 DEF PubTimerCallback
  <2>4. CASE Tick
    BY <2>4 DEF Tick
  <2>5. CASE UNCHANGED vars
    BY <2>5 DEF vars
  <2> QED
    BY <2>1, <2>2, <2>3, <2>4, <2>5, NextCases
<1> QED
  BY <1>1, <1>2, TypeCorrect, PTL DEF Spec

\* A stopped multiplexer has a halt on the wire, in every reachable state.
THEOREM EstopHoldsHaltAlways == Spec => []EstopHoldsHalt
<1>1. Init => EstopHoldsHalt
  BY Names DEF Init, EstopHoldsHalt
<1>2. TypeOK /\ EstopHoldsHalt /\ [Next]_vars => EstopHoldsHalt'
  <2> SUFFICES ASSUME TypeOK, EstopHoldsHalt, [Next]_vars PROVE EstopHoldsHalt'
    OBVIOUS
  <2> USE Names DEF TypeOK, EstopHoldsHalt
  <2>1. ASSUME NEW p \in Source, NEW stamp \in Int, NEW c \in Command,
               Callback(p, stamp, c)
        PROVE  EstopHoldsHalt'
    BY <2>1 DEF Callback
  <2>2. ASSUME NEW data \in BOOLEAN, EstopCallback(data) PROVE EstopHoldsHalt'
    BY <2>2 DEF EstopCallback
  <2>3. CASE PubTimerCallback
    BY <2>3 DEF PubTimerCallback
  <2>4. CASE Tick
    BY <2>4 DEF Tick
  <2>5. CASE UNCHANGED vars
    BY <2>5 DEF vars
  <2> QED
    BY <2>1, <2>2, <2>3, <2>4, <2>5, NextCases
<1> QED
  BY <1>1, <1>2, TypeCorrect, PTL DEF Spec

----------------------------------------------------------------------------
\* The timer's schedule: never served later than Latency, never set further
\* ahead than one period.
ClockInv ==
  /\ now <= due + Latency
  /\ due <= now + Period

\* A moving vehicle is driven by a source, unless a stray release came, and
\* the next firing is near the last command or the last recent stamp.
DueInv ==
  ackermann_msg.speed # 0 /\ ~stray =>
    /\ mode > 0
    /\ \/ due <= forwarded + Period
       \/ \E p \in Source : due <= last_cb_time[p] + Timeout + Period

StaleInv == EstopHoldsHalt /\ ClockInv /\ DueInv

LEMMA StaleInvStep ==
  ASSUME TypeOK, StaleInv, [Next]_vars
  PROVE  StaleInv'
<1> USE Names, MuxAssumption DEF TypeOK, StaleInv
<1>1. ASSUME NEW p \in Source, NEW stamp \in Int, NEW c \in Command,
             Callback(p, stamp, c)
      PROVE  StaleInv'
  <2>1. EstopHoldsHalt' /\ ClockInv'
    BY <1>1 DEF Callback, EstopHoldsHalt, ClockInv, Period
  <2>2. CASE ~Held(p, last_cb_time') /\ mode >= 0
    BY <1>1, <2>1, <2>2 DEF Callback, ClockInv, DueInv, Period
  <2>3. CASE Held(p, last_cb_time') /\ mode >= 0
    <3>1. PICK q \in Source : q > p /\ now - last_cb_time'[q] < Timeout
      BY <2>3 DEF Held
    <3>2. /\ last_cb_time'[q] \in Int /\ due' = due
          /\ ackermann_msg' = ackermann_msg /\ stray' = stray /\ mode' = mode
      BY <1>1, <2>3, <3>1 DEF Callback
    <3>3. due' <= last_cb_time'[q] + Timeout + Period
      BY <3>1, <3>2 DEF ClockInv, Period
    <3> QED
      BY <2>1, <3>1, <3>2, <3>3 DEF DueInv
  <2>4. CASE mode < 0
    <3>1. ackermann_msg' = ackermann_msg /\ ackermann_msg = Halt
      BY <1>1, <2>4 DEF Callback, EstopHoldsHalt
    <3> QED
      BY <2>1, <3>1 DEF DueInv
  <2> QED
    BY <2>2, <2>3, <2>4
<1>2. ASSUME NEW data \in BOOLEAN, EstopCallback(data) PROVE StaleInv'
  <2>1. EstopHoldsHalt' /\ ClockInv'
    BY <1>2 DEF EstopCallback, EstopHoldsHalt, ClockInv, Period
  <2>2. CASE data
    <3>1. mode < 0 => ackermann_msg = Halt
      BY DEF EstopHoldsHalt
    <3>2. ackermann_msg' = Halt
      BY <1>2, <2>2, <3>1 DEF EstopCallback
    <3> QED
      BY <2>1, <3>2 DEF DueInv
  <2>3. CASE ~data /\ mode >= 0
    <3>1. stray'
      BY <1>2, <2>3 DEF EstopCallback
    <3> QED
      BY <2>1, <3>1 DEF DueInv
  <2>4. CASE ~data /\ mode < 0
    <3>1. ackermann_msg' = Halt
      BY <1>2, <2>4 DEF EstopCallback, EstopHoldsHalt
    <3> QED
      BY <2>1, <3>1 DEF DueInv
  <2> QED
    BY <2>2, <2>3, <2>4
<1>3. CASE PubTimerCallback
  <2>1. ClockInv'
    BY <1>3 DEF PubTimerCallback, ClockInv, Period
  <2>2. CASE mode > 0 /\ ~Held(DEFAULT, last_cb_time)
    <3>1. ackermann_msg' = [ackermann_msg EXCEPT !.speed = 0] /\ mode' = DEFAULT
      BY <1>3, <2>2 DEF PubTimerCallback
    <3>2. ackermann_msg'.speed = 0
      BY <3>1
    <3> QED
      BY <2>1, <3>1, <3>2 DEF EstopHoldsHalt, DueInv
  <2>3. CASE mode > 0 /\ Held(DEFAULT, last_cb_time)
    <3>1. PICK q \in Source : now - last_cb_time[q] < Timeout
      BY <2>3 DEF Held
    <3>2. /\ due' = due + Period /\ last_cb_time' = last_cb_time
          /\ ackermann_msg' = ackermann_msg /\ stray' = stray /\ mode' = mode
          /\ now >= due
      BY <1>3, <2>3 DEF PubTimerCallback
    <3>3. due' <= last_cb_time'[q] + Timeout + Period
      BY <3>1, <3>2 DEF Period
    <3> QED
      BY <2>1, <3>1, <3>2, <3>3 DEF EstopHoldsHalt, DueInv
  <2>4. CASE mode <= 0
    <3>1. UNCHANGED <<mode, ackermann_msg, stray>>
      BY <1>3, <2>4 DEF PubTimerCallback
    <3> QED
      BY <2>1, <2>4, <3>1 DEF EstopHoldsHalt, DueInv
  <2> QED
    BY <2>2, <2>3, <2>4
<1>4. CASE Tick
  BY <1>4 DEF Tick, EstopHoldsHalt, ClockInv, DueInv, Period
<1>5. CASE UNCHANGED vars
  BY <1>5 DEF vars, EstopHoldsHalt, ClockInv, DueInv, Period
<1> QED
  BY <1>1, <1>2, <1>3, <1>4, <1>5, NextCases

\* A vehicle nobody commands is stopped within Timeout plus one timer round,
\* whatever the stamps say, as long as no stray release clears the mode.
THEOREM StaleCommandStopsAlways == Spec => []StaleCommandStops
<1>1. Init => StaleInv
  <2> SUFFICES ASSUME Init PROVE StaleInv
    OBVIOUS
  <2>1. EstopHoldsHalt /\ DueInv
    BY Names DEF Init, EstopHoldsHalt, DueInv
  <2>2. ClockInv
    BY MuxAssumption DEF Init, ClockInv, Period
  <2> QED
    BY <2>1, <2>2 DEF StaleInv
<1>2. TypeOK /\ StaleInv /\ [Next]_vars => StaleInv'
  BY StaleInvStep
<1>3. TypeOK /\ StaleInv => StaleCommandStops
  <2> SUFFICES ASSUME TypeOK, StaleInv, ackermann_msg.speed # 0, ~stray
               PROVE  \/ now <= forwarded + Round
                      \/ \E p \in Source : now <= last_cb_time[p] + Timeout + Round
    BY DEF StaleCommandStops
  <2>1. CASE due <= forwarded + Period
    BY <2>1, MuxAssumption DEF StaleInv, ClockInv, TypeOK, Round, Period
  <2>2. ASSUME NEW p \in Source, due <= last_cb_time[p] + Timeout + Period
        PROVE  now <= last_cb_time[p] + Timeout + Round
    <3>1. last_cb_time[p] \in Int
      BY DEF TypeOK
    <3> QED
      BY <2>2, <3>1, MuxAssumption DEF StaleInv, ClockInv, TypeOK, Round, Period
  <2> QED
    BY <2>1, <2>2 DEF StaleInv, DueInv
<1> QED
  BY <1>1, <1>2, <1>3, TypeCorrect, PTL DEF Spec

----------------------------------------------------------------------------
\* The sources that hold off the ones below them: the arbiter's `live`.
Fresh == {p \in {1, 2, 3} : now - last_cb_time[p] < Timeout}

\* The multiplexer implements the time-free arbiter: a callback is a message
\* received, fresh or stale; the clock is ageing; a timer that finds a driver
\* and no fresh stamp is the idle step, and stutters otherwise.
THEOREM Implementation == Spec => ImplementsArbiter
<1>1. Init => Arbiter!Init
  <2> SUFFICES ASSUME Init PROVE Arbiter!Init
    OBVIOUS
  <2>1. Fresh = {}
    BY Names, MuxAssumption DEF Init, Fresh
  <2> QED
    BY <2>1 DEF Init, Arbiter!Init, Fresh, DEFAULT, Halt
<1>2. TypeOK /\ [Next]_vars => [Arbiter!Next]_(Arbiter!vars)
  <2> SUFFICES ASSUME TypeOK, [Next]_vars
               PROVE  Arbiter!Next \/ UNCHANGED <<mode, Fresh, ackermann_msg>>
    BY DEF Arbiter!vars, Fresh
  <2> USE Names, MuxAssumption DEF TypeOK
  <2>1. ASSUME NEW p \in Source, NEW stamp \in Int, NEW c \in Command,
               Callback(p, stamp, c)
        PROVE  Arbiter!Next
    <3> DEFINE fresh == now - stamp < Timeout
    <3>1. Fresh' = IF fresh THEN Fresh \cup {p} ELSE Fresh \ {p}
      BY <2>1 DEF Callback, Fresh
    <3>2. ~Held(p, last_cb_time') /\ mode >= 0
            <=> mode # -1 /\ \A q \in Fresh' : q <= p
      BY <2>1 DEF Callback, Fresh, Held
    <3>3. IF mode # -1 /\ \A q \in Fresh' : q <= p
            THEN mode' = p /\ ackermann_msg' = c
            ELSE UNCHANGED <<mode, ackermann_msg>>
      BY <2>1, <3>2 DEF Callback
    <3>4. p \in Arbiter!Source /\ c \in Arbiter!Command /\ fresh \in BOOLEAN
      BY DEF Source, Command
    <3> QED
      BY <3>1, <3>3, <3>4, Zenon DEF Arbiter!Next, Arbiter!Receive, Arbiter!MayDrive,
         Arbiter!ESTOP, Fresh
  <2>2. ASSUME NEW data \in BOOLEAN, EstopCallback(data)
        PROVE  Arbiter!Next
    <3>1. Fresh' = Fresh
      BY <2>2 DEF EstopCallback, Fresh
    <3>2. CASE data
      BY <2>2, <3>1, <3>2 DEF EstopCallback, Arbiter!Next, Arbiter!Stop,
         Arbiter!ESTOP, ESTOP, Halt, Fresh
    <3>3. CASE ~data
      BY <2>2, <3>1, <3>3 DEF EstopCallback, Arbiter!Next, Arbiter!Release,
         Arbiter!DEFAULT, DEFAULT, Fresh
    <3> QED
      BY <3>2, <3>3
  <2>3. CASE PubTimerCallback
    <3>1. Fresh' = Fresh
      BY <2>3 DEF PubTimerCallback, Fresh
    <3>2. CASE mode > 0 /\ ~Held(DEFAULT, last_cb_time)
      <4>1. Fresh = {}
        BY <3>2 DEF Fresh, Held
      <4>2. /\ mode' = DEFAULT
            /\ ackermann_msg' = [ackermann_msg EXCEPT !.speed = 0]
        BY <2>3, <3>2 DEF PubTimerCallback
      <4>3. mode \in Arbiter!Source
        BY <3>2 DEF Arbiter!Source, Arbiter!NAV, Arbiter!KB, Arbiter!JOY
      <4>4. Arbiter!Idle
        BY <3>1, <4>1, <4>2, <4>3 DEF Arbiter!Idle, Arbiter!DEFAULT, DEFAULT, Fresh
      <4> QED
        BY <4>4 DEF Arbiter!Next
    <3>3. CASE ~(mode > 0 /\ ~Held(DEFAULT, last_cb_time))
      BY <2>3, <3>1, <3>3 DEF PubTimerCallback
    <3> QED
      BY <3>2, <3>3
  <2>4. CASE Tick
    <3>1. Fresh' \subseteq Fresh
      BY <2>4 DEF Tick, Fresh
    <3> QED
      BY <2>4, <3>1 DEF Tick, Arbiter!Next, Arbiter!Age, Fresh
  <2>5. CASE UNCHANGED vars
    BY <2>5 DEF vars, Fresh
  <2> QED
    BY <2>1, <2>2, <2>3, <2>4, <2>5, NextCases
<1> QED
  BY <1>1, <1>2, TypeCorrect, PTL DEF Spec, ImplementsArbiter, Arbiter!Spec
=============================================================================
