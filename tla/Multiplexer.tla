---------------------------- MODULE Multiplexer ----------------------------
(***************************************************************************)
(* The command multiplexer (vesc_interface/src/multiplexer.cpp).           *)
(*                                                                         *)
(* Commands arrive from the joystick, the keyboard and the navigation      *)
(* stack.  A command is forwarded unless the vehicle is stopped or the     *)
(* latest message of a source with a higher priority is stamped less than  *)
(* Timeout ago.  A timer, every four timeouts, stops a vehicle that nobody *)
(* commands.  Joystick and keyboard messages carry the stamp their sender  *)
(* gave them, which may be old, unset (0) or, from a machine with another  *)
(* clock, in the future; navigation messages are stamped on arrival.       *)
(*                                                                         *)
(* One callback runs at a time (ros::spin, one thread), so each callback   *)
(* is one action.                                                          *)
(***************************************************************************)
EXTENDS Integers

CONSTANTS
  Speed, Angle,   \* what commands may ask for
  Stamp,          \* the header stamps joystick and keyboard messages carry
  Timeout,        \* TIMEOUT, in clock ticks
  Latency,        \* how late, at most, a due timer callback is served
  Boot,           \* the clock when the node starts
  MaxTime         \* bound on the clock

ASSUME MuxAssumption ==
  /\ Speed \subseteq Int /\ 0 \in Speed
  /\ Angle \subseteq Int /\ 0 \in Angle
  /\ Stamp \subseteq Int
  /\ Timeout \in Nat \ {0}
  /\ Latency \in Nat
  /\ Boot \in Nat /\ Timeout <= Boot   \* time 0 is long past: wall-clock time
  /\ MaxTime \in Nat /\ Boot <= MaxTime

VARIABLES
  mode,           \* mode_
  last_cb_time,   \* last_cb_time_ of the three sources
  ackermann_msg,  \* ackermann_msg_.drive, as last published
  now,            \* ros::Time::now()
  due,            \* when pub_timer_ expires next
  forwarded,      \* history: when a source's command was last published
  stray           \* history: an estop=false came while not stopped, and no
                  \* command has been published since

Arbiter == INSTANCE CommandArbiter WITH
  live   <- {p \in {1, 2, 3} : now - last_cb_time[p] < Timeout},
  output <- ackermann_msg

JoyOutOfRange == 4
JOY     == Arbiter!JOY
KB      == Arbiter!KB
NAV     == Arbiter!NAV
DEFAULT == Arbiter!DEFAULT
ESTOP   == Arbiter!ESTOP
Source  == Arbiter!Source
Command == Arbiter!Command
Halt    == Arbiter!Halt

Period  == 4 * Timeout
vars    == <<mode, last_cb_time, ackermann_msg, now, due, forwarded, stray>>

\* Each variable stays in the range its C++ type and use give it.
TypeOK ==
  /\ mode \in Arbiter!Mode
  /\ last_cb_time \in [Source -> Int]
  /\ ackermann_msg \in Command
  /\ now \in Nat /\ due \in Nat /\ forwarded \in Nat
  /\ stray \in BOOLEAN

\* The constructor: time 0 in last_cb_time_, and a halt is published.
Init ==
  /\ mode = DEFAULT
  /\ last_cb_time = [p \in Source |-> 0]
  /\ ackermann_msg = Halt
  /\ now = Boot
  /\ due = Boot + Period
  /\ forwarded = Boot
  /\ stray = FALSE

----------------------------------------------------------------------------
\* Some source above p has a message newer than the timeout, in `times`.
HeldByNext(p, times) ==
  \E i \in Source : i = p + 1 /\ now - times[i] < Timeout
Held(p, times) ==
  \E i \in Source : i > p /\ now - times[i] < Timeout

\* The part the three command callbacks share: record the stamp, then
\* forward the command unless the source is held or the vehicle stopped.
CallbackWhileStopped(p, stamp, c) ==
  /\ last_cb_time' = [last_cb_time EXCEPT ![p] = stamp]
  /\ IF ~Held(p, last_cb_time')
       THEN /\ mode' = p
            /\ ackermann_msg' = c
            /\ forwarded' = now
            /\ stray' = FALSE
       ELSE UNCHANGED <<mode, ackermann_msg, forwarded, stray>>
  /\ UNCHANGED <<now, due>>

Callback(p, stamp, c) ==
  /\ last_cb_time' = [last_cb_time EXCEPT ![p] = stamp]
  /\ IF ~Held(p, last_cb_time') /\ mode >= 0
       THEN /\ mode' = p
            /\ ackermann_msg' = c
            /\ forwarded' = now
            /\ stray' = FALSE
       ELSE UNCHANGED <<mode, ackermann_msg, forwarded, stray>>
  /\ UNCHANGED <<now, due>>

JoyCallback(stamp, c) == Callback(JOY, stamp, c)

KbCallback(stamp, c) == Callback(KB, stamp, c)

\* The steering angle of a Twist.  Only its side matters here: straight
\* ahead when either component is zero, else the side on which v and omega
\* put the centre of the turn.
AngVelToSteer(v, omega) ==
  IF v = 0 \/ omega = 0 THEN 0
  ELSE IF (v > 0) <=> (omega > 0) THEN 1 ELSE -1

ASSUME SteerAssumption ==
  \A v \in Speed, omega \in Angle : AngVelToSteer(v, omega) \in Angle

NavCallback(v, omega) ==
  Callback(NAV, now, [speed |-> v, steering_angle |-> AngVelToSteer(v, omega)])

\* As the timer does it: the wheels keep their angle.
EstopKeepsSteering(data) ==
  /\ IF data
       THEN /\ mode' = ESTOP
            /\ ackermann_msg' = IF mode >= 0 THEN [ackermann_msg EXCEPT !.speed = 0]
                                            ELSE ackermann_msg
            /\ UNCHANGED stray
       ELSE /\ mode' = DEFAULT
            /\ stray' = (stray \/ mode >= 0)
            /\ UNCHANGED ackermann_msg
  /\ UNCHANGED <<last_cb_time, now, due, forwarded>>

\* /commands/estop.  True stops the vehicle once; false gives it free again,
\* and does so without asking whether it was stopped.
EstopCallback(data) ==
  /\ IF data
       THEN /\ mode' = ESTOP
            /\ ackermann_msg' = IF mode >= 0 THEN Halt ELSE ackermann_msg
            /\ UNCHANGED stray
       ELSE /\ mode' = DEFAULT
            /\ stray' = (stray \/ mode >= 0)
            /\ UNCHANGED ackermann_msg
  /\ UNCHANGED <<last_cb_time, now, due, forwarded>>

\* pub_timer_: nobody has sent anything for a timeout.
TimerModeOnly ==
  /\ now >= due
  /\ due' = due + Period
  /\ IF mode > 0 /\ ~Held(DEFAULT, last_cb_time)
       THEN mode' = DEFAULT
       ELSE UNCHANGED mode
  /\ UNCHANGED <<ackermann_msg, last_cb_time, now, forwarded, stray>>

PubTimerCallback ==
  /\ now >= due
  /\ due' = due + Period
  /\ IF mode > 0 /\ ~Held(DEFAULT, last_cb_time)
       THEN mode' = DEFAULT /\ ackermann_msg' = [ackermann_msg EXCEPT !.speed = 0]
       ELSE UNCHANGED <<mode, ackermann_msg>>
  /\ UNCHANGED <<last_cb_time, now, forwarded, stray>>

\* The clock; a due timer is served within Latency.
Tick ==
  /\ now < MaxTime
  /\ now < due + Latency
  /\ now' = now + 1
  /\ UNCHANGED <<mode, last_cb_time, ackermann_msg, due, forwarded, stray>>

Next ==
  \/ \E stamp \in Stamp, c \in Command : JoyCallback(stamp, c)
  \/ \E stamp \in Stamp, c \in Command : KbCallback(stamp, c)
  \/ \E v \in Speed, omega \in Angle : NavCallback(v, omega)
  \/ \E data \in BOOLEAN : EstopCallback(data)
  \/ PubTimerCallback
  \/ Tick

Spec == Init /\ [][Next]_vars

----------------------------------------------------------------------------
\* Authority.  Whoever drives, no source above it is live: the vehicle never
\* keeps following a command after a higher source has spoken, whatever the
\* order of arrival and whatever stamps the messages carry.
Authority ==
  mode \in Source => ~Held(mode, last_cb_time)

\* A stopped multiplexer has a full halt (speed and wheels) on the wire, and
\* keeps it there: commands that were queued behind the stop are swallowed.
EstopHoldsHalt ==
  mode = ESTOP => ackermann_msg = Halt

\* Bounded staleness.  A vehicle in motion has a driver whose command was
\* forwarded less than one timer round ago, or some source whose stamp was
\* within the timeout less than one round ago.  So a vehicle nobody commands
\* stops after at most Timeout + 4 * Timeout (+ the timer's latency), unless
\* a stray release cleared the mode under a moving vehicle.
Round == Period + Latency
StaleCommandStops ==
  ackermann_msg.speed # 0 /\ ~stray =>
    \/ now <= forwarded + Round
    \/ \E p \in Source : now <= last_cb_time[p] + Timeout + Round

\* The time-free promise, for every reading of the stamps.
ImplementsArbiter == Arbiter!Spec
=============================================================================
