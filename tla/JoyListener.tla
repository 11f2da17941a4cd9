---------------------------- MODULE JoyListener ----------------------------
(***************************************************************************)
(* The joystick node (user_interface/src/joy_listener.cpp).  joyCb keeps   *)
(* the latest joystick message; a 10 Hz timer turns it into e-stop, brake  *)
(* and drive commands.  Once a message has come the timer goes on forever, *)
(* from the last message there was.                                        *)
(***************************************************************************)
EXTENDS Integers

CONSTANT Joy    \* joystick messages: [toggle, brake, stop : BOOLEAN,
                \*   vel, steer : -1 .. 1], axes pushed home or at rest

NoMsg == [toggle |-> FALSE, brake |-> FALSE, stop |-> FALSE, vel |-> 0, steer |-> 0]

VARIABLES
  last_joy_msg, msg_received, first_msg_received,
  active,         \* driving commands are being sent
  estop_data,     \* estop_msg.data, the last e-stop published
  speed           \* cmd.drive.speed, kept while the brake button is held

vars == <<last_joy_msg, msg_received, first_msg_received, active, estop_data, speed>>

TypeOK ==
  /\ last_joy_msg \in Joy \cup {NoMsg}
  /\ msg_received \in BOOLEAN /\ first_msg_received \in BOOLEAN
  /\ active \in BOOLEAN /\ estop_data \in BOOLEAN
  /\ speed \in {-2, 0, 3}

Init ==
  /\ last_joy_msg = NoMsg
  /\ msg_received = FALSE /\ first_msg_received = FALSE
  /\ active = FALSE /\ estop_data = FALSE
  /\ speed = 0

\* Axis deflection to m/s: cubed, 3 m/s forward and 2 m/s backward at most.
AxisToSpeed(a) == IF a > 0 THEN a * a * a * 3 ELSE IF a < 0 THEN a * a * a * 2 ELSE 0

Awake     == first_msg_received \/ msg_received
NowActive == IF msg_received /\ last_joy_msg.toggle THEN ~active ELSE active
NowSpeed  == IF last_joy_msg.brake THEN speed ELSE AxisToSpeed(last_joy_msg.vel)

\* What one timer call publishes on the e-stop, the brake and the drive topic.
EstopSent ==
  IF ~Awake THEN <<>>
  ELSE IF msg_received /\ last_joy_msg.stop THEN <<TRUE>>
  ELSE IF ~last_joy_msg.stop /\ estop_data THEN <<FALSE>>
  ELSE <<>>
BrakeSent == IF Awake /\ NowActive /\ last_joy_msg.brake THEN <<5>> ELSE <<>>
DriveSent ==
  IF Awake /\ NowActive
    THEN <<[speed |-> NowSpeed, steering_angle |-> last_joy_msg.steer]>>
    ELSE <<>>

JoyTimerCb ==
  /\ Awake
  /\ first_msg_received' = TRUE
  /\ active' = NowActive
  /\ estop_data' = IF EstopSent = <<>> THEN estop_data ELSE EstopSent[1]
  /\ speed' = IF NowActive THEN NowSpeed ELSE speed
  /\ msg_received' = FALSE
  /\ UNCHANGED last_joy_msg

JoyCb(msg) ==
  /\ last_joy_msg' = msg
  /\ msg_received' = TRUE
  /\ UNCHANGED <<first_msg_received, active, estop_data, speed>>
=============================================================================
