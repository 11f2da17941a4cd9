---------------------------- MODULE CommandPath ----------------------------
(***************************************************************************)
(* From the people and programs that command the vehicle to its motor:     *)
(*                                                                         *)
(*   estop_node, joy_listener, stop_near_obs --/commands/estop--+          *)
(*   joy_listener ---------------------------/commands/joy------+          *)
(*   send_cmd -------------------------------/commands/keyboard-+-> mux    *)
(*   navigation stack -----------------------/commands/cmd_vel--+          *)
(*   mux --/commands/ackermann--> CmdPublisher --speed, position--> VESC   *)
(*   estop_node, joy_listener --/commands/motor/brake--> VESC driver       *)
(*                                                                         *)
(* Every arrow is a ROS topic: a bounded queue that drops its oldest       *)
(* message when full; topics are not ordered with respect to each other.   *)
(* The multiplexer is taken without its clock (CommandArbiter, which       *)
(* Multiplexer implements), so a behaviour is not cut off at a last tick   *)
(* and liveness can be checked.                                            *)
(***************************************************************************)
EXTENDS Integers, Sequences

CONSTANTS
  Speed, Angle,       \* the range of commands
  Drives,             \* the commands the keyboard and the navigation stack send
  Joy,                \* joystick messages
  SpeedGain, SpeedOffset, SteeringGain, SteeringOffset, MotorRate, ServoRate,
  speed_limit_, servo_limit_, brake_limit_,
  WallClock,          \* seconds since 1970, or any long time
  Deployments,        \* sets of the nodes launched, and of the faults met
  Capacity,           \* of every topic but /commands/estop (10 in the code)
  MaxFlips,           \* bound: times the transmitter is pressed or released
  MaxRestarts         \* bound: respawns of nodes

VARIABLES
  deployed,                                  \* fixed by the launch files
  pin, prev_pin_val, sampled,                \* estop_node
  last_joy_msg, msg_received, first_msg_received, active, estop_data, speed,
                                             \* joy_listener
  prev_stop,                                 \* stop_near_obs
  mode, live, output,                        \* the multiplexer
  last_speed_, target_speed_, last_pos_, target_pos_,
  last_pub_motor_time_, last_pub_servo_time_, \* CmdPublisher
  driver_mode_, fw_version_major_, fw_version_minor_, rx, motor, servo,
                                             \* vesc_driver and the VESC
  topic,                                     \* messages on their way
  flips, restarts,                           \* counters for the bounds
  synced,      \* history: vesc_interface has published since it started
  announced    \* history: estop_node's last e-stop since it started was TRUE

Button  == INSTANCE EstopNode
JoyNode == INSTANCE JoyListener
Laser   == INSTANCE StopNearObs
Mux     == INSTANCE CommandArbiter
Driver  == INSTANCE VescDriver WITH FwMajor <- 2, FwMinor <- 18
Cmd     == INSTANCE CmdPublisher WITH
  limit_motor_ <- TRUE, limit_servo_ <- TRUE,      \* vesc_interface.yaml
  smooth_motor_ <- FALSE, smooth_servo_ <- FALSE

buttonVars == <<pin, prev_pin_val, sampled, announced, flips>>
joyVars    == <<last_joy_msg, msg_received, first_msg_received, active, estop_data,
                speed>>
muxVars    == <<mode, live, output, synced>>
cmdVars    == <<last_speed_, target_speed_, last_pos_, target_pos_,
                last_pub_motor_time_, last_pub_servo_time_>>
driverVars == <<driver_mode_, fw_version_major_, fw_version_minor_, rx, motor, servo>>
vars == <<deployed, buttonVars, joyVars, prev_stop, muxVars, cmdVars, driverVars,
          topic, restarts>>

Topic == {"estop", "joy", "keyboard", "cmd_vel", "ackermann", "speed", "position",
          "brake"}

Runs(name) == name \in deployed

\* Some processes publish and subscribe in the same binary or launch file;
\* each name below is a node, or a fault that may happen in the deployment.
Node == {"estop_node", "joy_listener", "stop_near_obs", "send_cmd", "navigation",
         "vesc_boot", "estop_node_restart", "vesc_interface_restart"}
ASSUME PathAssumption ==
  /\ Deployments \subseteq SUBSET Node
  /\ Drives \subseteq [speed : Speed, steering_angle : Angle]
  /\ Speed \subseteq Int /\ Angle \subseteq Int
  /\ Joy \subseteq [toggle : BOOLEAN, brake : BOOLEAN, stop : BOOLEAN,
                    vel : -1 .. 1, steer : -1 .. 1]
  /\ Capacity \in Nat \ {0}
  /\ MaxFlips \in Nat /\ MaxRestarts \in Nat

\* What the constructor of CommandLimit leaves; the speed that stands for
\* standing still is in the range.
ASSUME LimitAssumption ==
  /\ \A limit \in {speed_limit_, servo_limit_, brake_limit_} :
       /\ limit.lower \in Int /\ limit.upper \in Int
       /\ limit.lower <= limit.upper
  /\ speed_limit_.lower <= SpeedOffset /\ SpeedOffset <= speed_limit_.upper

\* The speeds and angles in a command; the joystick asks for -2 .. 3 m/s.
Speeds == Speed \cup {-2, 0, 3}
Angles == Angle \cup -1 .. 1
Sent   == [speed : Speeds, steering_angle : Angles]

\* The gains and offsets are numbers, and since 1970 the motor and the servo
\* could have come from any command to any other, and the motor from 0 rpm to
\* any command, at their allowed rates.
ASSUME GainAssumption ==
  /\ SpeedGain \in Int /\ SpeedOffset \in Int /\ SteeringGain \in Int /\ SteeringOffset \in Int
  /\ MotorRate \in Nat /\ ServoRate \in Nat /\ WallClock \in Nat
  /\ \A a, b \in Speeds : SpeedGain * a - SpeedGain * b <= MotorRate * WallClock
  /\ \A a \in Speeds : /\ SpeedGain * a + SpeedOffset <= MotorRate * WallClock
                      /\ -(SpeedGain * a + SpeedOffset) <= MotorRate * WallClock
  /\ \A a, b \in Angles : SteeringGain * a - SteeringGain * b <= ServoRate * WallClock

----------------------------------------------------------------------------
\* Topics.  Two ways to get a queue wrong come first.
NewestDropped(q, n) == IF Len(q) <= n THEN q ELSE SubSeq(q, 1, n)
NothingDropped(q, n) == q
Newest(q, n) == IF Len(q) <= n THEN q ELSE SubSeq(q, Len(q) - n + 1, Len(q))

Limit(t) == IF t = "estop" THEN 1 ELSE Capacity

\* The topics after msgs, a function from topics to sequences, is published.
Published(at, msgs) ==
  [t \in Topic |-> IF t \in DOMAIN msgs THEN Newest(at[t] \o msgs[t], Limit(t)) ELSE at[t]]

Taken(t) == [topic EXCEPT ![t] = Tail(@)]

On(t, msgs) == [u \in {t} |-> msgs]

----------------------------------------------------------------------------
Init ==
  /\ deployed \in Deployments
  /\ Button!Init /\ flips = 0 /\ announced = FALSE
  /\ JoyNode!Init
  /\ Laser!Init
  /\ Mux!Init /\ synced = FALSE     \* the constructor's halt has no subscriber yet
  /\ Cmd!Init
  /\ Driver!PowerOn(SteeringOffset)
  /\ IF Runs("vesc_boot")
       THEN Driver!Init
       ELSE /\ driver_mode_ = "OPERATING" /\ rx = "idle"
            /\ fw_version_major_ = 2 /\ fw_version_minor_ = 18
  /\ topic = [t \in Topic |-> <<>>]
  /\ restarts = 0

----------------------------------------------------------------------------
\* The kill switch and its listener.
FlipPin ==
  /\ Runs("estop_node") /\ flips < MaxFlips
  /\ Button!Flip
  /\ flips' = flips + 1
  /\ UNCHANGED <<deployed, announced, joyVars, prev_stop, muxVars, cmdVars,
                 driverVars, topic, restarts>>

PollPin ==
  /\ Runs("estop_node")
  /\ Button!Poll
  /\ topic' = Published(topic, [t \in {"estop", "brake"} |->
                 IF t = "estop" THEN Button!EstopSent ELSE Button!BrakeSent])
  /\ announced' = IF Button!EstopSent = <<>> THEN announced ELSE Button!EstopSent[1]
  /\ UNCHANGED <<deployed, flips, joyVars, prev_stop, muxVars, cmdVars, driverVars,
                 restarts>>

RestartEstopNode ==
  /\ Runs("estop_node") /\ Runs("estop_node_restart") /\ restarts < MaxRestarts
  /\ Button!Restart
  /\ announced' = FALSE
  /\ restarts' = restarts + 1
  /\ UNCHANGED <<deployed, flips, joyVars, prev_stop, muxVars, cmdVars, driverVars,
                 topic>>

\* The joystick: a message from the driver, and the 10 Hz timer.
JoyMessage(m) ==
  /\ Runs("joy_listener")
  /\ JoyNode!JoyCb(m)
  /\ UNCHANGED <<deployed, buttonVars, prev_stop, muxVars, cmdVars, driverVars,
                 topic, restarts>>

JoyTimer ==
  /\ Runs("joy_listener")
  /\ JoyNode!JoyTimerCb
  /\ topic' = Published(topic, [t \in {"estop", "brake", "joy"} |->
                 CASE t = "estop" -> JoyNode!EstopSent
                   [] t = "brake" -> JoyNode!BrakeSent
                   [] t = "joy"   -> JoyNode!DriveSent])
  /\ UNCHANGED <<deployed, buttonVars, prev_stop, muxVars, cmdVars, driverVars,
                 restarts>>

\* The laser stop.
LaserScan(near) ==
  /\ Runs("stop_near_obs")
  /\ Laser!ScanCb(near)
  /\ topic' = Published(topic, On("estop", Laser!EstopSent(near)))
  /\ UNCHANGED <<deployed, buttonVars, joyVars, muxVars, cmdVars, driverVars, restarts>>

\* A line typed to send_cmd: the command keeps what the line does not set,
\* so any combination may follow any other.
SendCmd(c) ==
  /\ Runs("send_cmd")
  /\ topic' = Published(topic, On("keyboard", <<c>>))
  /\ UNCHANGED <<deployed, buttonVars, joyVars, prev_stop, muxVars, cmdVars,
                 driverVars, restarts>>

\* The navigation stack's velocity command.
Navigate(c) ==
  /\ Runs("navigation")
  /\ topic' = Published(topic, On("cmd_vel", <<c>>))
  /\ UNCHANGED <<deployed, buttonVars, joyVars, prev_stop, muxVars, cmdVars,
                 driverVars, restarts>>

----------------------------------------------------------------------------
\* The multiplexer's callbacks, in the vesc_interface process.
MuxEstop ==
  /\ topic["estop"] # <<>>
  /\ LET data == Head(topic["estop"])
         told == data /\ mode # Mux!ESTOP
     IN /\ IF data THEN Mux!Stop ELSE Mux!Release
        /\ topic' = Published(Taken("estop"),
                              On("ackermann", IF told THEN <<output'>> ELSE <<>>))
        /\ synced' = (synced \/ told)
  /\ UNCHANGED <<deployed, buttonVars, joyVars, prev_stop, cmdVars, driverVars,
                 restarts>>

SourceTopic(p) ==
  IF p = Mux!JOY THEN "joy" ELSE IF p = Mux!KB THEN "keyboard" ELSE "cmd_vel"

\* Joystick and keyboard messages may have aged on their way; a navigation
\* message is stamped when it is served.
MuxCommand(p, fresh) ==
  LET t == SourceTopic(p)
  IN /\ topic[t] # <<>>
     /\ p = Mux!NAV => fresh
     /\ Mux!Receive(p, Head(topic[t]), fresh)
     /\ LET told == Mux!MayDrive(p, live')
        IN /\ topic' = Published(Taken(t),
                                 On("ackermann", IF told THEN <<output'>> ELSE <<>>))
           /\ synced' = (synced \/ told)
     /\ UNCHANGED <<deployed, buttonVars, joyVars, prev_stop, cmdVars, driverVars,
                    restarts>>

MuxIdle ==
  /\ Mux!Idle
  /\ topic' = Published(topic, On("ackermann", <<output'>>))
  /\ UNCHANGED <<deployed, synced, buttonVars, joyVars, prev_stop, cmdVars,
                 driverVars, restarts>>

Age ==
  /\ Mux!Age
  /\ UNCHANGED <<deployed, synced, buttonVars, joyVars, prev_stop, cmdVars,
                 driverVars, topic, restarts>>

\* CmdPublisher's callback, in the same process.
PublishCmd ==
  /\ topic["ackermann"] # <<>>
  /\ LET c == Head(topic["ackermann"])
     IN /\ Cmd!AckermannCmdCallback(c, WallClock)
        /\ topic' = Published(Taken("ackermann"), [t \in {"speed", "position"} |->
                      IF t = "speed" THEN Cmd!SpeedSent(c, WallClock) ELSE Cmd!PosSent(c, WallClock)])
  /\ UNCHANGED <<deployed, buttonVars, joyVars, prev_stop, muxVars, driverVars,
                 restarts>>

\* vesc_interface dies and is respawned: the stop and the mode are forgotten,
\* what was queued inside it is lost, what it had sent to the driver may be,
\* and nothing new is sent to the motor.
RestartVescInterface ==
  /\ Runs("vesc_interface_restart") /\ restarts < MaxRestarts
  /\ mode' = Mux!DEFAULT /\ live' = {} /\ output' = Mux!Halt /\ synced' = FALSE
  /\ last_speed_' = 0 /\ target_speed_' = 0
  /\ last_pos_' = SteeringOffset /\ target_pos_' = SteeringOffset
  /\ UNCHANGED <<last_pub_motor_time_, last_pub_servo_time_>>
  /\ \E kept \in SUBSET {"speed", "position"} :
       topic' = [t \in Topic |-> IF t = "brake" \/ t \in kept THEN topic[t] ELSE <<>>]
  /\ restarts' = restarts + 1
  /\ UNCHANGED <<deployed, buttonVars, joyVars, prev_stop, driverVars>>

----------------------------------------------------------------------------
\* The VESC driver.
DriverUnchanged ==
  UNCHANGED <<deployed, buttonVars, joyVars, prev_stop, muxVars, cmdVars, restarts>>

DriverTimer   == Driver!TimerCallback /\ DriverUnchanged /\ UNCHANGED topic
DriverVersion == (Driver!RxMajor \/ Driver!RxMinor) /\ DriverUnchanged /\ UNCHANGED topic

DriverCommand(t) ==
  /\ topic[t] # <<>>
  /\ CASE t = "speed"    -> Driver!SpeedCallback(Head(topic[t]))
       [] t = "brake"    -> Driver!BrakeCallback(Head(topic[t]))
       [] t = "position" -> Driver!ServoCallback(Head(topic[t]))
  /\ topic' = Taken(t)
  /\ DriverUnchanged

----------------------------------------------------------------------------
Next ==
  \/ FlipPin \/ PollPin \/ RestartEstopNode
  \/ \E m \in Joy : JoyMessage(m)
  \/ JoyTimer
  \/ \E near \in BOOLEAN : LaserScan(near)
  \/ \E c \in Drives : SendCmd(c)
  \/ \E c \in Drives : Navigate(c)
  \/ MuxEstop
  \/ \E p \in Mux!Source, fresh \in BOOLEAN : MuxCommand(p, fresh)
  \/ MuxIdle \/ Age
  \/ PublishCmd
  \/ RestartVescInterface
  \/ DriverTimer \/ DriverVersion
  \/ \E t \in {"speed", "brake", "position"} : DriverCommand(t)

\* The nodes' loops, timers and subscriptions are served forever; nothing is
\* assumed of the people, of ageing stamps or of faults.
Fairness ==
  /\ WF_vars(PollPin)
  /\ WF_vars(MuxEstop)
  /\ WF_vars(PublishCmd)
  /\ \A t \in {"speed", "position"} : WF_vars(DriverCommand(t))

Spec     == Init /\ [][Next]_vars
FairSpec == Spec /\ Fairness

----------------------------------------------------------------------------
Message(t) ==
  CASE t = "estop" -> BOOLEAN
    [] t \in {"joy", "keyboard", "cmd_vel", "ackermann"} -> Sent
    [] OTHER -> Int

TopicsOK(at) ==
  /\ at = [t \in Topic |-> at[t]]
  /\ \A t \in Topic : at[t] \in Seq(Message(t)) /\ Len(at[t]) <= Limit(t)

\* The publisher has moved to what some command asked for, or has had none, and
\* reads the time of its last publication as zero.
CmdTypeOK ==
  /\ last_speed_ = 0 \/ \E v \in Speeds : last_speed_ = SpeedGain * v + SpeedOffset
  /\ \E a \in Angles : last_pos_ = SteeringGain * a + SteeringOffset
  /\ last_pub_motor_time_ = 0 /\ last_pub_servo_time_ = 0

\* The ranges of the variables, and no topic holds more than its queue size.
TypeOK ==
  /\ deployed \in Deployments
  /\ Button!TypeOK /\ JoyNode!TypeOK /\ prev_stop \in BOOLEAN
  /\ mode \in Mux!Mode /\ live \subseteq Mux!Source /\ output \in Sent
  /\ CmdTypeOK
  /\ Driver!TypeOK
  /\ TopicsOK(topic)
  /\ synced \in BOOLEAN /\ announced \in BOOLEAN

Quiet(topics) == \A t \in topics : topic[t] = <<>>

\* The motor is told another speed than that of a vehicle that stands.
Driving == motor.kind = "speed" /\ motor.value # SpeedOffset

\* Once everything the multiplexer sent has been served, the motor and the
\* servo obey the last command it published, converted and clipped: nothing
\* dropped, limited or reordered on the way leaves them with an older one.
DrainedAgrees ==
  synced /\ Quiet({"ackermann", "speed", "position"}) =>
    /\ motor.kind = "speed" =>
         motor.value = Driver!Clip(speed_limit_, SpeedGain * output.speed + SpeedOffset)
    /\ servo = Driver!Clip(servo_limit_,
                           SteeringGain * output.steering_angle + SteeringOffset)

\* A stopped multiplexer whose messages were served has a motor at rest.
StopDrains ==
  mode = Mux!ESTOP /\ Quiet({"ackermann", "speed"}) => ~Driving

Stoppers == {"estop_node", "joy_listener", "stop_near_obs"}
Faults   == {"estop_node_restart", "vesc_interface_restart"}

Alone(faults) == deployed \cap (Stoppers \cup faults) = {"estop_node"}

\* While the kill switch is the only stopper and no node dies, a stop that
\* the listener announced and did not call off is in force once the topic is
\* served, and a stop is in force only then.
LatchFollowsSwitch ==
  Alone(Faults) /\ Quiet({"estop"}) => (announced <=> mode = Mux!ESTOP)

\* A press that the listener can see (it saw the pin low before) stops the
\* vehicle, unless the switch is released again or the listener dies first.
PressStops ==
  (Alone({"vesc_interface_restart"}) /\ Button!Pressed /\ sampled) ~>
    (mode = Mux!ESTOP /\ ~Driving) \/ pin = Button!low \/ ~sampled

\* README: the kill switch stops the vehicle when the transmitter is pressed.
KillSwitchHolds ==
  announced /\ pin = Button!high /\ Quiet(Topic) => ~Driving

\* The comment in the supervision timer: without input, the default, speed 0.
NoInputStops ==
  synced /\ mode = Mux!DEFAULT /\ live = {} /\ Quiet(Topic) => ~Driving
=============================================================================
