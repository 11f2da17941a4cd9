---------------------------- MODULE CmdPublisher ----------------------------
(***************************************************************************)
(* The command publisher (vesc_interface/src/cmd_publisher.cpp): from a    *)
(* drive command to a motor speed (electrical rpm) and a servo position    *)
(* (thousandths of the servo's range), limited in their rate of change.    *)
(* With a smoother rate, which the parameter file leaves out, the callback *)
(* only notes where to go and publishes nothing.                           *)
(*                                                                         *)
(* Speeds are whole m/s, steering angles -1, 0, 1 (full lock or straight), *)
(* times whole seconds.                                                    *)
(***************************************************************************)
EXTENDS Integers

CONSTANTS
  SpeedGain, SpeedOffset,     \* speed_gain_: rpm per m/s; speed_offset_: the rpm
                              \* that stand for standing still
  SteeringGain,               \* steering_gain_ at full lock
  SteeringOffset,             \* steering_offset_: wheels straight
  MotorRate,                  \* |speed_gain_ * max_motor_accel_|: rpm per second
  ServoRate,                  \* |steering_gain_ * max_servo_speed_|: per second
  limit_motor_, limit_servo_, \* is max_motor_accel / max_servo_speed given?
  smooth_motor_, smooth_servo_    \* is a smoother rate given?

VARIABLES
  last_speed_, target_speed_,
  last_pos_, target_pos_,
  last_pub_motor_time_, last_pub_servo_time_

vars == <<last_speed_, target_speed_, last_pos_, target_pos_,
          last_pub_motor_time_, last_pub_servo_time_>>

Init ==
  /\ last_speed_ = 0 /\ target_speed_ = 0
  /\ last_pos_ = SteeringOffset /\ target_pos_ = SteeringOffset
  /\ last_pub_motor_time_ = 0 /\ last_pub_servo_time_ = 0

----------------------------------------------------------------------------
Lesser(a, b)  == IF a < b THEN a ELSE b
Greater(a, b) == IF a > b THEN a ELSE b

\* The change chg, kept within max either way.
Limited(limit, chg, max) ==
  IF limit THEN Greater(Lesser(chg, max), -max) ELSE chg

TargetSpeed(c) == SpeedGain * c.speed + SpeedOffset
TargetPos(c)   == SteeringGain * c.steering_angle + SteeringOffset

\* The motor speed and the servo position the callback moves to at time now.
NextSpeed(c, now) ==
  last_speed_ + Limited(limit_motor_, TargetSpeed(c) - last_speed_,
                        MotorRate * (now - last_pub_motor_time_))
NextPos(c, now) ==
  last_pos_ + Limited(limit_servo_, TargetPos(c) - last_pos_,
                      ServoRate * (now - last_pub_servo_time_))

\* What the callback publishes on commands/motor/speed and servo/position.
SpeedSent(c, now) == IF smooth_motor_ THEN <<>> ELSE <<NextSpeed(c, now)>>
PosSent(c, now)   == IF smooth_servo_ THEN <<>> ELSE <<NextPos(c, now)>>

\* A drive command.  The times of the last publications are read, and are
\* assigned nowhere.
AckermannCmdCallback(c, now) ==
  /\ target_speed_' = TargetSpeed(c)
  /\ target_pos_' = TargetPos(c)
  /\ last_speed_' = IF smooth_motor_ THEN last_speed_ ELSE NextSpeed(c, now)
  /\ last_pos_' = IF smooth_servo_ THEN last_pos_ ELSE NextPos(c, now)
  /\ UNCHANGED <<last_pub_motor_time_, last_pub_servo_time_>>
=============================================================================
