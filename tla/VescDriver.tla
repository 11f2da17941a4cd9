----------------------------- MODULE VescDriver -----------------------------
(***************************************************************************)
(* The VESC driver node (vesc_driver/src/vesc_driver.cpp).  A 50 Hz timer  *)
(* asks for the firmware version until it is known and polls telemetry     *)
(* afterwards; command callbacks clip and send; the receive thread of      *)
(* VescInterface calls vescPacketCallback concurrently with them.  The     *)
(* motor controller itself obeys the last command it was sent.             *)
(***************************************************************************)
EXTENDS Integers

CONSTANTS
  FwMajor, FwMinor,            \* the version the controller reports
  speed_limit_, servo_limit_,  \* [lower, upper], as the constructor leaves them
  brake_limit_

VARIABLES
  driver_mode_,                         \* driver_mode_
  fw_version_major_, fw_version_minor_, \* -1: unknown
  rx,      \* the receive thread: idle, with a version packet, or between the
           \* two assignments that record it
  motor,   \* the controller: the last motor command, [kind, value]
  servo    \* the controller: the last servo position

vars == <<driver_mode_, fw_version_major_, fw_version_minor_, rx, motor, servo>>

TypeOK ==
  /\ driver_mode_ \in {"INITIALIZING", "OPERATING"}
  /\ fw_version_major_ \in {-1, FwMajor} /\ fw_version_minor_ \in {-1, FwMinor}
  /\ rx \in {"idle", "version", "half"}
  /\ motor \in [kind : {"none", "speed", "brake"}, value : Int]
  /\ servo \in Int

Init ==
  /\ driver_mode_ = "INITIALIZING"
  /\ fw_version_major_ = -1 /\ fw_version_minor_ = -1
  /\ rx = "idle"

\* Nothing was commanded since the controller was switched on.
PowerOn(straight) == motor = [kind |-> "none", value |-> 0] /\ servo = straight

----------------------------------------------------------------------------
\* CommandLimit::clip
Clip(limit, value) ==
  IF value < limit.lower THEN limit.lower
  ELSE IF value > limit.upper THEN limit.upper
  ELSE value

VersionKnown == fw_version_major_ >= 0 /\ fw_version_minor_ >= 0

\* The timer: ask for the version (the controller answers or the answer is
\* lost), and operate once both numbers are there.
TimerCallback ==
  \/ /\ driver_mode_ = "INITIALIZING"
     /\ driver_mode_' = IF VersionKnown THEN "OPERATING" ELSE driver_mode_
     /\ rx' \in IF rx = "idle" THEN {"idle", "version"} ELSE {rx}
     /\ UNCHANGED <<fw_version_major_, fw_version_minor_, motor, servo>>
  \/ /\ driver_mode_ = "OPERATING"      \* requestState: telemetry only
     /\ UNCHANGED vars

\* vescPacketCallback on a version packet, in the receive thread: two
\* assignments without a lock.
RxMajor ==
  /\ rx = "version"
  /\ fw_version_major_' = FwMajor
  /\ rx' = "half"
  /\ UNCHANGED <<driver_mode_, fw_version_minor_, motor, servo>>

RxMinor ==
  /\ rx = "half"
  /\ fw_version_minor_' = FwMinor
  /\ rx' = "idle"
  /\ UNCHANGED <<driver_mode_, fw_version_major_, motor, servo>>

\* The command callbacks test `driver_mode_ = MODE_OPERATING`, an assignment:
\* the command is always sent, and the driver operates from then on.
Accept ==
  /\ driver_mode_' = "OPERATING"
  /\ UNCHANGED <<fw_version_major_, fw_version_minor_, rx>>

SpeedCallback(v) ==
  /\ Accept
  /\ motor' = [kind |-> "speed", value |-> Clip(speed_limit_, v)]
  /\ UNCHANGED servo

BrakeCallback(v) ==
  /\ Accept
  /\ motor' = [kind |-> "brake", value |-> Clip(brake_limit_, v)]
  /\ UNCHANGED servo

ServoCallback(v) ==
  /\ Accept
  /\ servo' = Clip(servo_limit_, v)
  /\ UNCHANGED motor
=============================================================================
