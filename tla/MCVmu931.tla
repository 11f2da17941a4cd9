----------------------------- MODULE MCVmu931 -------------------------------
(***************************************************************************)
(* The IMU for TLC: two streams that make up an IMU message and one that   *)
(* nobody wants.                                                           *)
(***************************************************************************)
EXTENDS Vmu931

MCStreams == {"accel", "quat", "euler"}
MCImuStreams == {"accel", "quat"}
============================================================================
