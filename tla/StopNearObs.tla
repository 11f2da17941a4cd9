---------------------------- MODULE StopNearObs ----------------------------
(***************************************************************************)
(* The obstacle stop (user_interface/src/stop_near_obs.cpp): an e-stop     *)
(* when a laser return comes nearer than half a metre, its release when    *)
(* none is.  Whether some return of a scan is near is the scan's only      *)
(* content here.                                                           *)
(***************************************************************************)

VARIABLE prev_stop

Init == prev_stop = FALSE

EstopSent(near) ==
  IF near /\ ~prev_stop THEN <<TRUE>>
  ELSE IF ~near /\ prev_stop THEN <<FALSE>>
  ELSE <<>>

ScanCb(near) == prev_stop' = near
=============================================================================
