------------------------- MODULE MCEvasiveManeuver -------------------------
(***************************************************************************)
(* The evasive manoeuvre for TLC: before, close to and behind the goal.    *)
(***************************************************************************)
EXTENDS EvasiveManeuver

MCDistance == {-1, 0, 5}
=============================================================================
