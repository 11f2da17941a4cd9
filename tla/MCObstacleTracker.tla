------------------------- MODULE MCObstacleTracker -------------------------
(***************************************************************************)
(* The tracker for TLC: three distances that correspond, one that does not *)
(***************************************************************************)
EXTENDS ObstacleTracker

MCCost == 0 .. 3
=============================================================================
