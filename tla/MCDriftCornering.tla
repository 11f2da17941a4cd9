-------------------------- MODULE MCDriftCornering --------------------------
(***************************************************************************)
(* Drift cornering for TLC: every constant is a number of the cfg.         *)
(***************************************************************************)
EXTENDS DriftCornering
=============================================================================
