--------------------------- MODULE MCMultiplexer ---------------------------
(***************************************************************************)
(* A small multiplexer for TLC: forward or standing still, straight or     *)
(* left.  Stamps are unset (0), or around the times at which the timer and *)
(* the timeout meet, and the last one lies beyond the end of the clock: a  *)
(* sender whose clock is ahead.                                            *)
(***************************************************************************)
EXTENDS Multiplexer

MCSpeed == {0, 1}
MCAngle == {0, 1}
MCStamp == {0, 2, 5, 12}
=============================================================================
