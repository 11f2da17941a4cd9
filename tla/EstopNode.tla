----------------------------- MODULE EstopNode -----------------------------
(***************************************************************************)
(* The kill-switch listener (jetson_gpio/src/estop_node.cpp): a loop, ten  *)
(* times a second, that samples the receiver's pin and publishes on an     *)
(* edge only.  prev_pin_val is declared without a value, so the first      *)
(* sample is compared with whatever was on the stack, and the node is      *)
(* respawned when it dies, which gives it a new stack.                     *)
(***************************************************************************)
EXTENDS Integers

low  == 0
high == 1
junk == 2          \* any other unsigned value an uninitialised word may hold

VARIABLES
  pin,             \* the level of the pin: the transmitter, outside the code
  prev_pin_val,    \* prev_pin_val
  sampled          \* history: the loop has sampled the pin since it started

vars == <<pin, prev_pin_val, sampled>>

TypeOK ==
  /\ pin \in {low, high}
  /\ prev_pin_val \in {low, high, junk}
  /\ sampled \in BOOLEAN

Init ==
  /\ pin \in {low, high}
  /\ prev_pin_val \in {low, high, junk}
  /\ sampled = FALSE

Pressed  == pin = high /\ prev_pin_val = low
Released == pin = low /\ prev_pin_val = high

\* What one turn of the loop publishes on /commands/motor/brake (amps) and on
\* /commands/estop.
BrakeSent == IF Pressed THEN <<2>> ELSE <<>>
EstopSwapped ==
  IF Pressed THEN <<FALSE>> ELSE IF Released THEN <<TRUE>> ELSE <<>>
EstopSent ==
  IF Pressed THEN <<TRUE>> ELSE IF Released THEN <<FALSE>> ELSE <<>>

\* One turn of the loop.
Poll ==
  /\ prev_pin_val' = pin
  /\ sampled' = TRUE
  /\ UNCHANGED pin

\* The node dies and roslaunch starts it again.
Restart ==
  /\ prev_pin_val' \in {low, high, junk}
  /\ sampled' = FALSE
  /\ UNCHANGED pin

\* Somebody presses or releases the transmitter.
Flip ==
  /\ pin' = 1 - pin
  /\ UNCHANGED <<prev_pin_val, sampled>>
=============================================================================
