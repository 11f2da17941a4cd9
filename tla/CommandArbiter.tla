--------------------------- MODULE CommandArbiter ---------------------------
(***************************************************************************)
(* What the command multiplexer of vesc_interface promises, without time.  *)
(*                                                                         *)
(* Three sources send drive commands; a source with a larger number has    *)
(* precedence.  A source is LIVE while its latest message is recent enough *)
(* to hold off the sources below it.  When messages age is left open here  *)
(* (action Age); module Multiplexer says it with time stamps and           *)
(* implements this specification.                                          *)
(***************************************************************************)
EXTENDS Integers

CONSTANTS
  Speed,    \* the speeds a command may ask for, 0 among them
  Angle     \* the steering angles, 0 = straight ahead among them

JOY     == 3
KB      == 2
NAV     == 1
DEFAULT == 0
ESTOP   == -1     \* mode_ while stopped

Source  == {NAV, KB, JOY}
Mode    == Source \cup {DEFAULT, ESTOP}
Command == [speed : Speed, steering_angle : Angle]
Halt    == [speed |-> 0, steering_angle |-> 0]

VARIABLES
  mode,     \* who drives: a source, DEFAULT or ESTOP
  live,     \* the sources whose latest message still holds off lower ones
  output    \* the command last published to the vehicle

vars == <<mode, live, output>>

TypeOK ==
  /\ mode \in Mode
  /\ live \subseteq Source
  /\ output \in Command

Init ==
  /\ mode = DEFAULT
  /\ live = {}
  /\ output = Halt

----------------------------------------------------------------------------
\* p may drive: the vehicle is not stopped and no source above p is in L.
MayDriveIgnoringStop(p, L) == \A q \in L : q <= p
MayDrive(p, L) == mode # ESTOP /\ \A q \in L : q <= p

\* A command of source p arrives; `fresh` says whether its stamp is recent.
Receive(p, c, fresh) ==
  /\ live' = IF fresh THEN live \cup {p} ELSE live \ {p}
  /\ IF MayDrive(p, live')
       THEN mode' = p /\ output' = c
       ELSE UNCHANGED <<mode, output>>

\* Time passes: sources may fall silent.
Age ==
  /\ live' \in SUBSET live
  /\ UNCHANGED <<mode, output>>

StopSilently ==
  /\ mode' = ESTOP
  /\ UNCHANGED <<live, output>>

\* An emergency stop: the vehicle is halted once, on the way in.
Stop ==
  /\ IF mode # ESTOP THEN output' = Halt ELSE UNCHANGED output
  /\ mode' = ESTOP
  /\ UNCHANGED live

\* The emergency stop is called off (whether or not one was in force).
Release ==
  /\ mode' = DEFAULT
  /\ UNCHANGED <<live, output>>

\* The supervision timer finds a driver and no live source: it stops the car
\* and leaves the wheels as they are.
Idle ==
  /\ mode \in Source
  /\ live = {}
  /\ mode' = DEFAULT
  /\ output' = [output EXCEPT !.speed = 0]
  /\ UNCHANGED live

Next ==
  \/ \E p \in Source, c \in Command, fresh \in BOOLEAN : Receive(p, c, fresh)
  \/ Age
  \/ Stop
  \/ Release
  \/ Idle

Spec == Init /\ [][Next]_vars
=============================================================================
