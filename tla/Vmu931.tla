------------------------------- MODULE Vmu931 -------------------------------
(***************************************************************************)
(* The IMU driver (vmu931.cpp, msg_utils.cpp) and the device at the other  *)
(* end of the serial line.                                                 *)
(*                                                                         *)
(* The device's streams can only be toggled.  The driver asks for the      *)
(* status, toggles what differs from what it wants, waits a second and     *)
(* asks again, until nothing differs.  An answer may come after the driver *)
(* has asked once more; the answers carry no number, so from then on every *)
(* answer is taken for the answer to a later question.                     *)
(***************************************************************************)
EXTENDS Integers, Sequences

CONSTANTS
  Streams,        \* the measurements of the device
  ImuStreams,     \* those an IMU message is made of
  Enabled,        \* meas_enabled_
  AskPatience,    \* seconds until updateStatus gives up (5)
  SetPatience,    \* seconds until setSensorStatus gives up (10)
  Silence,        \* seconds without a measurement until it is set again (5)
  LineSize,       \* what the two directions of the line hold
  MaxResets       \* bound: how often the device forgets its settings

ASSUME Vmu931Assumption ==
  /\ ImuStreams \subseteq Enabled /\ Enabled \subseteq Streams /\ ImuStreams # {}
  /\ AskPatience \in Nat /\ SetPatience \in Nat /\ Silence \in Nat
  /\ LineSize \in Nat \ {0} /\ MaxResets \in Nat

VARIABLES
  pc,             \* "ask", "wait" and "rest" in updateStatus, "compare" and
                  \* "settle" in setSensorStatus, "spin", "down" after shutdown
  status,         \* the streams that data_status_ says are on
  asking,         \* seconds in updateStatus, at most AskPatience + 1
                  \* (0 outside, where its clock is gone)
  setting,        \* seconds in the loop of setSensorStatus, NotYet before it
  quiet,          \* seconds since last_time_, at most Silence + 1 (0 while
                  \* the streams are set, after which it is set)
  updated,        \* imu_msg_updated_
  active,         \* the device: streams that are on
  resets,         \* settings forgotten so far
  cmds, replies,  \* the line to the device and the status messages from it
  overtaken       \* history: the question was put while an answer was still to
                  \* come, or the device was reset since

driverVars == <<status, asking, setting, quiet>>
deviceVars == <<active, resets>>
vars == <<pc, driverVars, updated, deviceVars, cmds, replies, overtaken>>

NotYet == -1
Setting == {"ask", "wait", "rest", "compare", "settle"}

\* A command on the line: cmd_req_status, or the toggles of one round.
Question == [kind |-> "status", streams |-> {}]
Toggles(S) == [kind |-> "toggle", streams |-> S]
Command == {Question} \cup {Toggles(S) : S \in SUBSET Streams}

TypeOK ==
  /\ pc \in Setting \cup {"spin", "down"}
  /\ status \in SUBSET Streams
  /\ asking \in 0 .. AskPatience + 1
  /\ setting \in NotYet .. SetPatience + 1
  /\ quiet \in 0 .. Silence + 1
  /\ updated \in SUBSET ImuStreams
  /\ active \in SUBSET Streams /\ resets \in 0 .. MaxResets
  /\ cmds \in Seq(Command) /\ replies \in Seq(SUBSET Streams)
  /\ overtaken \in BOOLEAN

\* The constructor reaches updateStatus with the line flushed.  It sets neither
\* imu_msg_updated_, which holds whatever the memory held, nor the device.
Init ==
  /\ pc = "ask" /\ status = {}
  /\ asking = 0 /\ setting = NotYet /\ quiet = 0
  /\ updated \in SUBSET ImuStreams
  /\ active \in SUBSET Streams /\ resets = 0
  /\ cmds = <<>> /\ replies = <<>>
  /\ overtaken = FALSE

----------------------------------------------------------------------------
\* What does not fit on the line is lost, as is what a failed write leaves out.
Send(line, m) == IF Len(line) < LineSize THEN Append(line, m) ELSE line

Capped(n, bound) == IF n <= bound THEN n ELSE bound + 1
Toggled(S, T) == (S \ T) \cup (T \ S)

\* d seconds later; the loop of setSensorStatus has a clock only once it runs.
Elapse(d) ==
  /\ asking' = Capped(asking + d, AskPatience)
  /\ setting' = IF setting = NotYet THEN NotYet ELSE Capped(setting + d, SetPatience)

\* An answer is on its way or will be.
AnswerDue ==
  \/ replies # <<>>
  \/ \E i \in DOMAIN cmds : cmds[i].kind = "status"

----------------------------------------------------------------------------
\* updateStatus

\* sendCommand(cmd_req_status).  A port that cannot be written loses the question
\* and no more: then sendCommand ends without a value.  The loop would skip its
\* clock and ask again on -1, which is for commands that cannot be built, and
\* this one always can; that the missing value is no -1 is taken for granted.
Ask ==
  /\ pc = "ask"
  /\ cmds' \in {cmds, Send(cmds, Question)}
  /\ pc' = "wait"
  /\ overtaken' = AnswerDue
  /\ UNCHANGED <<driverVars, updated, deviceVars, replies>>

\* A status message is the first that loadMessage finds.
Read ==
  /\ pc = "wait" /\ replies # <<>>
  /\ status' = Head(replies)
  /\ replies' = Tail(replies)
  /\ asking' = 0
  /\ pc' = "compare"
  /\ UNCHANGED <<setting, quiet, updated, deviceVars, cmds, overtaken>>

\* A message whose bytes have not all arrived has the wrong footer.
Garbled ==
  /\ pc = "wait" /\ replies # <<>>
  /\ replies' = Tail(replies)
  /\ UNCHANGED <<pc, driverVars, updated, deviceVars, cmds, overtaken>>

\* As it would be without the test of the time that has passed.
MissForever ==
  /\ pc = "wait"
  /\ \E d \in 0 .. 1 : Elapse(d)
  /\ pc' = "rest"
  /\ UNCHANGED <<status, quiet, updated, deviceVars, cmds, replies, overtaken>>

\* A hundred messages without a status, or none at all: a second with a sleep
\* after each of them, no time once the budget of select is used up.
Miss ==
  /\ pc = "wait"
  /\ \E d \in 0 .. 1 : Elapse(d)
  /\ pc' = IF asking' > AskPatience THEN "down" ELSE "rest"
  /\ UNCHANGED <<status, quiet, updated, deviceVars, cmds, replies, overtaken>>

Rest ==
  /\ pc = "rest"
  /\ Elapse(1)
  /\ pc' = "ask"
  /\ UNCHANGED <<status, quiet, updated, deviceVars, cmds, replies, overtaken>>

----------------------------------------------------------------------------
\* setSensorStatus

AsWanted ==
  /\ pc = "compare" /\ status = Enabled
  /\ pc' = "spin"
  /\ setting' = NotYet
  /\ UNCHANGED <<status, asking, quiet, updated, deviceVars, cmds, replies, overtaken>>

\* A toggle that cannot be written is dropped with a debug message.
Toggle ==
  /\ pc = "compare" /\ status # Enabled
  /\ \E S \in SUBSET Toggled(status, Enabled) : cmds' = Send(cmds, Toggles(S))
  /\ setting' = IF setting = NotYet THEN 0 ELSE setting
  /\ pc' = IF setting > SetPatience THEN "down" ELSE "settle"
  /\ UNCHANGED <<status, asking, quiet, updated, deviceVars, replies, overtaken>>

\* As it would be if the loop toggled again without reading the status again.
SettleBlind ==
  /\ pc = "settle"
  /\ setting' = Capped(setting + 1, SetPatience)
  /\ pc' = "compare"
  /\ UNCHANGED <<status, asking, quiet, updated, deviceVars, cmds, replies, overtaken>>

Settle ==
  /\ pc = "settle"
  /\ setting' = Capped(setting + 1, SetPatience)
  /\ pc' = "ask"
  /\ UNCHANGED <<status, asking, quiet, updated, deviceVars, cmds, replies, overtaken>>

----------------------------------------------------------------------------
\* spin

\* As it would be with a mark for every measurement.
DataMarked(s) ==
  LET marked == updated \cup {s} IN
  /\ pc = "spin" /\ s \in active
  /\ quiet' = 0
  /\ updated' = IF ImuStreams \subseteq marked THEN {} ELSE marked
  /\ UNCHANGED <<pc, status, asking, setting, deviceVars, cmds, replies, overtaken>>

\* A measurement: its part of the IMU message is marked, and when all of them
\* are the message is published and the marks are taken off.
Data(s) ==
  LET marked == updated \cup ({s} \cap ImuStreams) IN
  /\ pc = "spin" /\ s \in active
  /\ quiet' = 0
  /\ updated' = IF s \in ImuStreams /\ marked = ImuStreams THEN {} ELSE marked
  /\ UNCHANGED <<pc, status, asking, setting, deviceVars, cmds, replies, overtaken>>

\* A status message that nobody waits for any more.
Unasked ==
  /\ pc = "spin" /\ replies # <<>>
  /\ replies' = Tail(replies)
  /\ UNCHANGED <<pc, driverVars, updated, deviceVars, cmds, overtaken>>

\* A second without a message.  A stream that is on sends many a second, and
\* what is on the line arrives sooner.
Second ==
  /\ pc = "spin" /\ quiet <= Silence
  /\ active = {} /\ cmds = <<>> /\ replies = <<>>
  /\ quiet' = quiet + 1
  /\ UNCHANGED <<pc, status, asking, setting, updated, deviceVars, cmds, replies, overtaken>>

\* As it would be if the watch only warned.
WatchWarns ==
  /\ pc = "spin" /\ quiet > Silence
  /\ quiet' = 0
  /\ UNCHANGED <<pc, status, asking, setting, updated, deviceVars, cmds, replies, overtaken>>

\* No message in five seconds: the streams are set again.
Watch ==
  /\ pc = "spin" /\ quiet > Silence
  /\ quiet' = 0
  /\ pc' = "ask"
  /\ UNCHANGED <<status, asking, setting, updated, deviceVars, cmds, replies, overtaken>>

----------------------------------------------------------------------------
\* The device, as the driver counts on it: commands are carried out in order.
\* (It is followed only while the node lives.)
Obey ==
  /\ pc # "down" /\ cmds # <<>>
  /\ cmds' = Tail(cmds)
  /\ IF Head(cmds).kind = "status"
     THEN replies' = Send(replies, active) /\ UNCHANGED active
     ELSE active' = Toggled(active, Head(cmds).streams) /\ UNCHANGED replies
  /\ UNCHANGED <<pc, driverVars, updated, resets, overtaken>>

\* It starts anew, with the streams its memory holds.
Reset ==
  /\ pc # "down" /\ resets < MaxResets
  /\ resets' = resets + 1
  /\ active' \in SUBSET Streams
  /\ cmds' = <<>>
  /\ overtaken' = TRUE
  /\ UNCHANGED <<pc, driverVars, updated, replies>>

----------------------------------------------------------------------------
UpdateStatus == Ask \/ Read \/ Garbled \/ Miss \/ Rest
SetSensorStatus == AsWanted \/ Toggle \/ Settle
Spin == (\E s \in Streams : Data(s)) \/ Unasked \/ Second \/ Watch

\* The node is required by the launch file: with it the car is shut down.
Ended == pc = "down" /\ UNCHANGED vars

Next == UpdateStatus \/ SetSensorStatus \/ Spin \/ Obey \/ Reset \/ Ended

Spec == Init /\ [][Next]_vars

\* The process runs, the device carries out what reaches it, and a stream that
\* is on is heard.
Fairness ==
  /\ WF_vars(UpdateStatus \/ SetSensorStatus)
  /\ WF_vars(Unasked \/ Second \/ Watch)
  /\ \A s \in ImuStreams : WF_vars(Data(s))
  /\ WF_vars(Obey)

FairSpec == Spec /\ Fairness

----------------------------------------------------------------------------
\* As long as no answer overtook a question, the status that is compared is the
\* one the device has, and the driver goes to work with exactly the streams it
\* wants.  The toggles of a round are carried out before the next answer, and a
\* round of which some were lost is put right by the next.
SetUnlessOvertaken ==
  ~overtaken => /\ pc = "compare" => status = active
                /\ pc = "spin" => active = Enabled

\* The streams are set or the node gives up: both loops look at the clock.
SettingEnds == pc \in Setting ~> pc \in {"spin", "down"}

\* While the node lives and answers are not late for ever, IMU messages come
\* again and again whatever the device forgot --
\* unless some but not all of their streams are on: any measurement keeps the
\* watch from acting.  (The marks come off when a message is published.)
PartlyOn == active # {} /\ ~(ImuStreams \subseteq active)
Published == updated # {} /\ updated' = {}
ImuComesBack ==
  \/ <>(pc = "down")
  \/ []<><<Miss>>_vars
  \/ []<><<Published>>_updated
  \/ <>[]PartlyOn
============================================================================
