---------------------------- MODULE Vmu931_proofs ----------------------------
(***************************************************************************)
(* Proofs about Vmu931, for every set of streams and every patience.       *)
(***************************************************************************)
EXTENDS Vmu931, TLAPS

\* Sending keeps a line a sequence of what is sent on it.
LEMMA SendType ==
  ASSUME NEW S, NEW line \in Seq(S), NEW m \in S
  PROVE  Send(line, m) \in Seq(S)
BY DEF Send

\* Taking a message off the line.
LEMMA TailType ==
  ASSUME NEW S, NEW line \in Seq(S), line # <<>>
  PROVE  /\ Head(line) \in S /\ Tail(line) \in Seq(S)
         /\ Len(line) \in Nat \ {0} /\ Len(Tail(line)) = Len(line) - 1
         /\ \A i \in 1 .. Len(line) - 1 : Tail(line)[i] = line[i + 1]
         /\ Head(line) = line[1]
OBVIOUS

\* A line without messages.
LEMMA EmptyLine ==
  ASSUME NEW S, NEW line \in Seq(S), Len(line) = 0
  PROVE  line = <<>>
OBVIOUS

\* What the clocks show stays in bounds.
LEMMA ElapseType ==
  ASSUME TypeOK, NEW d \in 0 .. 1, Elapse(d)
  PROVE  asking' \in 0 .. AskPatience + 1 /\ setting' \in NotYet .. SetPatience + 1
<1> USE Vmu931Assumption
<1>1. /\ asking \in 0 .. AskPatience + 1
      /\ setting = NotYet \/ setting \in 0 .. SetPatience + 1
      BY DEF TypeOK, NotYet
<1>2. asking' \in 0 .. AskPatience + 1
      BY <1>1 DEF Elapse, Capped
<1>3. setting' = NotYet \/ setting' \in 0 .. SetPatience + 1
      BY <1>1 DEF Elapse, Capped
<1> QED BY <1>2, <1>3 DEF NotYet

\* A round of toggles is a command.
LEMMA TogglesType ==
  ASSUME NEW S, S \subseteq Streams
  PROVE  Toggles(S) \in Command
BY DEF Command

LEMMA TypeInit == Init => TypeOK
<1> SUFFICES ASSUME Init PROVE TypeOK
    OBVIOUS
<1> USE Vmu931Assumption
<1>1. cmds \in Seq(Command) /\ replies \in Seq(SUBSET Streams)
      BY DEF Init
<1>2. setting \in NotYet .. SetPatience + 1
      BY DEF Init, NotYet
<1>3. /\ asking \in 0 .. AskPatience + 1 /\ quiet \in 0 .. Silence + 1
      /\ resets \in 0 .. MaxResets
      BY DEF Init
<1>4. /\ pc \in Setting /\ overtaken \in BOOLEAN
      /\ status \in SUBSET Streams /\ active \in SUBSET Streams
      /\ updated \in SUBSET ImuStreams
      BY DEF Init, Setting
<1> QED BY <1>1, <1>2, <1>3, <1>4 DEF TypeOK

LEMMA TypeStep == TypeOK /\ [Next]_vars => TypeOK'
<1> SUFFICES ASSUME TypeOK, [Next]_vars PROVE TypeOK'
    OBVIOUS
<1> USE Vmu931Assumption
<1>1. CASE Ask
  <2>1. cmds' \in Seq(Command)
        BY <1>1, SendType DEF Ask, TypeOK, Command
  <2>2. overtaken' \in BOOLEAN
        BY <1>1 DEF Ask, AnswerDue
  <2> QED BY <1>1, <2>1, <2>2 DEF Ask, TypeOK, Setting, driverVars, deviceVars
<1>2. CASE Read
  BY <1>2, TailType DEF Read, TypeOK, Setting, deviceVars
<1>3. CASE Garbled
  BY <1>3, TailType DEF Garbled, TypeOK, driverVars, deviceVars
<1>4. CASE Miss
  BY <1>4, ElapseType DEF Miss, TypeOK, Setting, deviceVars
<1>5. CASE Rest
  BY <1>5, ElapseType DEF Rest, TypeOK, Setting, deviceVars
<1>6. CASE AsWanted
  BY <1>6 DEF AsWanted, TypeOK, NotYet, deviceVars
<1>7. CASE Toggle
  <2>1. PICK S \in SUBSET Toggled(status, Enabled) : cmds' = Send(cmds, Toggles(S))
        BY <1>7 DEF Toggle
  <2>2. S \subseteq Streams
        BY DEF Toggled, TypeOK
  <2>3. cmds' \in Seq(Command)
        BY <2>1, <2>2, SendType, TogglesType DEF TypeOK
  <2>4. setting' \in NotYet .. SetPatience + 1
        BY <1>7 DEF Toggle, TypeOK, NotYet
  <2> QED BY <1>7, <2>3, <2>4 DEF Toggle, TypeOK, Setting, deviceVars
<1>8. CASE Settle
  BY <1>8 DEF Settle, TypeOK, Setting, Capped, NotYet, deviceVars
<1>9. CASE \E s \in Streams : Data(s)
  BY <1>9 DEF Data, TypeOK, deviceVars
<1>10. CASE Unasked
  BY <1>10, TailType DEF Unasked, TypeOK, driverVars, deviceVars
<1>11. CASE Second
  BY <1>11 DEF Second, TypeOK, deviceVars
<1>12. CASE Watch
  BY <1>12 DEF Watch, TypeOK, Setting, deviceVars
<1>13. CASE Obey
  <2>1. cmds' \in Seq(Command) /\ Head(cmds) \in Command
        BY <1>13, TailType DEF Obey, TypeOK
  <2>2. replies' \in Seq(SUBSET Streams)
        BY <1>13, SendType, SMTT(30) DEF Obey, TypeOK
  <2>3. Head(cmds).streams \in SUBSET Streams
        BY <2>1 DEF Command, Question, Toggles
  <2>4. active' \in SUBSET Streams
        BY <1>13, <2>3 DEF Obey, TypeOK, Toggled
  <2> QED BY <1>13, <2>1, <2>2, <2>4 DEF Obey, TypeOK, driverVars
<1>14. CASE Reset
  BY <1>14 DEF Reset, TypeOK, driverVars
<1>15. CASE UNCHANGED vars
  BY <1>15 DEF vars, TypeOK, driverVars, deviceVars
<1> QED BY <1>1, <1>2, <1>3, <1>4, <1>5, <1>6, <1>7, <1>8, <1>9, <1>10, <1>11,
           <1>12, <1>13, <1>14, <1>15
        DEF Next, UpdateStatus, SetSensorStatus, Spin, Ended

\* Every variable keeps its type: the clocks their bounds, and the marks of the
\* IMU message to its three measurements.
THEOREM ImuTypeCorrect == Spec => []TypeOK
BY TypeInit, TypeStep, PTL DEF Spec

----------------------------------------------------------------------------
\* The strengthening: when no answer was due as the question was put, at most
\* one question is on the line, behind every toggle, or its answer is all there
\* is; once it is read the line is empty and the device as it says.
LastIsQuestion == \A i \in 1 .. Len(cmds) : cmds[i].kind = "status" => i = Len(cmds)

Answered ==
  ~overtaken =>
    /\ pc = "wait" => \/ replies = <<>> /\ LastIsQuestion
                      \/ replies = <<active>> /\ cmds = <<>>
    /\ pc \in {"compare", "spin"} =>
         replies = <<>> /\ cmds = <<>> /\ status = active
    /\ pc = "spin" => status = Enabled

\* The first message on a free line.
LEMMA FirstSent == ASSUME NEW m PROVE Send(<<>>, m) = <<m>>
BY Vmu931Assumption DEF Send

LEMMA AnsweredStep == TypeOK /\ Answered /\ [Next]_vars => Answered'
<1> SUFFICES ASSUME TypeOK, Answered, [Next]_vars, ~overtaken' PROVE Answered'
    BY DEF Answered
<1> USE Vmu931Assumption
<1>1. CASE Ask
  <2>1. replies = <<>> /\ \A i \in 1 .. Len(cmds) : cmds[i].kind # "status"
        BY <1>1 DEF Ask, AnswerDue, TypeOK
  <2>2. CASE cmds' = cmds
        BY <1>1, <2>1, <2>2 DEF Ask, Answered, LastIsQuestion, deviceVars
  <2>3. CASE cmds' = Append(cmds, Question)
    <3>1. Len(cmds') = Len(cmds) + 1 /\ \A i \in 1 .. Len(cmds) : cmds'[i] = cmds[i]
          BY <2>3 DEF TypeOK, Command
    <3>2. LastIsQuestion'
          BY <3>1, <2>1 DEF LastIsQuestion, TypeOK
    <3> QED BY <1>1, <2>1, <3>2 DEF Ask, Answered
  <2> QED BY <1>1, <2>2, <2>3 DEF Ask, Send
<1>2. CASE Read
  <2>1. ~overtaken /\ replies = <<active>> /\ cmds = <<>>
        BY <1>2 DEF Read, Answered
  <2> QED BY <1>2, <2>1 DEF Read, Answered, deviceVars
<1>3. CASE Garbled
  <2>1. ~overtaken /\ replies = <<active>> /\ cmds = <<>>
        BY <1>3 DEF Garbled, Answered
  <2>2. replies' = <<>> /\ LastIsQuestion'
        BY <1>3, <2>1 DEF Garbled, LastIsQuestion
  <2> QED BY <1>3, <2>2 DEF Garbled, Answered
<1>4. CASE Miss \/ Rest \/ Toggle \/ Settle \/ Watch
  BY <1>4 DEF Miss, Rest, Toggle, Settle, Watch, Answered
<1>5. CASE AsWanted
  BY <1>5 DEF AsWanted, Answered, deviceVars
<1>6. CASE (\E s \in Streams : Data(s)) \/ Second
  BY <1>6 DEF Data, Second, Answered, deviceVars
<1>7. CASE Unasked
  BY <1>7 DEF Unasked, Answered
<1>8. CASE Obey
  <2>1. CASE pc # "wait"
        BY <1>8, <2>1 DEF Obey, Answered, driverVars
  <2>2. CASE pc = "wait"
    <3>1. replies = <<>> /\ LastIsQuestion /\ cmds # <<>> /\ cmds' = Tail(cmds)
          BY <1>8, <2>2 DEF Obey, Answered
    <3>2. /\ Len(cmds) \in Nat \ {0} /\ Len(cmds') = Len(cmds) - 1
          /\ \A i \in 1 .. Len(cmds) - 1 : cmds'[i] = cmds[i + 1]
          /\ Head(cmds) = cmds[1] /\ cmds' \in Seq(Command)
          BY <3>1, TailType DEF TypeOK
    <3>3. CASE Head(cmds).kind = "status"
      <4>0. 1 = Len(cmds)
        <5>1. 1 \in 1 .. Len(cmds) /\ cmds[1].kind = "status"
              BY <3>2, <3>3
        <5> QED BY <3>1, <5>1 DEF LastIsQuestion
      <4>1. cmds' = <<>>
        <5>1. Len(cmds') = Len(cmds) - 1 /\ cmds' \in Seq(Command)
              BY ONLY <3>2
        <5>2. Len(cmds') = 0
              BY ONLY <4>0, <5>1
        <5> QED BY ONLY <5>1, <5>2, EmptyLine
      <4>2. replies' = <<active>> /\ active' = active
            BY <1>8, <3>1, <3>3, FirstSent DEF Obey
      <4> QED BY <1>8, <2>2, <4>1, <4>2 DEF Obey, Answered
    <3>4. CASE Head(cmds).kind # "status"
      <4>1. ASSUME NEW i \in 1 .. Len(cmds'), cmds'[i].kind = "status"
            PROVE  i = Len(cmds')
        <5>1. i \in 1 .. Len(cmds) - 1 /\ i + 1 \in 1 .. Len(cmds)
              BY <3>2, <4>1
        <5>2. i + 1 = Len(cmds)
              BY <3>1, <3>2, <4>1, <5>1 DEF LastIsQuestion
        <5> QED BY <3>2, <5>1, <5>2
      <4>2. LastIsQuestion'
            BY <4>1 DEF LastIsQuestion
      <4> QED BY <1>8, <2>2, <3>1, <3>4, <4>2 DEF Obey, Answered
    <3> QED BY <3>3, <3>4
  <2> QED BY <2>1, <2>2
<1>9. CASE Reset
  BY <1>9 DEF Reset
<1>10. CASE UNCHANGED vars
  BY <1>10 DEF vars, driverVars, deviceVars, Answered, LastIsQuestion
<1> QED BY <1>1, <1>2, <1>3, <1>4, <1>5, <1>6, <1>7, <1>8, <1>9, <1>10
        DEF Next, UpdateStatus, SetSensorStatus, Spin, Ended

\* As long as no answer overtook a question, what is compared is what the
\* device has, and the driver works with exactly the streams it wants.
THEOREM ImuSetUnlessOvertaken == Spec => []SetUnlessOvertaken
<1>1. Init => Answered
      BY DEF Init, Answered
<1>2. Answered => SetUnlessOvertaken
      BY DEF Answered, SetUnlessOvertaken
<1> QED BY <1>1, <1>2, ImuTypeCorrect, AnsweredStep, PTL DEF Spec
============================================================================
