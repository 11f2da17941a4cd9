------------------------- MODULE CommandPath_proofs -------------------------
(***************************************************************************)
(* Proofs about CommandPath, for every range of commands, every limit and  *)
(* gain, every queue size and every set of deployments.                    *)
(***************************************************************************)
EXTENDS CommandPath, TLAPS

Latest(q) == q[Len(q)]

----------------------------------------------------------------------------
(* The queues.  *)

\* The oldest message is the latest one exactly when it is alone.
LEMMA TakeOne ==
  ASSUME NEW S, NEW q \in Seq(S), q # <<>>
  PROVE  /\ Head(q) \in S /\ Tail(q) \in Seq(S)
         /\ Len(Tail(q)) \in Nat /\ Len(Tail(q)) < Len(q)
         /\ Tail(q) = <<>> => Head(q) = Latest(q)
         /\ Tail(q) # <<>> => Latest(Tail(q)) = Latest(q)
BY DEF Latest

\* r is a queue of at most n messages whose last one is x.
EndsWith(r, S, n, x) ==
  r \in Seq(S) /\ Len(r) <= n /\ r # <<>> /\ Latest(r) = x

\* A message put into a queue is its latest, whatever is dropped for it.
LEMMA PutOne ==
  ASSUME NEW S, NEW q \in Seq(S), NEW x \in S, NEW n \in Nat \ {0}
  PROVE  EndsWith(Newest(q \o <<x>>, n), S, n, x)
<1> SUFFICES ASSUME NEW r, r = Newest(q \o <<x>>, n)
             PROVE  r \in Seq(S) /\ Len(r) <= n /\ r # <<>> /\ Latest(r) = x
    BY DEF EndsWith
<1> DEFINE p == q \o <<x>>
<1>1. p \in Seq(S) /\ Len(p) = Len(q) + 1 /\ p[Len(p)] = x
      OBVIOUS
<1>2. CASE Len(p) <= n
      BY <1>1, <1>2 DEF Newest, Latest
<1>3. CASE Len(p) > n
  <2>0. r = SubSeq(p, Len(p) - n + 1, Len(p))
        BY <1>1, <1>3 DEF Newest
  <2> HIDE DEF p
  <2>1. Len(p) - n + 1 \in 1 .. Len(p) /\ Len(p) \in 1 .. Len(p)
        BY <1>1, <1>3
  <2> DEFINE last == SubSeq(p, Len(p) - n + 1, Len(p))
  <2>2. last \in Seq(S) /\ Len(last) = n /\ last[n] = p[Len(p)]
        BY <1>1, <2>1
  <2>3. r = last
        BY <2>0
  <2> HIDE DEF last
  <2> QED BY <1>1, <2>2, <2>3 DEF Latest, p
<1> QED BY <1>1, <1>2, <1>3

LEMMA PutNone ==
  ASSUME NEW S, NEW q \in Seq(S), NEW n \in Nat, Len(q) <= n
  PROVE  Newest(q \o <<>>, n) = q
BY DEF Newest

LEMMA LimitType == \A t \in Topic : Limit(t) \in Nat \ {0}
BY PathAssumption DEF Limit

\* Publishing at most one message on each of some topics.
LEMMA Publishing ==
  ASSUME NEW at, TopicsOK(at), NEW msgs,
         \A t \in DOMAIN msgs : msgs[t] = <<>> \/ \E x \in Message(t) : msgs[t] = <<x>>
  PROVE  /\ TopicsOK(Published(at, msgs))
         /\ \A t \in Topic :
              /\ t \notin DOMAIN msgs \/ msgs[t] = <<>> => Published(at, msgs)[t] = at[t]
              /\ \A x : t \in DOMAIN msgs /\ msgs[t] = <<x>> =>
                   Published(at, msgs)[t] # <<>> /\ Latest(Published(at, msgs)[t]) = x
<1> DEFINE now == Published(at, msgs)
<1>1. now = [t \in Topic |-> now[t]]
      BY DEF Published
<1>2. ASSUME NEW t \in Topic
      PROVE  /\ now[t] \in Seq(Message(t)) /\ Len(now[t]) <= Limit(t)
             /\ t \notin DOMAIN msgs \/ msgs[t] = <<>> => now[t] = at[t]
             /\ \A x : t \in DOMAIN msgs /\ msgs[t] = <<x>> => now[t] # <<>> /\ Latest(now[t]) = x
  <2>0. at[t] \in Seq(Message(t)) /\ Len(at[t]) <= Limit(t) /\ Limit(t) \in Nat \ {0}
        BY LimitType DEF TopicsOK
  <2>1. CASE t \notin DOMAIN msgs
        BY <2>0, <2>1 DEF Published
  <2>2. CASE t \in DOMAIN msgs /\ msgs[t] = <<>>
    <3>1. now[t] = Newest(at[t] \o <<>>, Limit(t))
          BY <2>2 DEF Published
    <3>2. now[t] = at[t]
          BY <2>0, <3>1, PutNone
    <3>3. \A x : msgs[t] # <<x>>
          BY <2>2
    <3> HIDE DEF now
    <3> QED BY <2>0, <2>2, <3>2, <3>3
  <2>3. CASE t \in DOMAIN msgs /\ \E x \in Message(t) : msgs[t] = <<x>>
    <3> PICK x \in Message(t) : msgs[t] = <<x>>
        BY <2>3
    <3>1. now[t] = Newest(at[t] \o <<x>>, Limit(t))
          BY <2>3 DEF Published
    <3>2. /\ now[t] \in Seq(Message(t)) /\ Len(now[t]) <= Limit(t)
          /\ now[t] # <<>> /\ Latest(now[t]) = x
      <4> DEFINE S == Message(t)
                 q == at[t]
                 n == Limit(t)
                 r == now[t]
      <4>1. q \in Seq(S) /\ x \in S /\ n \in Nat \ {0} /\ r = Newest(q \o <<x>>, n)
            BY <2>0, <3>1
      <4> HIDE DEF S, q, n, r
      <4>2. EndsWith(r, S, n, x)
            BY <4>1, PutOne
      <4> QED BY <4>2 DEF EndsWith, S, q, n, r
    <3>3. msgs[t] # <<>> /\ \A y : msgs[t] = <<y>> => y = x
          OBVIOUS
    <3> HIDE DEF now
    <3> QED BY <2>3, <3>2, <3>3
  <2> QED BY <2>1, <2>2, <2>3
<1> QED BY <1>1, <1>2 DEF TopicsOK

\* Taking one message from a topic.
LEMMA Taking ==
  ASSUME TopicsOK(topic), NEW t \in Topic, topic[t] # <<>>
  PROVE  /\ TopicsOK(Taken(t)) /\ Head(topic[t]) \in Message(t)
         /\ Taken(t)[t] = <<>> => Head(topic[t]) = Latest(topic[t])
         /\ Taken(t)[t] # <<>> => Latest(Taken(t)[t]) = Latest(topic[t])
         /\ \A u \in Topic : u # t => Taken(t)[u] = topic[u]
         /\ Taken(t)[t] = Tail(topic[t])
<1>1. Taken(t)[t] = Tail(topic[t]) /\ \A u \in Topic : u # t => Taken(t)[u] = topic[u]
      BY DEF TopicsOK, Taken
<1>2. Taken(t) = [u \in Topic |-> Taken(t)[u]]
      BY DEF TopicsOK, Taken
<1>3. /\ topic[t] \in Seq(Message(t)) /\ Len(topic[t]) <= Limit(t) /\ Limit(t) \in Nat \ {0}
      BY LimitType DEF TopicsOK
<1>4. /\ Head(topic[t]) \in Message(t) /\ Tail(topic[t]) \in Seq(Message(t))
      /\ Len(Tail(topic[t])) \in Nat /\ Len(Tail(topic[t])) < Len(topic[t])
      /\ Tail(topic[t]) = <<>> => Head(topic[t]) = Latest(topic[t])
      /\ Tail(topic[t]) # <<>> => Latest(Tail(topic[t])) = Latest(topic[t])
      BY <1>3, TakeOne
<1>5. Len(Tail(topic[t])) <= Limit(t)
      BY <1>3, <1>4
<1> QED BY <1>1, <1>2, <1>4, <1>5 DEF TopicsOK

----------------------------------------------------------------------------
(* Types.  *)

LEMMA Product == \A a, b \in Int : a * b \in Int
OBVIOUS

\* The publisher always arrives: its last publication lies so far back that no
\* change of speed or of steering is limited.
LEMMA Arrives ==
  ASSUME CmdTypeOK, NEW c \in Sent
  PROVE  /\ Cmd!NextSpeed(c, WallClock) = SpeedGain * c.speed + SpeedOffset
         /\ Cmd!NextPos(c, WallClock) = SteeringGain * c.steering_angle + SteeringOffset
         /\ SpeedGain * c.speed + SpeedOffset \in Int
         /\ SteeringGain * c.steering_angle + SteeringOffset \in Int
<1>0. /\ SpeedGain \in Int /\ SpeedOffset \in Int /\ SteeringGain \in Int /\ SteeringOffset \in Int
      /\ MotorRate \in Int /\ ServoRate \in Int /\ WallClock \in Int
      BY GainAssumption
<1>1. Speeds \subseteq Int /\ Angles \subseteq Int
      BY PathAssumption DEF Speeds, Angles
<1>2. c.speed \in Speeds /\ c.steering_angle \in Angles
      BY DEF Sent
<1>3. Cmd!NextSpeed(c, WallClock) = SpeedGain * c.speed + SpeedOffset
  <2> DEFINE here == last_speed_
             gain == SpeedGain * c.speed
             there == gain + SpeedOffset
             reach == MotorRate * WallClock
  <2>1. gain \in Int /\ there \in Int /\ reach \in Int
    <3>1. gain \in Int /\ reach \in Int
          BY <1>0, <1>1, <1>2, Product
    <3> HIDE DEF gain
    <3> QED BY <1>0, <3>1
  <2>2. here \in Int /\ there - here <= reach /\ here - there <= reach
    <3>1. CASE last_speed_ = 0
      <4>1. there <= reach /\ -there <= reach
            BY <1>2, GainAssumption
      <4> HIDE DEF there, reach
      <4> QED BY <2>1, <3>1, <4>1
    <3>2. ASSUME NEW v \in Speeds, last_speed_ = SpeedGain * v + SpeedOffset
          PROVE  here \in Int /\ there - here <= reach /\ here - there <= reach
      <4> DEFINE other == SpeedGain * v
      <4>1. other \in Int
            BY <1>0, <1>1, Product
      <4>2. gain - other <= reach /\ other - gain <= reach
            BY <1>2, GainAssumption
      <4>3. here = other + SpeedOffset
            BY <3>2
      <4> HIDE DEF other, gain, here, reach
      <4> QED BY <1>0, <2>1, <4>1, <4>2, <4>3
    <3> QED BY <3>1, <3>2 DEF CmdTypeOK
  <2>3. last_speed_ = here /\ Cmd!TargetSpeed(c) = there
        BY DEF Cmd!TargetSpeed
  <2>4. MotorRate * (WallClock - last_pub_motor_time_) = reach
        BY <1>0 DEF CmdTypeOK
  <2> HIDE DEF gain, here, there, reach
  <2>5. Cmd!Limited(TRUE, there - here, reach) = there - here
        BY <2>1, <2>2 DEF Cmd!Limited, Cmd!Greater, Cmd!Lesser
  <2>6. Cmd!NextSpeed(c, WallClock) = here + (there - here)
        BY <2>3, <2>4, <2>5 DEF Cmd!NextSpeed
  <2>7. Cmd!NextSpeed(c, WallClock) = there
        BY <2>1, <2>2, <2>6
  <2> QED BY <2>7 DEF there, gain
<1>4. Cmd!NextPos(c, WallClock) = SteeringGain * c.steering_angle + SteeringOffset
  <2> PICK a \in Angles : last_pos_ = SteeringGain * a + SteeringOffset
      BY DEF CmdTypeOK
  <2> DEFINE here == SteeringGain * a
             there == SteeringGain * c.steering_angle
             reach == ServoRate * WallClock
  <2>1. here \in Int /\ there \in Int /\ reach \in Int
        BY <1>0, <1>1, <1>2, Product
  <2>2. there - here <= reach /\ here - there <= reach
        BY <1>2, GainAssumption
  <2>3. last_pos_ = here + SteeringOffset /\ Cmd!TargetPos(c) = there + SteeringOffset
        BY DEF Cmd!TargetPos
  <2>4. ServoRate * (WallClock - last_pub_servo_time_) = reach
        BY <1>0 DEF CmdTypeOK
  <2> HIDE DEF here, there, reach
  <2>5. (there + SteeringOffset) - (here + SteeringOffset) = there - here
        BY <1>0, <2>1
  <2>6. Cmd!Limited(TRUE, there - here, reach) = there - here
        BY <2>1, <2>2 DEF Cmd!Limited, Cmd!Greater, Cmd!Lesser
  <2>7. Cmd!NextPos(c, WallClock) = (here + SteeringOffset) + (there - here)
        BY <2>3, <2>4, <2>5, <2>6 DEF Cmd!NextPos
  <2>8. Cmd!NextPos(c, WallClock) = there + SteeringOffset
        BY <1>0, <2>1, <2>7
  <2> QED BY <2>8 DEF there
<1>5. c.speed \in Int /\ c.steering_angle \in Int
      BY <1>1, <1>2
<1>6. SpeedGain * c.speed + SpeedOffset \in Int /\ SteeringGain * c.steering_angle \in Int
      BY <1>0, <1>5, Product
<1>7. SteeringGain * c.steering_angle + SteeringOffset \in Int
      BY <1>0, <1>6
<1> QED BY <1>3, <1>4, <1>6, <1>7

\* A clipped value is a number.
LEMMA ClipType ==
  ASSUME NEW limit \in {speed_limit_, servo_limit_, brake_limit_}, NEW v \in Int
  PROVE  Driver!Clip(limit, v) \in Int
BY LimitAssumption DEF Driver!Clip

\* What an action leaves alone keeps its type.
LEMMA Frame ==
  ASSUME TypeOK
  PROVE  /\ UNCHANGED buttonVars => Button!TypeOK' /\ announced' \in BOOLEAN
         /\ UNCHANGED joyVars => JoyNode!TypeOK'
         /\ UNCHANGED muxVars => /\ mode' \in Mux!Mode /\ live' \subseteq Mux!Source
                                 /\ output' \in Sent /\ synced' \in BOOLEAN
         /\ UNCHANGED cmdVars => CmdTypeOK'
         /\ UNCHANGED driverVars => Driver!TypeOK'
         /\ UNCHANGED topic => TopicsOK(topic)'
         /\ UNCHANGED deployed => deployed' \in Deployments
         /\ UNCHANGED prev_stop => prev_stop' \in BOOLEAN
<1>1. UNCHANGED buttonVars => Button!TypeOK' /\ announced' \in BOOLEAN
      BY DEF TypeOK, buttonVars, Button!TypeOK
<1>2. UNCHANGED joyVars => JoyNode!TypeOK'
      BY DEF TypeOK, joyVars, JoyNode!TypeOK
<1>3. UNCHANGED muxVars => /\ mode' \in Mux!Mode /\ live' \subseteq Mux!Source
                           /\ output' \in Sent /\ synced' \in BOOLEAN
      BY DEF TypeOK, muxVars
<1>4. UNCHANGED cmdVars => CmdTypeOK'
      BY DEF TypeOK, cmdVars, CmdTypeOK
<1>5. UNCHANGED driverVars => Driver!TypeOK'
      BY DEF TypeOK, driverVars, Driver!TypeOK
<1>6. UNCHANGED topic => TopicsOK(topic)'
      BY DEF TypeOK, TopicsOK
<1> QED BY <1>1, <1>2, <1>3, <1>4, <1>5, <1>6 DEF TypeOK

LEMMA MessageTypes ==
  /\ Message("estop") = BOOLEAN /\ Message("brake") = Int
  /\ Message("speed") = Int /\ Message("position") = Int
  /\ Message("joy") = Sent /\ Message("keyboard") = Sent
  /\ Message("cmd_vel") = Sent /\ Message("ackermann") = Sent
BY DEF Message

\* One message on one topic.
LEMMA PublishingOn ==
  ASSUME NEW at, TopicsOK(at), NEW t \in Topic,
         NEW q, q = <<>> \/ \E x \in Message(t) : q = <<x>>
  PROVE  /\ TopicsOK(Published(at, On(t, q)))
         /\ \A u \in Topic : u # t => Published(at, On(t, q))[u] = at[u]
         /\ q = <<>> => Published(at, On(t, q))[t] = at[t]
         /\ \A x : q = <<x>> => /\ Published(at, On(t, q))[t] # <<>>
                                /\ Latest(Published(at, On(t, q))[t]) = x
<1> DEFINE msgs == On(t, q)
<1>1. DOMAIN msgs = {t} /\ msgs[t] = q
      BY DEF On
<1> HIDE DEF msgs
<1>2. \A u \in DOMAIN msgs : msgs[u] = <<>> \/ \E x \in Message(u) : msgs[u] = <<x>>
      BY <1>1
<1>3. /\ TopicsOK(Published(at, msgs))
      /\ \A u \in Topic :
           /\ u \notin DOMAIN msgs \/ msgs[u] = <<>> => Published(at, msgs)[u] = at[u]
           /\ \A x : u \in DOMAIN msgs /\ msgs[u] = <<x>> =>
                Published(at, msgs)[u] # <<>> /\ Latest(Published(at, msgs)[u]) = x
      BY <1>2, Publishing
<1>4. /\ TopicsOK(Published(at, msgs))
      /\ \A u \in Topic : u # t => Published(at, msgs)[u] = at[u]
      /\ q = <<>> => Published(at, msgs)[t] = at[t]
      /\ \A x : q = <<x>> => /\ Published(at, msgs)[t] # <<>>
                             /\ Latest(Published(at, msgs)[t]) = x
      BY <1>1, <1>3
<1> QED BY <1>4 DEF msgs

----------------------------------------------------------------------------
(* What each publishing action does to the topics.  *)

\* The listener.
LEMMA PollTopics ==
  ASSUME TypeOK, PollPin
  PROVE  /\ TopicsOK(topic')
         /\ \A t \in Topic \ {"estop", "brake"} : topic'[t] = topic[t]
         /\ Button!EstopSent = <<>> => topic'["estop"] = topic["estop"]
         /\ \A x : Button!EstopSent = <<x>> =>
              topic'["estop"] # <<>> /\ Latest(topic'["estop"]) = x
<1> DEFINE msgs == [t \in {"estop", "brake"} |->
                      IF t = "estop" THEN Button!EstopSent ELSE Button!BrakeSent]
<1>1. DOMAIN msgs = {"estop", "brake"} /\ msgs["estop"] = Button!EstopSent
      OBVIOUS
<1>2. \A t \in DOMAIN msgs : msgs[t] = <<>> \/ \E x \in Message(t) : msgs[t] = <<x>>
  <2>1. Button!EstopSent = <<>> \/ \E x \in BOOLEAN : Button!EstopSent = <<x>>
        BY DEF Button!EstopSent
  <2>2. Button!BrakeSent = <<>> \/ \E x \in Int : Button!BrakeSent = <<x>>
        BY DEF Button!BrakeSent
  <2> QED BY <2>1, <2>2, MessageTypes
<1>3. TopicsOK(topic) /\ topic' = Published(topic, msgs)
      BY DEF TypeOK, PollPin
<1> HIDE DEF msgs
<1>4. /\ TopicsOK(topic')
      /\ \A t \in Topic :
           /\ t \notin DOMAIN msgs \/ msgs[t] = <<>> => topic'[t] = topic[t]
           /\ \A x : t \in DOMAIN msgs /\ msgs[t] = <<x>> =>
                topic'[t] # <<>> /\ Latest(topic'[t]) = x
      BY <1>2, <1>3, Publishing
<1>5. "estop" \in Topic
      BY DEF Topic
<1> QED BY <1>1, <1>4, <1>5

\* The joystick's timer.
LEMMA JoyTopics ==
  ASSUME TypeOK, JoyTimer
  PROVE  /\ TopicsOK(topic')
         /\ \A t \in Topic \ {"estop", "brake", "joy"} : topic'[t] = topic[t]
<1> DEFINE msgs == [t \in {"estop", "brake", "joy"} |->
                      CASE t = "estop" -> JoyNode!EstopSent
                        [] t = "brake" -> JoyNode!BrakeSent
                        [] t = "joy"   -> JoyNode!DriveSent]
<1>1. /\ DOMAIN msgs = {"estop", "brake", "joy"}
      /\ msgs["estop"] = JoyNode!EstopSent
      /\ msgs["brake"] = JoyNode!BrakeSent
      /\ msgs["joy"] = JoyNode!DriveSent
      OBVIOUS
<1>2. JoyNode!EstopSent = <<>> \/ \E x \in BOOLEAN : JoyNode!EstopSent = <<x>>
      BY DEF JoyNode!EstopSent
<1>3. JoyNode!BrakeSent = <<>> \/ \E x \in Int : JoyNode!BrakeSent = <<x>>
      BY DEF JoyNode!BrakeSent
<1>4. JoyNode!DriveSent = <<>> \/ \E x \in Sent : JoyNode!DriveSent = <<x>>
  <2>1. last_joy_msg.vel \in -1 .. 1 /\ last_joy_msg.steer \in -1 .. 1
        BY PathAssumption DEF TypeOK, JoyNode!TypeOK, JoyNode!NoMsg
  <2>2. JoyNode!NowSpeed \in {-2, 0, 3}
        BY <2>1 DEF JoyNode!NowSpeed, JoyNode!AxisToSpeed, TypeOK, JoyNode!TypeOK
  <2>3. [speed |-> JoyNode!NowSpeed, steering_angle |-> last_joy_msg.steer] \in Sent
        BY <2>1, <2>2 DEF Sent, Speeds, Angles
  <2> QED BY <2>3 DEF JoyNode!DriveSent
<1>5. TopicsOK(topic) /\ topic' = Published(topic, msgs)
      BY DEF TypeOK, JoyTimer
<1> HIDE DEF msgs
<1>6. \A t \in DOMAIN msgs : msgs[t] = <<>> \/ \E x \in Message(t) : msgs[t] = <<x>>
      BY <1>1, <1>2, <1>3, <1>4, MessageTypes
<1> QED BY <1>1, <1>5, <1>6, Publishing

\* The publisher takes the oldest command and sends what it asks for.
LEMMA PublishTopics ==
  ASSUME TypeOK, PublishCmd
  PROVE  LET c == Head(topic["ackermann"])
         IN /\ c \in Sent
            /\ TopicsOK(topic')
            /\ topic'["ackermann"] = Tail(topic["ackermann"])
            /\ topic'["ackermann"] = <<>> => c = Latest(topic["ackermann"])
            /\ topic'["ackermann"] # <<>> =>
                 Latest(topic'["ackermann"]) = Latest(topic["ackermann"])
            /\ topic'["speed"] # <<>> /\ Latest(topic'["speed"]) = SpeedGain * c.speed + SpeedOffset
            /\ topic'["position"] # <<>>
            /\ Latest(topic'["position"]) =
                 SteeringGain * c.steering_angle + SteeringOffset
            /\ \A t \in Topic \ {"ackermann", "speed", "position"} : topic'[t] = topic[t]
<1> DEFINE c == Head(topic["ackermann"])
           v == SpeedGain * c.speed + SpeedOffset
           p == SteeringGain * c.steering_angle + SteeringOffset
           at == Taken("ackermann")
           msgs == [t \in {"speed", "position"} |-> IF t = "speed" THEN <<v>> ELSE <<p>>]
<1>1. /\ TopicsOK(topic) /\ topic["ackermann"] # <<>> /\ "ackermann" \in Topic
      BY DEF TypeOK, PublishCmd, Topic
<1>2. /\ TopicsOK(at) /\ c \in Sent
      /\ at["ackermann"] = Tail(topic["ackermann"])
      /\ at["ackermann"] = <<>> => c = Latest(topic["ackermann"])
      /\ at["ackermann"] # <<>> => Latest(at["ackermann"]) = Latest(topic["ackermann"])
      /\ \A u \in Topic : u # "ackermann" => at[u] = topic[u]
      BY <1>1, Taking, MessageTypes
<1>3. /\ Cmd!SpeedSent(c, WallClock) = <<v>> /\ v \in Int
      /\ Cmd!PosSent(c, WallClock) = <<p>> /\ p \in Int
      BY <1>2, Arrives DEF TypeOK, Cmd!SpeedSent, Cmd!PosSent
<1>4. topic' = Published(at, msgs)
      BY <1>3 DEF PublishCmd
<1>5. DOMAIN msgs = {"speed", "position"} /\ msgs["speed"] = <<v>> /\ msgs["position"] = <<p>>
      OBVIOUS
<1> HIDE DEF msgs, at, c, v, p
<1>6. \A t \in DOMAIN msgs : msgs[t] = <<>> \/ \E x \in Message(t) : msgs[t] = <<x>>
      BY <1>3, <1>5, MessageTypes
<1>7. /\ TopicsOK(topic')
      /\ \A t \in Topic \ {"speed", "position"} : topic'[t] = at[t]
      /\ topic'["speed"] # <<>> /\ Latest(topic'["speed"]) = v
      /\ topic'["position"] # <<>> /\ Latest(topic'["position"]) = p
  <2>1. /\ TopicsOK(topic')
        /\ \A t \in Topic :
             /\ t \notin DOMAIN msgs \/ msgs[t] = <<>> => topic'[t] = at[t]
             /\ \A x : t \in DOMAIN msgs /\ msgs[t] = <<x>> =>
                  topic'[t] # <<>> /\ Latest(topic'[t]) = x
        BY <1>2, <1>4, <1>6, Publishing
  <2>2. "speed" \in Topic /\ "position" \in Topic
        BY DEF Topic
  <2> QED BY <1>5, <2>1, <2>2
<1>8. /\ c \in Sent
      /\ TopicsOK(topic')
      /\ topic'["ackermann"] = Tail(topic["ackermann"])
      /\ topic'["ackermann"] = <<>> => c = Latest(topic["ackermann"])
      /\ topic'["ackermann"] # <<>> => Latest(topic'["ackermann"]) = Latest(topic["ackermann"])
      /\ \A t \in Topic \ {"ackermann", "speed", "position"} : topic'[t] = topic[t]
      BY <1>1, <1>2, <1>7
<1> QED BY <1>7, <1>8 DEF c, v, p

\* The multiplexer takes a message and tells a command, or does not.
LEMMA Serving ==
  ASSUME TypeOK, NEW t \in Topic \ {"ackermann"}, topic[t] # <<>>,
         NEW told \in BOOLEAN, output' \in Sent,
         topic' = Published(Taken(t), On("ackermann", IF told THEN <<output'>> ELSE <<>>))
  PROVE  /\ Head(topic[t]) \in Message(t)
         /\ TopicsOK(topic')
         /\ topic'[t] = Tail(topic[t])
         /\ told => topic'["ackermann"] # <<>> /\ Latest(topic'["ackermann"]) = output'
         /\ ~told => topic'["ackermann"] = topic["ackermann"]
         /\ \A u \in Topic \ {t, "ackermann"} : topic'[u] = topic[u]
<1> DEFINE at == Taken(t)
           q == IF told THEN <<output'>> ELSE <<>>
<1>1. TopicsOK(topic) /\ "ackermann" \in Topic
      BY DEF TypeOK, Topic
<1>2. /\ TopicsOK(at) /\ Head(topic[t]) \in Message(t)
      /\ at[t] = Tail(topic[t])
      /\ \A u \in Topic : u # t => at[u] = topic[u]
      BY <1>1, Taking
<1>3. /\ q = <<>> \/ \E x \in Message("ackermann") : q = <<x>>
      /\ told => q = <<output'>>
      /\ ~told => q = <<>>
      BY MessageTypes
<1>4. topic' = Published(at, On("ackermann", q))
      OBVIOUS
<1> HIDE DEF at, q
<1>5. /\ TopicsOK(topic')
      /\ \A u \in Topic : u # "ackermann" => topic'[u] = at[u]
      /\ q = <<>> => topic'["ackermann"] = at["ackermann"]
      /\ \A x : q = <<x>> => /\ topic'["ackermann"] # <<>>
                             /\ Latest(topic'["ackermann"]) = x
      BY <1>1, <1>2, <1>3, <1>4, PublishingOn
<1> QED BY <1>1, <1>2, <1>3, <1>5

\* A stop or its release.
LEMMA EstopTopics ==
  ASSUME TypeOK, MuxEstop
  PROVE  LET data == Head(topic["estop"])
             told == data /\ mode # Mux!ESTOP
         IN /\ data \in BOOLEAN /\ output' \in Sent
            /\ TopicsOK(topic')
            /\ topic'["estop"] = Tail(topic["estop"])
            /\ told => topic'["ackermann"] # <<>> /\ Latest(topic'["ackermann"]) = output'
            /\ ~told => topic'["ackermann"] = topic["ackermann"]
            /\ \A u \in Topic \ {"estop", "ackermann"} : topic'[u] = topic[u]
<1> DEFINE data == Head(topic["estop"])
           told == data /\ mode # Mux!ESTOP
<1>1. TopicsOK(topic) /\ topic["estop"] # <<>> /\ "estop" \in Topic \ {"ackermann"}
      BY DEF TypeOK, MuxEstop, Topic
<1>2. data \in BOOLEAN
      BY <1>1, Taking, MessageTypes
<1>3. Mux!Halt \in Sent
      BY DEF Mux!Halt, Sent, Speeds, Angles
<1>4. output' \in Sent
      BY <1>2, <1>3 DEF TypeOK, MuxEstop, Mux!Stop, Mux!Release
<1>5. topic' = Published(Taken("estop"), On("ackermann", IF told THEN <<output'>> ELSE <<>>))
      BY DEF MuxEstop
<1>6. told \in BOOLEAN
      BY <1>2
<1> HIDE DEF told, data
<1>7. /\ TopicsOK(topic')
      /\ topic'["estop"] = Tail(topic["estop"])
      /\ told => topic'["ackermann"] # <<>> /\ Latest(topic'["ackermann"]) = output'
      /\ ~told => topic'["ackermann"] = topic["ackermann"]
      /\ \A u \in Topic \ {"estop", "ackermann"} : topic'[u] = topic[u]
      BY <1>1, <1>4, <1>5, <1>6, Serving
<1> QED BY <1>2, <1>4, <1>7 DEF told, data

LEMMA SourceTopicType ==
  \A p \in Mux!Source : SourceTopic(p) \in {"joy", "keyboard", "cmd_vel"}
BY DEF SourceTopic

\* A command of a source.
LEMMA CommandTopics ==
  ASSUME TypeOK, NEW p \in Mux!Source, NEW fresh \in BOOLEAN, MuxCommand(p, fresh)
  PROVE  LET told == Mux!MayDrive(p, live')
         IN /\ output' \in Sent
            /\ TopicsOK(topic')
            /\ told => topic'["ackermann"] # <<>> /\ Latest(topic'["ackermann"]) = output'
            /\ ~told => topic'["ackermann"] = topic["ackermann"]
            /\ \A u \in {"estop", "speed", "position", "brake"} : topic'[u] = topic[u]
<1> DEFINE t == SourceTopic(p)
           told == Mux!MayDrive(p, live')
<1>1. t \in {"joy", "keyboard", "cmd_vel"}
      BY SourceTopicType
<1>2. topic' = Published(Taken(t), On("ackermann", IF told THEN <<output'>> ELSE <<>>))
      BY DEF MuxCommand
<1>3. Mux!Receive(p, Head(topic[t]), fresh) /\ topic[t] # <<>>
      BY DEF MuxCommand
<1>4. told \in BOOLEAN
      BY DEF Mux!MayDrive
<1> HIDE DEF t, told
<1>5. t \in Topic \ {"ackermann"} /\ Message(t) = Sent /\ TopicsOK(topic)
      BY <1>1, MessageTypes DEF Topic, TypeOK
<1>6. Head(topic[t]) \in Sent
      BY <1>3, <1>5, Taking
<1>7. output' \in Sent
      BY <1>3, <1>6 DEF Mux!Receive, TypeOK
<1>8. /\ TopicsOK(topic')
      /\ told => topic'["ackermann"] # <<>> /\ Latest(topic'["ackermann"]) = output'
      /\ ~told => topic'["ackermann"] = topic["ackermann"]
      /\ \A u \in Topic \ {t, "ackermann"} : topic'[u] = topic[u]
      BY <1>2, <1>3, <1>4, <1>5, <1>7, Serving
<1>9. {"estop", "speed", "position", "brake"} \subseteq Topic \ {t, "ackermann"}
      BY <1>1 DEF Topic
<1> QED BY <1>7, <1>8, <1>9 DEF told

\* The supervision timer.
LEMMA IdleTopics ==
  ASSUME TypeOK, MuxIdle
  PROVE  /\ output' \in Sent
         /\ TopicsOK(topic')
         /\ topic'["ackermann"] # <<>> /\ Latest(topic'["ackermann"]) = output'
         /\ \A u \in Topic \ {"ackermann"} : topic'[u] = topic[u]
<1>1. TopicsOK(topic) /\ "ackermann" \in Topic
      BY DEF TypeOK, Topic
<1>2. output' \in Sent
      BY DEF MuxIdle, Mux!Idle, TypeOK, Sent, Speeds
<1> DEFINE q == <<output'>>
<1>3. \E x \in Message("ackermann") : q = <<x>>
      BY <1>2, MessageTypes
<1>4. topic' = Published(topic, On("ackermann", q)) /\ q = <<output'>>
      BY DEF MuxIdle
<1> HIDE DEF q
<1> QED BY <1>1, <1>2, <1>3, <1>4, PublishingOn

\* The driver.
LEMMA DriverTopics ==
  ASSUME TypeOK, NEW t \in {"speed", "brake", "position"}, DriverCommand(t)
  PROVE  /\ Head(topic[t]) \in Int
         /\ TopicsOK(topic')
         /\ topic'[t] = <<>> => Head(topic[t]) = Latest(topic[t])
         /\ topic'[t] # <<>> => Latest(topic'[t]) = Latest(topic[t])
         /\ \A u \in Topic : u # t => topic'[u] = topic[u]
         /\ topic[t] # <<>>
<1>1. TopicsOK(topic) /\ t \in Topic /\ Message(t) = Int
      BY MessageTypes DEF TypeOK, Topic
<1>2. topic[t] # <<>> /\ topic' = Taken(t)
      BY DEF DriverCommand
<1> QED BY <1>1, <1>2, Taking

\* The other actions that publish or lose messages.
LEMMA LaserTopics ==
  ASSUME TypeOK, NEW near \in BOOLEAN, LaserScan(near)
  PROVE  /\ TopicsOK(topic')
         /\ \A u \in Topic \ {"estop"} : topic'[u] = topic[u]
<1> DEFINE q == Laser!EstopSent(near)
<1>1. TopicsOK(topic) /\ "estop" \in Topic
      BY DEF TypeOK, Topic
<1>2. q = <<>> \/ \E x \in Message("estop") : q = <<x>>
      BY MessageTypes DEF Laser!EstopSent
<1>3. topic' = Published(topic, On("estop", q))
      BY DEF LaserScan
<1> HIDE DEF q
<1> QED BY <1>1, <1>2, <1>3, PublishingOn

LEMMA DriveTopics ==
  ASSUME TypeOK, NEW c \in Drives, NEW t \in {"keyboard", "cmd_vel"},
         topic' = Published(topic, On(t, <<c>>))
  PROVE  /\ TopicsOK(topic')
         /\ \A u \in Topic \ {t} : topic'[u] = topic[u]
<1> DEFINE q == <<c>>
<1>1. TopicsOK(topic) /\ t \in Topic /\ Message(t) = Sent
      BY MessageTypes DEF TypeOK, Topic
<1>2. c \in Sent
      BY PathAssumption DEF Sent, Speeds, Angles
<1>3. q = <<>> \/ \E x \in Message(t) : q = <<x>>
      BY <1>1, <1>2
<1>4. topic' = Published(topic, On(t, q))
      OBVIOUS
<1> HIDE DEF q
<1>5. /\ TopicsOK(Published(topic, On(t, q)))
      /\ \A u \in Topic : u # t => Published(topic, On(t, q))[u] = topic[u]
      BY <1>1, <1>3, PublishingOn
<1> QED BY <1>4, <1>5

LEMMA RestartTopics ==
  ASSUME TypeOK, RestartVescInterface
  PROVE  TopicsOK(topic') /\ topic'["ackermann"] = <<>>
<1> PICK kept \in SUBSET {"speed", "position"} :
      topic' = [t \in Topic |-> IF t = "brake" \/ t \in kept THEN topic[t] ELSE <<>>]
    BY DEF RestartVescInterface
<1>1. topic' = [t \in Topic |-> topic'[t]] /\ topic'["ackermann"] = <<>>
      BY DEF Topic
<1>2. ASSUME NEW t \in Topic
      PROVE  topic'[t] \in Seq(Message(t)) /\ Len(topic'[t]) <= Limit(t)
  <2>1. topic[t] \in Seq(Message(t)) /\ Len(topic[t]) <= Limit(t)
        BY DEF TypeOK, TopicsOK
  <2>2. <<>> \in Seq(Message(t)) /\ Len(<<>>) = 0 /\ Limit(t) \in Nat
        BY LimitType
  <2>3. topic'[t] = topic[t] \/ topic'[t] = <<>>
        OBVIOUS
  <2> QED BY <2>1, <2>2, <2>3
<1> QED BY <1>1, <1>2 DEF TopicsOK

----------------------------------------------------------------------------
(* The types.  *)

\* The multiplexer's first state, which is also that after a restart.
LEMMA HaltType == Mux!Halt \in Sent /\ Mux!DEFAULT \in Mux!Mode
<1>1. 0 \in Speeds /\ 0 \in Angles
      BY DEF Speeds, Angles
<1> QED BY <1>1 DEF Mux!Halt, Sent, Mux!Mode

LEMMA TypeInit == Init => TypeOK
<1> SUFFICES ASSUME Init PROVE TypeOK
    OBVIOUS
<1>1. Button!TypeOK /\ JoyNode!TypeOK /\ prev_stop \in BOOLEAN
      BY DEF Init, Button!Init, Button!TypeOK, JoyNode!Init, JoyNode!TypeOK, Laser!Init
<1>2. /\ mode \in Mux!Mode /\ live \subseteq Mux!Source /\ output \in Sent
      /\ synced \in BOOLEAN /\ announced \in BOOLEAN /\ deployed \in Deployments
      BY HaltType DEF Init, Mux!Init
<1>3. CmdTypeOK
  <2>1. SteeringGain * 0 + SteeringOffset = SteeringOffset
        BY GainAssumption
  <2>2. 0 \in Speeds /\ 0 \in Angles
        BY DEF Speeds, Angles
  <2> QED BY <2>1, <2>2 DEF Init, Cmd!Init, CmdTypeOK
<1>4. Driver!TypeOK
      BY GainAssumption DEF Init, Driver!Init, Driver!PowerOn, Driver!TypeOK
<1>5. TopicsOK(topic)
  <2>1. \A t \in Topic : topic[t] = <<>>
        BY DEF Init
  <2>2. ASSUME NEW t \in Topic
        PROVE  topic[t] \in Seq(Message(t)) /\ Len(topic[t]) <= Limit(t)
    <3>1. /\ <<>> \in Seq(Message(t)) /\ Len(<<>>) = 0
          /\ Limit(t) \in Nat /\ 0 <= Limit(t)
          BY LimitType
    <3>2. topic[t] = <<>>
          BY <2>1
    <3> QED BY <3>1, <3>2
  <2> QED BY <2>2 DEF Init, TopicsOK
<1> QED BY <1>1, <1>2, <1>3, <1>4, <1>5 DEF TypeOK

LEMMA TypeStep == TypeOK /\ [Next]_vars => TypeOK'
<1> SUFFICES ASSUME TypeOK, [Next]_vars PROVE TypeOK'
    OBVIOUS
<1>0. /\ announced' \in BOOLEAN /\ Button!TypeOK' /\ JoyNode!TypeOK' /\ prev_stop' \in BOOLEAN
      /\ mode' \in Mux!Mode /\ live' \subseteq Mux!Source /\ output' \in Sent
      /\ synced' \in BOOLEAN /\ deployed' \in Deployments
      /\ CmdTypeOK' /\ Driver!TypeOK' /\ TopicsOK(topic)'
      => TypeOK'
      BY DEF TypeOK
<1>1. CASE FlipPin
  <2>1. Button!TypeOK' /\ announced' \in BOOLEAN
        BY <1>1 DEF FlipPin, Button!Flip, Button!TypeOK, Button!low, Button!high, TypeOK
  <2> QED BY <1>0, <1>1, <2>1, Frame DEF FlipPin, muxVars
<1>2. CASE PollPin
  <2>1. Button!TypeOK'
        BY <1>2 DEF PollPin, Button!Poll, Button!TypeOK, TypeOK
  <2>2. announced' \in BOOLEAN
        BY <1>2 DEF PollPin, Button!EstopSent, TypeOK
  <2>3. TopicsOK(topic)'
        BY <1>2, PollTopics
  <2> QED BY <1>0, <1>2, <2>1, <2>2, <2>3, Frame DEF PollPin, muxVars
<1>3. CASE RestartEstopNode
  <2>1. Button!TypeOK' /\ announced' \in BOOLEAN
        BY <1>3 DEF RestartEstopNode, Button!Restart, Button!TypeOK, TypeOK
  <2> QED BY <1>0, <1>3, <2>1, Frame DEF RestartEstopNode, muxVars
<1>4. ASSUME NEW m \in Joy, JoyMessage(m) PROVE TypeOK'
  <2>1. JoyNode!TypeOK'
        BY <1>4 DEF JoyMessage, JoyNode!JoyCb, JoyNode!TypeOK, TypeOK
  <2> QED BY <1>0, <1>4, <2>1, Frame DEF JoyMessage, muxVars
<1>5. CASE JoyTimer
  <2>1. last_joy_msg.vel \in {-1, 0, 1}
    <3>1. last_joy_msg.vel \in -1 .. 1
          BY PathAssumption DEF TypeOK, JoyNode!TypeOK, JoyNode!NoMsg
    <3>2. -1 .. 1 = {-1, 0, 1}
          OBVIOUS
    <3> QED BY <3>1, <3>2
  <2>2. JoyNode!NowActive \in BOOLEAN
        BY DEF JoyNode!NowActive, TypeOK, JoyNode!TypeOK
  <2>3. JoyNode!NowSpeed \in {-2, 0, 3}
        BY <2>1 DEF JoyNode!NowSpeed, JoyNode!AxisToSpeed, TypeOK, JoyNode!TypeOK
  <2>4. JoyNode!EstopSent = <<>> \/ JoyNode!EstopSent[1] \in BOOLEAN
        BY DEF JoyNode!EstopSent
  <2>5. JoyNode!TypeOK'
        BY <1>5, <2>2, <2>3, <2>4 DEF JoyTimer, JoyNode!JoyTimerCb, JoyNode!TypeOK, TypeOK
  <2> QED BY <1>0, <1>5, <2>5, JoyTopics, Frame DEF JoyTimer, muxVars
<1>6. ASSUME NEW near \in BOOLEAN, LaserScan(near) PROVE TypeOK'
  <2>1. prev_stop' \in BOOLEAN
        BY <1>6 DEF LaserScan, Laser!ScanCb
  <2> QED BY <1>0, <1>6, <2>1, LaserTopics, Frame DEF LaserScan, muxVars
<1>7. ASSUME NEW c \in Drives, SendCmd(c) PROVE TypeOK'
  <2>1. TopicsOK(topic)'
        BY <1>7, DriveTopics DEF SendCmd
  <2> QED BY <1>0, <1>7, <2>1, Frame DEF SendCmd, muxVars
<1>8. ASSUME NEW c \in Drives, Navigate(c) PROVE TypeOK'
  <2>1. TopicsOK(topic)'
        BY <1>8, DriveTopics DEF Navigate
  <2> QED BY <1>0, <1>8, <2>1, Frame DEF Navigate, muxVars
<1>9. CASE MuxEstop
  <2>1. /\ Head(topic["estop"]) \in BOOLEAN
        /\ output' \in Sent /\ TopicsOK(topic)'
        BY <1>9, EstopTopics
  <2>2. mode' \in Mux!Mode /\ live' \subseteq Mux!Source
        BY <1>9, <2>1 DEF MuxEstop, Mux!Stop, Mux!Release, Mux!Mode, TypeOK
  <2>3. synced' \in BOOLEAN
        BY <1>9 DEF MuxEstop, TypeOK
  <2> QED BY <1>0, <1>9, <2>1, <2>2, <2>3, Frame DEF MuxEstop, muxVars
<1>10. ASSUME NEW p \in Mux!Source, NEW fresh \in BOOLEAN, MuxCommand(p, fresh) PROVE TypeOK'
  <2>1. output' \in Sent /\ TopicsOK(topic)'
        BY <1>10, CommandTopics
  <2>2. mode' \in Mux!Mode /\ live' \subseteq Mux!Source
        BY <1>10 DEF MuxCommand, Mux!Receive, Mux!Mode, TypeOK
  <2>3. synced' \in BOOLEAN
        BY <1>10 DEF MuxCommand, TypeOK
  <2> QED BY <1>0, <1>10, <2>1, <2>2, <2>3, Frame DEF MuxCommand, muxVars
<1>11. CASE MuxIdle
  <2>1. mode' \in Mux!Mode /\ live' \subseteq Mux!Source /\ synced' \in BOOLEAN
        BY <1>11 DEF MuxIdle, Mux!Idle, Mux!Mode, TypeOK
  <2> QED BY <1>0, <1>11, <2>1, IdleTopics, Frame DEF MuxIdle
<1>12. CASE Age
  <2>1. /\ mode' \in Mux!Mode /\ live' \subseteq Mux!Source /\ synced' \in BOOLEAN
        /\ output' \in Sent
        BY <1>12 DEF Age, Mux!Age, TypeOK
  <2> QED BY <1>0, <1>12, <2>1, Frame DEF Age
<1>13. CASE PublishCmd
  <2> DEFINE c == Head(topic["ackermann"])
  <2>1. c \in Sent /\ TopicsOK(topic)'
        BY <1>13, PublishTopics
  <2>2. c.speed \in Speeds /\ c.steering_angle \in Angles
        BY <2>1 DEF Sent
  <2>3. /\ Cmd!NextSpeed(c, WallClock) = SpeedGain * c.speed + SpeedOffset
        /\ Cmd!NextPos(c, WallClock) = SteeringGain * c.steering_angle + SteeringOffset
        BY <2>1, Arrives DEF TypeOK
  <2>4. Cmd!AckermannCmdCallback(c, WallClock)
        BY <1>13 DEF PublishCmd
  <2> HIDE DEF c
  <2>5. CmdTypeOK'
        BY <2>2, <2>3, <2>4 DEF Cmd!AckermannCmdCallback, CmdTypeOK, TypeOK
  <2> QED BY <1>0, <1>13, <2>1, <2>5, Frame DEF PublishCmd
<1>14. CASE RestartVescInterface
  <2>1. /\ mode' \in Mux!Mode /\ live' \subseteq Mux!Source /\ synced' \in BOOLEAN
        /\ output' \in Sent
        BY <1>14, HaltType DEF RestartVescInterface
  <2>2. CmdTypeOK'
    <3>1. SteeringGain * 0 + SteeringOffset = SteeringOffset
          BY GainAssumption
    <3>2. 0 \in Speeds /\ 0 \in Angles
          BY DEF Speeds, Angles
    <3> QED BY <1>14, <3>1, <3>2 DEF RestartVescInterface, CmdTypeOK, TypeOK
  <2> QED BY <1>0, <1>14, <2>1, <2>2, RestartTopics, Frame DEF RestartVescInterface
<1>15. CASE DriverTimer
  <2>1. Driver!TypeOK'
        BY <1>15 DEF DriverTimer, Driver!TimerCallback, Driver!TypeOK, Driver!vars, TypeOK
  <2> QED BY <1>0, <1>15, <2>1, Frame DEF DriverTimer, DriverUnchanged, muxVars
<1>16. CASE DriverVersion
  <2>1. Driver!TypeOK'
        BY <1>16 DEF DriverVersion, Driver!RxMajor, Driver!RxMinor, Driver!TypeOK, TypeOK
  <2> QED BY <1>0, <1>16, <2>1, Frame DEF DriverVersion, DriverUnchanged, muxVars
<1>17. ASSUME NEW t \in {"speed", "brake", "position"}, DriverCommand(t) PROVE TypeOK'
  <2>1. Head(topic[t]) \in Int /\ TopicsOK(topic)'
        BY <1>17, DriverTopics
  <2>2. /\ Driver!Clip(speed_limit_, Head(topic[t])) \in Int
        /\ Driver!Clip(brake_limit_, Head(topic[t])) \in Int
        /\ Driver!Clip(servo_limit_, Head(topic[t])) \in Int
        BY <2>1, ClipType
  <2>3. Driver!TypeOK'
    <3>1. CASE t = "speed"
      BY <1>17, <2>2, <3>1 DEF DriverCommand, Driver!SpeedCallback, Driver!Accept,
         Driver!TypeOK, TypeOK
    <3>2. CASE t = "brake"
      BY <1>17, <2>2, <3>2 DEF DriverCommand, Driver!BrakeCallback, Driver!Accept,
         Driver!TypeOK, TypeOK
    <3>3. CASE t = "position"
      BY <1>17, <2>2, <3>3 DEF DriverCommand, Driver!ServoCallback, Driver!Accept,
         Driver!TypeOK, TypeOK
    <3> QED BY <3>1, <3>2, <3>3
  <2> QED BY <1>0, <1>17, <2>1, <2>3, Frame DEF DriverCommand, DriverUnchanged, muxVars
<1>18. CASE UNCHANGED vars
  BY <1>0, <1>18, Frame DEF vars, muxVars
<1> QED BY <1>1, <1>2, <1>3, <1>4, <1>5, <1>6, <1>7, <1>8, <1>9, <1>10, <1>11, <1>12,
           <1>13, <1>14, <1>15, <1>16, <1>17, <1>18 DEF Next

----------------------------------------------------------------------------
(* The invariant.  *)

\* Between two turns of the listener, the topic of the kill switch holds what
\* was announced last, until the multiplexer has it.
Latch ==
  Alone(Faults) =>
    IF topic["estop"] = <<>> THEN announced <=> mode = Mux!ESTOP
    ELSE topic["estop"] = <<announced>>

\* Who drives has told so, and a stop is the last thing told.
Told ==
  /\ ~synced => topic["ackermann"] = <<>> /\ mode = Mux!DEFAULT
  /\ mode = Mux!ESTOP => output = Mux!Halt

\* The last command of the multiplexer is on its way to the motor: it is the
\* last one in the publisher's queue, or else it is the last speed in the
\* driver's queue, or else it is what the motor obeys.
SpeedChain ==
  synced =>
    IF topic["ackermann"] # <<>> THEN Latest(topic["ackermann"]) = output
    ELSE IF topic["speed"] # <<>> THEN Latest(topic["speed"]) = SpeedGain * output.speed + SpeedOffset
    ELSE motor.kind = "speed" =>
           motor.value = Driver!Clip(speed_limit_, SpeedGain * output.speed + SpeedOffset)

\* The same of the servo.
PositionChain ==
  synced =>
    IF topic["ackermann"] # <<>> THEN Latest(topic["ackermann"]) = output
    ELSE IF topic["position"] # <<>>
      THEN Latest(topic["position"]) = SteeringGain * output.steering_angle + SteeringOffset
    ELSE servo = Driver!Clip(servo_limit_,
                             SteeringGain * output.steering_angle + SteeringOffset)

Inv == TypeOK /\ Told /\ Latch /\ SpeedChain /\ PositionChain

LEMMA InvInit == Init => Inv
<1> SUFFICES ASSUME Init PROVE Inv
    OBVIOUS
<1>1. \A t \in Topic : topic[t] = <<>>
      BY DEF Init
<1>2. topic["estop"] = <<>> /\ topic["ackermann"] = <<>>
      BY <1>1 DEF Topic
<1>3. mode = Mux!DEFAULT /\ synced = FALSE /\ announced = FALSE
      BY DEF Init, Mux!Init
<1>4. Told
      BY <1>2, <1>3 DEF Told, Mux!DEFAULT, Mux!ESTOP
<1>5. Latch
      BY <1>2, <1>3 DEF Latch, Mux!DEFAULT, Mux!ESTOP
<1>6. SpeedChain /\ PositionChain
      BY <1>3 DEF SpeedChain, PositionChain
<1> QED BY <1>4, <1>5, <1>6, TypeInit DEF Inv

\* What has to do with the last command told, and with the latch.
told  == <<mode, output, synced, topic["ackermann"], topic["speed"], topic["position"],
           motor, servo>>
latch == <<deployed, mode, announced, topic["estop"]>>

\* Most actions leave what was told alone.
LEMMA Elsewhere ==
  ASSUME TypeOK,
         \/ FlipPin \/ PollPin \/ RestartEstopNode \/ JoyTimer \/ Age
         \/ DriverTimer \/ DriverVersion
         \/ \E m \in Joy : JoyMessage(m)
         \/ \E near \in BOOLEAN : LaserScan(near)
         \/ \E c \in Drives : SendCmd(c) \/ Navigate(c)
         \/ UNCHANGED vars
  PROVE  UNCHANGED told
<1> DEFINE Q == {"ackermann", "speed", "position"}
<1>1. /\ Q \subseteq Topic \ {"estop", "brake"} /\ Q \subseteq Topic \ {"estop", "brake", "joy"}
      /\ Q \subseteq Topic \ {"estop"}
      /\ Q \subseteq Topic \ {"keyboard"} /\ Q \subseteq Topic \ {"cmd_vel"}
      BY DEF Topic
<1>2. CASE FlipPin \/ RestartEstopNode
      BY <1>2 DEF FlipPin, RestartEstopNode, told, muxVars, driverVars
<1>3. CASE PollPin
      BY <1>1, <1>3, PollTopics DEF PollPin, told, muxVars, driverVars
<1>4. CASE JoyTimer
      BY <1>1, <1>4, JoyTopics DEF JoyTimer, told, muxVars, driverVars
<1>5. CASE Age
      BY <1>5 DEF Age, Mux!Age, told, driverVars
<1>6. CASE DriverTimer \/ DriverVersion
      BY <1>6 DEF DriverTimer, DriverVersion, DriverUnchanged, Driver!TimerCallback,
         Driver!vars, Driver!RxMajor, Driver!RxMinor, told, muxVars
<1>7. CASE \E m \in Joy : JoyMessage(m)
      BY <1>7 DEF JoyMessage, told, muxVars, driverVars
<1>8. CASE \E near \in BOOLEAN : LaserScan(near)
      BY <1>1, <1>8, LaserTopics DEF LaserScan, told, muxVars, driverVars
<1>9. CASE \E c \in Drives : SendCmd(c)
      BY <1>1, <1>9, DriveTopics DEF SendCmd, told, muxVars, driverVars
<1>10. CASE \E c \in Drives : Navigate(c)
      BY <1>1, <1>10, DriveTopics DEF Navigate, told, muxVars, driverVars
<1>11. CASE UNCHANGED vars
      BY <1>11 DEF vars, told, muxVars, driverVars
<1> QED BY <1>2, <1>3, <1>4, <1>5, <1>6, <1>7, <1>8, <1>9, <1>10, <1>11

\* The actions that have to do with what was told.
LEMMA Steps ==
  ASSUME TypeOK, [Next]_vars
  PROVE  \/ UNCHANGED told
         \/ MuxEstop
         \/ \E p \in Mux!Source, fresh \in BOOLEAN : MuxCommand(p, fresh)
         \/ MuxIdle \/ PublishCmd \/ RestartVescInterface
         \/ \E t \in {"speed", "brake", "position"} : DriverCommand(t)
BY Elsewhere DEF Next

LEMMA ToldStep == TypeOK /\ Told /\ [Next]_vars => Told'
<1> SUFFICES ASSUME TypeOK, Told, [Next]_vars PROVE Told'
    OBVIOUS
<1> USE DEF Mux!ESTOP, Mux!DEFAULT
<1>1. CASE UNCHANGED told
      BY <1>1 DEF told, Told
<1>2. CASE MuxEstop
  <2>1. Head(topic["estop"]) \in BOOLEAN
        BY <1>2, EstopTopics
  <2>2. mode' = Mux!ESTOP => output' = Mux!Halt
    <3>1. CASE Head(topic["estop"])
      <4>1. Mux!Stop
            BY <1>2, <3>1 DEF MuxEstop
      <4> QED BY <4>1 DEF Mux!Stop, Told
    <3>2. CASE ~Head(topic["estop"])
      <4>1. Mux!Release
            BY <1>2, <3>2 DEF MuxEstop
      <4> QED BY <4>1 DEF Mux!Release
    <3> QED BY <3>1, <3>2
  <2>3. ~synced' => topic'["ackermann"] = <<>> /\ mode' = Mux!DEFAULT
        BY <1>2, <2>1, EstopTopics DEF MuxEstop, Mux!Stop, Mux!Release, Told
  <2> QED BY <2>2, <2>3 DEF Told
<1>3. ASSUME NEW p \in Mux!Source, NEW fresh \in BOOLEAN, MuxCommand(p, fresh) PROVE Told'
  <2>1. Mux!Receive(p, Head(topic[SourceTopic(p)]), fresh)
        BY <1>3 DEF MuxCommand
  <2>2. synced' = (synced \/ Mux!MayDrive(p, live'))
        BY <1>3 DEF MuxCommand
  <2>3. ~Mux!MayDrive(p, live') => UNCHANGED <<mode, output>> /\ topic'["ackermann"] = topic["ackermann"]
        BY <1>3, <2>1, CommandTopics DEF Mux!Receive
  <2>4. Mux!MayDrive(p, live') => synced' /\ mode' # Mux!ESTOP
    <3>1. p # Mux!ESTOP
          BY DEF Mux!Source, Mux!JOY, Mux!KB, Mux!NAV
    <3>2. Mux!MayDrive(p, live') => mode' = p
          BY <2>1 DEF Mux!Receive
    <3> QED BY <2>2, <3>1, <3>2
  <2> QED BY <2>2, <2>3, <2>4 DEF Told
<1>4. CASE MuxIdle
      BY <1>4 DEF MuxIdle, Mux!Idle, Mux!Source, Mux!JOY, Mux!KB, Mux!NAV, Told
<1>5. CASE PublishCmd
      BY <1>5 DEF PublishCmd, muxVars, Told
<1>6. CASE RestartVescInterface
      BY <1>6, RestartTopics DEF RestartVescInterface, Told
<1>7. ASSUME NEW t \in {"speed", "brake", "position"}, DriverCommand(t) PROVE Told'
  <2>1. topic'["ackermann"] = topic["ackermann"]
        BY <1>7, DriverTopics DEF Topic
  <2> QED BY <1>7, <2>1 DEF DriverCommand, DriverUnchanged, muxVars, Told
<1> QED BY <1>1, <1>2, <1>3, <1>4, <1>5, <1>6, <1>7, Steps

LEMMA LatchStep == TypeOK /\ Latch /\ [Next]_vars => Latch'
<1> SUFFICES ASSUME TypeOK, Latch, [Next]_vars, Alone(Faults)'
             PROVE  IF topic'["estop"] = <<>> THEN announced' <=> mode' = Mux!ESTOP
                    ELSE topic'["estop"] = <<announced'>>
    BY DEF Latch
<1> USE DEF Mux!ESTOP, Mux!DEFAULT
<1>1. deployed' = deployed
      BY DEF Next, FlipPin, PollPin, RestartEstopNode, JoyMessage, JoyTimer, LaserScan,
         SendCmd, Navigate, MuxEstop, MuxCommand, MuxIdle, Age, PublishCmd,
         RestartVescInterface, DriverTimer, DriverVersion, DriverCommand, DriverUnchanged,
         vars
<1>2. /\ "joy_listener" \notin deployed /\ "stop_near_obs" \notin deployed
      /\ "estop_node_restart" \notin deployed /\ "vesc_interface_restart" \notin deployed
      /\ Alone(Faults)
      BY <1>1 DEF Alone, Stoppers, Faults
<1>3. IF topic["estop"] = <<>> THEN announced <=> mode = Mux!ESTOP
      ELSE topic["estop"] = <<announced>>
      BY <1>2 DEF Latch
<1>4. CASE UNCHANGED latch
      BY <1>3, <1>4 DEF latch
<1>5. CASE PollPin
  <2>1. UNCHANGED <<mode>>
        BY <1>5 DEF PollPin, muxVars
  <2>2. CASE Button!EstopSent = <<>>
        BY <1>3, <1>5, <2>1, <2>2, PollTopics DEF PollPin
  <2>3. CASE Button!EstopSent # <<>>
    <3> PICK x \in BOOLEAN : Button!EstopSent = <<x>>
        BY <2>3 DEF Button!EstopSent
    <3>1. topic'["estop"] # <<>> /\ Latest(topic'["estop"]) = x /\ TopicsOK(topic')
          BY <1>5, PollTopics
    <3>2. topic'["estop"] \in Seq(BOOLEAN) /\ Len(topic'["estop"]) <= 1
          BY <3>1, MessageTypes DEF TopicsOK, Topic, Limit
    <3>3. topic'["estop"] = <<x>>
          BY <3>1, <3>2 DEF Latest
    <3>4. announced' = x
          BY <1>5, <2>3 DEF PollPin
    <3> QED BY <3>3, <3>4
  <2> QED BY <2>2, <2>3
<1>6. CASE MuxEstop
  <2>1. /\ Head(topic["estop"]) \in BOOLEAN /\ topic'["estop"] = Tail(topic["estop"])
        /\ topic["estop"] # <<>>
        BY <1>6, EstopTopics DEF MuxEstop
  <2>2. topic["estop"] = <<announced>>
        BY <1>3, <2>1
  <2>3. topic'["estop"] = <<>> /\ Head(topic["estop"]) = announced
        BY <2>1, <2>2
  <2>4. announced' = announced
        BY <1>6 DEF MuxEstop, buttonVars
  <2>5. IF announced THEN Mux!Stop ELSE Mux!Release
        BY <1>6, <2>3 DEF MuxEstop
  <2>6. announced <=> mode' = Mux!ESTOP
        BY <2>5 DEF Mux!Stop, Mux!Release
  <2> QED BY <2>3, <2>4, <2>6
<1>7. ASSUME NEW p \in Mux!Source, NEW fresh \in BOOLEAN, MuxCommand(p, fresh)
      PROVE  (mode' = Mux!ESTOP <=> mode = Mux!ESTOP) /\ UNCHANGED <<announced, topic["estop"]>>
  <2>1. Mux!Receive(p, Head(topic[SourceTopic(p)]), fresh)
        BY <1>7 DEF MuxCommand
  <2>2. p # Mux!ESTOP
        BY DEF Mux!Source, Mux!JOY, Mux!KB, Mux!NAV
  <2>3. mode' = Mux!ESTOP <=> mode = Mux!ESTOP
        BY <2>1, <2>2 DEF Mux!Receive, Mux!MayDrive
  <2> QED BY <1>7, <2>3, CommandTopics DEF MuxCommand, buttonVars
<1>8. CASE MuxIdle
  <2>1. mode # Mux!ESTOP /\ mode' # Mux!ESTOP
        BY <1>8 DEF MuxIdle, Mux!Idle, Mux!Source, Mux!JOY, Mux!KB, Mux!NAV
  <2>2. UNCHANGED <<announced, topic["estop"]>>
        BY <1>8, IdleTopics DEF MuxIdle, buttonVars, Topic
  <2> QED BY <1>3, <2>1, <2>2
<1>9. CASE PublishCmd
  <2>1. topic'["estop"] = topic["estop"]
        BY <1>9, PublishTopics DEF Topic
  <2> QED BY <1>4, <1>9, <2>1 DEF PublishCmd, latch, muxVars, buttonVars
<1>10. ASSUME NEW t \in {"speed", "brake", "position"}, DriverCommand(t)
       PROVE  UNCHANGED latch
  <2>1. topic'["estop"] = topic["estop"]
        BY <1>10, DriverTopics DEF Topic
  <2> QED BY <1>10, <2>1 DEF DriverCommand, DriverUnchanged, latch, muxVars, buttonVars
<1>11. ASSUME NEW c \in Drives, SendCmd(c) \/ Navigate(c) PROVE UNCHANGED latch
  <2>1. topic'["estop"] = topic["estop"]
        BY <1>11, DriveTopics DEF SendCmd, Navigate, Topic
  <2> QED BY <1>11, <2>1 DEF SendCmd, Navigate, latch, muxVars, buttonVars
<1>12. ASSUME FlipPin \/ Age \/ DriverTimer \/ DriverVersion PROVE UNCHANGED latch
       BY <1>12 DEF FlipPin, Age, Mux!Age, DriverTimer, DriverVersion, DriverUnchanged,
          latch, muxVars, buttonVars
<1>13. ASSUME RestartEstopNode \/ RestartVescInterface \/ JoyTimer
                \/ (\E m \in Joy : JoyMessage(m)) \/ (\E near \in BOOLEAN : LaserScan(near))
       PROVE  FALSE
       BY <1>2, <1>13 DEF RestartEstopNode, RestartVescInterface, JoyTimer, JoyMessage,
          LaserScan, Runs
<1>14. CASE UNCHANGED vars
       BY <1>4, <1>14 DEF vars, latch, muxVars, buttonVars
<1> QED BY <1>3, <1>4, <1>5, <1>6, <1>7, <1>8, <1>9, <1>10, <1>11, <1>12, <1>13, <1>14
        DEF Next

LEMMA SpeedStep == TypeOK /\ Told /\ SpeedChain /\ [Next]_vars => SpeedChain'
<1> SUFFICES ASSUME TypeOK, Told, SpeedChain, [Next]_vars PROVE SpeedChain'
    OBVIOUS
<1> USE DEF Mux!ESTOP, Mux!DEFAULT
<1>1. CASE UNCHANGED told
      BY <1>1 DEF told, SpeedChain
<1>2. CASE MuxEstop
  <2> DEFINE stopping == Head(topic["estop"]) /\ mode # Mux!ESTOP
  <2>1. CASE stopping
        BY <1>2, <2>1, EstopTopics DEF SpeedChain
  <2>2. CASE ~stopping
    <3>1. UNCHANGED output
          BY <1>2, <2>2 DEF MuxEstop, Mux!Stop, Mux!Release
    <3>2. UNCHANGED synced
          BY <1>2, <2>2 DEF MuxEstop, TypeOK
    <3>3. UNCHANGED <<topic["ackermann"], topic["speed"]>>
          BY <1>2, <2>2, EstopTopics DEF Topic
    <3>4. UNCHANGED motor
          BY <1>2 DEF MuxEstop, driverVars
    <3> QED BY <3>1, <3>2, <3>3, <3>4 DEF SpeedChain
  <2> QED BY <2>1, <2>2
<1>3. ASSUME NEW p \in Mux!Source, NEW fresh \in BOOLEAN, MuxCommand(p, fresh)
      PROVE  SpeedChain'
  <2> DEFINE driving == Mux!MayDrive(p, live')
  <2>1. Mux!Receive(p, Head(topic[SourceTopic(p)]), fresh)
        BY <1>3 DEF MuxCommand
  <2>2. CASE driving
        BY <1>3, <2>2, CommandTopics DEF SpeedChain
  <2>3. CASE ~driving
    <3>1. UNCHANGED output
          BY <2>1, <2>3 DEF Mux!Receive
    <3>2. UNCHANGED synced
          BY <1>3, <2>3 DEF MuxCommand, TypeOK
    <3>3. UNCHANGED <<topic["ackermann"], topic["speed"]>>
          BY <1>3, <2>3, CommandTopics
    <3>4. UNCHANGED motor
          BY <1>3 DEF MuxCommand, driverVars
    <3> QED BY <3>1, <3>2, <3>3, <3>4 DEF SpeedChain
  <2> QED BY <2>2, <2>3
<1>4. CASE MuxIdle
      BY <1>4, IdleTopics DEF SpeedChain
<1>5. CASE PublishCmd
  <2> DEFINE c == Head(topic["ackermann"])
  <2>1. UNCHANGED <<output, synced>> /\ topic["ackermann"] # <<>>
        BY <1>5 DEF PublishCmd, muxVars
  <2>2. synced => Latest(topic["ackermann"]) = output
        BY <2>1 DEF SpeedChain
  <2>3. CASE topic'["ackermann"] = <<>>
    <3>1. topic'["speed"] # <<>> /\ Latest(topic'["speed"]) = SpeedGain * c.speed + SpeedOffset
          BY <1>5, PublishTopics
    <3>2. c = Latest(topic["ackermann"])
          BY <1>5, <2>3, PublishTopics
    <3> HIDE DEF c
    <3> QED BY <2>1, <2>2, <2>3, <3>1, <3>2 DEF SpeedChain
  <2>4. CASE topic'["ackermann"] # <<>>
    <3>1. Latest(topic'["ackermann"]) = Latest(topic["ackermann"])
          BY <1>5, <2>4, PublishTopics
    <3> QED BY <2>1, <2>2, <2>4, <3>1 DEF SpeedChain
  <2> QED BY <2>3, <2>4
<1>6. CASE RestartVescInterface
      BY <1>6 DEF RestartVescInterface, SpeedChain
<1>7. ASSUME NEW t \in {"speed", "brake", "position"}, DriverCommand(t) PROVE SpeedChain'
  <2>1. UNCHANGED <<output, synced>>
        BY <1>7 DEF DriverCommand, DriverUnchanged, muxVars
  <2>2. UNCHANGED topic["ackermann"]
        BY <1>7, DriverTopics DEF Topic
  <2>3. CASE t = "speed"
    <3>1. /\ topic["speed"] # <<>>
          /\ topic'["speed"] = <<>> => Head(topic["speed"]) = Latest(topic["speed"])
          /\ topic'["speed"] # <<>> => Latest(topic'["speed"]) = Latest(topic["speed"])
          BY <1>7, <2>3, DriverTopics
    <3>2. motor' = [kind |-> "speed", value |-> Driver!Clip(speed_limit_, Head(topic["speed"]))]
          BY <1>7, <2>3 DEF DriverCommand, Driver!SpeedCallback
    <3>3. motor'.value = Driver!Clip(speed_limit_, Head(topic["speed"]))
          BY <3>2
    <3> QED BY <2>1, <2>2, <3>1, <3>3 DEF SpeedChain
  <2>4. CASE t = "brake"
    <3>1. UNCHANGED topic["speed"]
          BY <1>7, <2>4, DriverTopics DEF Topic
    <3>2. motor'.kind = "brake"
          BY <1>7, <2>4 DEF DriverCommand, Driver!BrakeCallback
    <3> QED BY <2>1, <2>2, <3>1, <3>2 DEF SpeedChain
  <2>5. CASE t = "position"
    <3>1. UNCHANGED topic["speed"]
          BY <1>7, <2>5, DriverTopics DEF Topic
    <3>2. UNCHANGED motor
          BY <1>7, <2>5 DEF DriverCommand, Driver!ServoCallback
    <3> QED BY <2>1, <2>2, <3>1, <3>2 DEF SpeedChain
  <2> QED BY <2>3, <2>4, <2>5
<1> QED BY <1>1, <1>2, <1>3, <1>4, <1>5, <1>6, <1>7, Steps

LEMMA PositionStep == TypeOK /\ Told /\ PositionChain /\ [Next]_vars => PositionChain'
<1> SUFFICES ASSUME TypeOK, Told, PositionChain, [Next]_vars PROVE PositionChain'
    OBVIOUS
<1> USE DEF Mux!ESTOP, Mux!DEFAULT
<1>1. CASE UNCHANGED told
      BY <1>1 DEF told, PositionChain
<1>2. CASE MuxEstop
  <2> DEFINE stopping == Head(topic["estop"]) /\ mode # Mux!ESTOP
  <2>1. CASE stopping
        BY <1>2, <2>1, EstopTopics DEF PositionChain
  <2>2. CASE ~stopping
    <3>1. UNCHANGED output
          BY <1>2, <2>2 DEF MuxEstop, Mux!Stop, Mux!Release
    <3>2. UNCHANGED synced
          BY <1>2, <2>2 DEF MuxEstop, TypeOK
    <3>3. UNCHANGED <<topic["ackermann"], topic["position"]>>
          BY <1>2, <2>2, EstopTopics DEF Topic
    <3>4. UNCHANGED servo
          BY <1>2 DEF MuxEstop, driverVars
    <3> QED BY <3>1, <3>2, <3>3, <3>4 DEF PositionChain
  <2> QED BY <2>1, <2>2
<1>3. ASSUME NEW p \in Mux!Source, NEW fresh \in BOOLEAN, MuxCommand(p, fresh)
      PROVE  PositionChain'
  <2> DEFINE driving == Mux!MayDrive(p, live')
  <2>1. Mux!Receive(p, Head(topic[SourceTopic(p)]), fresh)
        BY <1>3 DEF MuxCommand
  <2>2. CASE driving
        BY <1>3, <2>2, CommandTopics DEF PositionChain
  <2>3. CASE ~driving
    <3>1. UNCHANGED output
          BY <2>1, <2>3 DEF Mux!Receive
    <3>2. UNCHANGED synced
          BY <1>3, <2>3 DEF MuxCommand, TypeOK
    <3>3. UNCHANGED <<topic["ackermann"], topic["position"]>>
          BY <1>3, <2>3, CommandTopics
    <3>4. UNCHANGED servo
          BY <1>3 DEF MuxCommand, driverVars
    <3> QED BY <3>1, <3>2, <3>3, <3>4 DEF PositionChain
  <2> QED BY <2>2, <2>3
<1>4. CASE MuxIdle
      BY <1>4, IdleTopics DEF PositionChain
<1>5. CASE PublishCmd
  <2> DEFINE c == Head(topic["ackermann"])
  <2>1. UNCHANGED <<output, synced>> /\ topic["ackermann"] # <<>>
        BY <1>5 DEF PublishCmd, muxVars
  <2>2. synced => Latest(topic["ackermann"]) = output
        BY <2>1 DEF PositionChain
  <2>3. CASE topic'["ackermann"] = <<>>
    <3>1. topic'["position"] # <<>> /\ Latest(topic'["position"]) = SteeringGain * c.steering_angle + SteeringOffset
          BY <1>5, PublishTopics
    <3>2. c = Latest(topic["ackermann"])
          BY <1>5, <2>3, PublishTopics
    <3> HIDE DEF c
    <3> QED BY <2>1, <2>2, <2>3, <3>1, <3>2 DEF PositionChain
  <2>4. CASE topic'["ackermann"] # <<>>
    <3>1. Latest(topic'["ackermann"]) = Latest(topic["ackermann"])
          BY <1>5, <2>4, PublishTopics
    <3> QED BY <2>1, <2>2, <2>4, <3>1 DEF PositionChain
  <2> QED BY <2>3, <2>4
<1>6. CASE RestartVescInterface
      BY <1>6 DEF RestartVescInterface, PositionChain
<1>7. ASSUME NEW t \in {"speed", "brake", "position"}, DriverCommand(t) PROVE PositionChain'
  <2>1. UNCHANGED <<output, synced>>
        BY <1>7 DEF DriverCommand, DriverUnchanged, muxVars
  <2>2. UNCHANGED topic["ackermann"]
        BY <1>7, DriverTopics DEF Topic
  <2>3. CASE t = "position"
    <3>1. /\ topic["position"] # <<>>
          /\ topic'["position"] = <<>> => Head(topic["position"]) = Latest(topic["position"])
          /\ topic'["position"] # <<>> => Latest(topic'["position"]) = Latest(topic["position"])
          BY <1>7, <2>3, DriverTopics
    <3>2. servo' = Driver!Clip(servo_limit_, Head(topic["position"]))
          BY <1>7, <2>3 DEF DriverCommand, Driver!ServoCallback
    <3> QED BY <2>1, <2>2, <3>1, <3>2 DEF PositionChain
  <2>4. CASE t # "position"
    <3>1. UNCHANGED topic["position"]
          BY <1>7, <2>4, DriverTopics DEF Topic
    <3>2. UNCHANGED servo
          BY <1>7, <2>4 DEF DriverCommand, Driver!SpeedCallback, Driver!BrakeCallback
    <3> QED BY <2>1, <2>2, <3>1, <3>2 DEF PositionChain
  <2> QED BY <2>3, <2>4
<1> QED BY <1>1, <1>2, <1>3, <1>4, <1>5, <1>6, <1>7, Steps

LEMMA InvStep == Inv /\ [Next]_vars => Inv'
BY TypeStep, ToldStep, LatchStep, SpeedStep, PositionStep DEF Inv

LEMMA Invariance == Spec => []Inv
<1>1. Init => Inv
      BY InvInit
<1>2. Inv /\ [Next]_vars => Inv'
      BY InvStep
<1> QED BY <1>1, <1>2, PTL DEF Spec

----------------------------------------------------------------------------
(* The theorems.  *)

\* Whatever nodes are launched, and whatever is dropped and restarted, every
\* message and every variable stays in its range and no queue overflows.
THEOREM PathTypeCorrect == Spec => []TypeOK
<1>1. Inv => TypeOK
      BY DEF Inv
<1> QED BY <1>1, Invariance, PTL

\* When everything the multiplexer sent has been served, the motor and the
\* servo obey its last command: no drop, limit, clip or reordering between the
\* processes leaves them with an older one.
THEOREM CommandsArrive == Spec => []DrainedAgrees
<1>1. Inv => DrainedAgrees
      BY DEF Inv, SpeedChain, PositionChain, DrainedAgrees, Quiet
<1> QED BY <1>1, Invariance, PTL

\* A stop in force whose messages were served finds the motor at rest.
THEOREM StopsArrive == Spec => []StopDrains
<1>1. Inv => StopDrains
  <2> SUFFICES ASSUME Inv, mode = Mux!ESTOP, Quiet({"ackermann", "speed"}), Driving
               PROVE  FALSE
      BY DEF StopDrains
  <2> USE DEF Mux!ESTOP, Mux!DEFAULT
  <2>1. synced /\ output = Mux!Halt
        BY DEF Inv, Told, TypeOK
  <2>2. motor.value = Driver!Clip(speed_limit_, SpeedGain * output.speed + SpeedOffset)
        BY <2>1 DEF Inv, SpeedChain, Quiet, Driving
  <2>3. SpeedGain * output.speed + SpeedOffset = SpeedOffset
        BY <2>1, GainAssumption DEF Mux!Halt
  <2>4. Driver!Clip(speed_limit_, SpeedOffset) = SpeedOffset
        BY LimitAssumption, GainAssumption DEF Driver!Clip
  <2> QED BY <2>2, <2>3, <2>4 DEF Driving
<1> QED BY <1>1, Invariance, PTL

\* With the kill switch as the only stopper and no node dying, a stop is in
\* force exactly when the listener's last announcement was one, as soon as the
\* topic between them is empty; the queue of one message never makes the
\* multiplexer miss the last edge of the pin.
THEOREM LatchHolds == Spec => []LatchFollowsSwitch
<1>1. Inv => LatchFollowsSwitch
      BY DEF Inv, Latch, LatchFollowsSwitch, Quiet
<1> QED BY <1>1, Invariance, PTL
=============================================================================
