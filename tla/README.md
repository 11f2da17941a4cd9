# FFAST in TLA+

Specifications, model-checking configurations and proofs for the software of the FFAST vehicle, a 1:10 scale car
(`src/catkin_ws`, ROS nodes in C++ and C). `src/` below is the repository; paths without a prefix are under
`src/catkin_ws/src/`.

## 1. The system and its parts

The vehicle is a set of ROS nodes. A node is a process with one thread that serves its subscriptions and timers one
callback at a time (`ros::spin`), so a callback is atomic for its node; everything between nodes goes over topics,
bounded queues that drop their oldest message when full.

```
 estop_node --------- /commands/estop ---+
 joy_listener ------- /commands/estop ---+
 stop_near_obs ------ /commands/estop ---+                 vesc_interface (one process)
 joy_listener ------- /commands/joy -----+--> Multiplexer --/commands/ackermann--> CmdPublisher
 send_cmd ----------- /commands/keyboard +                                          |
 move_base, planners  /commands/cmd_vel -+                       motor/speed, servo/position
                                                                                    v
 estop_node, joy_listener -------------- /commands/motor/brake ---------------> vesc_driver <--serial--> VESC
```

| Part | State it keeps | Operations | What makes it correct |
|---|---|---|---|
| Command multiplexer (`hardware/vesc/vesc_interface/src/multiplexer.cpp`) | `mode_`, the stamp of the last message of each source, the command last sent | e-stop, joystick, keyboard and navigation callbacks, supervision timer | nobody drives under a live higher source; a stop is a full halt that stays the last word; a vehicle nobody commands stops in bounded time |
| Command publisher (`cmd_publisher.cpp`) | last and target speed and servo position, times of the last publications | drive command, two smoothing timers | the motor ends up with the last command, clipped; rates of change bounded as configured |
| VESC driver (`vesc_driver/src/vesc_driver.cpp`) | `driver_mode_`, firmware version | 50 Hz timer, packet callback (receive thread), command callbacks | operates after the version handshake; commands clipped |
| VESC serial interface (`vesc_interface.cpp`, `vesc_packet_factory.cpp`) | receive buffer, thread flag | receive thread, frame search, connect/disconnect, send | good frames survive noise and any cutting of the stream; the buffer stays bounded |
| Kill switch listener (`hardware/jetson_gpio/src/estop_node.cpp`) | previous level of the pin (uninitialised at first) | a 10 Hz loop | a press the loop sees stops the vehicle |
| Joystick listener (`user_interface/src/joy_listener.cpp`) | last message, activity, last e-stop | joystick callback, 10 Hz timer | its stop and its release come in pairs; its drive commands obey the multiplexer |
| Obstacle stop (`stop_near_obs.cpp`), command line (`send_cmd.cpp`) | whether the last scan was near; the last command | scan; a typed line | as above |
| Evasive manoeuvre planner and its solver node (`planning/evasive_maneuver`) | current plan and index on it, vehicle state, goal; the solver's arrays | state and plan callbacks, 50 Hz command loop; request and obstacle callbacks | one request circulates, indices stay in range, a plan that is not renewed ends in a halt, plans keep coming |
| iLQG solver (`src/iLQG/iLQG.c`) | iteration, regularisation, trajectories | backward pass, line search, acceptance | it terminates, and reports success when it converged |
| Drift cornering planner and its solver node (`planning/drift_cornering`) | plan and index on it, equilibrium flag and times; the solver's horizon | as above, in two phases; a second topic that switches the solver | the exchange is one token that goes round; indices stay in range across the switch; a plan that is not renewed gives way to the fallback; the drift lasts as long as announced |
| Obstacle tracker (`planning/obstacle_detector/src/obstacle_tracker.cpp`) | tracked and untracked obstacles with fade counters | obstacle callback, timer, the service that switches it on and off | the marks of its loops amount to the matching as it is meant; a marked obstacle, and no other, is erased, once; what nobody sees is gone in time |
| Odometry and frames (`vesc_interface/src/odom_publisher.cpp`, `hardware/tf_broadcaster`) | last state, last displacement | state and IMU callbacks, timers | no displacement is applied twice or lost |
| IMU driver (`hardware/vmu931`) | stream status, clocks of two nested loops, what of an IMU message has arrived | enabling streams with toggling commands, reading measurements, the watch that enables again | exactly the wanted streams are on; setting them ends; IMU messages come back after the device forgot |

What is hard here: topics overflow and are not ordered with respect to each other (a stop against queued commands);
stamps come from other machines; three nodes share one stop latch; nodes die and are respawned (`respawn="true"` in the
launch files) while the motor controller keeps obeying the last command; a receive thread runs beside the callbacks; the
planners and their solvers pass a single request round over queues of one. PROJECT.json lists every hazard at its line,
with the properties that cover it or the reason there is none yet.

### Not modelled

* GPIO files and serial ports (pure I/O); the decoding of packets and measurements.
* Obstacle extraction, the scans merger, odometry (dead reckoning with and without the IMU), optic flow, the cost and
  dynamics functions of the solvers: floating-point geometry. What would have to be right in them is arithmetic over
  reals, which neither checker computes, and their control is a flag or two. The launch files start no scans merger.
* The vendored packages: camera driver, scan matcher, local planner. `matlab_simulator` and the MATLAB entry points are
  not part of the vehicle; the system identification scripts publish fixed sequences as the keyboard does.
* The obstacle callback of the evasive manoeuvre's solver, its obstacle sources and the node that stamps its timing:
  they do not take part in the exchange.
* The smoothing timers of `CmdPublisher`, which the parameter file leaves off.

The modules therefore translate a small share of the repository's lines. About twelve thousand of the lines counted as
implementation are generated derivatives (`iLQG_func.c` and its two copies), more than six thousand are headers of
MATLAB, about fifteen thousand belong to the vendored local planner and scan matcher, and most of the rest are the
numerical parts above. The control of the nodes the project's authors wrote, which is where the properties are, is
covered node by node (the components of PROJECT.json).

## 2. The modules

| Module | Models | State and actions |
|---|---|---|
| `CommandArbiter` | what the multiplexer promises, without time | `mode`, `live` (the sources whose last message still holds off lower ones), `output`; `Receive`, `Age`, `Stop`, `Release`, `Idle` |
| `Multiplexer` | `multiplexer.cpp` with clock, stamps and timer | `JoyCallback`, `KbCallback`, `NavCallback`, `EstopCallback`, `PubTimerCallback`, `Tick`; refines `CommandArbiter` |
| `EstopNode`, `JoyListener`, `StopNearObs` | the three stoppers, one callback or loop turn per action; what a turn publishes is an operator (`EstopSent`, ...) | used by `CommandPath` |
| `CmdPublisher` | the callback of `cmd_publisher.cpp` | used by `CommandPath` |
| `VescDriver` | `vesc_driver.cpp` and the controller's last command | used by `CommandPath` |
| `CommandPath` | all of them joined by topics, with respawns | one action per handler: the component's action plus the topics it takes from and publishes to |
| `VescReceiver` | the receive thread and the packet factory | `RxTurn(n)`: one read of `n` bytes and the search of the buffer; the search is a recursive function of the place it has come to (`SearchFrom`), one turn of the code's loop an operator (`SearchAt`) |
| `PlanFollower` | how a planner drives along a plan: the plan, the index on it, the command | `Follow`, `Adopt`; extended by `EvasiveManeuver` and `DriftCornering`, whose planners follow their plans in the same words |
| `EvasiveManeuver` | `avoid_obs.cpp` and `avoid_obs_ilqr.cpp` with the topics between them | `StartManeuver`, `SendCommand`, `SpinOnce`, `ReachGoal`; `SolverStart`, `TakeRequest`, `PublishPlan`, `SolverDies`; `Odometry` |
| `RequestLoop` | what an exchange of requests and plans promises | `token`: unsent, a request, a search, a plan, lost; `Ask`, `Take`, `Answer`, `Renew`, `Lose` |
| `DriftCornering` | `drift_cornering.cpp` and `drift_cornering_ilqr*.cpp` with the topics between them | `StartCornering`, `Approach`, `ServeApproach`, `ReachEquilibrium`, `Stay`, `ServeSteady`, `Quit`; `SolverStart`, `TimerCb`, `TakeRequest`, `PublishPlan`, `SolverDies`; `Odometry`; refines `RequestLoop` |
| `ObstacleTracker` | `obstacle_tracker.cpp` | `FirstScan`, `Scan` and `Update` (the obstacle callback up to and from the erasing of used obstacles), `Timer`, `Activate`, `Deactivate`; the matching is `FuseAll`, `SplitAll`, `SettleRest`, one operator per loop of the callback, each the `Loop` of one turn (`Fuse`, `Split`, `Settle`) on the marks made so far; the vectors of used indices are kept as a count for each obstacle and a set of circles |
| `Vmu931` | `vmu931.cpp`, `msg_utils.cpp` and the device | `Ask`, `Read`, `Garbled`, `Miss`, `Rest` (`updateStatus`); `AsWanted`, `Toggle`, `Settle` (`setSensorStatus`); `Data`, `Unasked`, `Second`, `Watch` (`spin`); `Obey`, `Reset` (the device) |
| `SolverLoop` | the outer loop of `iLQG.c`, and of its two copies in `drift_cornering`, which differ by a namespace | one action per outcome of a step: `Head`, `BackPassFails`, `Accept`, `Reject`, ... |
| `Multiplexer_proofs`, `CommandPath_proofs`, `VescReceiver_proofs`, `EvasiveManeuver_proofs`, `DriftCornering_proofs`, `ObstacleTracker_proofs`, `SolverLoop_proofs`, `Vmu931_proofs` | theorems about these modules | |
| `MC...` | values for TLC | |

Conventions. Names follow the source (`mode_` of a single-instance node keeps its underscore where it helps, a topic is
named by its last component). History variables, which no action reads, are marked "history". In `CommandPath` each
component module is INSTANCEd on the variables of the same names, and an action is the component's action conjoined with
the topics and an UNCHANGED for everybody else.

Abstractions. A command is a speed and a steering angle out of small sets; the conversions (`speed_gain`,
`steering_gain`, clipping) are computed with the numbers of `vesc_interface.yaml` and `vesc_driver.yaml`, servo
positions in thousandths. Wheel angle from a Twist is reduced to its side, the only thing the properties distinguish.
Axes of the joystick are at rest or pushed home. Of a plan, `PlanFollower` keeps the numbers of its commands and states
and whether they move the vehicle (a failed solution is all zeros); the planner adds a thousandth of the tracking error
to each command, which is left out, so "zeros" is a command without motion of its own. `SolverLoop` leaves the answer of
every numerical part open and gives the regularisation by its logarithm, to which a factor is an addition. Time in
`Multiplexer` is a counter of ticks of one timeout.

In `DriftCornering` a state says only how it compares with the equilibrium (out of tolerance in speed or slip, in yaw
rate only, in tolerance, or with the yaw rate equal to the digit, which the condition of the code tells apart), and the
queues of odometry and of the topics to the solver hold the newest message, as queues of one do; `stayed` counts the
turns in the equilibrium as the log message means it. In `ObstacleTracker` costs are an arbitrary matrix, of which the
code uses only which entry of a row or column is the least below the limit (`Correspondences`: every matrix over
`Cost`), and an obstacle is its fade counter with, as history, the timer turns since it was last corrected. In `Vmu931`
the toggles of one round are one message of which any part may be lost, a stream is on or off, and time passes in whole
seconds where the code sleeps or waits; the hundred polls of `updateStatus` take no time or a second, since the budget
of `select` is set once (line 90) and Linux consumes it, after which polls return at once and skip the sleep.

Over-approximations, which only add behaviours: topics are served in any order, though one process serves its own
subscriptions in order of arrival; the subscriber's and the publisher's queues of a topic are one queue of the smaller
limit; `Age` may silence a source at any moment.

One remark about the code that no run states: the planners advertise `commands/cmd_vel` as `AckermannDriveStamped`
(`avoid_obs.cpp:21`, `drift_cornering.cpp:24`), the multiplexer subscribes to it as `Twist` (`multiplexer.cpp:21`), and
ROS refuses such a connection. `CommandPath` therefore takes navigation commands from `move_base`.

## 3. The runs

| Run | Shows | Result |
|---|---|---|
| `mux` | `Multiplexer` with unset, old, present and future stamps: types, `Authority`, `EstopHoldsHalt`, `StaleCommandStops`, and that it implements `CommandArbiter` | holds |
| `command_path` | six deployments of the command chain: `DrainedAgrees` (once the queues are empty the motor obeys the last command), `StopDrains` (a stop reaches the motor), `LatchFollowsSwitch` (the latch follows the kill switch when nobody else may release it) | holds |
| `kill_switch_liveness` | `PressStops`: a press the listener sees leads to a vehicle at rest | holds |
| `vesc_receiver` | `BufferBounded`, `ChunkIndependent`, `Resynchronises`, `CleanLine` on every line of up to four pieces cut in every way | holds |
| `evasive_maneuver` | planner and solver, with a solver that starts late, is slow, fails or dies: `OneRequest`, `InBounds`, `StalePlanHalts` (a plan that is not renewed ends in a halt), `PlansKeepComing`, `DeadSolverHalts` | holds |
| `solver_loop` | the optimiser for every outcome of its parts: `Terminates`, `RetriesAreStronger`, `RegularisationBounded`, `ConvergedIsSuccess` | holds |
| `drift_cornering` | planner and solver of drift cornering: `ImplementsLoop` (the exchange is `RequestLoop`'s token), `OneRequest`, `InBounds`, `StalePlanFallsBack`, `PlansKeepComing` | holds |
| `obstacle_tracker` | every cost matrix, scan after scan: `MatchesAsMeant` (the marks of the loops amount to the matching stated declaratively), `EraseSafe` (none is marked twice, and erasing leaves those not marked, in order), `FadesInTime` (none outlives the fade counter), `GhostsVanish` | holds |
| `imu_driver` | `SetUnlessOvertaken` (the streams are right unless an answer overtook a question or the device was reset), `SettingEnds`, `ImuComesBack` | holds |
| `kill_switch_overruled` | `KillSwitchHolds`, the README's promise of the kill switch, with the joystick as a second stopper | violated |
| `no_input_keeps_driving` | `NoInputStops`, what the supervision timer is for | violated |
| `drift_equilibrium` | `StayedOnEquilibrium`, the message the drift cornering planner ends with | violated |

The violated ones are disagreements between the code and what its comments, parameter files or README say; each is a
finding in PROJECT.json with the line and the quoted text.

* `kill_switch_overruled`: the latch is one variable for all stoppers, so the release of the joystick's stop button
  frees a vehicle whose kill switch is still pressed.
* `no_input_keeps_driving`: a release sets the mode to the default whether or not a stop was in force, and the
  supervision timer skips a multiplexer in its default mode. A release that was never preceded by a stop (`estop_node`
  compares its first sample with an uninitialised value) leaves a moving vehicle that nobody commands.
* `drift_equilibrium`: a misplaced parenthesis compares the truth value of the three tests with a tolerance, so the
  equilibrium counts as reached outside it, and its start is never recorded, so the time in it is the time since 1970.
  The first state off the equilibrium ends the drift.

### What the passing properties do not promise

The modules follow the code also where it does not do what a comment or a parameter says; the properties that hold are
stated so as to say what remains true. The divergences a reader should know of:

* The driver's command callbacks assign `driver_mode_ = MODE_OPERATING` where they should compare
  (`vesc_driver.cpp:155` to `215`): the first command ends the version handshake (`Accept` in `VescDriver`).
* `max_motor_accel` and `max_servo_speed` are never in force: the times of the last publications are read
  (`cmd_publisher.cpp:79`, `97`) and never written. `CommandPath` runs with the limiter at that constant.
* The optimiser returns 1 also after the derivatives failed or the search was given up (`iLQG.c:249`, `359`), and in the
  first iteration whatever the uninitialised `backPassDone` holds; `ConvergedIsSuccess` is the other direction, which
  is true.
* `InBounds` of `DriftCornering` excepts one array: what is left of a plan of fifty commands is copied in full into the
  steady-state solver's array, which holds one (`drift_cornering_ilqr_steadystate.cpp:151`).
* Both planners ask for their first plan once, after a sleep of five seconds. If the solver was not there yet no plan
  ever comes (`RequestLoop`'s "lost"), and the planner goes on with its fallback.
* The IMU driver asks for the status again after a while without the answer to the question before, and the
  answers carry no number. From then on each comparison may read a status older than the toggles it judges, and the driver may log "sensor status
  set" with wanted streams off. `SetUnlessOvertaken` says that nothing else leads there.
* Its watch is fed by any stream, while an IMU message needs all three: with some of them off it stays silent for ever
  (`PartlyOn`, the exception in `ImuComesBack`).
* A press that happened before the listener's first sample may go unannounced. `LatchFollowsSwitch` and `PressStops`
  speak of what the listener announced and sampled; what a release that nobody made does is `NoInputStops`.
* After a brake that was served later than the last command, multiplexer and motor disagree until the next command:
  `DrainedAgrees` says what the motor is told when a command had the last word.
* `FadesInTime` is an upper bound: a fusion or a split makes obstacles with counters of their own, which may vanish
  sooner.
* A circle that resembles an obstacle just fused or split is dropped (`dropped` in `MatchesAsMeant`): it is neither
  tracked nor remembered for the next scan.

### Bounds

* `mux`: one tick is one timeout, the timer has a period of four and a latency of one, the clock runs for ten ticks, so
  the timer fires twice and a whole round passes after any event; stamps 0, 2, 5 and 12 are unset, old, present and
  ahead.
* `command_path`: each deployment launches the nodes whose interplay is the question (kill switch and keyboard; the same
  with a respawn of `vesc_interface`; a respawn of `estop_node`; the joystick alone; obstacle stop with navigation; the
  keyboard during the firmware handshake). Topics hold one message (the code's ten): a full topic is then the normal case and overflow is
  exercised at every step. Two flips of the switch, one respawn.
* `vesc_receiver`: bytes 0..3 include both start bytes, the end byte and a meaningless one; payloads have at most two
  bytes; a line has up to four pieces (good frames, damaged frames, beginnings of frames, an oversized size field).
* `evasive_maneuver`: `Horizon` is the code's ten; positions lie before, at and behind the goal. The planner may send
  any number of commands while the solver works, so every index of a plan and its exhaustion occur; `turns` stops
  counting at `Horizon + 1`, where nothing depends on it any more. `PlansKeepComing` is conditional on the solver having
  been there for the first request (`asked`): the planner sleeps five seconds for it and does not look.
* `drift_cornering`: `Horizon` is 5 for the code's 50 and `HorizonSteady` the code's 1; the proofs hold for any. Two
  turns stand for the turns of five seconds. Requests meet both solvers, and the switch overtakes requests and plans.
  `Clock` holds a time after and one before `MIN_EQUILIBRIUM_TIME`. At the first, which is any time since 1970, the
  second phase lasts a single turn and no short plan is ever followed. The second is that of a ROS on simulated time,
  whose clock starts at zero: the second phase lasts, is left for the first one again, and plans of both lengths are
  followed and used up in both. `drift_equilibrium` has the first time only.
* `obstacle_tracker`: up to three circles and three obstacles, with costs of which three correspond and one does not,
  give every pattern of ties, fusion of two and of three, fission of two and of three, and both at once; a scan that
  would leave more than `MaxOld` obstacles is not taken. The fade counter starts at 2, and an obstacle made anew at 1:
  obstacles of each age meet in every scan.
* `imu_driver`: an IMU message of two streams and one stream nobody wants; a line of two messages, so answers overtake
  questions and messages are lost for want of room; the time-outs are one or two units, so that each loop goes round
  before it gives up; one reset of the device, at any moment.
* `solver_loop`: the optimiser's standard parameters, logarithms to the base `lambdaFactor` in hundredths; `max_iter` is
  the solver node's 50.

### Fairness

`CommandPath`: weak fairness of `PollPin` (an endless loop with a sleep), `MuxEstop`, `PublishCmd` and
the driver's speed and position callbacks (subscriptions that `ros::spin` serves as long as they have messages, by a
process roslaunch respawns). Nothing is assumed of people, of ageing stamps or of faults. Weak fairness is enough since
a message in a topic stays there, or is replaced by a newer one, until it is served.

`EvasiveManeuver`: weak fairness of the planner's loop (it runs on its own clock) and of the solver's service of its
topic (a subscription, and a computation that ends: `Terminates` of `solver_loop`). Nothing is assumed of positions, of
the solver's start or of its death, and `PlansKeepComing` excepts a dead solver.

`DriftCornering`: weak fairness of every step of the planner's loops and of the solver's answers to requests, as above;
nothing of states, of the start and death of the solver, or of the second topic.

`ObstacleTracker`: weak fairness of the timer and of the end of a callback that has begun. Nothing is assumed of scans:
`GhostsVanish` excepts a node that is busy with scans again and again.

`Vmu931`: weak fairness of the driver's functions as a whole, of the device's service of its line and of each IMU
measurement of a stream that is on. Whether messages are lost or garbled is left open, and `ImuComesBack` excepts a
driver that misses its answers again and again.

`SolverLoop`: the process runs on. Of each pair of outcomes only the less favourable one is fair (`BackPassFails`,
`GradientLarge`, `Reject`), which amounts to saying that some outcome occurs; no success is ever owed.

## 4. What is proved

`Multiplexer_proofs` proves with TLAPS, for every set of speeds, angles and stamps, every timeout, timer latency and
clock bound (the assumptions are `MuxAssumption` and `SteerAssumption` of `Multiplexer`, which TLC evaluates on `mux`):

| Theorem | Statement |
|---|---|
| `TypeCorrect` | `Spec => []TypeOK` |
| `AuthorityHolds` | `Spec => []Authority`: no live source above the driver |
| `EstopHoldsHaltAlways` | `Spec => []EstopHoldsHalt` |
| `StaleCommandStopsAlways` | `Spec => []StaleCommandStops` |
| `Implementation` | `Spec => CommandArbiter's Spec` under the refinement mapping |

`Authority` and `EstopHoldsHalt` are inductive relative to `TypeOK`. `StaleCommandStops` is not: it bounds the clock,
and the clock moves without the timer. Its inductive strengthening `StaleInv` adds the timer's schedule (`ClockInv`:
never served later than `Latency`, never set further ahead than a period) and bounds the NEXT firing instead of the
clock (`DueInv`): a moving vehicle has a driver, and the next firing lies within a round of the last command or of the
last stamp that was recent. A firing that finds a recent stamp moves the bound to that stamp; one that finds none stops
the vehicle. `EstopHoldsHalt` is part of it because a release of a real stop must find the vehicle at rest. The
refinement maps `live` to the sources whose stamp is within the timeout: callbacks are `Receive`, the clock is `Age`, a
timer that finds a driver and nobody live is `Idle`, and any other timer call stutters.

`CommandPath_proofs` (for every set of deployments and of commands, every capacity of the queues, every clipping range
and any number of respawns, by `PathAssumption`, `LimitAssumption` and `GainAssumption`):

| Theorem | Statement |
|---|---|
| `PathTypeCorrect` | `Spec => []TypeOK` |
| `CommandsArrive` | `Spec => []DrainedAgrees` |
| `StopsArrive` | `Spec => []StopDrains` |
| `LatchHolds` | `Spec => []LatchFollowsSwitch` |

All of them speak of empty queues; the invariant says what is true while messages are under way. `SpeedChain`: the last
command of the multiplexer is the newest message of the publisher's queue, or, if that is empty, its speed is the
newest of the driver's, or, if that is empty too, the motor obeys it. A full queue drops its oldest message, so the newest
survives every overflow, and that is all the chain needs. `PositionChain` says the same of the servo, `Latch` of the
kill switch's topic, `Told` that a stop is the last thing the multiplexer said. `GainAssumption` says that the limiter
never limits: with the times it reads never written, the time it sees (`WallClock`) is since 1970, and the rate times
that is larger than any change of speed. `LimitAssumption` says that the driver's ranges are ranges, and that of speeds
holds `SpeedOffset`, the speed at which the vehicle stands (0 in `vesc_interface.yaml`), without which a halt would be
clipped to a motion.

`VescReceiver_proofs` (for every line, every way to cut it into reads, every largest payload and every set of packet
types, by `ReceiverAssumption`):

| Theorem | Statement |
|---|---|
| `CutsDoNotMatter` | `Spec => []ChunkIndependent` |
| `BufferStaysBounded` | `Spec => []BufferBounded` |
| `FramesSurviveNoise` | `Spec => []Resynchronises` |
| `CleanLineHeard` | `Spec => []CleanLine` |

`Types /\ ChunkIndependent` is inductive: what has been handed over, and what the buffer holds, is what ONE search of
everything read so far gives. The other three are then facts about one search. A step needs `SearchTwice`: to search a
line up to some place, and then what was kept with what came after it, is to search both at once. It rests on two things
about the search: it looks only forward, so that it gives the same of a suffix, its places shifted (`SearchOfSuffix`);
and bytes that come later change no verdict on a candidate that is complete (`SameKind`), so that the search of the
longer line goes on from where the shorter one stopped (`SearchGoesOn`). `FramesSurviveNoise` follows the search to the
first place at or behind the start of the frame (`NotLost`): it either lands on it, or a packet was found that reaches
over it. The checksum is left as any function of the payload.

These lemmas are inductions over places of a line, which the prover does not do by a rule. They are done by the least
counterexample: the set of places where a claim fails is a set of numbers, which has a least member if it has any
(`WFMin` of the library with the order of the numbers, whose well-foundedness the library proves), and the claim at the
places before that member gives the contradiction (`LeastNumber`, and `UpTo` and `DownFrom` for the two directions). That
a function defined by recursion over places exists, and obeys its equation, is proved the same way (`Upward`, `Downward`).

`EvasiveManeuver_proofs` (for every `Horizon` and every set of distances, by `ManeuverAssumption`):

| Theorem | Statement |
|---|---|
| `ManeuverTypeCorrect` | `Spec => []TypeOK` |
| `OneRequestAlways` | `Spec => []OneRequest` |
| `AlwaysInBounds` | `Spec => []InBounds` |
| `StalePlanAlwaysHalts` | `Spec => []StalePlanHalts` |

`IInv` strengthens the properties by three facts: a plan with commands has one state more (`PlansWhole`, also of plans
on their way); commands and turns are counted alike until the plan is used up (`Counted`), so that after `Horizon` turns
the plan is used up and the fallback has been sent; and while the planner waits nothing has been asked (`Unasked`).

`DriftCornering_proofs` (for every `Horizon`, every `HorizonSteady` up to it and every clock, by `CorneringAssumption`):

| Theorem | Statement |
|---|---|
| `CorneringTypeCorrect` | `Spec => []TypeOK` |
| `OneCorneringRequest` | `Spec => []OneRequest` |
| `CorneringInBounds` | `Spec => []InBounds` |
| `StalePlanAlwaysFallsBack` | `Spec => []StalePlanFallsBack` |
| `CorneringImplementsLoop` | `Spec => RequestLoop's Spec` under the mapping `Token` |

The inductive invariant is `TypeOK` (which knows that a plan has one state more than commands, on its way too),
`OneRequest`, `StalePlanFallsBack`, and two facts as in the evasive manoeuvre: commands and turns are counted alike until
the plan is used up (`Counted`), now for plans of two lengths, and nothing is asked while the planner sleeps
(`Unasked`). The refinement needs `OneRequest`: `Token` names where the one request is, and a step that made a second one
would have no image.

`ObstacleTracker_proofs` (for every set of costs and limit, every number of circles and obstacles, every duration of the
fade counter and every rate, by `TrackerAssumption`):

| Theorem | Statement |
|---|---|
| `TrackerTypeCorrect` | `Spec => []TypeOK` |
| `ErasingIsSafe` | `Spec => []EraseSafe` |
| `MatchingIsAsMeant` | `Spec => []MatchesAsMeant` |
| `ObstaclesFade` | `Spec => []FadesInTime` |

The work is in the callback's three loops, each of which reads the marks that it and the loops before it have made. What
they have marked after `k` turns is given in closed form, from the minima alone: `FuseMarks` (the circles that several
obstacles resemble, as far as one of these has had its turn), `SplitMarks` (the obstacles that several of the other
circles resemble, as far as one of these has had its turn, with all their circles) and `SettleMarks` (the circles below
`k` that are left, by their kind). A turn leads from one mark to the next (`FuseTurn`, `SplitTurn`, `SettleTurn`): the
first obstacle of a group to have its turn takes the whole group, any later one finds itself used. That the first two
loops end one before the last is no loss, since a group has two members (`FusedAll`, `SplitEnds`). So the three loops
amount to the matching as it is meant (`Meaning`), from which `EraseSafe` and `MatchesAsMeant` follow: two circles
correcting one obstacle would have split it (`CorrectedOnce`).

The invariant `Inv` of the node is that the marks are those of the loops (`AsMatched`), that what they leave fits
(`Room`, the bound of the model), and that fade counter and age of an obstacle add up to `CounterSize` at most, the
counter being below zero only while the age is zero (`InStep`), without which a turn of the timer proves nothing. The
loop that erases needs the marks to be zero or one: after `k` turns from the back, the list has as many obstacles as
there are before the place it has come to, and one for each unmarked one behind it (`EraseLoop`). Run on the numbers of
the obstacles, where the model's records would not tell two of the same age apart, it leaves all the numbers before that
place and the unmarked ones behind it, in order (`OrderKept`, `NumbersLeft`), which is the second half of `EraseSafe`.

`Vmu931_proofs` (for all sets of streams, patiences and line sizes, by `Vmu931Assumption`):

| Theorem | Statement |
|---|---|
| `ImuTypeCorrect` | `Spec => []TypeOK` |
| `ImuSetUnlessOvertaken` | `Spec => []SetUnlessOvertaken` |

`SetUnlessOvertaken` speaks of the driver at two points; its strengthening `Answered` follows the question over the
line. As long as no answer was overtaken, at most one answer is due and the question, while on the line, is its last
command, so every toggle is carried out before it is answered; an answer on its way, and the status after it, is then
the device's.

`SolverLoop_proofs` (for every `max_iter` and all parameters that satisfy `SolverAssumption`):

| Theorem | Statement |
|---|---|
| `SolverTypeCorrect` | `Spec => []TypeOK`; with it `iter <= max_iter` |
| `RegularisationAlwaysBounded` | `Spec => []RegularisationBounded` |
| `ConvergedAlwaysSuccess` | `Spec => []ConvergedIsSuccess` |
| `RetriesAlwaysStronger` | `Spec => RetriesAreStronger`, an action property |

The invariant says what the code knows at each point: inside an iteration `iter < max_iter` (`Within`); whether the
backward pass has succeeded (`PassKnown`); and at the test of the gradient, which comes before the test of
`backPassDone`, that a pass that was given up has left `lambda` above `lambdaMax` (`GivenUp`), hence above the threshold
of that test.

## 5. What is only model-checked

`PressStops`, `PlansKeepComing`, `DeadSolverHalts`, `Terminates`, `GhostsVanish`, `SettingEnds` and `ImuComesBack` are
liveness, which the prover does not reach. Every other property that a run checks and that holds is the property of a
theorem above.

## 6. Configurations

Every run is `tlc -config <cfg> <module>` with the names in PROJECT.json. Deadlock is checked everywhere but in
`solver_loop`, whose function returns.

## 7. What could come next

1. The tracker composed with `mask_obstacles` and the solver of the evasive manoeuvre: the mask publishes nothing when no
   obstacle is near, so the solver goes on avoiding the last one, which matters only once its costs are modelled.
2. The two flags per scanner of the scans merger, should a vehicle with two scanners use it.
