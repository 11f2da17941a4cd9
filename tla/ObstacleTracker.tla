--------------------------- MODULE ObstacleTracker ---------------------------
(***************************************************************************)
(* The obstacle tracker (obstacle_detector/src/obstacle_tracker.cpp).      *)
(*                                                                         *)
(* Circles seen in a scan are matched with the obstacles known so far by   *)
(* their cost, a distance.  Old obstacles that resemble one circle fuse,   *)
(* one that resembles several circles splits, one that resembles a single  *)
(* circle is corrected by it, and a circle like one of the scan before     *)
(* becomes an obstacle.  Obstacles nobody sees fade with a timer.          *)
(*                                                                         *)
(* Of an obstacle only its fade counter is kept, of the circles only which *)
(* old obstacle is the nearest of each and which circle of each old one.   *)
(* Old obstacles are numbered from 0, the tracked ones before the others,  *)
(* as in the code.                                                         *)
(***************************************************************************)
EXTENDS Integers, Sequences, FiniteSets

CONSTANTS
  CounterSize,   \* s_fade_counter_size_: loop rate times tracking duration
  Catchup,       \* timer turns per scan: loop rate divided by sensor rate
  Cost,          \* costs that entries of the matrix may have
  MinCost,       \* p_min_correspondence_cost_: nothing dearer corresponds
  MaxSeen,       \* bound on the circles of a scan
  MaxOld         \* bound on the obstacles, tracked and not

ASSUME TrackerAssumption ==
  /\ CounterSize \in Nat /\ Catchup \in Nat
  /\ Cost \subseteq Nat /\ MinCost \in Nat
  /\ MaxSeen \in Nat /\ MaxOld \in Nat /\ MaxSeen <= MaxOld

VARIABLES
  tracked_obstacles_,     \* each with its fade counter and, as history, the
                          \* timer turns since it was last corrected, at most
                          \* CounterSize + 1
  untracked_obstacles_,   \* their number
  p_active_,              \* p_active_
  match                   \* the locals of obstaclesCallback while it runs

vars == <<tracked_obstacles_, untracked_obstacles_, p_active_, match>>

T    == Len(tracked_obstacles_)
U    == untracked_obstacles_
Idle == [running |-> FALSE]

Init ==
  /\ tracked_obstacles_ = <<>> /\ untracked_obstacles_ = 0
  /\ p_active_ = TRUE
  /\ match = Idle

----------------------------------------------------------------------------
(* The correspondence.  *)

\* The first index of the least cost below the limit, -1 if there is none.
Nearest(cost) ==
  LET near == {i \in DOMAIN cost : cost[i] < MinCost}
  IN IF near = {} THEN -1
     ELSE CHOOSE i \in near :
            \A j \in near : cost[i] < cost[j] \/ (cost[i] = cost[j] /\ i <= j)

\* Row and column minima of every cost matrix of n circles and o obstacles.
Correspondences(n, o) ==
  LET new == 0 .. n - 1
      old == 0 .. o - 1
  IN { [row |-> [i \in new |-> Nearest([j \in old |-> cost[<<i, j>>]])],
        col |-> [j \in old |-> Nearest([i \in new |-> cost[<<i, j>>]])]] :
         cost \in [new \X old -> Cost] }

Table == [n \in 0 .. MaxSeen |-> [o \in 0 .. MaxOld |-> Correspondences(n, o)]]

\* for (i = 0; i < n; ++i): what Step makes of s, turn after turn.
Loop(s, n, Step(_, _)) ==
  LET after[k \in 0 .. n] == IF k = 0 THEN s ELSE Step(after[k - 1], k - 1)
  IN after[n]

\* What the loops of the callback build up: how often each old obstacle is in
\* used_old_obstacles; the members of used_new_obstacles; how many obstacles
\* are made anew; the circles that correct the obstacle they resemble; those
\* that stay untracked; those nobody takes.
Nothing(o) == [old |-> [j \in 0 .. o - 1 |-> 0], new |-> {}, made |-> 0,
               corrects |-> {}, left |-> {}, dropped |-> {}]

Counted(count, group) ==
  [j \in DOMAIN count |-> IF j \in group THEN count[j] + 1 ELSE count[j]]

\* Marks obstacles and circles used, of which so many obstacles were made.
Take(s, obstacles, circles, made) ==
  [s EXCEPT !.old = Counted(@, obstacles), !.new = @ \cup circles, !.made = @ + made]

\* Fusion at i: with the tracked obstacles after it whose nearest circle is
\* that of i.
FuseUnmarked(s, i, col, t) ==
  LET group == {i} \cup {j \in i + 1 .. t - 1 : col[j] = col[i]}
  IN IF col[i] < 0 \/ group = {i}
       THEN s
       ELSE Take(s, group, {col[i]}, 1)

Fuse(s, i, col, t) ==
  LET used  == s.old[i] > 0 \/ col[i] \in s.new \/ col[i] < 0
      group == {i} \cup {j \in i + 1 .. t - 1 : col[j] = col[i] /\ s.old[j] = 0}
  IN IF used \/ group = {i}
       THEN s
       ELSE Take(s, group, {col[i]}, 1)

\* Fission at i: the unused circles from i on whose nearest obstacle is that of
\* i, a tracked one not yet used.
SplitUnmarked(s, i, row, n, t) ==
  LET used  == i \in s.new \/ row[i] \notin 0 .. t - 1 \/ s.old[row[i]] > 0
      group == {i} \cup {j \in i + 1 .. n - 1 : row[j] = row[i]}
  IN IF used \/ group = {i}
       THEN s
       ELSE Take(s, {row[i]}, {}, Cardinality(group))

Split(s, i, row, n, t) ==
  LET used  == i \in s.new \/ row[i] \notin 0 .. t - 1 \/ s.old[row[i]] > 0
      group == {i} \cup {j \in i + 1 .. n - 1 : row[j] = row[i] /\ j \notin s.new}
  IN IF used \/ group = {i}
       THEN s
       ELSE Take(s, {row[i]}, group, Cardinality(group))

\* A circle that is left: untracked, or it corrects the obstacle it resembles
\* or makes one of the untracked circle it resembles, or, when that obstacle
\* is used, nothing.
Settle(s, i, row, t) ==
  CASE i \in s.new                                           -> s
    [] i \notin s.new /\ row[i] = -1                         -> [s EXCEPT !.left = @ \cup {i}]
    [] i \notin s.new /\ row[i] # -1 /\ s.old[row[i]] > 0    -> [s EXCEPT !.dropped = @ \cup {i}]
    [] OTHER ->
         IF row[i] < t
           THEN [s EXCEPT !.new = @ \cup {i}, !.corrects = @ \cup {i}]
           ELSE Take(s, {}, {i}, 1)

\* The three loops.  The first two end one before the last.
AllButOne(n) == IF n = 0 THEN 0 ELSE n - 1

FuseAll(m, col, t) ==
  Loop(m, AllButOne(t), LAMBDA s, i : Fuse(s, i, col, t))

SplitAll(m, row, n, t) ==
  Loop(m, AllButOne(n), LAMBDA s, i : Split(s, i, row, n, t))

SettleRest(m, row, n, t) ==
  Loop(m, n, LAMBDA s, i : Settle(s, i, row, t))

Matched(c, n, t, o) ==
  SettleRest(SplitAll(FuseAll(Nothing(o), c.col, t), c.row, n, t), c.row, n, t)

----------------------------------------------------------------------------
(* The node.  *)

Obstacle(fade) == [fade |-> fade, unseen |-> 0]
Corrected      == Obstacle(CounterSize)              \* correctState
Fresh          == Obstacle(CounterSize - Catchup)    \* and brought up to the timer's time

\* A first scan, or one after everything has faded: all its circles wait.
FirstScan(n) ==
  /\ p_active_ /\ ~match.running
  /\ T + U = 0
  /\ untracked_obstacles_' = n
  /\ UNCHANGED <<tracked_obstacles_, p_active_, match>>

\* obstaclesCallback up to the correction of the obstacles that stay.
Stay(used) == {j \in 0 .. T - 1 : used.old[j] = 0}

Scan(n, c) ==
  /\ p_active_ /\ ~match.running
  /\ T + U > 0
  /\ LET used == Matched(c, n, T, T + U)
     IN /\ Cardinality(Stay(used)) + used.made + Cardinality(used.left) <= MaxOld
        /\ match' = [running |-> TRUE, seen |-> n, row |-> c.row, col |-> c.col, used |-> used]
        /\ tracked_obstacles_' =
             [k \in 1 .. T |-> IF \E i \in used.corrects : c.row[i] = k - 1
                                 THEN Corrected ELSE tracked_obstacles_[k]]
  /\ UNCHANGED <<untracked_obstacles_, p_active_>>

\* s without the obstacle numbered i, erased as often as count says.
Erase(s, i, count) == SubSeq(s, 1, i) \o SubSeq(s, i + 1 + count, Len(s))

\* The rest of it: the used obstacles are erased from the back, the new ones
\* appended, the untracked ones replaced.
Made(used) == [k \in 1 .. used.made |-> Fresh]

\* The erasing loop, as it would be from the front and from the back.
ErasedFromFront(s, old, n) ==
  Loop(s, n, LAMBDA x, i : IF i < Len(x) THEN Erase(x, i, old[i]) ELSE x)

Erased(s, old, n) == Loop(s, n, LAMBDA x, i : Erase(x, n - 1 - i, old[n - 1 - i]))

Update ==
  /\ match.running
  /\ tracked_obstacles_' = Erased(tracked_obstacles_, match.used.old, T) \o Made(match.used)
  /\ untracked_obstacles_' = Cardinality(match.used.left)
  /\ match' = Idle
  /\ UNCHANGED p_active_

\* timerCallback: the faded obstacles go, the others fade by one, and what is
\* left is published.
HasFadedLate(o) == o.fade < 0
HasFaded(o)     == o.fade <= 0

Older(o) == [o EXCEPT !.unseen = IF @ <= CounterSize THEN @ + 1 ELSE @]
UpdateState(o) == [Older(o) EXCEPT !.fade = @ - 1]

\* One turn of updateObstacles: obstacle i goes, or stays a turn older.
Stays(s, o) == IF HasFaded(o) THEN s ELSE Append(s, UpdateState(o))

UpdateObstacles(obstacles) ==
  Loop(<<>>, Len(obstacles), LAMBDA s, i : Stays(s, obstacles[i + 1]))

TimerBetweenScans ==
  /\ p_active_ /\ ~match.running /\ U > 0
  /\ tracked_obstacles_' = UpdateObstacles(tracked_obstacles_)
  /\ UNCHANGED <<untracked_obstacles_, p_active_, match>>

Timer ==
  /\ p_active_ /\ ~match.running
  /\ tracked_obstacles_' = UpdateObstacles(tracked_obstacles_)
  /\ UNCHANGED <<untracked_obstacles_, p_active_, match>>

\* updateParams with another value of active: on leaving, everything is
\* forgotten and the timer stops.
Deactivate ==
  /\ p_active_ /\ ~match.running
  /\ p_active_' = FALSE
  /\ tracked_obstacles_' = <<>> /\ untracked_obstacles_' = 0
  /\ UNCHANGED match

Activate ==
  /\ ~p_active_
  /\ p_active_' = TRUE
  /\ UNCHANGED <<tracked_obstacles_, untracked_obstacles_, match>>

Next ==
  \/ \E n \in 0 .. MaxSeen : FirstScan(n)
  \/ T + U <= MaxOld /\ \E n \in 0 .. MaxSeen : \E c \in Table[n][T + U] : Scan(n, c)
  \/ Update
  \/ Timer
  \/ Deactivate \/ Activate

\* The node's thread finishes a callback it is in, and serves the timer.
Spec     == Init /\ [][Next]_vars
FairSpec == Spec /\ WF_vars(Update) /\ WF_vars(Timer)

----------------------------------------------------------------------------
\* The ranges of the variables.
TypeOK ==
  /\ tracked_obstacles_ \in Seq([fade : -Catchup .. CounterSize, unseen : 0 .. CounterSize + 1])
  /\ U \in Nat /\ T + U <= MaxOld
  /\ p_active_ \in BOOLEAN
  /\ match.running \in BOOLEAN
  /\ match.running =>
       /\ match.seen \in 0 .. MaxSeen
       /\ match.row \in [0 .. match.seen - 1 -> -1 .. T + U - 1]
       /\ match.col \in [0 .. T + U - 1 -> -1 .. match.seen - 1]

\* Each obstacle is marked once and none that is not tracked, whatever overlaps
\* between the groups of circles and of obstacles; and the erasing loop, run on
\* the numbers of the obstacles, leaves those that are not marked, in order: no
\* erasure shifts an obstacle that is yet to be erased.
EraseSafe ==
  match.running =>
    /\ \A j \in 0 .. T + U - 1 : match.used.old[j] <= IF j < T THEN 1 ELSE 0
    /\ LET left == Erased([k \in 1 .. T |-> k - 1], match.used.old, T)
       IN /\ {left[k] : k \in DOMAIN left} = Stay(match.used)
          /\ \A a, b \in DOMAIN left : a < b => left[a] < left[b]

\* The matching as it is meant.  Old obstacles with one nearest circle fuse.
Several(S) == \E a, b \in S : a # b

Like(c, t, i)    == {j \in 0 .. t - 1 : c.col[j] = i}
Fusing(c, n, t)  == {i \in 0 .. n - 1 : Several(Like(c, t, i))}
Fused(c, n, t)   == {j \in 0 .. t - 1 : c.col[j] \in Fusing(c, n, t)}

\* Circles not so used with one nearest, unfused old obstacle split it.
Parts(c, n, t, j)  == {i \in 0 .. n - 1 : c.row[i] = j /\ i \notin Fusing(c, n, t)}
Splitting(c, n, t) == {j \in 0 .. t - 1 : Several(Parts(c, n, t, j)) /\ j \notin Fused(c, n, t)}
Pieces(c, n, t)    == {i \in 0 .. n - 1 \ Fusing(c, n, t) : c.row[i] \in Splitting(c, n, t)}

Gone(c, n, t) == Fused(c, n, t) \cup Splitting(c, n, t)
Rest(c, n, t) == 0 .. n - 1 \ (Fusing(c, n, t) \cup Pieces(c, n, t))

\* Every other circle waits if it resembles nothing, is dropped if the obstacle
\* it resembles is gone, corrects that obstacle, which no other circle does, or
\* makes an obstacle of the waiting circle it resembles.
Waiting(c, n, t)    == {i \in Rest(c, n, t) : c.row[i] = -1}
Dropped(c, n, t)    == {i \in Rest(c, n, t) : c.row[i] \in Gone(c, n, t)}
Correcting(c, n, t) == {i \in Rest(c, n, t) : c.row[i] \in 0 .. t - 1 \ Gone(c, n, t)}
Promoted(c, n, t)   == {i \in Rest(c, n, t) : c.row[i] >= t}

\* The marks of the three loops amount to this.
MatchesAsMeant ==
  match.running =>
    LET n    == match.seen
        used == match.used
    IN /\ {j \in 0 .. T + U - 1 : used.old[j] > 0} = Gone(match, n, T)
       /\ used.left = Waiting(match, n, T) /\ used.dropped = Dropped(match, n, T)
       /\ used.made = Cardinality(Fusing(match, n, T)) + Cardinality(Pieces(match, n, T))
                        + Cardinality(Promoted(match, n, T))
       /\ used.corrects = Correcting(match, n, T)
       /\ \A i, j \in used.corrects : match.row[i] = match.row[j] => i = j

\* No obstacle is tracked, and published, longer than CounterSize turns of the
\* timer after it was last corrected, through all fusions and splits.
FadesInTime == \A k \in 1 .. T : tracked_obstacles_[k].unseen <= CounterSize

\* Unless scans are processed again and again, every obstacle vanishes.
GhostsVanish == []<>(tracked_obstacles_ = <<>>) \/ []<>(match.running)
=============================================================================
