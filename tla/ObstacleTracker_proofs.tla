----------------------- MODULE ObstacleTracker_proofs -----------------------
(***************************************************************************)
(* Proofs about ObstacleTracker, for every number of circles and obstacles,*)
(* every matrix of costs, fade counter and rate of the timer.              *)
(*                                                                         *)
(* The loops of the callback are recursive functions.  What each of the    *)
(* three loops that match has marked after k turns is given in closed form *)
(* (FuseMarks, SplitMarks, SettleMarks), and a turn leads from one to the  *)
(* next.  The two loops over the obstacles are shown to stay among lists   *)
(* of the right length, and the one that erases to leave the obstacles it  *)
(* is to leave, in order (NumbersLeft).  The invariant says that the marks are those of    *)
(* the loops, that what they leave fits, and that the fade counter of each *)
(* obstacle and its age add up to CounterSize at most.                     *)
(***************************************************************************)
EXTENDS ObstacleTracker, WellFoundedInduction, FiniteSetTheorems, SequenceTheorems, TLAPS

LEMMA LessThan == OpToRel(<, Nat) = {ss \in Nat \X Nat : ss[1] < ss[2]}
BY DEF OpToRel

\* A set of natural numbers that is not empty has a least one.
LEMMA LeastNumber ==
  ASSUME NEW S, S \subseteq Nat, S # {}
  PROVE  \E x \in S : \A y \in S : x <= y
<1> DEFINE R == {ss \in Nat \X Nat : ss[1] < ss[2]}
<1>1. IsWellFoundedOn(R, Nat)
      BY NatLessThanWellFounded, LessThan
<1>2. \A x, y \in Nat : y < x => <<y, x>> \in R
      OBVIOUS
<1> HIDE DEF R
<1> PICK x \in S : \A y \in S : ~ (<<y, x>> \in R)
    BY <1>1, WFMin
<1>3. ASSUME NEW y \in S PROVE x <= y
  <2>1. x \in Nat /\ y \in Nat
        OBVIOUS
  <2>2. ~(y < x)
        BY <2>1, <1>2
  <2> QED BY <2>1, <2>2
<1> QED BY <1>3

\* Induction from 0 up to N, for the members of a set.
LEMMA UpTo ==
  ASSUME NEW N \in Nat, NEW S, 0 \in S,
         \A k \in 0 .. N - 1 : k \in S => k + 1 \in S
  PROVE  \A k \in 0 .. N : k \in S
<1> DEFINE Bad == {k \in 0 .. N : k \notin S}
<1> SUFFICES ASSUME Bad # {} PROVE FALSE
    OBVIOUS
<1>1. Bad \subseteq Nat
      OBVIOUS
<1> PICK k \in Bad : \A y \in Bad : k <= y
    BY <1>1, LeastNumber
<1>2. k # 0 /\ k \in 1 .. N
      OBVIOUS
<1>3. k - 1 \notin Bad
      BY <1>1, <1>2
<1>4. k - 1 \in S /\ k - 1 \in 0 .. N - 1
      BY <1>2, <1>3
<1>5. (k - 1) + 1 \in S
      BY <1>4
<1> QED BY <1>2, <1>5

----------------------------------------------------------------------------
(* The loops.  *)

\* Two functions that begin alike and go on alike are alike.
LEMMA SameAll ==
  ASSUME NEW N \in Nat, NEW f, NEW g, f[0] = g[0],
         \A k \in 0 .. N - 1 : f[k] = g[k] => f[k + 1] = g[k + 1]
  PROVE  f[N] = g[N]
<1> DEFINE S == {k \in 0 .. N : f[k] = g[k]}
<1>1. 0 \in S
      OBVIOUS
<1>2. \A k \in 0 .. N - 1 : k \in S => k + 1 \in S
      OBVIOUS
<1> HIDE DEF S
<1>3. N \in S
      BY <1>1, <1>2, UpTo
<1> QED BY <1>3 DEF S

\* n circles and o obstacles, of which t are tracked, each with its nearest.
Resembles(c, n, t, o) ==
  /\ n \in Nat /\ o \in Nat /\ t \in 0 .. o
  /\ c.row \in [0 .. n - 1 -> -1 .. o - 1] /\ c.col \in [0 .. o - 1 -> -1 .. n - 1]

----------------------------------------------------------------------------
(* Fusion.  *)

\* The circles whose obstacles have fused after the turns below k, and all
\* marks then.
FusedBelow(c, n, t, k) == {i \in Fusing(c, n, t) : \E j \in 0 .. k - 1 : c.col[j] = i}

FuseMarks(c, n, t, o, k) ==
  [old |-> [j \in 0 .. o - 1 |->
              IF j < t /\ c.col[j] \in FusedBelow(c, n, t, k) THEN 1 ELSE 0],
   new |-> FusedBelow(c, n, t, k), made |-> Cardinality(FusedBelow(c, n, t, k)),
   corrects |-> {}, left |-> {}, dropped |-> {}]

\* The loop ends with the marks M if every turn leads from marks to marks.
LEMMA FuseLoop ==
  ASSUME NEW t \in Nat, NEW col, NEW m, NEW M, M[0] = m,
         \A k \in 0 .. AllButOne(t) - 1 : Fuse(M[k], k, col, t) = M[k + 1]
  PROVE  FuseAll(m, col, t) = M[AllButOne(t)]
<1> DEFINE N == AllButOne(t)
           g == [k \in 0 .. N |-> M[k]]
           after == CHOOSE f : f = [k \in 0 .. N |-> IF k = 0 THEN m ELSE Fuse(f[k - 1], k - 1, col, t)]
<1>1. N \in Nat
      BY DEF AllButOne
<1>2. FuseAll(m, col, t) = after[N]
      BY DEF FuseAll, Loop
<1> HIDE DEF N
<1>3. g = [k \in 0 .. N |-> IF k = 0 THEN m ELSE Fuse(g[k - 1], k - 1, col, t)]
  <2>1. ASSUME NEW k \in 0 .. N, k # 0 PROVE g[k] = Fuse(g[k - 1], k - 1, col, t)
    <3>1. k - 1 \in 0 .. N - 1 /\ k - 1 \in 0 .. N /\ (k - 1) + 1 = k
          BY <1>1, <2>1
    <3>2. Fuse(M[k - 1], k - 1, col, t) = M[(k - 1) + 1]
          BY <3>1 DEF N
    <3> QED BY <3>1, <3>2
  <2> QED BY <1>1, <2>1
<1>4. after = [k \in 0 .. N |-> IF k = 0 THEN m ELSE Fuse(after[k - 1], k - 1, col, t)]
  <2> HIDE DEF g
  <2> QED BY <1>3
<1> HIDE DEF after
<1>5. after[0] = M[0]
      BY <1>1, <1>4
<1>6. ASSUME NEW k \in 0 .. N - 1, after[k] = M[k] PROVE after[k + 1] = M[k + 1]
  <2>1. k + 1 \in 0 .. N /\ k + 1 # 0 /\ (k + 1) - 1 = k
        BY <1>1
  <2>2. after[k + 1] = Fuse(after[k], k, col, t)
        BY <1>4, <2>1
  <2> QED BY <1>6, <2>2 DEF N
<1>7. after[N] = M[N]
      BY <1>1, <1>5, <1>6, SameAll
<1> QED BY <1>2, <1>7 DEF N

\* A set of circles is finite.
LEMMA FewCircles ==
  ASSUME NEW n \in Nat, NEW S, S \subseteq 0 .. n - 1
  PROVE  IsFiniteSet(S) /\ Cardinality(S) \in Nat
<1>1. IsFiniteSet(0 .. n - 1)
      BY FS_Interval
<1> QED BY <1>1, FS_Subset, FS_CardinalityType

LEMMA Together ==
  ASSUME NEW A, NEW B, IsFiniteSet(A), IsFiniteSet(B), A \cap B = {}
  PROVE  Cardinality(A \cup B) = Cardinality(A) + Cardinality(B)
<1>1. Cardinality(A \cup B) = Cardinality(A) + Cardinality(B) - Cardinality(A \cap B)
      BY FS_Union
<1>2. Cardinality(A \cap B) = 0 /\ Cardinality(A) \in Nat /\ Cardinality(B) \in Nat
      BY FS_EmptySet, FS_CardinalityType
<1> QED BY <1>1, <1>2

\* The marks, written out.
Marks(old, new, made, corrects, left, dropped) ==
  [old |-> old, new |-> new, made |-> made, corrects |-> corrects, left |-> left,
   dropped |-> dropped]

Fields     == {"old", "new", "made", "corrects", "left", "dropped"}
HasFields(u) == u = [x \in Fields |-> u[x]]

LEMMA SameFields ==
  ASSUME NEW u, NEW v, HasFields(u), HasFields(v), \A x \in Fields : u[x] = v[x]
  PROVE  u = v
BY DEF HasFields

LEMMA MarksAre ==
  ASSUME NEW u, HasFields(u)
  PROVE  u = Marks(u.old, u.new, u.made, u.corrects, u.left, u.dropped)
<1> DEFINE v == Marks(u.old, u.new, u.made, u.corrects, u.left, u.dropped)
<1>1. HasFields(v)
      BY DEF Marks, HasFields, Fields
<1>2. \A x \in Fields : u[x] = v[x]
      BY DEF Fields, Marks
<1>3. u = v
  <2> HIDE DEF v
  <2> QED BY <1>1, <1>2, SameFields
<1> QED BY <1>3

LEMMA MarksHave ==
  \A old, new, made, corrects, left, dropped :
    HasFields(Marks(old, new, made, corrects, left, dropped))
BY DEF Marks, HasFields, Fields

LEMMA Taking ==
  ASSUME NEW s, HasFields(s), NEW obstacles, NEW circles, NEW made
  PROVE  Take(s, obstacles, circles, made)
           = Marks(Counted(s.old, obstacles), s.new \cup circles, s.made + made,
                   s.corrects, s.left, s.dropped)
<1> DEFINE u == Take(s, obstacles, circles, made)
<1>1. HasFields(u)
      BY DEF HasFields, Fields, Take
<1>2. u.old = Counted(s.old, obstacles) /\ u.new = s.new \cup circles /\ u.made = s.made + made
      /\ u.corrects = s.corrects /\ u.left = s.left /\ u.dropped = s.dropped
      BY DEF HasFields, Fields, Take
<1>3. u = Marks(Counted(s.old, obstacles), s.new \cup circles, s.made + made,
                s.corrects, s.left, s.dropped)
  <2> HIDE DEF u
  <2> QED BY <1>1, <1>2, MarksAre
<1> QED BY <1>3

\* One turn of the loop.
LEMMA FuseTurn ==
  ASSUME NEW c, NEW n, NEW t, NEW o, Resembles(c, n, t, o), NEW k \in 0 .. t - 1
  PROVE  Fuse(FuseMarks(c, n, t, o, k), k, c.col, t) = FuseMarks(c, n, t, o, k + 1)
<1> DEFINE F     == FusedBelow(c, n, t, k)
           G     == FusedBelow(c, n, t, k + 1)
           i     == c.col[k]
           s     == FuseMarks(c, n, t, o, k)
           used  == s.old[k] > 0 \/ i \in s.new \/ i < 0
           group == {k} \cup {j \in k + 1 .. t - 1 : c.col[j] = i /\ s.old[j] = 0}
<1>1. n \in Nat /\ t \in Nat /\ o \in Nat /\ t <= o /\ k \in Nat /\ k < t /\ k \in 0 .. o - 1
      /\ c.col \in [0 .. o - 1 -> -1 .. n - 1] /\ i \in -1 .. n - 1
      BY DEF Resembles
<1>2. F \subseteq Fusing(c, n, t) /\ G \subseteq Fusing(c, n, t) /\ Fusing(c, n, t) \subseteq 0 .. n - 1
      BY DEF FusedBelow, Fusing
<1>3. G = IF i \in Fusing(c, n, t) THEN F \cup {i} ELSE F
  <2>1. 0 .. (k + 1) - 1 = (0 .. k - 1) \cup {k}
        BY <1>1
  <2> QED BY <2>1 DEF FusedBelow
<1>4. \A j \in 0 .. t - 1 : c.col[j] \in F \/ ~(\E h \in 0 .. k - 1 : c.col[h] = c.col[j])
                            \/ c.col[j] \notin Fusing(c, n, t)
      BY DEF FusedBelow
<1>5. /\ s.new = F /\ s.made = Cardinality(F) /\ s.corrects = {} /\ s.left = {} /\ s.dropped = {}
      /\ DOMAIN s.old = 0 .. o - 1
      /\ \A j \in 0 .. o - 1 : s.old[j] = IF j < t /\ c.col[j] \in F THEN 1 ELSE 0
      BY DEF FuseMarks
<1>6. used <=> i \in F \/ i < 0
      BY <1>1, <1>5
<1>7. Fuse(s, k, c.col, t) =
        IF used \/ group = {k} THEN s
        ELSE Take(s, group, {i}, 1)
      BY DEF Fuse
<1>8. ASSUME ~used PROVE group = {j \in k .. t - 1 : c.col[j] = i}
  <2>0. i \notin F
        BY <1>6, <1>8
  <2>1. ASSUME NEW j \in k + 1 .. t - 1, c.col[j] = i PROVE s.old[j] = 0
    <3>1. j \in 0 .. o - 1
          BY <1>1
    <3> HIDE DEF F, i, s
    <3> QED BY <1>5, <2>0, <2>1, <3>1
  <2>2. k .. t - 1 = {k} \cup (k + 1 .. t - 1)
        BY <1>1
  <2> HIDE DEF s, used
  <2> QED BY <2>1, <2>2
<1>9. ASSUME ~used, i \in Fusing(c, n, t) PROVE Like(c, t, i) = {j \in k .. t - 1 : c.col[j] = i}
  <2>1. \A h \in 0 .. k - 1 : c.col[h] # i
        BY <1>6, <1>9 DEF FusedBelow
  <2>2. 0 .. t - 1 = (0 .. k - 1) \cup (k .. t - 1)
        BY <1>1
  <2> QED BY <2>1, <2>2 DEF Like
<1> HIDE DEF F, G, s, used, group
<1>10. ASSUME ~used PROVE group = {k} <=> i \notin Fusing(c, n, t)
  <2>0. k \in k .. t - 1 /\ k .. t - 1 \subseteq 0 .. t - 1 /\ c.col[k] = i
        BY <1>1
  <2>1. k \in group /\ group \subseteq Like(c, t, i)
        BY <1>8, <1>10, <2>0 DEF Like
  <2>2. i \in 0 .. n - 1
        BY <1>1, <1>6, <1>10
  <2>3. ASSUME i \in Fusing(c, n, t) PROVE group # {k}
    <3>1. PICK a, b \in Like(c, t, i) : a # b
          BY <2>3 DEF Fusing, Several
    <3>2. group = Like(c, t, i)
          BY <1>8, <1>9, <1>10, <2>3
    <3> QED BY <3>1, <3>2
  <2>4. ASSUME group # {k} PROVE i \in Fusing(c, n, t)
        BY <2>1, <2>2, <2>4 DEF Fusing, Several
  <2> QED BY <2>3, <2>4
<1>11. CASE used
  <2>1. G = F
        BY <1>2, <1>3, <1>6, <1>11
  <2> QED BY <1>7, <1>11, <2>1 DEF FuseMarks, F, G, s
<1>12. CASE ~used /\ i \notin Fusing(c, n, t)
  <2>1. G = F /\ group = {k}
        BY <1>3, <1>10, <1>12
  <2> QED BY <1>7, <1>12, <2>1 DEF FuseMarks, F, G, s
<1>13. CASE ~used /\ i \in Fusing(c, n, t)
  <2>1. G = F \cup {i} /\ i \notin F /\ group # {k} /\ group = Like(c, t, i)
        BY <1>3, <1>6, <1>8, <1>9, <1>10, <1>13
  <2>2. Cardinality(G) = Cardinality(F) + 1
    <3>1. IsFiniteSet(F)
          BY <1>1, <1>2, FewCircles
    <3> QED BY <2>1, <3>1, FS_AddElement
  <2>3. Counted(s.old, group) = [j \in 0 .. o - 1 |-> IF j < t /\ c.col[j] \in G THEN 1 ELSE 0]
    <3>1. \A j \in 0 .. o - 1 : j \in group <=> j < t /\ c.col[j] = i
          BY <1>1, <2>1 DEF Like
    <3>2. \A j \in 0 .. o - 1 : (IF j \in group THEN s.old[j] + 1 ELSE s.old[j])
                                 = IF j < t /\ c.col[j] \in G THEN 1 ELSE 0
          BY <1>5, <2>1, <3>1
    <3> QED BY <1>5, <3>2 DEF Counted
  <2>4. HasFields(s)
        BY DEF s, FuseMarks, HasFields, Fields
  <2>5. Take(s, group, {i}, 1) = Marks(Counted(s.old, group), G, Cardinality(G), {}, {}, {})
    <3>1. Take(s, group, {i}, 1) = Marks(Counted(s.old, group), s.new \cup {i}, s.made + 1,
                                         s.corrects, s.left, s.dropped)
          BY <2>4, Taking
    <3>2. s.new \cup {i} = G /\ s.made + 1 = Cardinality(G)
          BY <1>5, <2>1, <2>2
    <3> QED BY <1>5, <3>1, <3>2
  <2>6. Fuse(s, k, c.col, t) = Marks(Counted(s.old, group), G, Cardinality(G), {}, {}, {})
        BY <1>7, <1>13, <2>1, <2>5
  <2> QED BY <2>3, <2>6 DEF FuseMarks, Marks, G, s
<1> QED BY <1>11, <1>12, <1>13 DEF s

\* What has fused when the loop ends.
LEMMA FusedAll ==
  ASSUME NEW c, NEW n, NEW t, NEW o, Resembles(c, n, t, o)
  PROVE  FusedBelow(c, n, t, AllButOne(t)) = Fusing(c, n, t)
<1>1. t \in Nat
      BY DEF Resembles
<1>2. ASSUME NEW i \in Fusing(c, n, t)
      PROVE  \E j \in 0 .. AllButOne(t) - 1 : c.col[j] = i
  <2>1. PICK a \in 0 .. t - 1, b \in 0 .. t - 1 : a # b /\ c.col[a] = i /\ c.col[b] = i
        BY DEF Fusing, Several, Like
  <2>2. t # 0 /\ AllButOne(t) = t - 1
        BY <1>1 DEF AllButOne
  <2>3. a \in 0 .. (t - 1) - 1 \/ b \in 0 .. (t - 1) - 1
        BY <1>1, <2>1
  <2> QED BY <2>1, <2>2, <2>3
<1> QED BY <1>2 DEF FusedBelow

\* What the fusing loop has marked when it ends.
LEMMA Fusion ==
  ASSUME NEW c, NEW n, NEW t, NEW o, Resembles(c, n, t, o)
  PROVE  FuseAll(Nothing(o), c.col, t) = FuseMarks(c, n, t, o, AllButOne(t))
<1> DEFINE M == [k \in 0 .. t |-> FuseMarks(c, n, t, o, k)]
           N == AllButOne(t)
<1>1. t \in Nat /\ N \in 0 .. t
      BY DEF Resembles, AllButOne
<1>2. M[0] = Nothing(o)
  <2>1. FusedBelow(c, n, t, 0) = {} /\ Cardinality({}) = 0
        BY FS_EmptySet DEF FusedBelow
  <2>2. FuseMarks(c, n, t, o, 0) = Nothing(o)
        BY <2>1 DEF FuseMarks, Nothing
  <2> QED BY <1>1, <2>2
<1>3. ASSUME NEW k \in 0 .. N - 1 PROVE Fuse(M[k], k, c.col, t) = M[k + 1]
  <2>1. k \in 0 .. t - 1 /\ k \in 0 .. t /\ k + 1 \in 0 .. t
        BY <1>1
  <2>2. Fuse(FuseMarks(c, n, t, o, k), k, c.col, t) = FuseMarks(c, n, t, o, k + 1)
        BY <2>1, FuseTurn
  <2> QED BY <2>1, <2>2
<1> DEFINE col == c.col
           m == Nothing(o)
<1>4. FuseAll(m, col, t) = M[N]
  <2> HIDE DEF M, col, m
  <2>1. \A k \in 0 .. AllButOne(t) - 1 : Fuse(M[k], k, col, t) = M[k + 1]
        BY <1>3 DEF col
  <2> QED BY <1>1, <1>2, <2>1, FuseLoop DEF m
<1> QED BY <1>1, <1>4

----------------------------------------------------------------------------
(* Fission.  *)

\* The obstacles split by the turns below k, their circles, and all marks then.
SplitBelow(c, n, t, k) ==
  {j \in Splitting(c, n, t) : \E i \in 0 .. k - 1 : i \in Parts(c, n, t, j)}

PiecesBelow(c, n, t, k) ==
  {i \in 0 .. n - 1 \ Fusing(c, n, t) : c.row[i] \in SplitBelow(c, n, t, k)}

SplitMarks(c, n, t, o, k) ==
  Marks([j \in 0 .. o - 1 |->
           IF j \in Fused(c, n, t) \cup SplitBelow(c, n, t, k) THEN 1 ELSE 0],
        Fusing(c, n, t) \cup PiecesBelow(c, n, t, k),
        Cardinality(Fusing(c, n, t)) + Cardinality(PiecesBelow(c, n, t, k)),
        {}, {}, {})

\* The loop ends with the marks M if every turn leads from marks to marks.
LEMMA SplitLoop ==
  ASSUME NEW n \in Nat, NEW row, NEW t, NEW m, NEW M, M[0] = m,
         \A k \in 0 .. AllButOne(n) - 1 : Split(M[k], k, row, n, t) = M[k + 1]
  PROVE  SplitAll(m, row, n, t) = M[AllButOne(n)]
<1> DEFINE N == AllButOne(n)
           g == [k \in 0 .. N |-> M[k]]
           after == CHOOSE f : f = [k \in 0 .. N |-> IF k = 0 THEN m ELSE Split(f[k - 1], k - 1, row, n, t)]
<1>1. N \in Nat
      BY DEF AllButOne
<1>2. SplitAll(m, row, n, t) = after[N]
      BY DEF SplitAll, Loop
<1> HIDE DEF N
<1>3. g = [k \in 0 .. N |-> IF k = 0 THEN m ELSE Split(g[k - 1], k - 1, row, n, t)]
  <2>1. ASSUME NEW k \in 0 .. N, k # 0 PROVE g[k] = Split(g[k - 1], k - 1, row, n, t)
    <3>1. k - 1 \in 0 .. N - 1 /\ k - 1 \in 0 .. N /\ (k - 1) + 1 = k
          BY <1>1, <2>1
    <3>2. Split(M[k - 1], k - 1, row, n, t) = M[(k - 1) + 1]
          BY <3>1 DEF N
    <3> QED BY <3>1, <3>2
  <2> QED BY <1>1, <2>1
<1>4. after = [k \in 0 .. N |-> IF k = 0 THEN m ELSE Split(after[k - 1], k - 1, row, n, t)]
  <2> HIDE DEF g
  <2> QED BY <1>3
<1> HIDE DEF after
<1>5. after[0] = M[0]
      BY <1>1, <1>4
<1>6. ASSUME NEW k \in 0 .. N - 1, after[k] = M[k] PROVE after[k + 1] = M[k + 1]
  <2>1. k + 1 \in 0 .. N /\ k + 1 # 0 /\ (k + 1) - 1 = k
        BY <1>1
  <2>2. after[k + 1] = Split(after[k], k, row, n, t)
        BY <1>4, <2>1
  <2> QED BY <1>6, <2>2 DEF N
<1>7. after[N] = M[N]
      BY <1>1, <1>5, <1>6, SameAll
<1> QED BY <1>2, <1>7 DEF N

\* One turn of the loop.
LEMMA SplitTurn ==
  ASSUME NEW c, NEW n, NEW t, NEW o, Resembles(c, n, t, o), NEW k \in 0 .. n - 1
  PROVE  Split(SplitMarks(c, n, t, o, k), k, c.row, n, t) = SplitMarks(c, n, t, o, k + 1)
<1> DEFINE F     == Fusing(c, n, t)
           S     == SplitBelow(c, n, t, k)
           R     == SplitBelow(c, n, t, k + 1)
           P     == PiecesBelow(c, n, t, k)
           Q     == PiecesBelow(c, n, t, k + 1)
           all   == Splitting(c, n, t)
           gone  == Fused(c, n, t)
           q     == c.row[k]
           s     == SplitMarks(c, n, t, o, k)
           used  == k \in s.new \/ q \notin 0 .. t - 1 \/ s.old[q] > 0
           group == {k} \cup {j \in k + 1 .. n - 1 : c.row[j] = q /\ j \notin s.new}
           parts == Parts(c, n, t, q)
<1>1. n \in Nat /\ t \in Nat /\ o \in Nat /\ t <= o /\ k \in Nat /\ k < n /\ k \in 0 .. n - 1
      /\ c.row \in [0 .. n - 1 -> -1 .. o - 1] /\ q \in -1 .. o - 1
      BY DEF Resembles
<1>2. /\ S \subseteq all /\ R \subseteq all /\ F \subseteq 0 .. n - 1 /\ P \subseteq 0 .. n - 1
      /\ all \subseteq 0 .. t - 1 /\ gone \subseteq 0 .. t - 1 /\ all \cap gone = {} /\ P \cap F = {}
      BY DEF SplitBelow, Fusing, PiecesBelow, Splitting, Fused
<1>3. R = IF q \in all /\ k \notin F THEN S \cup {q} ELSE S
  <2>1. 0 .. (k + 1) - 1 = (0 .. k - 1) \cup {k}
        BY <1>1
  <2>2. \A j : k \in Parts(c, n, t, j) <=> j = q /\ k \notin F
        BY <1>1 DEF Parts
  <2> QED BY <2>1, <2>2 DEF SplitBelow
<1>4. /\ s.new = F \cup P /\ s.made = Cardinality(F) + Cardinality(P)
      /\ s.corrects = {} /\ s.left = {} /\ s.dropped = {}
      /\ DOMAIN s.old = 0 .. o - 1
      /\ \A j \in 0 .. o - 1 : s.old[j] = IF j \in gone \cup S THEN 1 ELSE 0
      BY DEF SplitMarks, Marks
<1>5. HasFields(s)
      BY MarksHave DEF SplitMarks
<1>6. Split(s, k, c.row, n, t) =
        IF used \/ group = {k} THEN s ELSE Take(s, {q}, group, Cardinality(group))
      BY DEF Split
<1>7. \A i \in 0 .. n - 1 : i \in P <=> i \notin F /\ c.row[i] \in S
      BY DEF PiecesBelow
<1>8. \A i \in 0 .. n - 1 : i \in Q <=> i \notin F /\ c.row[i] \in R
      BY DEF PiecesBelow
<1>9. P \subseteq 0 .. n - 1 /\ Q \subseteq 0 .. n - 1
      BY DEF PiecesBelow
<1>10. \A i : i \in parts <=> i \in 0 .. n - 1 /\ c.row[i] = q /\ i \notin F
      BY DEF Parts
<1>11. q \in all <=> q \in 0 .. t - 1 /\ q \notin gone /\ Several(parts)
      BY DEF Splitting
<1>12. q \in S <=> q \in all /\ \E i \in 0 .. k - 1 : i \in parts
      BY DEF SplitBelow
<1> HIDE DEF F, S, R, P, Q, all, gone, q, s, used, group, parts
<1>13. CASE used
  <2>1. R = S
    <3>1. used <=> k \in F \/ k \in P \/ q \notin 0 .. t - 1 \/ q \in gone \/ q \in S
      <4>1. q \in 0 .. t - 1 => q \in 0 .. o - 1
            BY <1>1
      <4> QED BY <1>4, <4>1 DEF used
    <3>2. k \in P => q \in S
          BY <1>1, <1>7 DEF q
    <3> QED BY <1>2, <1>3, <1>13, <3>1, <3>2
  <2>2. Q = P
        BY <1>7, <1>8, <1>9, <2>1
  <2> QED BY <1>6, <1>13, <2>1, <2>2 DEF SplitMarks, F, P, Q, R, S, s
<1>14. CASE ~used
  <2>1. k \notin F /\ k \notin P /\ q \in 0 .. t - 1 /\ q \in 0 .. o - 1 /\ q \notin gone /\ q \notin S
    <3>1. q \in 0 .. t - 1 => q \in 0 .. o - 1
          BY <1>1
    <3> QED BY <1>4, <1>14, <3>1 DEF used
  <2>2. k \in parts /\ parts \subseteq 0 .. n - 1
        BY <1>1, <1>10, <2>1 DEF q
  <2>3. \A i \in parts : i \notin P
        BY <1>7, <1>10, <2>1
  <2>4. group = {i \in parts : i >= k}
    <3>1. \A j \in k + 1 .. n - 1 : c.row[j] = q /\ j \notin s.new <=> j \in parts
      <4> TAKE j \in k + 1 .. n - 1
      <4>1. j \in 0 .. n - 1
            BY <1>1
      <4> QED BY <1>4, <1>10, <2>3, <4>1
    <3>2. \A i \in parts : i >= k <=> i = k \/ i \in k + 1 .. n - 1
          BY <1>1, <2>2
    <3>3. k >= k
          BY <1>1
    <3> QED BY <2>2, <3>1, <3>2, <3>3 DEF group
  <2>5. CASE q \notin all
    <3>1. group = {k}
      <4>1. ~Several(parts)
            BY <1>11, <2>1, <2>5
      <4>2. \A i \in parts : i = k
            BY <2>2, <4>1 DEF Several
      <4>3. k >= k
            BY <1>1
      <4> QED BY <2>2, <2>4, <4>2, <4>3
    <3>2. R = S
          BY <1>3, <2>5
    <3>3. Q = P
          BY <1>7, <1>8, <1>9, <3>2
    <3> QED BY <1>6, <1>14, <3>1, <3>2, <3>3 DEF SplitMarks, F, P, Q, R, S, s
  <2>6. CASE q \in all
    <3>1. group = parts
      <4>1. \A i \in parts : i >= k
        <5>1. \A i \in 0 .. k - 1 : i \notin parts
              BY <1>12, <2>1, <2>6
        <5> QED BY <1>1, <2>2, <5>1
      <4> QED BY <2>4, <4>1
    <3>2. group # {k}
          BY <1>11, <2>6, <3>1 DEF Several
    <3>3. R = S \cup {q}
          BY <1>3, <2>1, <2>6
    <3>4. Q = P \cup group /\ P \cap group = {}
      <4>1. \A i \in 0 .. n - 1 : i \in Q <=> i \in P \/ i \in parts
            BY <1>7, <1>8, <1>10, <3>3
      <4> QED BY <1>9, <2>2, <2>3, <3>1, <4>1
    <3>5. Cardinality(Q) = Cardinality(P) + Cardinality(group)
      <4>1. IsFiniteSet(P) /\ IsFiniteSet(group)
            BY <1>1, <1>9, <2>2, <3>1, FewCircles
      <4>2. Cardinality(P \cup group) = Cardinality(P) + Cardinality(group)
            BY <3>4, <4>1, Together
      <4> QED BY <3>4, <4>2
    <3>6. s.made + Cardinality(group) = Cardinality(F) + Cardinality(Q)
      <4>1. Cardinality(F) \in Nat /\ Cardinality(P) \in Nat /\ Cardinality(group) \in Nat
            BY <1>1, <1>2, <2>2, <3>1, FewCircles
      <4> QED BY <1>4, <3>5, <4>1
    <3>7. Counted(s.old, {q}) = [j \in 0 .. o - 1 |-> IF j \in gone \cup R THEN 1 ELSE 0]
      <4>1. \A j \in 0 .. o - 1 : (IF j \in {q} THEN s.old[j] + 1 ELSE s.old[j])
                                   = IF j \in gone \cup R THEN 1 ELSE 0
            BY <1>4, <2>1, <3>3
      <4> QED BY <1>4, <4>1 DEF Counted
    <3>8. Take(s, {q}, group, Cardinality(group))
            = Marks(Counted(s.old, {q}), F \cup Q, Cardinality(F) + Cardinality(Q), {}, {}, {})
      <4> DEFINE size == Cardinality(group)
      <4>1. Take(s, {q}, group, size) = Marks(Counted(s.old, {q}), s.new \cup group, s.made + size,
                                              s.corrects, s.left, s.dropped)
        <5> HIDE DEF size
        <5> QED BY <1>5, Taking
      <4>2. s.new \cup group = F \cup Q
            BY <1>4, <3>4
      <4> QED BY <1>4, <3>6, <4>1, <4>2
    <3> QED BY <1>6, <1>14, <3>2, <3>7, <3>8 DEF SplitMarks, F, P, Q, R, S, s, gone
  <2> QED BY <2>5, <2>6
<1> QED BY <1>13, <1>14 DEF s, q

\* What has split when the loop ends.
LEMMA SplitEnds ==
  ASSUME NEW c, NEW n, NEW t, NEW o, Resembles(c, n, t, o)
  PROVE  /\ SplitBelow(c, n, t, AllButOne(n)) = Splitting(c, n, t)
         /\ PiecesBelow(c, n, t, AllButOne(n)) = Pieces(c, n, t)
<1>1. n \in Nat
      BY DEF Resembles
<1>2. ASSUME NEW j \in Splitting(c, n, t)
      PROVE  \E i \in 0 .. AllButOne(n) - 1 : i \in Parts(c, n, t, j)
  <2>1. PICK a \in Parts(c, n, t, j), b \in Parts(c, n, t, j) : a # b
        BY DEF Splitting, Several
  <2>2. a \in 0 .. n - 1 /\ b \in 0 .. n - 1
        BY DEF Parts
  <2>3. n # 0 /\ AllButOne(n) = n - 1
        BY <1>1, <2>2 DEF AllButOne
  <2>4. a \in 0 .. (n - 1) - 1 \/ b \in 0 .. (n - 1) - 1
        BY <1>1, <2>1, <2>2
  <2> QED BY <2>1, <2>3, <2>4
<1>3. SplitBelow(c, n, t, AllButOne(n)) = Splitting(c, n, t)
      BY <1>2 DEF SplitBelow
<1> QED BY <1>3 DEF PiecesBelow, Pieces

\* What the splitting loop has marked when it ends.
LEMMA Fission ==
  ASSUME NEW c, NEW n, NEW t, NEW o, Resembles(c, n, t, o)
  PROVE  SplitAll(FuseAll(Nothing(o), c.col, t), c.row, n, t) = SplitMarks(c, n, t, o, AllButOne(n))
<1> DEFINE M == [k \in 0 .. n |-> SplitMarks(c, n, t, o, k)]
           N == AllButOne(n)
           m == FuseAll(Nothing(o), c.col, t)
           row == c.row
<1>1. n \in Nat /\ t \in Nat /\ N \in 0 .. n
      BY DEF Resembles, AllButOne
<1>2. M[0] = m
  <2>1. SplitBelow(c, n, t, 0) = {} /\ PiecesBelow(c, n, t, 0) = {}
        BY DEF SplitBelow, PiecesBelow
  <2>2. Cardinality({}) = 0 /\ Cardinality(Fusing(c, n, t)) + 0 = Cardinality(Fusing(c, n, t))
    <3>1. Fusing(c, n, t) \subseteq 0 .. n - 1
          BY DEF Fusing
    <3>2. Cardinality(Fusing(c, n, t)) \in Nat
          BY <1>1, <3>1, FewCircles
    <3> QED BY <3>2, FS_EmptySet
  <2>3. m = FuseMarks(c, n, t, o, AllButOne(t)) /\ FusedBelow(c, n, t, AllButOne(t)) = Fusing(c, n, t)
        BY Fusion, FusedAll
  <2>4. \A j \in 0 .. o - 1 : j < t /\ c.col[j] \in Fusing(c, n, t) <=> j \in Fused(c, n, t)
    <3>1. \A j \in 0 .. o - 1 : j < t <=> j \in 0 .. t - 1
          BY <1>1 DEF Resembles
    <3> QED BY <3>1 DEF Fused
  <2>5. [j \in 0 .. o - 1 |-> IF j < t /\ c.col[j] \in Fusing(c, n, t) THEN 1 ELSE 0]
          = [j \in 0 .. o - 1 |-> IF j \in Fused(c, n, t) \cup {} THEN 1 ELSE 0]
        BY <2>4
  <2>6. SplitMarks(c, n, t, o, 0) = m
    <3> DEFINE old == [j \in 0 .. o - 1 |-> IF j < t /\ c.col[j] \in Fusing(c, n, t) THEN 1 ELSE 0]
               F == Fusing(c, n, t)
    <3>1. SplitMarks(c, n, t, o, 0)
            = Marks(old, F \cup {}, Cardinality(F) + Cardinality({}), {}, {}, {})
          BY <2>1, <2>5 DEF SplitMarks
    <3>2. m = Marks(old, F, Cardinality(F), {}, {}, {})
          BY <2>3 DEF FuseMarks, Marks
    <3>3. F \cup {} = F
          OBVIOUS
    <3> HIDE DEF old, F, m
    <3>4. Cardinality(F) + Cardinality({}) = Cardinality(F)
          BY <2>2 DEF F
    <3> QED BY <3>1, <3>2, <3>3, <3>4
  <2> QED BY <1>1, <2>6
<1>3. ASSUME NEW k \in 0 .. N - 1 PROVE Split(M[k], k, row, n, t) = M[k + 1]
  <2>1. k \in 0 .. n - 1 /\ k \in 0 .. n /\ k + 1 \in 0 .. n
        BY <1>1
  <2>2. Split(SplitMarks(c, n, t, o, k), k, c.row, n, t) = SplitMarks(c, n, t, o, k + 1)
        BY <2>1, SplitTurn
  <2> QED BY <2>1, <2>2
<1>4. SplitAll(m, row, n, t) = M[N]
  <2> HIDE DEF M, row, m
  <2>1. \A k \in 0 .. AllButOne(n) - 1 : Split(M[k], k, row, n, t) = M[k + 1]
        BY <1>3
  <2> QED BY <1>1, <1>2, <2>1, SplitLoop
<1> QED BY <1>1, <1>4

----------------------------------------------------------------------------
(* The rest of the circles.  *)

Below(S, k) == {i \in S : i < k}

SettleMarks(c, n, t, o, k) ==
  Marks([j \in 0 .. o - 1 |-> IF j \in Gone(c, n, t) THEN 1 ELSE 0],
        Fusing(c, n, t) \cup Pieces(c, n, t)
          \cup Below(Correcting(c, n, t), k) \cup Below(Promoted(c, n, t), k),
        Cardinality(Fusing(c, n, t)) + Cardinality(Pieces(c, n, t))
          + Cardinality(Below(Promoted(c, n, t), k)),
        Below(Correcting(c, n, t), k), Below(Waiting(c, n, t), k), Below(Dropped(c, n, t), k))

LEMMA OneMore ==
  ASSUME NEW n \in Nat, NEW S, S \subseteq 0 .. n - 1, NEW k \in 0 .. n - 1
  PROVE  /\ Below(S, k + 1) = IF k \in S THEN Below(S, k) \cup {k} ELSE Below(S, k)
         /\ k \notin Below(S, k)
<1>1. \A i \in S : (i < k + 1 <=> i < k \/ i = k)
      OBVIOUS
<1>2. ~(k < k)
      OBVIOUS
<1>3. CASE k \in S
      BY <1>1, <1>2, <1>3, Zenon DEF Below
<1>4. CASE k \notin S
      BY <1>1, <1>2, <1>4, Zenon DEF Below
<1> QED BY <1>3, <1>4

LEMMA AllBelow ==
  ASSUME NEW n \in Nat, NEW S, S \subseteq 0 .. n - 1
  PROVE  Below(S, n) = S /\ Below(S, 0) = {}
<1>1. \A i \in S : i < n /\ ~(i < 0)
      OBVIOUS
<1> QED BY <1>1 DEF Below

\* The marks of the loop of the rest, and the circles that come into them.
LEMMA RestParts ==
  ASSUME NEW c, NEW n, NEW t, NEW o, Resembles(c, n, t, o)
  PROVE  /\ Fusing(c, n, t) \subseteq 0 .. n - 1 /\ Pieces(c, n, t) \subseteq 0 .. n - 1
         /\ Fusing(c, n, t) \cap Pieces(c, n, t) = {}
         /\ Gone(c, n, t) \subseteq 0 .. t - 1
         /\ Rest(c, n, t) \subseteq 0 .. n - 1
         /\ Correcting(c, n, t) \subseteq Rest(c, n, t) /\ Promoted(c, n, t) \subseteq Rest(c, n, t)
         /\ Waiting(c, n, t) \subseteq Rest(c, n, t) /\ Dropped(c, n, t) \subseteq Rest(c, n, t)
BY DEF Fusing, Pieces, Gone, Fused, Splitting, Rest, Correcting, Promoted, Waiting, Dropped

\* The loop ends with the marks M if every turn leads from marks to marks.
LEMMA SettleLoop ==
  ASSUME NEW n \in Nat, NEW row, NEW t, NEW m, NEW M, M[0] = m,
         \A k \in 0 .. n - 1 : Settle(M[k], k, row, t) = M[k + 1]
  PROVE  SettleRest(m, row, n, t) = M[n]
<1> DEFINE g == [k \in 0 .. n |-> M[k]]
           after == CHOOSE f : f = [k \in 0 .. n |-> IF k = 0 THEN m ELSE Settle(f[k - 1], k - 1, row, t)]
<1>1. SettleRest(m, row, n, t) = after[n]
      BY DEF SettleRest, Loop
<1>2. g = [k \in 0 .. n |-> IF k = 0 THEN m ELSE Settle(g[k - 1], k - 1, row, t)]
  <2>1. ASSUME NEW k \in 0 .. n, k # 0 PROVE g[k] = Settle(g[k - 1], k - 1, row, t)
    <3>1. k - 1 \in 0 .. n - 1 /\ k - 1 \in 0 .. n /\ (k - 1) + 1 = k
          BY <2>1
    <3>2. Settle(M[k - 1], k - 1, row, t) = M[(k - 1) + 1]
          BY <3>1
    <3> QED BY <3>1, <3>2
  <2> QED BY <2>1
<1>3. after = [k \in 0 .. n |-> IF k = 0 THEN m ELSE Settle(after[k - 1], k - 1, row, t)]
  <2> HIDE DEF g
  <2> QED BY <1>2
<1> HIDE DEF after
<1>4. after[0] = M[0]
      BY <1>3
<1>5. ASSUME NEW k \in 0 .. n - 1, after[k] = M[k] PROVE after[k + 1] = M[k + 1]
  <2>1. k + 1 \in 0 .. n /\ k + 1 # 0 /\ (k + 1) - 1 = k
        OBVIOUS
  <2>2. after[k + 1] = Settle(after[k], k, row, t)
        BY <1>3, <2>1
  <2> QED BY <1>5, <2>2
<1>6. after[n] = M[n]
      BY <1>4, <1>5, SameAll
<1> QED BY <1>1, <1>6

\* What a turn does to the marks.
Settled(s, i, row, t) ==
  /\ i \in s.new => Settle(s, i, row, t) = s
  /\ i \notin s.new /\ row[i] = -1 =>
       Settle(s, i, row, t) = Marks(s.old, s.new, s.made, s.corrects, s.left \cup {i}, s.dropped)
  /\ i \notin s.new /\ row[i] # -1 /\ s.old[row[i]] > 0 =>
       Settle(s, i, row, t) = Marks(s.old, s.new, s.made, s.corrects, s.left, s.dropped \cup {i})
  /\ i \notin s.new /\ row[i] # -1 /\ ~(s.old[row[i]] > 0) /\ row[i] < t =>
       Settle(s, i, row, t) =
         Marks(s.old, s.new \cup {i}, s.made, s.corrects \cup {i}, s.left, s.dropped)
  /\ i \notin s.new /\ row[i] # -1 /\ ~(s.old[row[i]] > 0) /\ ~(row[i] < t) =>
       Settle(s, i, row, t) =
         Marks(Counted(s.old, {}), s.new \cup {i}, s.made + 1, s.corrects, s.left, s.dropped)

LEMMA Settling ==
  ASSUME NEW s, HasFields(s), NEW i, NEW row, NEW t
  PROVE  Settled(s, i, row, t)
<1> DEFINE u == Settle(s, i, row, t)
<1>1. ASSUME i \in s.new PROVE u = s
      BY <1>1 DEF Settle
<1>2. ASSUME i \notin s.new, row[i] = -1
      PROVE  u = Marks(s.old, s.new, s.made, s.corrects, s.left \cup {i}, s.dropped)
  <2> DEFINE v == [s EXCEPT !.left = @ \cup {i}]
  <2>1. u = v
        BY <1>2 DEF Settle
  <2>2. HasFields(v) /\ v.old = s.old /\ v.new = s.new /\ v.made = s.made
        /\ v.corrects = s.corrects /\ v.left = s.left \cup {i} /\ v.dropped = s.dropped
        BY DEF HasFields, Fields
  <2> HIDE DEF u, v
  <2>3. v = Marks(v.old, v.new, v.made, v.corrects, v.left, v.dropped)
        BY <2>2, MarksAre
  <2> QED BY <2>1, <2>2, <2>3
<1>3. ASSUME i \notin s.new, row[i] # -1, s.old[row[i]] > 0
      PROVE  u = Marks(s.old, s.new, s.made, s.corrects, s.left, s.dropped \cup {i})
  <2> DEFINE v == [s EXCEPT !.dropped = @ \cup {i}]
  <2>1. u = v
        BY <1>3 DEF Settle
  <2>2. HasFields(v) /\ v.old = s.old /\ v.new = s.new /\ v.made = s.made
        /\ v.corrects = s.corrects /\ v.left = s.left /\ v.dropped = s.dropped \cup {i}
        BY DEF HasFields, Fields
  <2> HIDE DEF u, v
  <2>3. v = Marks(v.old, v.new, v.made, v.corrects, v.left, v.dropped)
        BY <2>2, MarksAre
  <2> QED BY <2>1, <2>2, <2>3
<1>4. ASSUME i \notin s.new, row[i] # -1, ~(s.old[row[i]] > 0), row[i] < t
      PROVE  u = Marks(s.old, s.new \cup {i}, s.made, s.corrects \cup {i}, s.left, s.dropped)
  <2> DEFINE v == [s EXCEPT !.new = @ \cup {i}, !.corrects = @ \cup {i}]
  <2>1. u = v
        BY <1>4 DEF Settle
  <2>2. HasFields(v) /\ v.old = s.old /\ v.new = s.new \cup {i} /\ v.made = s.made
        /\ v.corrects = s.corrects \cup {i} /\ v.left = s.left /\ v.dropped = s.dropped
        BY DEF HasFields, Fields
  <2> HIDE DEF u, v
  <2>3. v = Marks(v.old, v.new, v.made, v.corrects, v.left, v.dropped)
        BY <2>2, MarksAre
  <2> QED BY <2>1, <2>2, <2>3
<1>5. ASSUME i \notin s.new, row[i] # -1, ~(s.old[row[i]] > 0), ~(row[i] < t)
      PROVE  u = Marks(Counted(s.old, {}), s.new \cup {i}, s.made + 1, s.corrects, s.left, s.dropped)
  <2>1. u = Take(s, {}, {i}, 1)
        BY <1>5 DEF Settle
  <2> HIDE DEF u
  <2> QED BY <2>1, Taking
<1> QED BY <1>1, <1>2, <1>3, <1>4, <1>5 DEF Settled

\* One turn of the loop.
LEMMA SettleTurn ==
  ASSUME NEW c, NEW n, NEW t, NEW o, Resembles(c, n, t, o), NEW k \in 0 .. n - 1
  PROVE  Settle(SettleMarks(c, n, t, o, k), k, c.row, t) = SettleMarks(c, n, t, o, k + 1)
<1> DEFINE F == Fusing(c, n, t)
           P == Pieces(c, n, t)
           gone == Gone(c, n, t)
           rest == Rest(c, n, t)
           C == Correcting(c, n, t)
           N == Promoted(c, n, t)
           W == Waiting(c, n, t)
           D == Dropped(c, n, t)
           C1 == Below(C, k)
           N1 == Below(N, k)
           W1 == Below(W, k)
           D1 == Below(D, k)
           C2 == Below(C, k + 1)
           N2 == Below(N, k + 1)
           W2 == Below(W, k + 1)
           D2 == Below(D, k + 1)
           q == c.row[k]
           old == [j \in 0 .. o - 1 |-> IF j \in gone THEN 1 ELSE 0]
           used == F \cup P \cup C1 \cup N1
           made == Cardinality(F) + Cardinality(P) + Cardinality(N1)
           s == SettleMarks(c, n, t, o, k)
           u == Settle(s, k, c.row, t)
<1>1. n \in Nat /\ t \in Nat /\ o \in Nat /\ t <= o /\ k \in 0 .. n - 1 /\ q \in -1 .. o - 1
      BY DEF Resembles
<1>2. /\ F \subseteq 0 .. n - 1 /\ P \subseteq 0 .. n - 1 /\ gone \subseteq 0 .. t - 1
      /\ rest \subseteq 0 .. n - 1 /\ C \subseteq rest /\ N \subseteq rest /\ W \subseteq rest
      /\ D \subseteq rest
      BY RestParts
<1>3. k \in rest <=> k \notin F /\ k \notin P
      BY <1>1 DEF Rest
<1>4. /\ k \in C <=> k \in rest /\ q \in 0 .. t - 1 /\ q \notin gone
      /\ k \in N <=> k \in rest /\ q >= t
      /\ k \in W <=> k \in rest /\ q = -1
      /\ k \in D <=> k \in rest /\ q \in gone
      BY DEF Correcting, Promoted, Waiting, Dropped
<1>5. /\ C2 = IF k \in C THEN C1 \cup {k} ELSE C1
      /\ N2 = IF k \in N THEN N1 \cup {k} ELSE N1
      /\ W2 = IF k \in W THEN W1 \cup {k} ELSE W1
      /\ D2 = IF k \in D THEN D1 \cup {k} ELSE D1
      /\ k \notin C1 /\ k \notin N1
  <2> HIDE DEF C, N, W, D, rest
  <2>1. C \subseteq 0 .. n - 1 /\ N \subseteq 0 .. n - 1 /\ W \subseteq 0 .. n - 1 /\ D \subseteq 0 .. n - 1
        BY <1>2
  <2>2. C2 = (IF k \in C THEN C1 \cup {k} ELSE C1) /\ k \notin C1
        BY <1>1, <2>1, OneMore
  <2>3. N2 = (IF k \in N THEN N1 \cup {k} ELSE N1) /\ k \notin N1
        BY <1>1, <2>1, OneMore
  <2>4. W2 = (IF k \in W THEN W1 \cup {k} ELSE W1) /\ k \notin W1
        BY <1>1, <2>1, OneMore
  <2>5. D2 = (IF k \in D THEN D1 \cup {k} ELSE D1) /\ k \notin D1
        BY <1>1, <2>1, OneMore
  <2> QED BY <2>2, <2>3, <2>4, <2>5
<1>6. s = Marks(old, used, made, C1, W1, D1)
      BY DEF SettleMarks
<1>7. SettleMarks(c, n, t, o, k + 1)
        = Marks(old, F \cup P \cup C2 \cup N2, Cardinality(F) + Cardinality(P) + Cardinality(N2), C2, W2, D2)
      BY DEF SettleMarks
<1>8. HasFields(s)
      BY MarksHave DEF SettleMarks
<1>9. s.old = old /\ s.new = used /\ s.made = made /\ s.corrects = C1 /\ s.left = W1 /\ s.dropped = D1
      BY DEF SettleMarks, Marks
<1>10. q # -1 => (s.old[q] > 0 <=> q \in gone)
  <2>1. q # -1 => q \in 0 .. o - 1
        BY <1>1
  <2> QED BY <1>9, <2>1
<1>11. k \in s.new <=> k \notin rest
      BY <1>3, <1>5, <1>9
<1>12. /\ k \in s.new => u = s
       /\ k \notin s.new /\ q = -1 => u = Marks(old, used, made, C1, W1 \cup {k}, D1)
       /\ k \notin s.new /\ q # -1 /\ s.old[q] > 0 => u = Marks(old, used, made, C1, W1, D1 \cup {k})
       /\ k \notin s.new /\ q # -1 /\ ~(s.old[q] > 0) /\ q < t =>
            u = Marks(old, used \cup {k}, made, C1 \cup {k}, W1, D1)
       /\ k \notin s.new /\ q # -1 /\ ~(s.old[q] > 0) /\ ~(q < t) =>
            u = Marks(Counted(old, {}), used \cup {k}, made + 1, C1, W1, D1)
  <2> DEFINE row == c.row
  <2> HIDE DEF old, used, made, s, C1, W1, D1, row
  <2>1. Settled(s, k, row, t)
        BY <1>8, Settling
  <2>2. q = row[k] /\ u = Settle(s, k, row, t)
        BY DEF row
  <2> HIDE DEF q, u
  <2> QED BY <1>9, <2>1, <2>2 DEF Settled
<1>13. Counted(old, {}) = old
      BY DEF Counted
<1>14. k \in N => Cardinality(F) + Cardinality(P) + Cardinality(N2) = made + 1
  <2>1. N1 \subseteq 0 .. n - 1
        BY <1>2 DEF Below
  <2>2. IsFiniteSet(N1) /\ Cardinality(N1) \in Nat /\ Cardinality(F) \in Nat /\ Cardinality(P) \in Nat
        BY <1>1, <1>2, <2>1, FewCircles
  <2> HIDE DEF F, P, N1, N2, N
  <2>3. k \in N => Cardinality(N2) = Cardinality(N1) + 1
        BY <1>5, <2>2, FS_AddElement
  <2> QED BY <2>2, <2>3
<1> DEFINE goal == Marks(old, F \cup P \cup C2 \cup N2,
                         Cardinality(F) + Cardinality(P) + Cardinality(N2), C2, W2, D2)
<1>15. u = goal
  <2> HIDE DEF gone, rest, C, N, W, D, C1, N1, W1, D1, C2, N2, W2, D2, q, old, s, u, F, P
  <2>1. CASE k \notin rest
    <3>1. C2 = C1 /\ N2 = N1 /\ W2 = W1 /\ D2 = D1
          BY <1>4, <1>5, <2>1
    <3> QED BY <1>6, <1>11, <1>12, <2>1, <3>1
  <2>2. CASE k \in rest /\ q = -1
    <3>1. q \notin gone /\ ~(q >= t) /\ q \notin 0 .. t - 1
          BY <1>1, <1>2, <2>2
    <3>2. C2 = C1 /\ N2 = N1 /\ W2 = W1 \cup {k} /\ D2 = D1
          BY <1>4, <1>5, <2>2, <3>1
    <3> QED BY <1>11, <1>12, <2>2, <3>2
  <2>3. CASE k \in rest /\ q \in gone
    <3>1. q # -1 /\ ~(q >= t)
          BY <1>1, <1>2, <2>3
    <3>2. C2 = C1 /\ N2 = N1 /\ W2 = W1 /\ D2 = D1 \cup {k}
          BY <1>4, <1>5, <2>3, <3>1
    <3>3. s.old[q] > 0
          BY <1>10, <2>3, <3>1
    <3> QED BY <1>11, <1>12, <2>3, <3>1, <3>2, <3>3
  <2>4. CASE k \in rest /\ q # -1 /\ q \notin gone /\ q < t
    <3>1. q \in 0 .. t - 1 /\ ~(q >= t)
          BY <1>1, <2>4
    <3>2. C2 = C1 \cup {k} /\ N2 = N1 /\ W2 = W1 /\ D2 = D1
          BY <1>4, <1>5, <2>4, <3>1
    <3>3. ~(s.old[q] > 0)
          BY <1>10, <2>4
    <3>4. used \cup {k} = F \cup P \cup C2 \cup N2
          BY <3>2
    <3> QED BY <1>11, <1>12, <2>4, <3>2, <3>3, <3>4
  <2>5. CASE k \in rest /\ q # -1 /\ q \notin gone /\ ~(q < t)
    <3>1. q \notin 0 .. t - 1 /\ q >= t
          BY <1>1, <2>5
    <3>2. C2 = C1 /\ N2 = N1 \cup {k} /\ W2 = W1 /\ D2 = D1 /\ k \in N
          BY <1>4, <1>5, <2>5, <3>1
    <3>3. ~(s.old[q] > 0)
          BY <1>10, <2>5
    <3>4. used \cup {k} = F \cup P \cup C2 \cup N2
          BY <3>2
    <3>5. u = Marks(old, F \cup P \cup C2 \cup N2, made + 1, C1, W1, D1)
          BY <1>11, <1>12, <1>13, <2>5, <3>3, <3>4
    <3> QED BY <1>14, <3>2, <3>5
  <2> QED BY <2>1, <2>2, <2>3, <2>4, <2>5
<1> QED BY <1>7, <1>15

\* What the three loops have marked when the last one ends.
LEMMA Matching ==
  ASSUME NEW c, NEW n, NEW t, NEW o, Resembles(c, n, t, o)
  PROVE  Matched(c, n, t, o) = SettleMarks(c, n, t, o, n)
<1> DEFINE M == [k \in 0 .. n |-> SettleMarks(c, n, t, o, k)]
           m == SplitAll(FuseAll(Nothing(o), c.col, t), c.row, n, t)
           row == c.row
<1>1. n \in Nat /\ n \in 0 .. n /\ 0 \in 0 .. n
      BY DEF Resembles
<1>2. SettleMarks(c, n, t, o, 0) = m
  <2> DEFINE F == Fusing(c, n, t)
             P == Pieces(c, n, t)
             old == [j \in 0 .. o - 1 |-> IF j \in Gone(c, n, t) THEN 1 ELSE 0]
  <2>1. /\ Below(Correcting(c, n, t), 0) = {} /\ Below(Promoted(c, n, t), 0) = {}
        /\ Below(Waiting(c, n, t), 0) = {} /\ Below(Dropped(c, n, t), 0) = {}
    <3>1. /\ Correcting(c, n, t) \subseteq 0 .. n - 1 /\ Promoted(c, n, t) \subseteq 0 .. n - 1
          /\ Waiting(c, n, t) \subseteq 0 .. n - 1 /\ Dropped(c, n, t) \subseteq 0 .. n - 1
          BY RestParts
    <3>2. \A i \in 0 .. n - 1 : ~(i < 0)
          OBVIOUS
    <3> QED BY <3>1, <3>2 DEF Below
  <2>2. Cardinality({}) = 0 /\ Cardinality(F) \in Nat /\ Cardinality(P) \in Nat
    <3>1. F \subseteq 0 .. n - 1 /\ P \subseteq 0 .. n - 1
          BY RestParts
    <3> HIDE DEF F, P
    <3> QED BY <1>1, <3>1, FewCircles, FS_EmptySet
  <2>3. SettleMarks(c, n, t, o, 0)
          = Marks(old, F \cup P \cup {} \cup {}, Cardinality(F) + Cardinality(P) + Cardinality({}),
                  {}, {}, {})
        BY <2>1 DEF SettleMarks
  <2>4. m = Marks(old, F \cup P, Cardinality(F) + Cardinality(P), {}, {}, {})
    <3>1. m = SplitMarks(c, n, t, o, AllButOne(n))
          BY Fission
    <3>2. SplitBelow(c, n, t, AllButOne(n)) = Splitting(c, n, t)
          /\ PiecesBelow(c, n, t, AllButOne(n)) = P
          BY SplitEnds
    <3> QED BY <3>1, <3>2 DEF SplitMarks, Gone
  <2> HIDE DEF F, P, old, m
  <2>5. F \cup P \cup {} \cup {} = F \cup P
        OBVIOUS
  <2>6. Cardinality(F) + Cardinality(P) + Cardinality({}) = Cardinality(F) + Cardinality(P)
        BY <2>2
  <2> QED BY <2>3, <2>4, <2>5, <2>6
<1>3. ASSUME NEW k \in 0 .. n - 1 PROVE Settle(M[k], k, row, t) = M[k + 1]
  <2>1. k \in 0 .. n /\ k + 1 \in 0 .. n
        BY <1>1
  <2>2. Settle(SettleMarks(c, n, t, o, k), k, c.row, t) = SettleMarks(c, n, t, o, k + 1)
        BY SettleTurn
  <2> QED BY <2>1, <2>2
<1>4. M[0] = m
      BY <1>1, <1>2
<1>5. SettleRest(m, row, n, t) = M[n]
  <2> HIDE DEF M, row, m
  <2> QED BY <1>1, <1>3, <1>4, SettleLoop
<1> QED BY <1>1, <1>5 DEF Matched

\* Which is what is meant.
AsMeant(used, c, n, t, o) ==
  /\ used.old = [j \in 0 .. o - 1 |-> IF j \in Gone(c, n, t) THEN 1 ELSE 0]
  /\ {j \in 0 .. o - 1 : used.old[j] > 0} = Gone(c, n, t)
  /\ used.left = Waiting(c, n, t) /\ used.dropped = Dropped(c, n, t)
  /\ used.made = Cardinality(Fusing(c, n, t)) + Cardinality(Pieces(c, n, t))
                   + Cardinality(Promoted(c, n, t))
  /\ used.corrects = Correcting(c, n, t)

LEMMA Meaning ==
  ASSUME NEW c, NEW n, NEW t, NEW o, Resembles(c, n, t, o)
  PROVE  AsMeant(Matched(c, n, t, o), c, n, t, o)
<1> DEFINE used == Matched(c, n, t, o)
<1>1. /\ Below(Correcting(c, n, t), n) = Correcting(c, n, t)
      /\ Below(Promoted(c, n, t), n) = Promoted(c, n, t)
      /\ Below(Waiting(c, n, t), n) = Waiting(c, n, t)
      /\ Below(Dropped(c, n, t), n) = Dropped(c, n, t)
  <2>1. /\ Correcting(c, n, t) \subseteq 0 .. n - 1 /\ Promoted(c, n, t) \subseteq 0 .. n - 1
        /\ Waiting(c, n, t) \subseteq 0 .. n - 1 /\ Dropped(c, n, t) \subseteq 0 .. n - 1
        BY RestParts
  <2>2. \A i \in 0 .. n - 1 : i < n
        BY DEF Resembles
  <2> QED BY <2>1, <2>2 DEF Below
<1>2. used = SettleMarks(c, n, t, o, n)
      BY Matching
<1> HIDE DEF used
<1>3. used.old = [j \in 0 .. o - 1 |-> IF j \in Gone(c, n, t) THEN 1 ELSE 0]
      BY <1>2 DEF SettleMarks, Marks
<1>4. /\ used.left = Waiting(c, n, t) /\ used.dropped = Dropped(c, n, t)
      /\ used.made = Cardinality(Fusing(c, n, t)) + Cardinality(Pieces(c, n, t))
                       + Cardinality(Promoted(c, n, t))
      /\ used.corrects = Correcting(c, n, t)
      BY <1>1, <1>2 DEF SettleMarks, Marks
<1>5. {j \in 0 .. o - 1 : used.old[j] > 0} = Gone(c, n, t)
  <2>1. Gone(c, n, t) \subseteq 0 .. o - 1
    <3>1. Gone(c, n, t) \subseteq 0 .. t - 1
          BY RestParts
    <3>2. 0 .. t - 1 \subseteq 0 .. o - 1
          BY DEF Resembles
    <3> QED BY <3>1, <3>2
  <2> QED BY <1>3, <2>1
<1> QED BY <1>3, <1>4, <1>5 DEF AsMeant, used

\* No two circles correct the same obstacle: it would have been split.
LEMMA CorrectedOnce ==
  ASSUME NEW c, NEW n, NEW t, NEW i \in Correcting(c, n, t), NEW j \in Correcting(c, n, t),
         c.row[i] = c.row[j]
  PROVE  i = j
<1>1. i \in Rest(c, n, t) /\ j \in Rest(c, n, t) /\ c.row[i] \in 0 .. t - 1
      /\ c.row[i] \notin Fused(c, n, t) /\ c.row[i] \notin Splitting(c, n, t)
      BY DEF Correcting, Gone
<1>2. i \in Parts(c, n, t, c.row[i]) /\ j \in Parts(c, n, t, c.row[i])
      BY <1>1 DEF Rest, Parts
<1> QED BY <1>1, <1>2 DEF Splitting, Several

----------------------------------------------------------------------------
(* The correspondence.  *)

\* The nearest of n is one of them, or none.
LEMMA NearestIs ==
  ASSUME NEW n \in Nat, NEW cost \in [0 .. n - 1 -> Nat]
  PROVE  Nearest(cost) \in -1 .. n - 1
<1> DEFINE near == {i \in DOMAIN cost : cost[i] < MinCost}
           first(i) == \A j \in near : cost[i] < cost[j] \/ (cost[i] = cost[j] /\ i <= j)
<1>1. near \subseteq 0 .. n - 1 /\ Nearest(cost) = IF near = {} THEN -1 ELSE CHOOSE i \in near : first(i)
      BY DEF Nearest
<1> HIDE DEF near
<1>2. CASE near = {}
      BY <1>1, <1>2
<1>3. CASE near # {}
  <2> DEFINE costs == {cost[i] : i \in near}
  <2>1. costs \subseteq Nat /\ costs # {}
    <3>1. \A i \in near : cost[i] \in Nat
          BY <1>1
    <3> QED BY <1>3, <3>1
  <2> HIDE DEF costs
  <2> PICK v \in costs : \A w \in costs : v <= w
      BY <2>1, LeastNumber
  <2> DEFINE least == {i \in near : cost[i] = v}
  <2>2. least \subseteq Nat /\ least # {}
    <3>1. PICK i \in near : cost[i] = v
          BY DEF costs
    <3>2. near \subseteq Nat
          BY <1>1
    <3> QED BY <3>1, <3>2
  <2> HIDE DEF least
  <2> PICK i \in least : \A j \in least : i <= j
      BY <2>2, LeastNumber
  <2>3. i \in near /\ cost[i] = v
        BY DEF least
  <2>4. ASSUME NEW j \in near PROVE cost[i] < cost[j] \/ (cost[i] = cost[j] /\ i <= j)
    <3>1. v <= cost[j] /\ v \in Nat /\ cost[j] \in Nat
          BY <1>1, <2>1 DEF costs
    <3>2. cost[j] = v => i <= j
          BY DEF least
    <3> QED BY <2>3, <3>1, <3>2
  <2>5. \E x \in near : first(x)
        BY <2>3, <2>4
  <2> HIDE DEF first
  <2> DEFINE it == CHOOSE x \in near : first(x)
  <2>6. it \in near
        BY <2>5
  <2>7. Nearest(cost) = it
        BY <1>1, <1>3
  <2> HIDE DEF it
  <2>8. near \subseteq 0 .. n - 1
        BY <1>1
  <2>9. it \in 0 .. n - 1
        BY <2>6, <2>8
  <2>10. it \in -1 .. n - 1
        BY <2>9
  <2> QED BY <2>7, <2>10
<1> QED BY <1>2, <1>3

\* Whatever the costs, the minima are those of circles and obstacles there are.
LEMMA TableHas ==
  ASSUME NEW n \in 0 .. MaxSeen, NEW o \in 0 .. MaxOld, NEW c \in Table[n][o]
  PROVE  c.row \in [0 .. n - 1 -> -1 .. o - 1] /\ c.col \in [0 .. o - 1 -> -1 .. n - 1]
<1>1. n \in Nat /\ o \in Nat /\ Cost \subseteq Nat
      BY TrackerAssumption
<1>2. c \in Correspondences(n, o)
      BY DEF Table
<1> PICK cost \in [(0 .. n - 1) \X (0 .. o - 1) -> Cost] :
      c = [row |-> [i \in 0 .. n - 1 |-> Nearest([j \in 0 .. o - 1 |-> cost[<<i, j>>]])],
           col |-> [j \in 0 .. o - 1 |-> Nearest([i \in 0 .. n - 1 |-> cost[<<i, j>>]])]]
    BY <1>2 DEF Correspondences
<1>3. ASSUME NEW i \in 0 .. n - 1 PROVE Nearest([j \in 0 .. o - 1 |-> cost[<<i, j>>]]) \in -1 .. o - 1
  <2> DEFINE costs == [j \in 0 .. o - 1 |-> cost[<<i, j>>]]
  <2>1. costs \in [0 .. o - 1 -> Nat]
        BY <1>1
  <2> HIDE DEF costs
  <2>2. Nearest(costs) \in -1 .. o - 1
        BY <1>1, <2>1, NearestIs
  <2> QED BY <2>2 DEF costs
<1>4. ASSUME NEW j \in 0 .. o - 1 PROVE Nearest([i \in 0 .. n - 1 |-> cost[<<i, j>>]]) \in -1 .. n - 1
  <2> DEFINE costs == [i \in 0 .. n - 1 |-> cost[<<i, j>>]]
  <2>1. costs \in [0 .. n - 1 -> Nat]
        BY <1>1
  <2> HIDE DEF costs
  <2>2. Nearest(costs) \in -1 .. n - 1
        BY <1>1, <2>1, NearestIs
  <2> QED BY <2>2 DEF costs
<1> QED BY <1>3, <1>4

----------------------------------------------------------------------------
(* The loops over the obstacles.  *)

\* A recursive function of which every turn leads from A[k] to A[k + 1] exists.
Runs(f, s, G, N) == f = [k \in 0 .. N |-> IF k = 0 THEN s ELSE G[<<f[k - 1], k - 1>>]]

LEMMA Through ==
  ASSUME NEW N \in Nat, NEW A, NEW s \in A[0], NEW G,
         \A k \in 0 .. N - 1 : \A x \in A[k] : G[<<x, k>>] \in A[k + 1]
  PROVE  \E f : Runs(f, s, G, N) /\ \A k \in 0 .. N : f[k] \in A[k]
<1> DEFINE Fine(f, n) == /\ f = [k \in 0 .. n |-> f[k]] /\ f[0] = s
                         /\ \A k \in 1 .. n : f[k] = G[<<f[k - 1], k - 1>>]
                         /\ \A k \in 0 .. n : f[k] \in A[k]
           S == {n \in 0 .. N : \E f : Fine(f, n)}
<1>1. 0 \in S
  <2> DEFINE f == [k \in 0 .. 0 |-> s]
  <2>1. Fine(f, 0)
        OBVIOUS
  <2> HIDE DEF f
  <2> QED BY <2>1
<1>2. ASSUME NEW n \in 0 .. N - 1, n \in S PROVE n + 1 \in S
  <2> PICK f : Fine(f, n)
      BY <1>2
  <2> DEFINE next == G[<<f[n], n>>]
             g == [k \in 0 .. n + 1 |-> IF k = n + 1 THEN next ELSE f[k]]
  <2>1. n \in 0 .. n /\ n \in Nat /\ n + 1 \in 0 .. N /\ n + 1 \in 0 .. n + 1 /\ (n + 1) - 1 = n
        OBVIOUS
  <2>2. next \in A[n + 1]
        BY <2>1
  <2> HIDE DEF next
  <2>3. g[n + 1] = next /\ \A k \in 0 .. n : g[k] = f[k]
        BY <2>1
  <2>4. g = [k \in 0 .. n + 1 |-> g[k]]
        OBVIOUS
  <2> HIDE DEF g
  <2>5. g[0] = s
        BY <2>1, <2>3
  <2>6. ASSUME NEW k \in 1 .. n + 1 PROVE g[k] = G[<<g[k - 1], k - 1>>]
    <3>1. CASE k = n + 1
          BY <2>1, <2>3, <3>1 DEF next
    <3>2. CASE k # n + 1
      <4>1. k \in 1 .. n /\ k \in 0 .. n /\ k - 1 \in 0 .. n
            BY <2>1, <3>2
      <4> QED BY <2>3, <4>1
    <3> QED BY <3>1, <3>2
  <2>7. ASSUME NEW k \in 0 .. n + 1 PROVE g[k] \in A[k]
    <3>1. CASE k = n + 1
          BY <2>2, <2>3, <3>1
    <3>2. CASE k # n + 1
      <4>1. k \in 0 .. n
            BY <2>1, <3>2
      <4> QED BY <2>3, <4>1
    <3> QED BY <3>1, <3>2
  <2>8. Fine(g, n + 1)
        BY <2>4, <2>5, <2>6, <2>7
  <2> HIDE DEF Fine
  <2> QED BY <2>1, <2>8
<1> HIDE DEF S
<1>3. N \in S
      BY <1>1, <1>2, UpTo
<1> PICK f : Fine(f, N)
    BY <1>3 DEF S
<1>4. ASSUME NEW k \in 0 .. N PROVE f[k] = IF k = 0 THEN s ELSE G[<<f[k - 1], k - 1>>]
  <2>1. k = 0 \/ k \in 1 .. N
        OBVIOUS
  <2> QED BY <2>1
<1>5. f = [k \in 0 .. N |-> f[k]]
      OBVIOUS
<1> QED BY <1>4, <1>5 DEF Runs

\* Any function on 1 .. n is a list.
LEMMA ListOf ==
  ASSUME NEW S, NEW n \in Nat, NEW f \in [1 .. n -> S]
  PROVE  f \in Seq(S) /\ Len(f) = n
<1>1. f \in Seq(S)
      BY SeqDef
<1> QED BY <1>1, LenProperties

\* Erasing one obstacle there is, or none.
LEMMA Erasing ==
  ASSUME NEW S, NEW s \in Seq(S), NEW i \in Nat, i < Len(s), NEW count \in {0, 1}
  PROVE  /\ Erase(s, i, count) \in Seq(S) /\ Len(Erase(s, i, count)) = Len(s) - count
         /\ \A m \in 1 .. Len(s) - count :
              Erase(s, i, count)[m] = IF m <= i THEN s[m] ELSE s[m + count]
<1> DEFINE a == SubSeq(s, 1, i)
           b == SubSeq(s, i + 1 + count, Len(s))
<1>1. Len(s) \in Nat
      BY LenProperties
<1>2. a \in Seq(S) /\ Len(a) = i /\ \A m \in 1 .. i : a[m] = s[m]
  <2>1. \A k \in 1 .. i : k \in 1 .. Len(s)
        BY <1>1
  <2>2. \A k \in 1 .. i : s[k] \in S
        BY <2>1, ElementOfSeq
  <2> QED BY <1>1, <2>1, SubSeqProperties
<1>3. /\ b \in Seq(S) /\ Len(b) = Len(s) - (i + count)
      /\ \A m \in 1 .. Len(s) - (i + count) : b[m] = s[i + count + m]
  <2>1. i + 1 + count \in 1 .. Len(s) + 1
        BY <1>1
  <2>2. /\ b \in Seq(S) /\ Len(b) = Len(s) - (i + count)
        BY <1>1, <2>1, SubSeqProperties
  <2>3. \A m \in 1 .. Len(b) : b[m] = s[(i + 1 + count) + m - 1]
        BY <1>1, <2>1, <2>2, SubSeqProperties
  <2> HIDE DEF b
  <2>4. ASSUME NEW m \in 1 .. Len(s) - (i + count) PROVE b[m] = s[i + count + m]
    <3>1. (i + 1 + count) + m - 1 = i + count + m
          OBVIOUS
    <3> QED BY <2>2, <2>3, <3>1
  <2> QED BY <2>2, <2>4
<1> HIDE DEF a, b
<1>4. a \o b \in Seq(S) /\ Len(a \o b) = Len(a) + Len(b)
      BY <1>2, <1>3, ConcatProperties
<1>5. Len(a \o b) = Len(s) - count
      BY <1>1, <1>2, <1>3, <1>4
<1>6. ASSUME NEW m \in 1 .. Len(s) - count
      PROVE  (a \o b)[m] = IF m <= i THEN s[m] ELSE s[m + count]
  <2>1. m \in 1 .. Len(a) + Len(b)
        BY <1>4, <1>5
  <2>2. (a \o b)[m] = IF m <= Len(a) THEN a[m] ELSE b[m - Len(a)]
        BY <1>2, <1>3, <2>1, ConcatProperties
  <2>3. CASE m <= i
        BY <1>2, <2>2, <2>3
  <2>4. CASE ~(m <= i)
    <3>1. m - i \in 1 .. Len(s) - (i + count) /\ i + count + (m - i) = m + count
          BY <1>1, <2>4
    <3>2. b[m - i] = s[m + count]
          BY <1>3, <3>1
    <3> QED BY <1>2, <2>2, <2>4, <3>2
  <2> QED BY <2>3, <2>4
<1> QED BY <1>4, <1>5, <1>6 DEF Erase, a, b

\* The erasing loop ends in A[t] if every turn leads from A[k] to A[k + 1].
LEMMA EraseThrough ==
  ASSUME NEW S, NEW t \in Nat, NEW s, NEW old, NEW A, s \in A[0],
         \A k \in 0 .. t - 1 : \A x \in A[k] :
           x \in Seq(S) /\ Erase(x, t - 1 - k, old[t - 1 - k]) \in A[k + 1]
  PROVE  Erased(s, old, t) \in A[t]
<1> DEFINE G == [p \in Seq(S) \X (0 .. t - 1) |-> Erase(p[1], t - 1 - p[2], old[t - 1 - p[2]])]
           after == CHOOSE f : f = [k \in 0 .. t |->
                      IF k = 0 THEN s ELSE Erase(f[k - 1], t - 1 - (k - 1), old[t - 1 - (k - 1)])]
<1>1. Erased(s, old, t) = after[t]
      BY DEF Erased, Loop
<1>2. \A k \in 0 .. t - 1 : \A x \in A[k] : G[<<x, k>>] = Erase(x, t - 1 - k, old[t - 1 - k])
      OBVIOUS
<1> HIDE DEF G
<1>3. \E f : Runs(f, s, G, t) /\ \A k \in 0 .. t : f[k] \in A[k]
  <2>1. \A k \in 0 .. t - 1 : \A x \in A[k] : G[<<x, k>>] \in A[k + 1]
        BY <1>2
  <2> QED BY <2>1, Through
<1>4. \E f : f = [k \in 0 .. t |->
               IF k = 0 THEN s ELSE Erase(f[k - 1], t - 1 - (k - 1), old[t - 1 - (k - 1)])]
  <2> PICK f : Runs(f, s, G, t) /\ \A k \in 0 .. t : f[k] \in A[k]
      BY <1>3
  <2>1. ASSUME NEW k \in 0 .. t, k # 0
        PROVE  G[<<f[k - 1], k - 1>>] = Erase(f[k - 1], t - 1 - (k - 1), old[t - 1 - (k - 1)])
    <3>1. k - 1 \in 0 .. t /\ k - 1 \in 0 .. t - 1
          BY <2>1
    <3> QED BY <1>2, <3>1
  <2> QED BY <2>1 DEF Runs
<1>5. after = [k \in 0 .. t |->
        IF k = 0 THEN s ELSE Erase(after[k - 1], t - 1 - (k - 1), old[t - 1 - (k - 1)])]
      BY <1>4
<1> HIDE DEF after
<1>6. ASSUME NEW k \in 0 .. t - 1, after[k] \in A[k] PROVE after[k + 1] \in A[k + 1]
  <2>1. k + 1 \in 0 .. t /\ k + 1 # 0 /\ (k + 1) - 1 = k
        OBVIOUS
  <2>2. after[k + 1] = Erase(after[k], t - 1 - k, old[t - 1 - k])
        BY <1>5, <2>1
  <2> QED BY <1>6, <2>2
<1> DEFINE good == {k \in 0 .. t : after[k] \in A[k]}
<1>7. 0 \in good
      BY <1>5
<1>8. \A k \in 0 .. t - 1 : k \in good => k + 1 \in good
      BY <1>6
<1> HIDE DEF good
<1>9. \A k \in 0 .. t : k \in good
      BY <1>7, <1>8, UpTo
<1>10. t \in good
      BY <1>9
<1> QED BY <1>1, <1>10 DEF good

\* What the erasing loop leaves, if it is to erase each obstacle once or not at
\* all.
Kept(old, i, t) == {j \in i .. t - 1 : old[j] = 0}
Lists(S, t)     == {x \in Seq(S) : Len(x) = t}

LEMMA EraseLoop ==
  ASSUME NEW S, NEW t \in Nat, NEW s \in Lists(S, t), NEW old,
         \A j \in 0 .. t - 1 : old[j] \in {0, 1}
  PROVE  Erased(s, old, t) \in Seq(S) /\ Len(Erased(s, old, t)) = Cardinality(Kept(old, 0, t))
<1> DEFINE A == [k \in 0 .. t |-> {x \in Seq(S) : Len(x) = (t - k) + Cardinality(Kept(old, t - k, t))}]
<1>1. s \in A[0]
  <2>1. Kept(old, t - 0, t) = {}
        BY DEF Kept
  <2>2. Cardinality(Kept(old, t - 0, t)) = 0
        BY <2>1, FS_EmptySet
  <2>3. s \in Seq(S) /\ Len(s) = (t - 0) + Cardinality(Kept(old, t - 0, t))
        BY <2>2 DEF Lists
  <2> QED BY <2>3
<1>2. ASSUME NEW k \in 0 .. t - 1, NEW x \in A[k]
      PROVE  x \in Seq(S) /\ Erase(x, t - 1 - k, old[t - 1 - k]) \in A[k + 1]
  <2> DEFINE i == t - 1 - k
             count == old[i]
             more == Kept(old, t - k, t)
             most == Kept(old, i, t)
             y == Erase(x, i, count)
  <2>1. k \in 0 .. t /\ k + 1 \in 0 .. t /\ i \in Nat /\ i \in 0 .. t - 1 /\ i + 1 = t - k
        /\ i = t - (k + 1) /\ i \notin t - k .. t - 1
        OBVIOUS
  <2>2. x \in Seq(S) /\ Len(x) = (t - k) + Cardinality(more)
        BY <2>1
  <2>3. more \subseteq 0 .. t - 1 /\ i \notin more
        BY <2>1 DEF Kept
  <2>4. IsFiniteSet(more) /\ Cardinality(more) \in Nat
        BY <2>3, FewCircles
  <2>5. most = IF count = 0 THEN more \cup {i} ELSE more
    <3>1. i .. t - 1 = {i} \cup (t - k .. t - 1)
          BY <2>1
    <3> QED BY <3>1 DEF Kept
  <2>6. count \in {0, 1}
        BY <2>1
  <2> HIDE DEF i, count, more, most, y
  <2>7. Cardinality(most) = Cardinality(more) + (1 - count)
        BY <2>3, <2>4, <2>5, <2>6, FS_AddElement
  <2>8. i < Len(x)
        BY <2>1, <2>2, <2>4
  <2>9. Erase(x, i, count) \in Seq(S) /\ Len(Erase(x, i, count)) = Len(x) - count
        BY <2>1, <2>2, <2>6, <2>8, Erasing
  <2>10. Len(y) = i + Cardinality(most)
    <3>1. Len(y) = Len(x) - count
          BY <2>9 DEF y
    <3>2. count \in Int /\ Len(x) = (i + 1) + Cardinality(more)
          BY <2>1, <2>2, <2>6
    <3> QED BY <2>1, <2>4, <2>7, <3>1, <3>2, SMTT(30)
  <2>11. y \in {z \in Seq(S) : Len(z) = (t - (k + 1)) + Cardinality(Kept(old, t - (k + 1), t))}
    <3>1. most = Kept(old, t - (k + 1), t)
          BY <2>1 DEF most
    <3> QED BY <2>1, <2>9, <2>10, <3>1 DEF y
  <2>12. y \in A[k + 1]
        BY <2>1, <2>11
  <2> QED BY <2>2, <2>12 DEF y, i, count
<1> HIDE DEF A
<1>3. Erased(s, old, t) \in A[t]
      BY <1>1, <1>2, EraseThrough
<1> DEFINE left == Erased(s, old, t)
<1> HIDE DEF left
<1>4. left \in Seq(S) /\ Len(left) = (t - t) + Cardinality(Kept(old, t - t, t))
      BY <1>3 DEF A, left
<1>5. t - t = 0 /\ Cardinality(Kept(old, 0, t)) \in Nat
  <2>1. Kept(old, 0, t) \subseteq 0 .. t - 1
        BY DEF Kept
  <2> QED BY <2>1, FewCircles
<1>6. Len(left) = Cardinality(Kept(old, 0, t))
      BY <1>4, <1>5
<1> QED BY <1>4, <1>6 DEF left

\* The loop run on the numbers of the obstacles, once it has come down to i:
\* the numbers below i, then those from i on that are kept, in order.
InOrder(old, i, t) ==
  {x \in Seq(Nat) :
     /\ i <= Len(x)
     /\ \A m \in 1 .. i : x[m] = m - 1
     /\ \A m \in i + 1 .. Len(x) : x[m] \in Kept(old, i, t)
     /\ \A j \in Kept(old, i, t) : \E m \in i + 1 .. Len(x) : x[m] = j
     /\ \A a, b \in 1 .. Len(x) : a < b => x[a] < x[b]}

LEMMA OrderKept ==
  ASSUME NEW t \in Nat, NEW i \in 0 .. t - 1, NEW old, old[i] \in {0, 1},
         NEW x \in InOrder(old, i + 1, t)
  PROVE  Erase(x, i, old[i]) \in InOrder(old, i, t)
<1> DEFINE count == old[i]
           y == Erase(x, i, count)
           more == Kept(old, i + 1, t)
           most == Kept(old, i, t)
<1>1. /\ x \in Seq(Nat) /\ Len(x) \in Nat /\ i + 1 <= Len(x)
      /\ \A m \in 1 .. i + 1 : x[m] = m - 1
      /\ \A m \in (i + 1) + 1 .. Len(x) : x[m] \in more
      /\ \A j \in more : \E m \in (i + 1) + 1 .. Len(x) : x[m] = j
      /\ \A a, b \in 1 .. Len(x) : a < b => x[a] < x[b]
      BY LenProperties DEF InOrder
<1>2. most = IF count = 0 THEN more \cup {i} ELSE more
  <2>1. i .. t - 1 = {i} \cup (i + 1 .. t - 1)
        OBVIOUS
  <2> QED BY <2>1 DEF Kept
<1>3. count \in {0, 1} /\ i \in Nat /\ i < Len(x)
      BY <1>1
<1> HIDE DEF count, more, most
<1>4. /\ y \in Seq(Nat) /\ Len(y) = Len(x) - count
      /\ \A m \in 1 .. Len(x) - count : y[m] = IF m <= i THEN x[m] ELSE x[m + count]
  <2> DEFINE S == Nat
  <2>1. x \in Seq(S)
        BY <1>1
  <2> HIDE DEF S, y
  <2>2. /\ Erase(x, i, count) \in Seq(S) /\ Len(Erase(x, i, count)) = Len(x) - count
        /\ \A m \in 1 .. Len(x) - count :
             Erase(x, i, count)[m] = IF m <= i THEN x[m] ELSE x[m + count]
        BY <1>3, <2>1, Erasing
  <2> QED BY <2>2 DEF y, S
<1> HIDE DEF y
<1>5. i <= Len(y) /\ \A m \in 1 .. i : y[m] = m - 1
  <2>1. i <= Len(y)
        BY <1>1, <1>3, <1>4
  <2>2. ASSUME NEW m \in 1 .. i PROVE y[m] = m - 1
    <3>1. m \in 1 .. Len(x) - count /\ m <= i /\ m \in 1 .. i + 1
          BY <1>1, <1>3
    <3>2. y[m] = x[m]
          BY <1>4, <3>1
    <3>3. x[m] = m - 1
          BY <1>1, <3>1
    <3> QED BY <3>2, <3>3
  <2> QED BY <2>1, <2>2
<1>6. ASSUME NEW m \in i + 1 .. Len(y) PROVE y[m] \in most
  <2>1. m \in 1 .. Len(x) - count /\ ~(m <= i) /\ y[m] = x[m + count]
        BY <1>3, <1>4
  <2>2. CASE count = 0 /\ m = i + 1
    <3>1. x[m] = m - 1 /\ m + count = m
          BY <1>1, <2>2
    <3>2. y[m] = i
          BY <1>3, <2>1, <2>2, <3>1
    <3> QED BY <1>2, <2>2, <3>2
  <2>3. CASE ~(count = 0 /\ m = i + 1)
    <3>1. m + count \in (i + 1) + 1 .. Len(x)
          BY <1>1, <1>3, <2>1, <2>3
    <3> QED BY <1>1, <1>2, <2>1, <3>1
  <2> QED BY <2>2, <2>3
<1>7. ASSUME NEW j \in most PROVE \E m \in i + 1 .. Len(y) : y[m] = j
  <2>1. CASE j \in more
    <3> PICK m \in (i + 1) + 1 .. Len(x) : x[m] = j
        BY <1>1, <2>1
    <3>1. m - count \in i + 1 .. Len(y) /\ m - count \in 1 .. Len(x) - count
          /\ ~(m - count <= i) /\ (m - count) + count = m
          BY <1>1, <1>3, <1>4
    <3>2. y[m - count] = x[m]
          BY <1>4, <3>1
    <3> QED BY <3>1, <3>2
  <2>2. CASE j \notin more
    <3>1. count = 0 /\ j = i
          BY <1>2, <2>2
    <3>2. i + 1 \in i + 1 .. Len(y) /\ i + 1 \in 1 .. Len(x) - count /\ ~(i + 1 <= i)
          /\ (i + 1) + count = i + 1 /\ i + 1 \in 1 .. i + 1
          BY <1>1, <1>3, <1>4, <3>1
    <3>3. y[i + 1] = x[i + 1]
          BY <1>4, <3>2
    <3>4. x[i + 1] = (i + 1) - 1
          BY <1>1, <3>2
    <3> QED BY <1>3, <3>1, <3>2, <3>3, <3>4
  <2> QED BY <2>1, <2>2
<1>8. ASSUME NEW a \in 1 .. Len(y), NEW b \in 1 .. Len(y), a < b PROVE y[a] < y[b]
  <2>1. a \in 1 .. Len(x) - count /\ b \in 1 .. Len(x) - count
        BY <1>4
  <2> DEFINE At(m) == IF m <= i THEN m ELSE m + count
  <2>2. ASSUME NEW m \in 1 .. Len(x) - count PROVE At(m) \in 1 .. Len(x) /\ y[m] = x[At(m)]
    <3>1. m \in 1 .. Len(x) /\ m + count \in 1 .. Len(x)
          BY <1>1, <1>3
    <3> QED BY <1>4, <3>1
  <2>3. At(a) < At(b)
        BY <1>3, <1>8, <2>1
  <2>4. x[At(a)] < x[At(b)]
    <3> HIDE DEF At
    <3> QED BY <1>1, <2>1, <2>2, <2>3
  <2> HIDE DEF At
  <2> QED BY <2>1, <2>2, <2>4
<1>9. y \in InOrder(old, i, t)
      BY <1>4, <1>5, <1>6, <1>7, <1>8 DEF InOrder, most
<1> QED BY <1>9 DEF y, count

\* So the loop leaves the numbers of the obstacles to be kept, in order.
LEMMA NumbersLeft ==
  ASSUME NEW t \in Nat, NEW old, \A j \in 0 .. t - 1 : old[j] \in {0, 1}
  PROVE  Erased([k \in 1 .. t |-> k - 1], old, t) \in InOrder(old, 0, t)
<1> DEFINE A == [k \in 0 .. t |-> InOrder(old, t - k, t)]
           s == [k \in 1 .. t |-> k - 1]
<1>1. s \in A[0]
  <2>1. s \in [1 .. t -> Nat]
        OBVIOUS
  <2>2. s \in Seq(Nat) /\ Len(s) = t
        BY <2>1, ListOf
  <2>3. t - 0 = t /\ Kept(old, t, t) = {} /\ t + 1 .. t = {}
        BY DEF Kept
  <2>4. \A m \in 1 .. t : s[m] = m - 1
        OBVIOUS
  <2> HIDE DEF s
  <2>5. s \in InOrder(old, t, t)
        BY <2>2, <2>3, <2>4 DEF InOrder
  <2> QED BY <2>3, <2>5
<1>2. ASSUME NEW k \in 0 .. t - 1, NEW x \in A[k]
      PROVE  x \in Seq(Nat) /\ Erase(x, t - 1 - k, old[t - 1 - k]) \in A[k + 1]
  <2> DEFINE i == t - 1 - k
  <2>1. /\ k \in 0 .. t /\ k + 1 \in 0 .. t /\ i \in 0 .. t - 1
        /\ t - k = i + 1 /\ t - (k + 1) = i
        OBVIOUS
  <2> HIDE DEF i
  <2>2. A[k] = InOrder(old, i + 1, t) /\ A[k + 1] = InOrder(old, i, t)
        BY <2>1
  <2>3. old[i] \in {0, 1} /\ x \in InOrder(old, i + 1, t)
        BY <2>1, <2>2
  <2>4. Erase(x, i, old[i]) \in InOrder(old, i, t)
        BY <2>1, <2>3, OrderKept
  <2> QED BY <2>2, <2>3, <2>4 DEF i, InOrder
<1> HIDE DEF A, s
<1>3. Erased(s, old, t) \in A[t]
      BY <1>1, <1>2, EraseThrough
<1>4. A[t] = InOrder(old, 0, t)
      BY DEF A
<1> QED BY <1>3, <1>4 DEF s

\* An obstacle whose fade counter and age are in step: it has been fading since
\* it was last corrected, from CounterSize or, made anew, from below that.
Fading ==
  {o \in [fade : -Catchup .. CounterSize, unseen : 0 .. CounterSize + 1] :
     /\ o.fade + o.unseen <= CounterSize
     /\ o.fade >= 0 \/ o.unseen = 0}

LEMMA NewObstacles == Corrected \in Fading /\ Fresh \in Fading
<1>1. CounterSize \in Nat /\ Catchup \in Nat
      BY TrackerAssumption
<1> QED BY <1>1 DEF Corrected, Fresh, Obstacle, Fading

\* A turn of the timer keeps the two in step.
LEMMA OneTurnOlder ==
  ASSUME NEW o \in Fading, ~HasFaded(o)
  PROVE  UpdateState(o) \in Fading
<1>1. CounterSize \in Nat /\ Catchup \in Nat
      BY TrackerAssumption
<1> DEFINE older == IF o.unseen <= CounterSize THEN o.unseen + 1 ELSE o.unseen
<1>2. o \in [fade : -Catchup .. CounterSize, unseen : 0 .. CounterSize + 1]
      BY DEF Fading
<1>3. /\ o.fade \in -Catchup .. CounterSize /\ o.unseen \in 0 .. CounterSize + 1
      /\ o.fade + o.unseen <= CounterSize /\ o.fade > 0
      BY <1>1, <1>2 DEF Fading, HasFaded
<1>4. UpdateState(o) \in [fade : {o.fade - 1}, unseen : {older}]
      BY <1>2 DEF UpdateState, Older
<1>5. /\ o.fade - 1 \in -Catchup .. CounterSize /\ older \in 0 .. CounterSize + 1
      /\ (o.fade - 1) + older <= CounterSize /\ o.fade - 1 >= 0
      BY <1>1, <1>3
<1> QED BY <1>4, <1>5 DEF Fading

\* What the timer's loop leaves.
LEMMA FadeLoop ==
  ASSUME NEW obstacles \in Seq(Fading)
  PROVE  /\ UpdateObstacles(obstacles) \in Seq(Fading)
         /\ Len(UpdateObstacles(obstacles)) <= Len(obstacles)
<1> DEFINE t == Len(obstacles)
           S == Seq(Fading)
           A == [k \in 0 .. t |-> {x \in S : Len(x) <= k}]
           G == [p \in S \X (0 .. t - 1) |-> Stays(p[1], obstacles[p[2] + 1])]
           after == CHOOSE f : f = [k \in 0 .. t |->
                      IF k = 0 THEN <<>> ELSE Stays(f[k - 1], obstacles[(k - 1) + 1])]
<1>1. UpdateObstacles(obstacles) = after[t]
      BY DEF UpdateObstacles, Loop
<1>2. t \in Nat
      BY LenProperties
<1> HIDE DEF t
<1>3. <<>> \in A[0]
  <2>1. <<>> \in S /\ Len(<<>>) <= 0
        BY EmptySeq
  <2> QED BY <1>2, <2>1
<1>4. ASSUME NEW k \in 0 .. t - 1, NEW x \in A[k]
      PROVE  Stays(x, obstacles[k + 1]) \in A[k + 1]
  <2> DEFINE o == obstacles[k + 1]
             y == Stays(x, o)
  <2>1. k \in 0 .. t /\ k + 1 \in 0 .. t /\ k + 1 \in 1 .. t /\ k \in Nat
        BY <1>2
  <2>2. o \in Fading
        BY <2>1, ElementOfSeq DEF t
  <2>3. x \in S /\ Len(x) <= k /\ Len(x) \in Nat
        BY <2>1, LenProperties
  <2> HIDE DEF o
  <2>4. CASE HasFaded(o)
    <3>1. y = x
          BY <2>4 DEF Stays
    <3>2. Len(x) <= k + 1
          BY <2>1, <2>3
    <3> QED BY <2>1, <2>3, <3>1, <3>2 DEF o
  <2>5. CASE ~HasFaded(o)
    <3>1. y = Append(x, UpdateState(o)) /\ UpdateState(o) \in Fading
          BY <2>2, <2>5, OneTurnOlder DEF Stays
    <3> DEFINE new == UpdateState(o)
    <3> HIDE DEF new
    <3>2. Append(x, new) \in S /\ Len(Append(x, new)) = Len(x) + 1
          BY <2>3, <3>1, AppendProperties DEF new
    <3>3. Len(x) + 1 <= k + 1
          BY <2>1, <2>3
    <3>4. y \in {z \in S : Len(z) <= k + 1}
          BY <3>1, <3>2, <3>3 DEF new
    <3> QED BY <2>1, <3>4 DEF o
  <2> QED BY <2>4, <2>5
<1>5. \A k \in 0 .. t - 1 : \A x \in A[k] : x \in S
      BY <1>2
<1>6. \A k \in 0 .. t - 1 : \A x \in A[k] : G[<<x, k>>] = Stays(x, obstacles[k + 1])
      BY <1>5
<1> HIDE DEF A, G
<1>7. \E f : Runs(f, <<>>, G, t) /\ \A k \in 0 .. t : f[k] \in A[k]
  <2>1. \A k \in 0 .. t - 1 : \A x \in A[k] : G[<<x, k>>] \in A[k + 1]
        BY <1>4, <1>6
  <2> QED BY <1>2, <1>3, <2>1, Through
<1>8. \E f : f = [k \in 0 .. t |->
               IF k = 0 THEN <<>> ELSE Stays(f[k - 1], obstacles[(k - 1) + 1])]
  <2> PICK f : Runs(f, <<>>, G, t) /\ \A k \in 0 .. t : f[k] \in A[k]
      BY <1>7
  <2>1. ASSUME NEW k \in 0 .. t, k # 0
        PROVE  G[<<f[k - 1], k - 1>>] = Stays(f[k - 1], obstacles[(k - 1) + 1])
    <3>1. k - 1 \in 0 .. t /\ k - 1 \in 0 .. t - 1
          BY <1>2, <2>1
    <3> QED BY <1>6, <3>1
  <2> QED BY <2>1 DEF Runs
<1>9. after = [k \in 0 .. t |->
        IF k = 0 THEN <<>> ELSE Stays(after[k - 1], obstacles[(k - 1) + 1])]
      BY <1>8
<1> HIDE DEF after
<1>10. ASSUME NEW k \in 0 .. t - 1, after[k] \in A[k] PROVE after[k + 1] \in A[k + 1]
  <2>1. k + 1 \in 0 .. t /\ k + 1 # 0 /\ (k + 1) - 1 = k
        BY <1>2
  <2>2. after[k + 1] = Stays(after[k], obstacles[k + 1])
        BY <1>9, <2>1
  <2> QED BY <1>4, <1>10, <2>2
<1>11. after[t] \in A[t]
  <2> DEFINE good == {k \in 0 .. t : after[k] \in A[k]}
  <2>1. 0 \in good
        BY <1>2, <1>3, <1>9
  <2>2. \A k \in 0 .. t - 1 : k \in good => k + 1 \in good
        BY <1>2, <1>10
  <2> HIDE DEF good
  <2>3. \A k \in 0 .. t : k \in good
        BY <1>2, <2>1, <2>2, UpTo
  <2>4. t \in good
        BY <1>2, <2>3
  <2> QED BY <2>4 DEF good
<1>12. after[t] \in S /\ Len(after[t]) <= t
      BY <1>2, <1>11 DEF A
<1> QED BY <1>1, <1>12 DEF t

----------------------------------------------------------------------------
(* The inductive invariant.  *)

InStep == tracked_obstacles_ \in Seq(Fading)

AsMatched == match.running => match.used = Matched(match, match.seen, T, T + U)

\* What the update is to leave fits.
Room ==
  match.running =>
    Cardinality(Stay(match.used)) + match.used.made + Cardinality(match.used.left) <= MaxOld

Inv == TypeOK /\ InStep /\ AsMatched /\ Room

Tracked == [fade : -Catchup .. CounterSize, unseen : 0 .. CounterSize + 1]

\* The lists of the invariant are those of TypeOK.
LEMMA InRange ==
  ASSUME NEW s \in Seq(Fading)
  PROVE  s \in Seq(Tracked) /\ Len(s) \in Nat
<1>1. Len(s) \in Nat /\ s \in [1 .. Len(s) -> Fading]
      BY LenProperties
<1>2. Fading \subseteq Tracked
      BY DEF Fading, Tracked
<1>3. s \in [1 .. Len(s) -> Tracked]
      BY <1>1, <1>2
<1> QED BY <1>1, <1>3, SeqDef

LEMMA InvInit == Init => Inv
<1> SUFFICES ASSUME Init PROVE Inv
    OBVIOUS
<1>1. tracked_obstacles_ = <<>> /\ U = 0 /\ p_active_ \in BOOLEAN /\ match.running = FALSE
      BY DEF Init, U, Idle
<1>2. <<>> \in Seq(Fading) /\ Len(<<>>) = 0
      BY EmptySeq
<1>3. T + U <= MaxOld
      BY <1>1, <1>2, TrackerAssumption DEF T
<1>4. tracked_obstacles_ \in Seq(Tracked)
      BY <1>1, <1>2, InRange
<1> QED BY <1>1, <1>2, <1>3, <1>4 DEF Inv, TypeOK, InStep, AsMatched, Room, Tracked

\* While no scan is being matched the invariant says little.
LEMMA IdleStep ==
  ASSUME tracked_obstacles_' \in Seq(Fading), U' \in Nat, T' + U' <= MaxOld,
         p_active_' \in BOOLEAN, match'.running = FALSE
  PROVE  Inv'
<1>1. tracked_obstacles_' \in Seq(Tracked)
      BY InRange
<1> QED BY <1>1 DEF Inv, TypeOK, InStep, AsMatched, Room, Tracked

\* The minima of a scan that is being matched are those of what there is.
LEMMA Running ==
  ASSUME TypeOK, match.running
  PROVE  Resembles(match, match.seen, T, T + U)
<1>1. match.seen \in Nat /\ U \in Nat /\ T \in Nat
  <2>1. T \in Nat
        BY LenProperties DEF TypeOK, T
  <2> QED BY <2>1 DEF TypeOK
<1>2. T + U \in Nat /\ T \in 0 .. T + U
      BY <1>1
<1> QED BY <1>1, <1>2 DEF TypeOK, Resembles

\* A scan is matched.
LEMMA ScanStep ==
  ASSUME Inv, T + U <= MaxOld, NEW n \in 0 .. MaxSeen, NEW c \in Table[n][T + U], Scan(n, c)
  PROVE  Inv'
<1> DEFINE used == Matched(c, n, T, T + U)
<1>1. T \in Nat /\ U \in Nat /\ T + U \in 0 .. MaxOld
  <2>1. T \in Nat
        BY LenProperties DEF Inv, TypeOK, T
  <2>2. U \in Nat /\ MaxOld \in Nat
        BY TrackerAssumption DEF Inv, TypeOK
  <2> QED BY <2>1, <2>2
<1>2. c.row \in [0 .. n - 1 -> -1 .. T + U - 1] /\ c.col \in [0 .. T + U - 1 -> -1 .. n - 1]
      BY <1>1, TableHas
<1> HIDE DEF used
<1>3. /\ match' = [running |-> TRUE, seen |-> n, row |-> c.row, col |-> c.col, used |-> used]
      /\ Cardinality(Stay(used)) + used.made + Cardinality(used.left) <= MaxOld
      /\ tracked_obstacles_' =
           [k \in 1 .. T |-> IF \E i \in used.corrects : c.row[i] = k - 1
                               THEN Corrected ELSE tracked_obstacles_[k]]
      /\ U' = U /\ p_active_' = p_active_
      BY DEF Scan, used, U
<1>4. match'.running = TRUE /\ match'.seen = n /\ match'.row = c.row /\ match'.col = c.col
      /\ match'.used = used
      BY <1>3
<1>5. tracked_obstacles_' \in Seq(Fading) /\ T' = T
  <2>1. ASSUME NEW k \in 1 .. T PROVE tracked_obstacles_[k] \in Fading
    <3>1. tracked_obstacles_ \in Seq(Fading)
          BY DEF Inv, InStep
    <3> QED BY <3>1, ElementOfSeq DEF T
  <2>2. tracked_obstacles_' \in [1 .. T -> Fading]
        BY <1>3, <2>1, NewObstacles
  <2> QED BY <1>1, <2>2, ListOf DEF T
<1>6. tracked_obstacles_' \in Seq(Tracked)
      BY <1>5, InRange
<1>7. TypeOK'
      BY <1>1, <1>2, <1>3, <1>4, <1>5, <1>6 DEF Inv, TypeOK, Tracked
<1>8. InStep'
      BY <1>5 DEF InStep
<1>9. AsMatched'
  <2>1. Matched(match', n, T, T + U) = Matched(c, n, T, T + U)
        BY <1>4 DEF Matched
  <2>2. match'.used = Matched(match', match'.seen, T', T' + U')
        BY <1>3, <1>4, <1>5, <2>1 DEF used
  <2> QED BY <2>2 DEF AsMatched
<1>10. Room'
  <2>1. Stay(match.used)' = Stay(used)
        BY <1>4, <1>5 DEF Stay
  <2> QED BY <1>3, <1>4, <2>1 DEF Room
<1> QED BY <1>7, <1>8, <1>9, <1>10 DEF Inv

\* The obstacles are brought up to date.
LEMMA UpdateStep ==
  ASSUME Inv, Update
  PROVE  Inv'
<1> DEFINE used == match.used
           n == match.seen
           kept == Erased(tracked_obstacles_, used.old, T)
           new == Made(used)
<1>1. match.running /\ Resembles(match, n, T, T + U) /\ used = Matched(match, n, T, T + U)
      BY Running DEF Inv, AsMatched, Update
<1>2. T \in Nat /\ n \in Nat /\ T + U \in Nat /\ U \in Nat
      BY <1>1 DEF Resembles, Inv, TypeOK
<1>3. /\ used.old = [j \in 0 .. T + U - 1 |-> IF j \in Gone(match, n, T) THEN 1 ELSE 0]
      /\ used.left = Waiting(match, n, T)
      /\ used.made = Cardinality(Fusing(match, n, T)) + Cardinality(Pieces(match, n, T))
                       + Cardinality(Promoted(match, n, T))
  <2> HIDE DEF used, n
  <2>1. AsMeant(Matched(match, n, T, T + U), match, n, T, T + U)
        BY <1>1, Meaning
  <2>2. AsMeant(used, match, n, T, T + U)
        BY <1>1, <2>1
  <2> QED BY <1>2, <2>2 DEF AsMeant
<1>4. Cardinality(used.left) \in Nat /\ used.made \in Nat
  <2>1. /\ Waiting(match, n, T) \subseteq 0 .. n - 1 /\ Promoted(match, n, T) \subseteq 0 .. n - 1
        /\ Fusing(match, n, T) \subseteq 0 .. n - 1 /\ Pieces(match, n, T) \subseteq 0 .. n - 1
        BY <1>1, RestParts
  <2>2. /\ Cardinality(Waiting(match, n, T)) \in Nat /\ Cardinality(Promoted(match, n, T)) \in Nat
        /\ Cardinality(Fusing(match, n, T)) \in Nat /\ Cardinality(Pieces(match, n, T)) \in Nat
        BY <1>2, <2>1, FewCircles
  <2> QED BY <1>3, <2>2
<1> HIDE DEF used, n
<1>5. kept \in Seq(Fading) /\ Len(kept) = Cardinality(Stay(used))
  <2>1. tracked_obstacles_ \in Lists(Fading, T)
        BY DEF Inv, InStep, Lists, T
  <2>2. \A j \in 0 .. T - 1 : used.old[j] \in {0, 1}
    <3>1. 0 .. T - 1 \subseteq 0 .. T + U - 1
          BY <1>2
    <3> QED BY <1>3, <3>1
  <2> DEFINE old == used.old
  <2>3. Stay(used) = Kept(old, 0, T)
        BY DEF Stay, Kept
  <2>4. kept = Erased(tracked_obstacles_, old, T)
        OBVIOUS
  <2>5. \A j \in 0 .. T - 1 : old[j] \in {0, 1}
        BY <2>2
  <2> HIDE DEF old, kept
  <2>6. /\ Erased(tracked_obstacles_, old, T) \in Seq(Fading)
        /\ Len(Erased(tracked_obstacles_, old, T)) = Cardinality(Kept(old, 0, T))
        BY <1>2, <2>1, <2>5, EraseLoop
  <2> QED BY <2>3, <2>4, <2>6
<1>6. new \in Seq(Fading) /\ Len(new) = used.made
  <2>1. new \in [1 .. used.made -> Fading]
        BY NewObstacles DEF Made
  <2> HIDE DEF new
  <2> QED BY <1>4, <2>1, ListOf
<1>7. /\ tracked_obstacles_' = kept \o new /\ U' = Cardinality(used.left) /\ match' = Idle
      /\ p_active_' = p_active_
      BY DEF Update, used, U
<1> HIDE DEF kept, new
<1>8. tracked_obstacles_' \in Seq(Fading) /\ T' = Cardinality(Stay(used)) + used.made
  <2>1. kept \o new \in Seq(Fading) /\ Len(kept \o new) = Len(kept) + Len(new)
        BY <1>5, <1>6, ConcatProperties
  <2>2. T' = Len(kept \o new)
        BY <1>7 DEF T
  <2> QED BY <1>5, <1>6, <1>7, <2>1, <2>2
<1>9. T' + U' <= MaxOld
  <2>1. Cardinality(Stay(used)) + used.made + Cardinality(used.left) <= MaxOld
        BY <1>1 DEF Inv, Room, used
  <2> QED BY <1>7, <1>8, <2>1
<1>10. U' \in Nat /\ p_active_' \in BOOLEAN /\ match'.running = FALSE
      BY <1>4, <1>7 DEF Inv, TypeOK, Idle
<1> QED BY <1>8, <1>9, <1>10, IdleStep

\* The other callbacks, which start when no scan is being matched.
LEMMA FirstScanStep ==
  ASSUME Inv, NEW n \in 0 .. MaxSeen, FirstScan(n)
  PROVE  Inv'
<1>1. /\ T \in Nat /\ U \in Nat /\ n \in Nat /\ n <= MaxOld
      /\ T + U = 0 /\ U' = n /\ tracked_obstacles_' = tracked_obstacles_
      /\ p_active_' \in BOOLEAN /\ match'.running = FALSE
  <2>1. T \in Nat
        BY LenProperties DEF Inv, TypeOK, T
  <2> QED BY <2>1, TrackerAssumption DEF Inv, TypeOK, FirstScan, U
<1>2. T' = T
      BY <1>1 DEF T
<1>3. tracked_obstacles_' \in Seq(Fading) /\ T' + U' <= MaxOld
      BY <1>1, <1>2 DEF Inv, InStep
<1> QED BY <1>1, <1>3, IdleStep

LEMMA TimerStep ==
  ASSUME Inv, Timer
  PROVE  Inv'
<1>1. tracked_obstacles_ \in Seq(Fading) /\ T \in Nat /\ U \in Nat /\ T + U <= MaxOld
  <2>1. T \in Nat
        BY LenProperties DEF Inv, TypeOK, T
  <2> QED BY <2>1 DEF Inv, InStep, TypeOK
<1>2. /\ UpdateObstacles(tracked_obstacles_) \in Seq(Fading)
      /\ Len(UpdateObstacles(tracked_obstacles_)) <= T
      BY <1>1, FadeLoop DEF T
<1>3. /\ tracked_obstacles_' = UpdateObstacles(tracked_obstacles_) /\ U' = U
      /\ p_active_' \in BOOLEAN /\ match'.running = FALSE
      BY DEF Timer, U, Inv, TypeOK
<1>4. tracked_obstacles_' \in Seq(Fading) /\ T' <= T
      BY <1>2, <1>3 DEF T
<1>5. T' \in Nat
      BY <1>4, LenProperties DEF T
<1>6. U' \in Nat /\ T' + U' <= MaxOld
  <2>1. T \in Nat /\ U \in Nat /\ T + U <= MaxOld /\ U' = U /\ MaxOld \in Nat
        BY <1>1, <1>3, TrackerAssumption
  <2>2. T' \in Nat /\ T' <= T
        BY <1>4, <1>5
  <2> QED BY <2>1, <2>2 DEF T, U
<1> QED BY <1>3, <1>4, <1>6, IdleStep

LEMMA DeactivateStep ==
  ASSUME Inv, Deactivate
  PROVE  Inv'
<1>1. /\ tracked_obstacles_' = <<>> /\ U' = 0 /\ p_active_' \in BOOLEAN
      /\ match'.running = FALSE
      BY DEF Deactivate, U, Inv, TypeOK
<1>2. <<>> \in Seq(Fading) /\ Len(<<>>) = 0
      BY EmptySeq
<1>3. T' + U' <= MaxOld
      BY <1>1, <1>2, TrackerAssumption DEF T
<1> QED BY <1>1, <1>2, <1>3, IdleStep

\* Activation, and any step that changes nothing the invariant speaks of.
LEMMA ActivateStep ==
  ASSUME Inv, UNCHANGED <<tracked_obstacles_, untracked_obstacles_, match>>,
         p_active_' \in BOOLEAN
  PROVE  Inv'
BY DEF Inv, TypeOK, InStep, AsMatched, Room, Stay, T, U

LEMMA InvStep == Inv /\ [Next]_vars => Inv'
<1> SUFFICES ASSUME Inv, [Next]_vars PROVE Inv'
    OBVIOUS
<1>1. CASE \E n \in 0 .. MaxSeen : FirstScan(n)
      BY <1>1, FirstScanStep
<1>2. CASE T + U <= MaxOld /\ \E n \in 0 .. MaxSeen : \E c \in Table[n][T + U] : Scan(n, c)
      BY <1>2, ScanStep
<1>3. CASE Update
      BY <1>3, UpdateStep
<1>4. CASE Timer
      BY <1>4, TimerStep
<1>5. CASE Deactivate
      BY <1>5, DeactivateStep
<1>6. CASE Activate
      BY <1>6, ActivateStep DEF Activate
<1>7. CASE UNCHANGED vars
  <2>1. p_active_' \in BOOLEAN
        BY <1>7 DEF vars, Inv, TypeOK
  <2> QED BY <1>7, <2>1, ActivateStep DEF vars
<1> QED BY <1>1, <1>2, <1>3, <1>4, <1>5, <1>6, <1>7 DEF Next

LEMMA Invariance == Spec => []Inv
<1>1. Init => Inv
      BY InvInit
<1>2. Inv /\ [Next]_vars => Inv'
      BY InvStep
<1> QED BY <1>1, <1>2, PTL DEF Spec

----------------------------------------------------------------------------
(* The theorems.  *)

\* Whatever the scans and their costs, the obstacles and the minima of the
\* matrix stay in their ranges and the obstacles within their bound.
THEOREM TrackerTypeCorrect == Spec => []TypeOK
<1>1. Inv => TypeOK
      BY DEF Inv
<1> QED BY <1>1, Invariance, PTL

\* The loops over the circles and the obstacles never mark an obstacle twice
\* and none that is not tracked, and the loop that erases the marked ones from
\* the back leaves exactly the others, in order.
THEOREM ErasingIsSafe == Spec => []EraseSafe
<1>1. Inv => EraseSafe
  <2> SUFFICES ASSUME Inv, match.running PROVE EraseSafe
      BY DEF EraseSafe
  <2> DEFINE used == match.used
             n == match.seen
             old == used.old
             left == Erased([k \in 1 .. T |-> k - 1], old, T)
  <2>1. Resembles(match, n, T, T + U) /\ used = Matched(match, n, T, T + U)
        BY Running DEF Inv, AsMatched
  <2>2. T \in Nat /\ U \in Nat
        BY LenProperties DEF Inv, TypeOK, T
  <2> HIDE DEF used, n
  <2>3. AsMeant(Matched(match, n, T, T + U), match, n, T, T + U)
        BY <2>1, Meaning
  <2>4. Gone(match, n, T) \subseteq 0 .. T - 1
        BY <2>1, RestParts
  <2>5. ASSUME NEW j \in 0 .. T + U - 1
        PROVE  old[j] = IF j \in Gone(match, n, T) THEN 1 ELSE 0
    <3>1. AsMeant(used, match, n, T, T + U)
          BY <2>1, <2>3
    <3> QED BY <2>2, <3>1 DEF AsMeant
  <2>6. \A j \in 0 .. T + U - 1 : old[j] <= IF j < T THEN 1 ELSE 0
    <3>1. \A j \in Gone(match, n, T) : j < T
          BY <2>2, <2>4
    <3> HIDE DEF old
    <3> QED BY <2>5, <3>1
  <2>7. \A j \in 0 .. T - 1 : old[j] \in {0, 1}
    <3>1. \A j \in 0 .. T - 1 : j \in 0 .. T + U - 1
          BY <2>2
    <3> HIDE DEF old
    <3> QED BY <2>5, <3>1
  <2>8. Stay(used) = Kept(old, 0, T)
        BY DEF Stay, Kept
  <2>9. left \in InOrder(old, 0, T)
    <3> HIDE DEF old
    <3> QED BY <2>2, <2>7, NumbersLeft
  <2> HIDE DEF old, left
  <2>10. /\ left \in Seq(Nat) /\ DOMAIN left = 1 .. Len(left) /\ 0 + 1 = 1
         /\ \A m \in 1 .. Len(left) : left[m] \in Kept(old, 0, T)
         /\ \A j \in Kept(old, 0, T) : \E m \in 1 .. Len(left) : left[m] = j
         /\ \A a, b \in 1 .. Len(left) : a < b => left[a] < left[b]
    <3>1. left \in Seq(Nat) /\ 0 + 1 = 1
          BY <2>9 DEF InOrder
    <3>2. DOMAIN left = 1 .. Len(left)
          BY <3>1, LenProperties
    <3> QED BY <2>9, <3>1, <3>2 DEF InOrder
  <2>11. {left[k] : k \in DOMAIN left} = Stay(used)
    <3> HIDE DEF Stay
    <3> QED BY <2>8, <2>10
  <2>12. \A a, b \in DOMAIN left : a < b => left[a] < left[b]
         BY <2>10
  <2> QED BY <2>6, <2>11, <2>12, Zenon DEF EraseSafe, used, old, left
<1> QED BY <1>1, Invariance, PTL

\* What the marks of the loops add up to is the matching as it is meant: what
\* fuses, splits, waits, is dropped, corrected or made, each in terms of the
\* minima alone, and no obstacle is corrected by two circles.
THEOREM MatchingIsAsMeant == Spec => []MatchesAsMeant
<1>1. Inv => MatchesAsMeant
  <2> SUFFICES ASSUME Inv, match.running PROVE MatchesAsMeant
      BY DEF MatchesAsMeant
  <2> DEFINE used == match.used
             n == match.seen
  <2>1. Resembles(match, n, T, T + U) /\ used = Matched(match, n, T, T + U)
        BY Running DEF Inv, AsMatched
  <2>2. AsMeant(used, match, n, T, T + U)
    <3> HIDE DEF used, n
    <3>1. AsMeant(Matched(match, n, T, T + U), match, n, T, T + U)
          BY <2>1, Meaning
    <3> QED BY <2>1, <3>1
  <2>3. \A i, j \in Correcting(match, n, T) : match.row[i] = match.row[j] => i = j
        BY CorrectedOnce
  <2>4. T \in Nat /\ U \in Nat
        BY LenProperties DEF Inv, TypeOK, T
  <2> HIDE DEF used, n
  <2>5. /\ {j \in 0 .. (T + U) - 1 : used.old[j] > 0} = Gone(match, n, T)
        /\ used.left = Waiting(match, n, T) /\ used.dropped = Dropped(match, n, T)
        /\ used.made = Cardinality(Fusing(match, n, T)) + Cardinality(Pieces(match, n, T))
                         + Cardinality(Promoted(match, n, T))
        /\ used.corrects = Correcting(match, n, T)
        BY <2>2, Zenon DEF AsMeant
  <2>6. \A i, j \in used.corrects : match.row[i] = match.row[j] => i = j
        BY <2>3, <2>5
  <2>7. 0 .. (T + U) - 1 = 0 .. T + U - 1
        BY <2>4
  <2>8. {j \in 0 .. T + U - 1 : used.old[j] > 0} = Gone(match, n, T)
        BY <2>5, <2>7, Zenon
  <2> QED BY <2>5, <2>6, <2>8, Zenon DEF MatchesAsMeant, used, n
<1> QED BY <1>1, Invariance, PTL

\* No obstacle outlives CounterSize turns of the timer without a correction,
\* through fusions, splits and corrections in any order.
THEOREM ObstaclesFade == Spec => []FadesInTime
<1>1. Inv => FadesInTime
  <2> SUFFICES ASSUME Inv, NEW k \in 1 .. T
               PROVE  tracked_obstacles_[k].unseen <= CounterSize
      BY DEF FadesInTime
  <2>1. tracked_obstacles_[k] \in Fading
        BY ElementOfSeq DEF Inv, InStep, T
  <2> QED BY <2>1, TrackerAssumption DEF Fading
<1> QED BY <1>1, Invariance, PTL
=============================================================================
