------------------------ MODULE VescReceiver_proofs ------------------------
(***************************************************************************)
(* Proofs about VescReceiver, for every set of pieces, frame size and way  *)
(* to cut the stream into reads.                                           *)
(*                                                                         *)
(* The search is a recursive function, so most of this is induction.  The  *)
(* induction is the argument by a least counterexample (LeastNumber), and  *)
(* a recursive function is one that exists because its values can be found *)
(* one after the other (Downward, Upward).                                 *)
(***************************************************************************)
EXTENDS VescReceiver, WellFoundedInduction, SequenceTheorems, TLAPS

LEMMA LessThan == OpToRel(<, Nat) = {ss \in Nat \X Nat : ss[1] < ss[2]}
BY DEF OpToRel

\* A set of natural numbers that is not empty has a least one.
LEMMA LeastNumber ==
  ASSUME NEW T, T \subseteq Nat, T # {}
  PROVE  \E x \in T : \A y \in T : x <= y
<1> DEFINE R == {ss \in Nat \X Nat : ss[1] < ss[2]}
<1>1. IsWellFoundedOn(R, Nat)
      BY NatLessThanWellFounded, LessThan
<1>2. \A x, y \in Nat : y < x => <<y, x>> \in R
      OBVIOUS
<1> HIDE DEF R
<1> PICK x \in T : \A y \in T : ~ (<<y, x>> \in R)
    BY <1>1, WFMin
<1>3. ASSUME NEW y \in T PROVE x <= y
  <2>1. x \in Nat /\ y \in Nat
        OBVIOUS
  <2>2. ~(y < x)
        BY <2>1, <1>2
  <2> QED BY <2>1, <2>2
<1> QED BY <1>3

\* Induction from 0 up to N, for the members of a set.
LEMMA UpTo ==
  ASSUME NEW N \in Nat, NEW T, 0 \in T,
         \A k \in 0 .. N - 1 : k \in T => k + 1 \in T
  PROVE  \A k \in 0 .. N : k \in T
<1> DEFINE Bad == {k \in 0 .. N : k \notin T}
<1> SUFFICES ASSUME Bad # {} PROVE FALSE
    OBVIOUS
<1>1. Bad \subseteq Nat
      OBVIOUS
<1> PICK k \in Bad : \A y \in Bad : k <= y
    BY <1>1, LeastNumber
<1>2. k # 0 /\ k \in 1 .. N
      OBVIOUS
<1>3. k - 1 \notin Bad
      BY <1>1, <1>2
<1>4. k - 1 \in T /\ k - 1 \in 0 .. N - 1
      BY <1>2, <1>3
<1>5. (k - 1) + 1 \in T
      BY <1>4
<1> QED BY <1>2, <1>5

\* Induction from N down to 1.
LEMMA DownFrom ==
  ASSUME NEW N \in Nat, NEW T,
         \A i \in 1 .. N : (\A j \in i + 1 .. N : j \in T) => i \in T
  PROVE  \A i \in 1 .. N : i \in T
<1> DEFINE Bad == {k \in 0 .. N : N - k \in 1 .. N /\ N - k \notin T}
<1>1. Bad = {}
  <2> SUFFICES ASSUME Bad # {} PROVE FALSE
      OBVIOUS
  <2>1. Bad \subseteq Nat
        OBVIOUS
  <2> PICK k \in Bad : \A y \in Bad : k <= y
      BY <2>1, LeastNumber
  <2>2. N - k \in 1 .. N /\ N - k \notin T
        OBVIOUS
  <2>3. ASSUME NEW j \in (N - k) + 1 .. N PROVE j \in T
    <3>1. N - j \in Nat /\ N - j < k /\ N - (N - j) = j /\ N - j \in 0 .. N /\ j \in 1 .. N
          BY <2>1, <2>2
    <3>2. N - j \notin Bad
          BY <2>1, <3>1
    <3> QED BY <3>1, <3>2
  <2> QED BY <2>2, <2>3
<1>2. ASSUME NEW i \in 1 .. N, i \notin T PROVE FALSE
  <2>1. N - i \in 0 .. N /\ N - (N - i) = i
        OBVIOUS
  <2>2. N - i \in Bad
        BY <1>2, <2>1
  <2> QED BY <1>1, <2>2
<1> QED BY <1>2

\* f begins with s and goes on as G says.
Climbs(f, s, G, S, N) ==
  /\ f \in [0 .. N -> S] /\ f[0] = s
  /\ \A k \in 1 .. N : f[k] = G[<<f[k - 1], k>>]

\* A function whose value at k is given by its value at k - 1.
LEMMA Upward ==
  ASSUME NEW S, NEW s \in S, NEW N \in Nat, NEW G, G \in [S \X Nat -> S]
  PROVE  \E f : Climbs(f, s, G, S, N)
<1> DEFINE Right(f, n) == f[0] = s /\ \A k \in 1 .. n : f[k] = G[<<f[k - 1], k>>]
           T == {n \in 0 .. N : \E f \in [0 .. N -> S] : Right(f, n)}
<1>1. 0 \in T
  <2> DEFINE f == [k \in 0 .. N |-> s]
  <2>1. f \in [0 .. N -> S] /\ Right(f, 0)
        OBVIOUS
  <2> HIDE DEF f
  <2> QED BY <2>1
<1>2. ASSUME NEW n \in 0 .. N - 1, n \in T PROVE n + 1 \in T
  <2> PICK f \in [0 .. N -> S] : Right(f, n)
      BY <1>2
  <2> DEFINE next == G[<<f[n], n + 1>>]
             g == [f EXCEPT ![n + 1] = next]
  <2>1. n \in 0 .. N /\ n + 1 \in 1 .. N /\ n + 1 \in Nat
        OBVIOUS
  <2>2. next \in S
        BY <2>1
  <2> HIDE DEF next
  <2>3. g \in [0 .. N -> S] /\ g[n + 1] = next /\ \A k \in 0 .. n : g[k] = f[k]
        BY <2>1, <2>2
  <2> HIDE DEF g
  <2>4. g[n + 1] = G[<<g[n], n + 1>>]
    <3>1. g[n] = f[n]
          BY <2>1, <2>3
    <3> QED BY <2>3, <3>1 DEF next
  <2>5. ASSUME NEW k \in 1 .. n PROVE g[k] = G[<<g[k - 1], k>>]
        BY <2>3
  <2>6. ASSUME NEW k \in 1 .. n + 1 PROVE g[k] = G[<<g[k - 1], k>>]
    <3>1. CASE k = n + 1
          BY <2>1, <2>4, <3>1
    <3>2. CASE k # n + 1
      <4>1. k \in 1 .. n
            BY <2>1, <3>2
      <4> QED BY <2>5, <4>1
    <3> QED BY <3>1, <3>2
  <2>7. g[0] = s
        BY <2>3
  <2> QED BY <2>1, <2>3, <2>6, <2>7
<1> HIDE DEF T
<1>3. \A n \in 0 .. N : n \in T
      BY <1>1, <1>2, UpTo
<1> QED BY <1>3 DEF T, Climbs

\* G finds a value for every place, which rests on the values above alone.
LooksUp(G, S, N) ==
  /\ G \in [[1 .. N -> S] \X (1 .. N) -> S]
  /\ \A f, g \in [1 .. N -> S], i \in 1 .. N :
       (\A j \in i + 1 .. N : f[j] = g[j]) => G[<<f, i>>] = G[<<g, i>>]

\* f has on 1 .. N the values that G finds.
Follows(f, G, S, N) ==
  f \in [1 .. N -> S] /\ \A i \in 1 .. N : f[i] = G[<<f, i>>]

\* A function on 1 .. N whose value at i is given by its values above i.
LEMMA Downward ==
  ASSUME NEW S, S # {}, NEW N \in Nat, NEW G, LooksUp(G, S, N)
  PROVE  \E f : Follows(f, G, S, N)
<1> DEFINE Fun == [1 .. N -> S]
           Right(f, n) == \A i \in N - n + 1 .. N : f[i] = G[<<f, i>>]
           T == {n \in 0 .. N : \E f \in Fun : Right(f, n)}
<1>1. 0 \in T
  <2> PICK s \in S : TRUE
      OBVIOUS
  <2> DEFINE f == [k \in 1 .. N |-> s]
  <2>1. f \in Fun /\ Right(f, 0)
        OBVIOUS
  <2> QED BY <2>1
<1>2. ASSUME NEW n \in 0 .. N - 1, n \in T PROVE n + 1 \in T
  <2> PICK f \in Fun : Right(f, n)
      BY <1>2
  <2> DEFINE m == N - n
             this == G[<<f, m>>]
             g == [f EXCEPT ![m] = this]
  <2>1. m \in 1 .. N /\ m = N - (n + 1) + 1 /\ n + 1 \in 0 .. N /\ m + 1 = N - n + 1
        OBVIOUS
  <2>2. this \in S
        BY <2>1 DEF LooksUp
  <2>3. \A i \in m + 1 .. N : f[i] = G[<<f, i>>]
        BY <2>1
  <2> HIDE DEF m, this
  <2>4. g \in Fun /\ g[m] = this /\ \A i \in m + 1 .. N : g[i] = f[i]
        BY <2>1, <2>2
  <2> HIDE DEF g
  <2>5. ASSUME NEW i \in m .. N PROVE G[<<g, i>>] = G[<<f, i>>]
    <3>1. i \in 1 .. N /\ \A j \in i + 1 .. N : g[j] = f[j]
          BY <2>1, <2>4
    <3> QED BY <2>4, <3>1 DEF LooksUp
  <2>6. ASSUME NEW i \in m .. N PROVE g[i] = G[<<g, i>>]
    <3>1. CASE i = m
          BY <2>1, <2>4, <2>5, <3>1 DEF this
    <3>2. CASE i # m
      <4>1. i \in m + 1 .. N
            BY <2>1, <3>2
      <4> QED BY <2>3, <2>4, <2>5, <4>1
    <3> QED BY <3>1, <3>2
  <2> QED BY <2>1, <2>4, <2>6
<1> HIDE DEF T
<1>3. \A n \in 0 .. N : n \in T
  <2>1. \A n \in 0 .. N - 1 : n \in T => n + 1 \in T
        BY <1>2
  <2> QED BY <1>1, <2>1, UpTo, Zenon
<1>4. N \in T
      BY <1>3
<1>5. \E f \in Fun : Right(f, N)
      BY <1>4 DEF T
<1>6. N - N + 1 = 1
      OBVIOUS
<1> QED BY <1>5, <1>6 DEF Follows

----------------------------------------------------------------------------
(* The search.  *)

Found  == [at : Nat, len : Nat, payload : Seq(Nat)]
Result == [found : Seq(Found), rest : Seq(Nat)]

Suffix(b, i) == SubSeq(b, i, Len(b))

\* What the search makes of the bytes r from the current place on: it is at the
\* end, goes on to the next byte, waits for more, or steps over a packet.
Kind(r) ==
  IF r = <<>> THEN "end"
  ELSE IF r[1] \notin {SMALL, LARGE} THEN "skip"
  ELSE IF Incomplete(r) THEN "wait"
  ELSE IF IsPacket(r) THEN "packet"
  ELSE "skip"

Packet(r, i) == [at |-> i, len |-> FrameSize(r), payload |-> Payload(r)]

\* A result with a packet before what it found.
With(packet, result) == [result EXCEPT !.found = <<packet>> \o @]

LEMMA KindType == \A r : Kind(r) \in {"end", "skip", "wait", "packet"}
BY DEF Kind

LEMMA SuffixType ==
  ASSUME NEW b \in Seq(Nat), NEW i \in 1 .. Len(b) + 1
  PROVE  /\ Suffix(b, i) \in Seq(Nat) /\ Len(Suffix(b, i)) = Len(b) + 1 - i
         /\ \A k \in 1 .. Len(b) + 1 - i : Suffix(b, i)[k] = b[i + k - 1]
BY DEF Suffix

\* The sizes that a header gives.
LEMMA SizeType ==
  ASSUME NEW r \in Seq(Nat), Len(r) >= MinFrame
  PROVE  /\ PayloadSize(r) \in Nat /\ HeaderSize(r) \in {2, 3}
         /\ FrameSize(r) \in Nat /\ FrameSize(r) >= MinFrame
         /\ ~Oversized(r) => FrameSize(r) <= MaxFrame
<1>1. r[2] \in Nat /\ r[3] \in Nat
      BY DEF MinFrame
<1>2. PayloadSize(r) \in Nat /\ HeaderSize(r) \in {2, 3}
      BY <1>1 DEF PayloadSize, HeaderSize
<1> QED BY <1>2, ReceiverAssumption, SMTT(30) DEF FrameSize, MinFrame, MaxFrame, Oversized

\* A packet lies within the bytes, and what waits is shorter than a frame.
LEMMA PacketFits ==
  ASSUME NEW r \in Seq(Nat), Kind(r) = "packet"
  PROVE  FrameSize(r) \in MinFrame .. Len(r) /\ ~Oversized(r) /\ Len(r) >= MinFrame
<1>1. ~Incomplete(r) /\ IsPacket(r)
      BY DEF Kind
<1>2. ~Oversized(r) /\ ~(Len(r) < MinFrame)
      BY <1>1 DEF IsPacket, Incomplete
<1>3. Len(r) >= MinFrame
      BY <1>2 DEF MinFrame
<1>4. FrameSize(r) \in Nat /\ FrameSize(r) >= MinFrame
      BY <1>3, SizeType
<1>5. ~(Len(r) < FrameSize(r))
      BY <1>1, <1>2 DEF Incomplete
<1> QED BY <1>2, <1>3, <1>4, <1>5 DEF MinFrame

LEMMA WaitsShort ==
  ASSUME NEW r \in Seq(Nat), Kind(r) = "wait"
  PROVE  Len(r) < MaxFrame
<1>1. Incomplete(r)
      BY DEF Kind
<1>2. CASE Len(r) < MinFrame
      BY <1>2, ReceiverAssumption DEF MinFrame, MaxFrame
<1>3. CASE ~(Len(r) < MinFrame)
  <2>1. Len(r) >= MinFrame
        BY <1>3 DEF MinFrame
  <2>2. FrameSize(r) \in Nat /\ (~Oversized(r) => FrameSize(r) <= MaxFrame)
        BY <2>1, SizeType
  <2> QED BY <1>1, <1>3, <2>2, ReceiverAssumption DEF Incomplete, MaxFrame
<1> QED BY <1>2, <1>3

\* One step of the search.
LEMMA StepCases ==
  ASSUME NEW b \in Seq(Nat), NEW f, NEW i \in 1 .. Len(b) + 1, NEW r, r = Suffix(b, i)
  PROVE  /\ Kind(r) = "end" => SearchAt(b, f, i) = [found |-> <<>>, rest |-> <<>>]
         /\ Kind(r) = "skip" => SearchAt(b, f, i) = f[i + 1]
         /\ Kind(r) = "wait" => SearchAt(b, f, i) = [found |-> <<>>, rest |-> r]
         /\ Kind(r) = "packet" =>
              SearchAt(b, f, i) =
                With(Packet(r, i), f[i + FrameSize(r)])
<1>1. CASE r = <<>>
      BY <1>1 DEF Kind, SearchAt, Suffix
<1>2. CASE r # <<>> /\ r[1] \notin {SMALL, LARGE}
      BY <1>2 DEF Kind, SearchAt, Suffix
<1>3. CASE r # <<>> /\ r[1] \in {SMALL, LARGE} /\ Incomplete(r)
      BY <1>3 DEF Kind, SearchAt, Suffix, Kept
<1>4. CASE r # <<>> /\ r[1] \in {SMALL, LARGE} /\ ~Incomplete(r) /\ IsPacket(r)
      BY <1>4 DEF Kind, SearchAt, Suffix, Packet, With
<1>5. CASE r # <<>> /\ r[1] \in {SMALL, LARGE} /\ ~Incomplete(r) /\ ~IsPacket(r)
      BY <1>5 DEF Kind, SearchAt, Suffix, Skip
<1> QED BY <1>1, <1>2, <1>3, <1>4, <1>5

\* It goes on at a place above, within the buffer or just behind it.
LEMMA StepsUp ==
  ASSUME NEW b \in Seq(Nat), NEW i \in 1 .. Len(b) + 1, NEW r, r = Suffix(b, i)
  PROVE  /\ Kind(r) = "end" <=> i = Len(b) + 1
         /\ Kind(r) = "skip" => i + 1 \in i + 1 .. Len(b) + 1
         /\ Kind(r) = "packet" => i + FrameSize(r) \in i + 1 .. Len(b) + 1
         /\ r \in Seq(Nat) /\ Len(r) = Len(b) + 1 - i
<1>1. r \in Seq(Nat) /\ Len(r) = Len(b) + 1 - i
      BY SuffixType
<1>2. r = <<>> <=> i = Len(b) + 1
      BY <1>1
<1>3. Kind(r) = "end" <=> r = <<>>
      BY DEF Kind
<1>4. Kind(r) = "packet" => FrameSize(r) \in MinFrame .. Len(r)
      BY <1>1, PacketFits
<1>5. Kind(r) = "skip" => i + 1 \in i + 1 .. Len(b) + 1
      BY <1>2, <1>3
<1>6. ASSUME Kind(r) = "packet" PROVE i + FrameSize(r) \in i + 1 .. Len(b) + 1
  <2>1. FrameSize(r) \in Nat /\ FrameSize(r) >= 1 /\ FrameSize(r) <= Len(r)
        BY <1>4, <1>6 DEF MinFrame
  <2> QED BY <1>1, <2>1, SMTT(30)
<1> QED BY <1>1, <1>2, <1>3, <1>5, <1>6

LEMMA PacketType ==
  ASSUME NEW r \in Seq(Nat), Kind(r) = "packet", NEW i \in Nat
  PROVE  Packet(r, i) \in Found
<1>1. FrameSize(r) \in Nat
      BY PacketFits DEF MinFrame
<1>2. PayloadSize(r) \in Nat /\ HeaderSize(r) \in {2, 3} /\ FrameSize(r) <= Len(r)
      BY PacketFits, SizeType DEF MinFrame
<1>3. HeaderSize(r) + PayloadSize(r) <= Len(r)
      BY <1>1, <1>2 DEF FrameSize
<1> DEFINE m == HeaderSize(r) + 1
           n == HeaderSize(r) + PayloadSize(r)
<1>4. m \in Nat \ {0} /\ n \in Nat /\ n <= Len(r)
      BY <1>2, <1>3
<1>5. SubSeq(r, m, n) \in Seq(Nat)
  <2> HIDE DEF m, n
  <2>1. \A k \in m .. n : r[k] \in Nat
        BY <1>4
  <2> QED BY <1>4, <2>1, SubSeqProperties
<1> QED BY <1>1, <1>5 DEF Packet, Found, Payload

LEMMA NothingFound ==
  /\ \A r \in Seq(Nat) : [found |-> <<>>, rest |-> r] \in Result
  /\ [found |-> <<>>, rest |-> <<>>] \in Result /\ Result # {}
<1>1. <<>> \in Seq(Found) /\ <<>> \in Seq(Nat)
      OBVIOUS
<1>2. \A r \in Seq(Nat) : [found |-> <<>>, rest |-> r] \in Result
      BY <1>1 DEF Result
<1>3. [found |-> <<>>, rest |-> <<>>] \in Result
      BY <1>1, <1>2
<1> QED BY <1>2, <1>3

LEMMA StepType ==
  ASSUME NEW b \in Seq(Nat), NEW i \in 1 .. Len(b) + 1,
         NEW f, \A j \in i + 1 .. Len(b) + 1 : f[j] \in Result
  PROVE  SearchAt(b, f, i) \in Result
<1> PICK r : r = Suffix(b, i)
    OBVIOUS
<1>1. /\ Kind(r) = "end" => SearchAt(b, f, i) = [found |-> <<>>, rest |-> <<>>]
      /\ Kind(r) = "skip" => SearchAt(b, f, i) = f[i + 1]
      /\ Kind(r) = "wait" => SearchAt(b, f, i) = [found |-> <<>>, rest |-> r]
      /\ Kind(r) = "packet" =>
           SearchAt(b, f, i) = With(Packet(r, i), f[i + FrameSize(r)])
      BY StepCases
<1>2. /\ Kind(r) = "skip" => f[i + 1] \in Result
      /\ Kind(r) = "packet" => f[i + FrameSize(r)] \in Result
      /\ r \in Seq(Nat)
      BY StepsUp
<1>3. CASE Kind(r) = "end"
      BY <1>1, <1>3, NothingFound
<1>4. CASE Kind(r) = "skip"
      BY <1>1, <1>2, <1>4
<1>5. CASE Kind(r) = "wait"
      BY <1>1, <1>2, <1>5, NothingFound
<1>6. CASE Kind(r) = "packet"
  <2> DEFINE next == f[i + FrameSize(r)]
             p == Packet(r, i)
  <2>1. next \in Result /\ p \in Found
        BY <1>2, <1>6, PacketType
  <2> HIDE DEF next, p
  <2>2. <<p>> \o next.found \in Seq(Found)
        BY <2>1 DEF Result
  <2>3. With(p, next) \in Result
        BY <2>1, <2>2 DEF Result, With
  <2> QED BY <1>1, <1>6, <2>3 DEF next, p
<1> QED BY <1>3, <1>4, <1>5, <1>6, KindType

LEMMA StepLocal ==
  ASSUME NEW b \in Seq(Nat), NEW i \in 1 .. Len(b) + 1,
         NEW f, NEW g, \A j \in i + 1 .. Len(b) + 1 : f[j] = g[j]
  PROVE  SearchAt(b, f, i) = SearchAt(b, g, i)
<1> DEFINE r == Suffix(b, i)
<1>1. /\ Kind(r) = "end" => SearchAt(b, f, i) = [found |-> <<>>, rest |-> <<>>]
      /\ Kind(r) = "skip" => SearchAt(b, f, i) = f[i + 1]
      /\ Kind(r) = "wait" => SearchAt(b, f, i) = [found |-> <<>>, rest |-> r]
      /\ Kind(r) = "packet" =>
           SearchAt(b, f, i) = With(Packet(r, i), f[i + FrameSize(r)])
      BY StepCases
<1>2. /\ Kind(r) = "end" => SearchAt(b, g, i) = [found |-> <<>>, rest |-> <<>>]
      /\ Kind(r) = "skip" => SearchAt(b, g, i) = g[i + 1]
      /\ Kind(r) = "wait" => SearchAt(b, g, i) = [found |-> <<>>, rest |-> r]
      /\ Kind(r) = "packet" =>
           SearchAt(b, g, i) = With(Packet(r, i), g[i + FrameSize(r)])
      BY StepCases
<1>3. /\ Kind(r) = "skip" => f[i + 1] = g[i + 1]
      /\ Kind(r) = "packet" => f[i + FrameSize(r)] = g[i + FrameSize(r)]
      BY StepsUp
<1> HIDE DEF r
<1> QED BY <1>1, <1>2, <1>3, KindType

\* The recursive function exists, so that every place's result is one step of
\* the search before the results above it.
LEMMA SearchFromStep ==
  ASSUME NEW b \in Seq(Nat)
  PROVE  \A i \in 1 .. Len(b) + 1 :
           /\ SearchFrom(b)[i] = SearchAt(b, SearchFrom(b), i)
           /\ SearchFrom(b)[i] \in Result
<1> DEFINE N == Len(b) + 1
           G == [fi \in [1 .. N -> Result] \X (1 .. N) |-> SearchAt(b, fi[1], fi[2])]
           s == SearchFrom(b)
<1>1. N \in Nat
      OBVIOUS
<1>2. \E from : from = [i \in 1 .. N |-> SearchAt(b, from, i)]
  <2>1. \A f \in [1 .. N -> Result], i \in 1 .. N :
          G[<<f, i>>] = SearchAt(b, f, i) /\ G[<<f, i>>] \in Result
    <3> TAKE f \in [1 .. N -> Result], i \in 1 .. N
    <3>1. SearchAt(b, f, i) \in Result
          BY StepType
    <3> QED BY <3>1
  <2>2. G \in [[1 .. N -> Result] \X (1 .. N) -> Result]
        BY <2>1
  <2>3. LooksUp(G, Result, N)
    <3> SUFFICES ASSUME NEW f \in [1 .. N -> Result], NEW g \in [1 .. N -> Result],
                        NEW i \in 1 .. N, \A j \in i + 1 .. N : f[j] = g[j]
                 PROVE  G[<<f, i>>] = G[<<g, i>>]
        BY <2>2 DEF LooksUp
    <3>1. SearchAt(b, f, i) = SearchAt(b, g, i)
          BY StepLocal
    <3> QED BY <2>1, <3>1
  <2>4. Result # {}
        BY NothingFound
  <2> HIDE DEF G, N
  <2>5. PICK f : Follows(f, G, Result, N)
        BY <1>1, <2>3, <2>4, Downward
  <2>6. f = [i \in 1 .. N |-> SearchAt(b, f, i)]
        BY <2>1, <2>5 DEF Follows
  <2> QED BY <2>6
<1>3. s = [i \in 1 .. N |-> SearchAt(b, s, i)]
      BY <1>2 DEF SearchFrom
<1> HIDE DEF N
<1>4. \A i \in 1 .. N : s[i] = SearchAt(b, s, i)
      BY <1>3
<1> HIDE DEF s
<1> DEFINE T == {i \in 1 .. N : s[i] \in Result}
<1>5. ASSUME NEW i \in 1 .. N, \A j \in i + 1 .. N : j \in T PROVE i \in T
  <2>1. SearchAt(b, s, i) \in Result
        BY <1>5, StepType DEF N
  <2> QED BY <1>4, <2>1
<1>6. \A i \in 1 .. N : i \in T
  <2> HIDE DEF T
  <2> QED BY <1>1, <1>5, DownFrom DEF N
<1> QED BY <1>4, <1>6 DEF N, s

----------------------------------------------------------------------------
(* What is read later changes nothing about a place the search went past.  *)

\* t begins with the bytes of r.
Begins(t, r) == Len(r) <= Len(t) /\ \A k \in 1 .. Len(r) : t[k] = r[k]

LEMMA SameHeader ==
  ASSUME NEW r \in Seq(Nat), NEW t \in Seq(Nat), Begins(t, r), Len(r) >= MinFrame
  PROVE  /\ HeaderSize(t) = HeaderSize(r) /\ PayloadSize(t) = PayloadSize(r)
         /\ FrameSize(t) = FrameSize(r) /\ Oversized(t) = Oversized(r)
<1>1. t[1] = r[1] /\ t[2] = r[2] /\ t[3] = r[3]
  <2>1. 1 \in 1 .. Len(r) /\ 2 \in 1 .. Len(r) /\ 3 \in 1 .. Len(r)
        BY DEF MinFrame
  <2> QED BY <2>1, Zenon DEF Begins
<1>2. HeaderSize(t) = HeaderSize(r) /\ PayloadSize(t) = PayloadSize(r)
      BY <1>1 DEF HeaderSize, PayloadSize
<1> QED BY <1>2 DEF FrameSize, Oversized

LEMMA SameBytes ==
  ASSUME NEW r \in Seq(Nat), NEW t \in Seq(Nat), Begins(t, r),
         NEW m \in Nat \ {0}, NEW n \in Nat, n <= Len(r)
  PROVE  SubSeq(t, m, n) = SubSeq(r, m, n)
<1>1. ASSUME NEW k \in m .. n PROVE t[k] = r[k] /\ r[k] \in Nat /\ t[k] \in Nat
  <2>1. Len(r) \in Nat /\ Len(t) \in Nat /\ Len(r) <= Len(t)
        BY DEF Begins
  <2>2. k \in 1 .. Len(r) /\ k \in 1 .. Len(t)
        BY <2>1
  <2>3. t[k] = r[k]
        BY <2>2 DEF Begins
  <2> QED BY <2>2, <2>3, ElementOfSeq
<1>2. CASE m <= n
  <2> DEFINE f == SubSeq(t, m, n)
             g == SubSeq(r, m, n)
  <2>1. f \in Seq(Nat) /\ Len(f) = n - m + 1 /\ \A k \in 1 .. n - m + 1 : f[k] = t[m + k - 1]
        BY <1>1, <1>2, SubSeqProperties
  <2>2. g \in Seq(Nat) /\ Len(g) = n - m + 1 /\ \A k \in 1 .. n - m + 1 : g[k] = r[m + k - 1]
        BY <1>1, <1>2, SubSeqProperties
  <2> HIDE DEF f, g
  <2>3. \A k \in 1 .. Len(f) : f[k] = g[k]
        BY <1>1, <1>2, <2>1, <2>2
  <2>4. f = g
        BY <2>1, <2>2, <2>3, SeqEqual
  <2> QED BY <2>4 DEF f, g
<1>3. CASE ~(m <= n)
  <2>1. SubSeq(t, m, n) = <<>> /\ SubSeq(r, m, n) = <<>>
        BY <1>3, SubSeqProperties
  <2> QED BY <2>1
<1> QED BY <1>2, <1>3

LEMMA SameFrame ==
  ASSUME NEW r \in Seq(Nat), NEW t \in Seq(Nat), Begins(t, r), Len(r) >= MinFrame,
         FrameSize(r) <= Len(r)
  PROVE  Payload(t) = Payload(r) /\ (IsPacket(t) <=> IsPacket(r))
<1> DEFINE h == HeaderSize(r)
           p == PayloadSize(r)
           s == FrameSize(r)
<1>1. h \in {2, 3} /\ p \in Nat /\ s = h + p + 3 /\ s <= Len(r) /\ Len(r) \in Nat
  <2>1. HeaderSize(r) \in {2, 3} /\ PayloadSize(r) \in Nat
        BY SizeType
  <2>2. FrameSize(r) = HeaderSize(r) + PayloadSize(r) + 3
        BY DEF FrameSize
  <2> QED BY <2>1, <2>2
<1>2. HeaderSize(t) = h /\ PayloadSize(t) = p /\ FrameSize(t) = s /\ Oversized(t) = Oversized(r)
      BY SameHeader
<1> HIDE DEF h, p, s
<1>3. SubSeq(t, h + 1, h + p) = SubSeq(r, h + 1, h + p)
  <2>1. h + 1 \in Nat \ {0} /\ h + p \in Nat /\ h + p <= Len(r)
        BY <1>1
  <2> QED BY <2>1, SameBytes
<1>4. Payload(t) = Payload(r)
  <2>1. Payload(t) = SubSeq(t, h + 1, h + p)
        BY <1>2, Zenon DEF Payload
  <2>2. Payload(r) = SubSeq(r, h + 1, h + p)
        BY DEF Payload, h, p
  <2> QED BY <1>3, <2>1, <2>2
<1>5. SubSeq(t, s - 2, s - 1) = SubSeq(r, s - 2, s - 1)
  <2>1. s - 2 \in Nat \ {0} /\ s - 1 \in Nat /\ s - 1 <= Len(r)
        BY <1>1
  <2> QED BY <2>1, SameBytes
<1>6. t[s] = r[s] /\ t[h + 1] = r[h + 1]
  <2>1. s \in 1 .. Len(r) /\ h + 1 \in 1 .. Len(r)
        BY <1>1
  <2> QED BY <2>1, Zenon DEF Begins
<1>7. IsPacket(t) <=> /\ ~Oversized(r)
                      /\ r[s] = EOF
                      /\ SubSeq(r, s - 2, s - 1) = Checksum(Payload(r))
                      /\ p > 0
                      /\ r[h + 1] \in Registered
      BY <1>2, <1>4, <1>5, <1>6 DEF IsPacket, p
<1>8. IsPacket(r) <=> /\ ~Oversized(r)
                      /\ r[s] = EOF
                      /\ SubSeq(r, s - 2, s - 1) = Checksum(Payload(r))
                      /\ p > 0
                      /\ r[h + 1] \in Registered
      BY DEF IsPacket, h, p, s
<1> QED BY <1>4, <1>7, <1>8

LEMMA SameKind ==
  ASSUME NEW r \in Seq(Nat), NEW t \in Seq(Nat), Begins(t, r), Kind(r) \in {"skip", "packet"}
  PROVE  /\ Kind(t) = Kind(r)
         /\ Kind(r) = "packet" => FrameSize(t) = FrameSize(r) /\ Payload(t) = Payload(r)
<1>1. r # <<>> /\ Len(r) >= 1
      BY DEF Kind
<1>2. t # <<>> /\ t[1] = r[1]
      BY <1>1 DEF Begins
<1>3. CASE r[1] \notin {SMALL, LARGE}
      BY <1>1, <1>2, <1>3 DEF Kind
<1>4. CASE r[1] \in {SMALL, LARGE}
  <2>1. ~Incomplete(r)
        BY <1>1, <1>4 DEF Kind
  <2>2. Len(r) >= MinFrame /\ Len(t) >= MinFrame /\ Len(t) >= Len(r)
        BY <2>1 DEF Incomplete, Begins, MinFrame
  <2>3. FrameSize(t) = FrameSize(r) /\ (Oversized(t) <=> Oversized(r)) /\ FrameSize(r) \in Nat
        BY <2>2, SameHeader, SizeType
  <2>4. CASE Oversized(r)
    <3>1. ~Incomplete(t) /\ ~IsPacket(t) /\ ~IsPacket(r)
          BY <2>2, <2>3, <2>4 DEF Incomplete, IsPacket, MinFrame
    <3> QED BY <1>1, <1>2, <1>4, <2>1, <3>1 DEF Kind
  <2>5. CASE ~Oversized(r)
    <3>1. FrameSize(r) <= Len(r)
          BY <2>1, <2>3, <2>5 DEF Incomplete
    <3>2. Payload(t) = Payload(r) /\ (IsPacket(t) <=> IsPacket(r))
          BY <2>2, <3>1, SameFrame
    <3>3. ~Incomplete(t)
          BY <2>2, <2>3, <3>1 DEF Incomplete, MinFrame
    <3> QED BY <1>1, <1>2, <1>4, <2>1, <2>3, <3>2, <3>3 DEF Kind
  <2> QED BY <2>4, <2>5
<1> QED BY <1>3, <1>4

\* s is right at the place i, where the bytes are r.
Finds(s, i, r) ==
  /\ s[i] \in Result
  /\ Kind(r) = "end" => s[i] = [found |-> <<>>, rest |-> <<>>]
  /\ Kind(r) = "skip" => s[i] = s[i + 1]
  /\ Kind(r) = "wait" => s[i] = [found |-> <<>>, rest |-> r]
  /\ Kind(r) = "packet" => s[i] = With(Packet(r, i), s[i + FrameSize(r)])

LEMMA SearchCases ==
  ASSUME NEW b \in Seq(Nat), NEW i \in 1 .. Len(b) + 1
  PROVE  Finds(SearchFrom(b), i, Suffix(b, i))
<1> PICK r : r = Suffix(b, i)
    OBVIOUS
<1> PICK s : s = SearchFrom(b)
    OBVIOUS
<1>1. s[i] = SearchAt(b, s, i) /\ s[i] \in Result
      BY SearchFromStep
<1>2. /\ Kind(r) = "end" => SearchAt(b, s, i) = [found |-> <<>>, rest |-> <<>>]
      /\ Kind(r) = "skip" => SearchAt(b, s, i) = s[i + 1]
      /\ Kind(r) = "wait" => SearchAt(b, s, i) = [found |-> <<>>, rest |-> r]
      /\ Kind(r) = "packet" => SearchAt(b, s, i) = With(Packet(r, i), s[i + FrameSize(r)])
      BY StepCases
<1> QED BY <1>1, <1>2 DEF Finds

----------------------------------------------------------------------------
(* Searches of parts of a buffer.  *)

LEMMA SuffixSuffix ==
  ASSUME NEW b \in Seq(Nat), NEW i \in 1 .. Len(b) + 1, NEW c, c = Suffix(b, i),
         NEW j \in 1 .. Len(c) + 1
  PROVE  Suffix(b, i - 1 + j) = Suffix(c, j) /\ i - 1 + j \in 1 .. Len(b) + 1
<1>1. c \in Seq(Nat) /\ Len(c) = Len(b) + 1 - i /\ \A k \in 1 .. Len(c) : c[k] = b[i + k - 1]
      BY SuffixType
<1> DEFINE m == i - 1 + j
           f == Suffix(b, m)
           g == Suffix(c, j)
<1>2. m \in 1 .. Len(b) + 1 /\ Len(b) + 1 - m = Len(c) + 1 - j
      BY <1>1
<1>3. f \in Seq(Nat) /\ Len(f) = Len(b) + 1 - m /\ \A k \in 1 .. Len(b) + 1 - m : f[k] = b[m + k - 1]
      BY <1>2, SuffixType
<1>4. g \in Seq(Nat) /\ Len(g) = Len(c) + 1 - j /\ \A k \in 1 .. Len(c) + 1 - j : g[k] = c[j + k - 1]
      BY <1>1, SuffixType
<1> HIDE DEF f, g
<1>5. ASSUME NEW k \in 1 .. Len(f) PROVE f[k] = g[k]
  <2>1. j + k - 1 \in 1 .. Len(c) /\ i + (j + k - 1) - 1 = m + k - 1
        BY <1>1, <1>2, <1>3
  <2>2. c[j + k - 1] = b[m + k - 1]
        BY <1>1, <2>1
  <2> QED BY <1>2, <1>3, <1>4, <2>2
<1>6. f = g
      BY <1>2, <1>3, <1>4, <1>5, SeqEqual
<1> QED BY <1>2, <1>6 DEF f, g

LEMMA SuffixConcat ==
  ASSUME NEW a \in Seq(Nat), NEW n \in Seq(Nat), NEW i \in 1 .. Len(a) + 1
  PROVE  Suffix(a \o n, i) = Suffix(a, i) \o n
<1> DEFINE b == a \o n
           r == Suffix(a, i)
           f == Suffix(b, i)
           g == r \o n
<1>1. b \in Seq(Nat) /\ Len(b) = Len(a) + Len(n)
      /\ \A k \in 1 .. Len(a) + Len(n) : b[k] = IF k <= Len(a) THEN a[k] ELSE n[k - Len(a)]
      BY ConcatProperties
<1>2. r \in Seq(Nat) /\ Len(r) = Len(a) + 1 - i /\ \A k \in 1 .. Len(a) + 1 - i : r[k] = a[i + k - 1]
      BY SuffixType
<1>3. i \in 1 .. Len(b) + 1
      BY <1>1
<1> HIDE DEF b, r
<1>4. f \in Seq(Nat) /\ Len(f) = Len(b) + 1 - i /\ \A k \in 1 .. Len(b) + 1 - i : f[k] = b[i + k - 1]
      BY <1>1, <1>3, SuffixType
<1>5. g \in Seq(Nat) /\ Len(g) = Len(r) + Len(n)
      /\ \A k \in 1 .. Len(r) + Len(n) : g[k] = IF k <= Len(r) THEN r[k] ELSE n[k - Len(r)]
      BY <1>2, ConcatProperties
<1> HIDE DEF f, g
<1>6. ASSUME NEW k \in 1 .. Len(f) PROVE f[k] = g[k]
  <2>1. f[k] = IF i + k - 1 <= Len(a) THEN a[i + k - 1] ELSE n[i + k - 1 - Len(a)]
    <3>1. i + k - 1 \in 1 .. Len(a) + Len(n) /\ k \in 1 .. Len(b) + 1 - i
          BY <1>1, <1>4
    <3>2. f[k] = b[i + k - 1]
          BY <1>4, <3>1
    <3> DEFINE x == i + k - 1
    <3>3. x \in 1 .. Len(a) + Len(n) /\ f[k] = b[x]
          BY <3>1, <3>2
    <3> HIDE DEF x
    <3>4. f[k] = IF x <= Len(a) THEN a[x] ELSE n[x - Len(a)]
          BY <1>1, <3>3
    <3> QED BY <3>4 DEF x
  <2>2. g[k] = IF k <= Len(r) THEN r[k] ELSE n[k - Len(r)]
        BY <1>1, <1>2, <1>4, <1>5
  <2>3. CASE k <= Len(r)
        BY <1>2, <2>1, <2>2, <2>3
  <2>4. CASE ~(k <= Len(r))
    <3>1. k - Len(r) = i + k - 1 - Len(a) /\ ~(i + k - 1 <= Len(a))
          BY <1>2, <2>4
    <3> QED BY <2>1, <2>2, <2>4, <3>1
  <2> QED BY <2>3, <2>4
<1>7. Len(f) = Len(g)
      BY <1>1, <1>2, <1>4, <1>5
<1>8. f = g
      BY <1>4, <1>5, <1>6, <1>7, SeqEqual
<1> QED BY <1>8 DEF b, r, f, g

LEMMA ConcatBegins ==
  ASSUME NEW r \in Seq(Nat), NEW n \in Seq(Nat)
  PROVE  r \o n \in Seq(Nat) /\ Begins(r \o n, r)
<1>1. r \o n \in Seq(Nat) /\ Len(r \o n) = Len(r) + Len(n)
      /\ \A k \in 1 .. Len(r) + Len(n) : (r \o n)[k] = IF k <= Len(r) THEN r[k] ELSE n[k - Len(r)]
      BY ConcatProperties
<1> QED BY <1>1 DEF Begins

\* The result for bytes that stand k places further on.
Shift(result, k) == [found |-> Moved(result.found, k), rest |-> result.rest]

LEMMA MovedType ==
  ASSUME NEW f \in Seq(Found), NEW k \in Nat
  PROVE  /\ Moved(f, k) \in Seq(Found) /\ Len(Moved(f, k)) = Len(f)
         /\ \A x \in 1 .. Len(f) : Moved(f, k)[x] = [f[x] EXCEPT !.at = k + @]
<1>1. DOMAIN f = 1 .. Len(f) /\ Len(f) \in Nat
      OBVIOUS
<1>2. \A x \in 1 .. Len(f) : [f[x] EXCEPT !.at = k + @] \in Found
  <2> TAKE x \in 1 .. Len(f)
  <2> DEFINE y == f[x]
  <2>1. y \in Found
        BY ElementOfSeq
  <2> HIDE DEF y
  <2>2. y.at \in Nat /\ y = [at |-> y.at, len |-> y.len, payload |-> y.payload]
        BY <2>1 DEF Found
  <2>3. [y EXCEPT !.at = k + @] = [at |-> k + y.at, len |-> y.len, payload |-> y.payload]
        BY <2>2
  <2>4. [y EXCEPT !.at = k + @] \in Found
        BY <2>1, <2>2, <2>3 DEF Found
  <2> QED BY <2>4 DEF y
<1>3. Moved(f, k) = [x \in 1 .. Len(f) |-> [f[x] EXCEPT !.at = k + @]]
      BY <1>1 DEF Moved
<1> QED BY <1>1, <1>2, <1>3

LEMMA WithType ==
  ASSUME NEW p \in Found, NEW res \in Result
  PROVE  /\ With(p, res) \in Result
         /\ With(p, res).found = <<p>> \o res.found /\ With(p, res).rest = res.rest
         /\ res.found \in Seq(Found) /\ res.rest \in Seq(Nat)
         /\ With(p, res) = [found |-> <<p>> \o res.found, rest |-> res.rest]
<1>1. res.found \in Seq(Found) /\ res.rest \in Seq(Nat)
      BY DEF Result
<1>2. With(p, res) = [found |-> <<p>> \o res.found, rest |-> res.rest]
  <2>1. res = [found |-> res.found, rest |-> res.rest]
        BY DEF Result
  <2> DEFINE x == <<p>> \o res.found
  <2> HIDE DEF x
  <2>2. [res EXCEPT !.found = x] = [found |-> x, rest |-> res.rest]
        BY <2>1
  <2> QED BY <2>2 DEF With, x
<1>3. <<p>> \o res.found \in Seq(Found)
      BY <1>1
<1> QED BY <1>1, <1>2, <1>3 DEF Result

LEMMA MovedPair ==
  ASSUME NEW f \in Seq(Found), NEW g \in Seq(Found), NEW k \in Nat
  PROVE  Moved(f \o g, k) = Moved(f, k) \o Moved(g, k)
<1> DEFINE h == f \o g
           u == Moved(h, k)
           v == Moved(f, k)
           w == Moved(g, k)
           z == v \o w
<1>1. h \in Seq(Found) /\ Len(h) = Len(f) + Len(g)
      /\ \A x \in 1 .. Len(f) + Len(g) : h[x] = IF x <= Len(f) THEN f[x] ELSE g[x - Len(f)]
      BY ConcatProperties
<1>2. v \in Seq(Found) /\ Len(v) = Len(f) /\ \A x \in 1 .. Len(f) : v[x] = [f[x] EXCEPT !.at = k + @]
      BY MovedType
<1>3. w \in Seq(Found) /\ Len(w) = Len(g) /\ \A x \in 1 .. Len(g) : w[x] = [g[x] EXCEPT !.at = k + @]
      BY MovedType
<1> HIDE DEF h
<1>4. u \in Seq(Found) /\ Len(u) = Len(h) /\ \A x \in 1 .. Len(h) : u[x] = [h[x] EXCEPT !.at = k + @]
      BY <1>1, MovedType
<1> HIDE DEF u, v, w
<1>5. z \in Seq(Found) /\ Len(z) = Len(v) + Len(w)
      /\ \A x \in 1 .. Len(v) + Len(w) : z[x] = IF x <= Len(v) THEN v[x] ELSE w[x - Len(v)]
  <2>1. v \in Seq(Found) /\ w \in Seq(Found)
        BY <1>2, <1>3
  <2> QED BY <2>1, ConcatProperties
<1> HIDE DEF z
<1>6. ASSUME NEW x \in 1 .. Len(u) PROVE u[x] = z[x]
  <2>1. x \in 1 .. Len(h) /\ x \in 1 .. Len(f) + Len(g) /\ x \in 1 .. Len(v) + Len(w)
        BY <1>1, <1>2, <1>3, <1>4
  <2>2. u[x] = [h[x] EXCEPT !.at = k + @]
        BY <1>4, <2>1
  <2>3. CASE x <= Len(f)
    <3>1. h[x] = f[x] /\ z[x] = v[x] /\ x \in 1 .. Len(f)
          BY <1>1, <1>2, <1>5, <2>1, <2>3
    <3>2. v[x] = [f[x] EXCEPT !.at = k + @]
          BY <1>2, <3>1
    <3> QED BY <2>2, <3>1, <3>2
  <2>4. CASE ~(x <= Len(f))
    <3> DEFINE y == x - Len(f)
    <3>1. h[x] = g[y] /\ z[x] = w[y] /\ y \in 1 .. Len(g)
          BY <1>1, <1>2, <1>5, <2>1, <2>4
    <3> HIDE DEF y
    <3>2. w[y] = [g[y] EXCEPT !.at = k + @]
          BY <1>3, <3>1
    <3> QED BY <2>2, <3>1, <3>2
  <2> QED BY <2>3, <2>4
<1>7. Len(u) = Len(z)
      BY <1>1, <1>2, <1>3, <1>4, <1>5
<1>8. u = z
      BY <1>4, <1>5, <1>6, <1>7, SeqEqual
<1> QED BY <1>8 DEF h, u, v, w, z

LEMMA ShiftType ==
  ASSUME NEW res \in Result, NEW k \in Nat
  PROVE  /\ Shift(res, k) \in Result
         /\ Shift(res, k).found = Moved(res.found, k) /\ Shift(res, k).rest = res.rest
<1>1. res.found \in Seq(Found) /\ res.rest \in Seq(Nat)
      BY DEF Result
<1>2. Moved(res.found, k) \in Seq(Found)
      BY <1>1, MovedType
<1> QED BY <1>1, <1>2 DEF Shift, Result

LEMMA MovedNothing == \A k : Moved(<<>>, k) = <<>>
BY DEF Moved

LEMMA MovedOne ==
  ASSUME NEW p \in Found, NEW k \in Nat
  PROVE  Moved(<<p>>, k) = <<[p EXCEPT !.at = k + @]>>
<1> DEFINE f == <<p>>
           q == [p EXCEPT !.at = k + @]
           g == Moved(f, k)
<1>1. f \in Seq(Found) /\ Len(f) = 1 /\ f[1] = p
      OBVIOUS
<1> HIDE DEF f
<1>2. g \in Seq(Found) /\ Len(g) = 1 /\ \A x \in 1 .. Len(f) : g[x] = [f[x] EXCEPT !.at = k + @]
      BY <1>1, MovedType
<1> HIDE DEF g
<1>3. g[1] = q
  <2>1. 1 \in 1 .. Len(f)
        BY <1>1
  <2>2. g[1] = [f[1] EXCEPT !.at = k + @]
        BY <1>2, <2>1
  <2> QED BY <1>1, <2>2
<1> HIDE DEF q
<1>4. g = <<g[1]>>
      BY <1>2
<1> QED BY <1>3, <1>4 DEF f, g, q

LEMMA ShiftWith ==
  ASSUME NEW r \in Seq(Nat), Kind(r) = "packet", NEW j \in Nat, NEW k \in Nat, NEW res \in Result
  PROVE  Shift(With(Packet(r, j), res), k) = With(Packet(r, k + j), Shift(res, k))
<1> DEFINE p == Packet(r, j)
           q == Packet(r, k + j)
           w == With(p, res)
           z == Shift(res, k)
<1>1. p \in Found /\ q \in Found /\ q = [p EXCEPT !.at = k + @]
  <2>1. k + j \in Nat
        OBVIOUS
  <2>2. q = [p EXCEPT !.at = k + @]
        BY DEF Packet
  <2> QED BY <2>1, <2>2, PacketType
<1> HIDE DEF p, q
<1>2. w = [found |-> <<p>> \o res.found, rest |-> res.rest] /\ res.found \in Seq(Found)
      BY <1>1, WithType
<1>3. Moved(<<p>> \o res.found, k) = <<q>> \o Moved(res.found, k)
  <2>1. <<p>> \in Seq(Found)
        BY <1>1
  <2>2. Moved(<<p>> \o res.found, k) = Moved(<<p>>, k) \o Moved(res.found, k)
        BY <1>2, <2>1, MovedPair
  <2> QED BY <1>1, <2>2, MovedOne
<1>4. z \in Result /\ z.found = Moved(res.found, k) /\ z.rest = res.rest
      BY ShiftType
<1> HIDE DEF z
<1>5. With(q, z) = [found |-> <<q>> \o z.found, rest |-> z.rest]
      BY <1>1, <1>4, WithType
<1> HIDE DEF w
<1>6. Shift(w, k) = [found |-> Moved(w.found, k), rest |-> w.rest]
      BY DEF Shift
<1>7. w.found = <<p>> \o res.found /\ w.rest = res.rest
      BY <1>2
<1>8. Shift(w, k) = With(q, z)
      BY <1>3, <1>4, <1>5, <1>6, <1>7
<1> QED BY <1>8, Zenon DEF p, q, w, z

\* A search from a place on finds what the search of the bytes from there finds.
LEMMA SearchOfSuffix ==
  ASSUME NEW b \in Seq(Nat), NEW i \in 1 .. Len(b) + 1, NEW c, c = Suffix(b, i),
         NEW s, s = SearchFrom(b), NEW u, u = SearchFrom(c)
  PROVE  \A j \in 1 .. Len(c) + 1 : s[i - 1 + j] = Shift(u[j], i - 1)
<1> DEFINE N == Len(c) + 1
           k == i - 1
           T == {j \in 1 .. N : s[k + j] = Shift(u[j], k)}
<1>1. c \in Seq(Nat) /\ N \in Nat /\ k \in Nat
      BY SuffixType
<1>2. ASSUME NEW j \in 1 .. N, \A x \in j + 1 .. N : x \in T
      PROVE  j \in T
  <2> DEFINE m == k + j
  <2>1. Suffix(b, m) = Suffix(c, j) /\ m \in 1 .. Len(b) + 1
        BY SuffixSuffix
  <2> PICK r : r = Suffix(c, j)
      OBVIOUS
  <2>2. /\ Kind(r) = "end" => s[m] = [found |-> <<>>, rest |-> <<>>]
        /\ Kind(r) = "skip" => s[m] = s[m + 1]
        /\ Kind(r) = "wait" => s[m] = [found |-> <<>>, rest |-> r]
        /\ Kind(r) = "packet" => s[m] = With(Packet(r, m), s[m + FrameSize(r)])
    <3> HIDE DEF m
    <3>1. r = Suffix(b, m)
          BY <2>1
    <3>2. Finds(s, m, r)
          BY <2>1, <3>1, SearchCases
    <3> QED BY <3>2 DEF Finds
  <2>3. /\ Kind(r) = "end" => u[j] = [found |-> <<>>, rest |-> <<>>]
        /\ Kind(r) = "skip" => u[j] = u[j + 1]
        /\ Kind(r) = "wait" => u[j] = [found |-> <<>>, rest |-> r]
        /\ Kind(r) = "packet" => u[j] = With(Packet(r, j), u[j + FrameSize(r)])
        BY <1>1, SearchCases DEF Finds
  <2>4. /\ Kind(r) = "skip" => j + 1 \in j + 1 .. N
        /\ Kind(r) = "packet" => j + FrameSize(r) \in j + 1 .. N
        /\ r \in Seq(Nat)
        BY <1>1, StepsUp
  <2>5. s[m] = Shift(u[j], k)
    <3>1. CASE Kind(r) = "end"
          BY <2>2, <2>3, <3>1, MovedNothing DEF Shift
    <3>2. CASE Kind(r) = "wait"
          BY <2>2, <2>3, <3>2, MovedNothing DEF Shift
    <3>3. CASE Kind(r) = "skip"
      <4>1. s[k + (j + 1)] = Shift(u[j + 1], k)
            BY <1>2, <2>4, <3>3
      <4>2. m + 1 = k + (j + 1)
            BY <1>1
      <4> QED BY <2>2, <2>3, <3>3, <4>1, <4>2
    <3>4. CASE Kind(r) = "packet"
      <4> DEFINE x == j + FrameSize(r)
      <4>1. s[k + x] = Shift(u[x], k) /\ x \in 1 .. N
            BY <1>2, <2>4, <3>4
      <4>2. FrameSize(r) \in Nat
            BY <2>4, <3>4, PacketFits DEF MinFrame
      <4>3. m + FrameSize(r) = k + x
            BY <1>1, <4>2
      <4>4. u[x] \in Result
            BY <1>1, <4>1, SearchFromStep
      <4> HIDE DEF x
      <4>5. Shift(With(Packet(r, j), u[x]), k) = With(Packet(r, k + j), Shift(u[x], k))
        <5>1. j \in Nat
              BY <1>1
        <5> HIDE DEF k
        <5> QED BY <1>1, <2>4, <3>4, <4>4, <5>1, ShiftWith
      <4>6. u[j] = With(Packet(r, j), u[x])
            BY <2>3, <3>4 DEF x
      <4>7. s[m] = With(Packet(r, k + j), s[k + x])
            BY <2>2, <3>4, <4>3
      <4> QED BY <4>1, <4>5, <4>6, <4>7
    <3> QED BY <3>1, <3>2, <3>3, <3>4, KindType
  <2> QED BY <2>5
<1> HIDE DEF T, N
<1>3. \A j \in 1 .. N : j \in T
      BY <1>1, <1>2, DownFrom
<1> QED BY <1>3 DEF T, N

LEMMA SearchFromPlace ==
  ASSUME NEW b \in Seq(Nat), NEW i \in 1 .. Len(b) + 1
  PROVE  SearchFrom(b)[i] = Shift(Search(Suffix(b, i)), i - 1)
<1> PICK c : c = Suffix(b, i)
    OBVIOUS
<1> PICK s, u : s = SearchFrom(b) /\ u = SearchFrom(c)
    OBVIOUS
<1>1. \A j \in 1 .. Len(c) + 1 : s[i - 1 + j] = Shift(u[j], i - 1)
      BY SearchOfSuffix
<1>2. 1 \in 1 .. Len(c) + 1 /\ i - 1 + 1 = i
      BY SuffixType
<1>3. s[i] = Shift(u[1], i - 1)
      BY <1>1, <1>2
<1> QED BY <1>3 DEF Search

\* What stays in the buffer lies behind the place and may be the start of one
\* frame.
LEMMA RestWaits ==
  ASSUME NEW b \in Seq(Nat), NEW s, s = SearchFrom(b)
  PROVE  \A i \in 1 .. Len(b) + 1 :
           /\ s[i] \in Result /\ Len(s[i].rest) <= Len(b) + 1 - i
           /\ s[i].rest = <<>> \/ Kind(s[i].rest) = "wait"
<1> DEFINE N == Len(b) + 1
           T == {i \in 1 .. N : /\ Len(s[i].rest) <= Len(b) + 1 - i
                                /\ s[i].rest = <<>> \/ Kind(s[i].rest) = "wait"}
<1>1. N \in Nat
      OBVIOUS
<1>2. ASSUME NEW i \in 1 .. N, \A j \in i + 1 .. N : j \in T
      PROVE  i \in T
  <2> PICK r : r = Suffix(b, i)
      OBVIOUS
  <2>1. /\ s[i] \in Result
        /\ Kind(r) = "end" => s[i] = [found |-> <<>>, rest |-> <<>>]
        /\ Kind(r) = "skip" => s[i] = s[i + 1]
        /\ Kind(r) = "wait" => s[i] = [found |-> <<>>, rest |-> r]
        /\ Kind(r) = "packet" => s[i] = With(Packet(r, i), s[i + FrameSize(r)])
        BY SearchCases DEF Finds
  <2>2. /\ Kind(r) = "skip" => i + 1 \in i + 1 .. N
        /\ Kind(r) = "packet" => i + FrameSize(r) \in i + 1 .. N
        /\ r \in Seq(Nat) /\ Len(r) = Len(b) + 1 - i
        BY StepsUp
  <2>3. ASSUME NEW x \in i + 1 .. N, s[i].rest = s[x].rest PROVE i \in T
    <3>1. s[x] \in Result /\ x \in T
          BY <1>2, <2>3, SearchFromStep
    <3>2. Len(s[x].rest) \in Nat
          BY <3>1 DEF Result
    <3> QED BY <2>3, <3>1, <3>2, SMTT(30)
  <2>4. CASE Kind(r) = "end"
        BY <2>1, <2>4
  <2>5. CASE Kind(r) = "wait"
        BY <2>1, <2>2, <2>5
  <2>6. CASE Kind(r) = "skip"
        BY <2>1, <2>2, <2>3, <2>6
  <2>7. CASE Kind(r) = "packet"
    <3> DEFINE x == i + FrameSize(r)
               p == Packet(r, i)
    <3>1. p \in Found
          BY <2>2, <2>7, PacketType
    <3>2. x \in i + 1 .. N /\ s[i] = With(p, s[x])
          BY <2>1, <2>2, <2>7
    <3> HIDE DEF x, p
    <3>3. s[x] \in Result
          BY <3>2, SearchFromStep
    <3>4. s[i].rest = s[x].rest
      <4> PICK y : y = s[x]
          OBVIOUS
      <4>1. y \in Result /\ s[i] = With(p, y)
            BY <3>2, <3>3
      <4>2. With(p, y).rest = y.rest
            BY <3>1, <4>1, WithType
      <4> QED BY <4>1, <4>2
    <3> QED BY <2>3, <3>2, <3>4
  <2> HIDE DEF T
  <2> QED BY <2>4, <2>5, <2>6, <2>7, KindType
<1> HIDE DEF T
<1>3. \A i \in 1 .. N : i \in T
  <2> HIDE DEF N
  <2> QED BY <1>1, <1>2, DownFrom
<1> QED BY <1>3, SearchFromStep DEF T

\* What one search found and what another found k places further on.
Joined(res, more, k) == [found |-> res.found \o Moved(more.found, k), rest |-> more.rest]

LEMMA ConcatFound == \A x, y, z \in Seq(Found) : (x \o y) \o z = x \o (y \o z)
BY ConcatAssociative

LEMMA JoinedWith ==
  ASSUME NEW p \in Found, NEW res \in Result, NEW more \in Result, NEW k \in Nat
  PROVE  Joined(With(p, res), more, k) = With(p, Joined(res, more, k))
<1> DEFINE m == Moved(more.found, k)
           w == With(p, res)
           j == Joined(res, more, k)
<1>1. more.found \in Seq(Found) /\ more.rest \in Seq(Nat)
      BY DEF Result
<1>2. m \in Seq(Found)
      BY <1>1, MovedType
<1>3. w.found = <<p>> \o res.found /\ res.found \in Seq(Found)
      BY WithType
<1> HIDE DEF m, w
<1>4. Joined(w, more, k) = [found |-> w.found \o m, rest |-> more.rest]
      BY DEF Joined, m
<1>5. j = [found |-> res.found \o m, rest |-> more.rest]
      BY DEF Joined, m
<1> HIDE DEF j
<1>6. j \in Result /\ j.found = res.found \o m /\ j.rest = more.rest
  <2>1. res.found \o m \in Seq(Found)
        BY <1>2, <1>3
  <2> QED BY <1>1, <1>5, <2>1 DEF Result
<1>7. With(p, j) = [found |-> <<p>> \o j.found, rest |-> j.rest]
      BY <1>6, WithType
<1>8. (<<p>> \o res.found) \o m = <<p>> \o (res.found \o m)
  <2> PICK o, f : o = <<p>> /\ f = res.found
      OBVIOUS
  <2>1. o \in Seq(Found) /\ f \in Seq(Found)
        BY <1>3
  <2>2. (o \o f) \o m = o \o (f \o m)
        BY <1>2, <2>1, ConcatFound, ZenonT(30)
  <2> QED BY <2>2
<1>9. Joined(w, more, k) = With(p, j)
      BY <1>3, <1>4, <1>6, <1>7, <1>8
<1> QED BY <1>9, Zenon DEF w, j

GoesOn(s, t, a, n) ==
  \A i \in 1 .. Len(a) + 1 :
    t[i] = Joined(s[i], Search(s[i].rest \o n), Len(a) - Len(s[i].rest))

\* A search of more bytes finds what the search of the first ones found, and
\* then what a search of the bytes they left and the new ones finds.
LEMMA SearchGoesOn ==
  ASSUME NEW a \in Seq(Nat), NEW n \in Seq(Nat)
  PROVE  GoesOn(SearchFrom(a), SearchFrom(a \o n), a, n)
<1> PICK s, t : s = SearchFrom(a) /\ t = SearchFrom(a \o n)
    OBVIOUS
<1> DEFINE N == Len(a) + 1
           b == a \o n
           Whole(x) == Joined(s[x], Search(s[x].rest \o n), Len(a) - Len(s[x].rest))
           T == {i \in 1 .. N : t[i] = Whole(i)}
<1>1. b \in Seq(Nat) /\ Len(b) = Len(a) + Len(n) /\ N \in Nat /\ Len(n) \in Nat
      BY ConcatProperties
<1> HIDE DEF b
<1>2. ASSUME NEW i \in 1 .. N, \A j \in i + 1 .. N : j \in T
      PROVE  t[i] = Whole(i)
  <2> PICK r : r = Suffix(a, i)
      OBVIOUS
  <2> PICK c : c = Suffix(b, i)
      OBVIOUS
  <2>1. /\ Kind(r) = "end" => s[i] = [found |-> <<>>, rest |-> <<>>]
        /\ Kind(r) = "skip" => s[i] = s[i + 1]
        /\ Kind(r) = "wait" => s[i] = [found |-> <<>>, rest |-> r]
        /\ Kind(r) = "packet" => s[i] = With(Packet(r, i), s[i + FrameSize(r)])
        BY SearchCases DEF Finds
  <2>2. /\ Kind(r) = "skip" => i + 1 \in i + 1 .. N
        /\ Kind(r) = "packet" => i + FrameSize(r) \in i + 1 .. N
        /\ r \in Seq(Nat) /\ Len(r) = Len(a) + 1 - i
        BY StepsUp
  <2>3. i \in 1 .. Len(b) + 1
        BY <1>1
  <2>4. /\ Kind(c) = "skip" => t[i] = t[i + 1]
        /\ Kind(c) = "packet" => t[i] = With(Packet(c, i), t[i + FrameSize(c)])
    <3>1. t = SearchFrom(b)
          BY DEF b
    <3>2. Finds(t, i, c)
          BY <1>1, <2>3, <3>1, SearchCases
    <3> QED BY <3>2 DEF Finds
  <2>5. c = r \o n
        BY SuffixConcat DEF b
  <2>6. c \in Seq(Nat) /\ Begins(c, r)
        BY <2>2, <2>5, ConcatBegins
  <2>7. CASE Kind(r) \in {"end", "wait"}
    <3>1. s[i] = [found |-> <<>>, rest |-> r]
      <4>1. Kind(r) = "end" => r = <<>>
            BY DEF Kind
      <4> QED BY <2>1, <2>7, <4>1
    <3> PICK u : u = SearchFrom(c)
        OBVIOUS
    <3>2. t[i] = Shift(u[1], i - 1)
      <4>1. t = SearchFrom(b)
            BY DEF b
      <4>2. t[i] = Shift(Search(c), i - 1)
            BY <1>1, <2>3, <4>1, SearchFromPlace
      <4> QED BY <4>2 DEF Search
    <3> DEFINE v == u[1]
    <3>3. v = Search(r \o n)
          BY <2>5 DEF Search
    <3>4. v \in Result
      <4>1. 1 \in 1 .. Len(c) + 1
            BY <2>6
      <4> QED BY <2>6, <4>1, SearchFromStep
    <3> HIDE DEF v
    <3>5. Len(a) - Len(r) = i - 1 /\ i - 1 \in Nat
          BY <2>2
    <3>6. Whole(i) = Joined([found |-> <<>>, rest |-> r], v, i - 1)
          BY <3>1, <3>3, <3>5
    <3>7. Moved(v.found, i - 1) \in Seq(Found)
          BY <3>4, <3>5, MovedType DEF Result
    <3>8. <<>> \o Moved(v.found, i - 1) = Moved(v.found, i - 1)
          BY <3>7, ConcatEmptySeq
    <3>9. Whole(i) = Shift(v, i - 1)
          BY <3>6, <3>8 DEF Joined, Shift
    <3> QED BY <3>2, <3>9 DEF v
  <2>8. CASE Kind(r) = "skip"
    <3>1. Kind(c) = "skip"
          BY <2>2, <2>6, <2>8, SameKind
    <3>2. t[i + 1] = Whole(i + 1)
          BY <1>2, <2>2, <2>8
    <3> QED BY <2>1, <2>4, <2>8, <3>1, <3>2
  <2>9. CASE Kind(r) = "packet"
    <3> DEFINE x == i + FrameSize(r)
               p == Packet(r, i)
               more == Search(s[x].rest \o n)
               k == Len(a) - Len(s[x].rest)
    <3>1. Kind(c) = "packet" /\ FrameSize(c) = FrameSize(r) /\ Payload(c) = Payload(r)
          BY <2>2, <2>6, <2>9, SameKind
    <3>2. Packet(c, i) = p /\ t[i] = With(p, t[x])
          BY <2>4, <3>1 DEF Packet
    <3>3. p \in Found /\ x \in i + 1 .. N /\ s[i] = With(p, s[x])
          BY <2>1, <2>2, <2>9, PacketType
    <3>4. t[x] = Joined(s[x], more, k)
          BY <1>2, <3>3
    <3> HIDE DEF p, x
    <3>5. s[x] \in Result /\ Len(s[x].rest) <= Len(a) + 1 - x /\ s[x].rest \in Seq(Nat)
      <4>1. x \in 1 .. Len(a) + 1
            BY <3>3
      <4>2. s[x] \in Result /\ Len(s[x].rest) <= Len(a) + 1 - x
            BY <4>1, RestWaits
      <4>3. s[x].rest \in Seq(Nat)
            BY <4>2 DEF Result
      <4> QED BY <4>2, <4>3
    <3>6. k \in Nat
          BY <3>3, <3>5
    <3>7. more \in Result
      <4> PICK d : d = s[x].rest \o n
          OBVIOUS
      <4>1. d \in Seq(Nat)
            BY <3>5
      <4>2. 1 \in 1 .. Len(d) + 1
            BY <4>1
      <4> QED BY <4>1, <4>2, SearchFromStep DEF Search
    <3>8. s[i].rest = s[x].rest
      <4> PICK y : y = s[x]
          OBVIOUS
      <4>1. y \in Result /\ s[i] = With(p, y)
            BY <3>3, <3>5
      <4>2. With(p, y).rest = y.rest
            BY <3>3, <4>1, WithType
      <4> QED BY <4>1, <4>2
    <3> HIDE DEF more, k
    <3>9. t[i] = Joined(s[i], more, k)
          BY <3>2, <3>3, <3>4, <3>5, <3>6, <3>7, JoinedWith
    <3> QED BY <3>8, <3>9 DEF more, k
  <2> QED BY <2>7, <2>8, <2>9, KindType
<1>3. \A i \in 1 .. N : i \in T
  <2>1. \A i \in 1 .. N : (\A j \in i + 1 .. N : j \in T) => i \in T
        BY <1>2
  <2> HIDE DEF T, N
  <2> QED BY <1>1, <2>1, DownFrom
<1> QED BY <1>3 DEF GoesOn

----------------------------------------------------------------------------
(* The stream.  *)

\* What Before is, piece by piece.
Laid ==
  /\ Before[0] = <<>>
  /\ \A k \in 0 .. Len(pieces) : Before[k] \in Seq(Nat)
  /\ \A k \in 1 .. Len(pieces) : Before[k] = Before[k - 1] \o pieces[k].bytes

LEMMA StreamLaid ==
  ASSUME pieces \in Seq(Piece)
  PROVE  Laid
<1> DEFINE N == Len(pieces)
           S == Seq(Nat)
           G == [xk \in S \X Nat |-> IF xk[2] \in 1 .. N THEN xk[1] \o pieces[xk[2]].bytes ELSE xk[1]]
           B == Before
<1>1. N \in Nat /\ <<>> \in S
      OBVIOUS
<1>2. \A x \in S, k \in 1 .. N : x \o pieces[k].bytes \in S
  <2> TAKE x \in S, k \in 1 .. N
  <2>1. pieces[k] \in Piece
        BY ElementOfSeq
  <2>2. pieces[k].bytes \in Seq(Nat)
        BY <2>1, ReceiverAssumption
  <2> QED BY <2>2, ConcatProperties
<1>3. \E f : f = [k \in 0 .. N |-> IF k = 0 THEN <<>> ELSE f[k - 1] \o pieces[k].bytes]
             /\ f \in [0 .. N -> S]
  <2> HIDE DEF S, N
  <2>1. G \in [S \X Nat -> S]
        BY <1>2
  <2>2. \A x \in S, k \in 1 .. N : G[<<x, k>>] = x \o pieces[k].bytes
    <3>1. \A k \in 1 .. N : k \in Nat
          BY <1>1
    <3> QED BY <3>1
  <2> HIDE DEF G
  <2>3. PICK f : Climbs(f, <<>>, G, S, N)
        BY <1>1, <2>1, Upward
  <2>4. f \in [0 .. N -> S] /\ f[0] = <<>> /\ \A k \in 1 .. N : f[k] = G[<<f[k - 1], k>>]
        BY <2>3 DEF Climbs
  <2>5. \A k \in 1 .. N : f[k - 1] \in S /\ f[k] = f[k - 1] \o pieces[k].bytes
    <3> TAKE k \in 1 .. N
    <3>1. k - 1 \in 0 .. N
          BY <1>1
    <3> QED BY <2>2, <2>4, <3>1
  <2>6. \A k \in 0 .. N : k # 0 => k \in 1 .. N
        BY <1>1
  <2>7. f = [k \in 0 .. N |-> IF k = 0 THEN <<>> ELSE f[k - 1] \o pieces[k].bytes]
        BY <2>4, <2>5, <2>6
  <2> QED BY <2>4, <2>7
<1>4. B = [k \in 0 .. N |-> IF k = 0 THEN <<>> ELSE B[k - 1] \o pieces[k].bytes]
      BY <1>3 DEF Before
<1>5. B[0] = <<>> /\ \A k \in 1 .. N : B[k] = B[k - 1] \o pieces[k].bytes
  <2> HIDE DEF B
  <2>1. 0 \in 0 .. N /\ \A k \in 1 .. N : k \in 0 .. N /\ k # 0
        BY <1>1
  <2> QED BY <1>4, <2>1
<1> DEFINE T == {k \in 0 .. N : B[k] \in S}
<1>6. 0 \in T /\ \A k \in 0 .. N - 1 : k \in T => k + 1 \in T
  <2> HIDE DEF B, S, N
  <2>1. 0 \in T
    <3>1. 0 \in 0 .. N
          BY <1>1
    <3> QED BY <1>1, <1>5, <3>1
  <2>2. ASSUME NEW k \in 0 .. N - 1, k \in T PROVE k + 1 \in T
    <3>1. k + 1 \in 1 .. N /\ k + 1 \in 0 .. N /\ (k + 1) - 1 = k
          BY <1>1
    <3>2. B[k + 1] = B[k] \o pieces[k + 1].bytes
          BY <1>5, <3>1
    <3> QED BY <1>2, <2>2, <3>1, <3>2
  <2> QED BY <2>1, <2>2
<1>7. \A k \in 0 .. N : k \in T
  <2> HIDE DEF T, N
  <2> QED BY <1>1, <1>6, UpTo
<1> QED BY <1>5, <1>7 DEF Laid

LEMMA StreamType ==
  ASSUME pieces \in Seq(Piece)
  PROVE  Stream \in Seq(Nat) /\ Len(Stream) \in Nat
<1>1. Len(pieces) \in 0 .. Len(pieces)
      OBVIOUS
<1>2. Stream \in Seq(Nat)
      BY <1>1, StreamLaid DEF Laid, Stream
<1> QED BY <1>2

----------------------------------------------------------------------------
(* The thread.  *)

Types ==
  /\ pieces \in Seq(Piece)
  /\ buffer \in Seq(Nat) /\ base \in Nat
  /\ handled \in Seq(Found)
  /\ Consumed <= Len(Stream)

\* What is inductive: everything else is a property of one search.
Inv == Types /\ ChunkIndependent

LEMMA SearchType ==
  ASSUME NEW b \in Seq(Nat)
  PROVE  /\ Search(b) \in Result /\ Len(Search(b).rest) <= Len(b)
         /\ Search(b).found \in Seq(Found) /\ Search(b).rest \in Seq(Nat)
         /\ Search(b).rest = <<>> \/ Kind(Search(b).rest) = "wait"
<1> PICK s : s = SearchFrom(b)
    OBVIOUS
<1>1. 1 \in 1 .. Len(b) + 1 /\ Len(b) + 1 - 1 = Len(b)
      OBVIOUS
<1>2. /\ s[1] \in Result /\ Len(s[1].rest) <= Len(b) + 1 - 1
      /\ s[1].rest = <<>> \/ Kind(s[1].rest) = "wait"
      BY <1>1, RestWaits
<1> DEFINE res == Search(b)
<1>3. res = s[1]
      BY DEF Search
<1> HIDE DEF res
<1>4. res.found \in Seq(Found) /\ res.rest \in Seq(Nat)
      BY <1>2, <1>3 DEF Result
<1> QED BY <1>1, <1>2, <1>3, <1>4 DEF res

LEMMA SearchNothing == Search(<<>>) = [found |-> <<>>, rest |-> <<>>]
<1> PICK e : e = <<>>
    OBVIOUS
<1>1. e \in Seq(Nat) /\ Len(e) = 0 /\ 1 \in 1 .. Len(e) + 1
      OBVIOUS
<1>2. Suffix(e, 1) = <<>>
      BY <1>1 DEF Suffix
<1>3. Kind(Suffix(e, 1)) = "end"
      BY <1>2 DEF Kind
<1>4. Finds(SearchFrom(e), 1, Suffix(e, 1))
      BY <1>1, SearchCases
<1> QED BY <1>3, <1>4 DEF Finds, Search

LEMMA SearchTwice ==
  ASSUME NEW a \in Seq(Nat), NEW n \in Seq(Nat)
  PROVE  Search(a \o n) =
           Joined(Search(a), Search(Search(a).rest \o n), Len(a) - Len(Search(a).rest))
<1> PICK s, t : s = SearchFrom(a) /\ t = SearchFrom(a \o n)
    OBVIOUS
<1>1. 1 \in 1 .. Len(a) + 1
      OBVIOUS
<1>2. \A i \in 1 .. Len(a) + 1 :
        t[i] = Joined(s[i], Search(s[i].rest \o n), Len(a) - Len(s[i].rest))
      BY SearchGoesOn DEF GoesOn
<1>3. t[1] = Joined(s[1], Search(s[1].rest \o n), Len(a) - Len(s[1].rest))
      BY <1>1, <1>2
<1>4. t[1] = Search(a \o n) /\ s[1] = Search(a)
      BY DEF Search
<1> QED BY <1>3, <1>4

LEMMA InitInv == Init => Inv
<1> SUFFICES ASSUME Init PROVE Inv
    OBVIOUS
<1>1. pieces \in Seq(Piece)
      BY ReceiverAssumption DEF Init, SeqOf
<1>2. buffer = <<>> /\ base = 0 /\ handled = <<>>
      BY DEF Init
<1>3. Consumed = 0
      BY <1>2 DEF Consumed
<1>4. Types
      BY <1>1, <1>2, <1>3, StreamType DEF Types
<1>5. SubSeq(Stream, 1, Consumed) = <<>>
      BY <1>1, <1>3, StreamType
<1>6. ChunkIndependent
  <2>1. Search(SubSeq(Stream, 1, Consumed)) = [found |-> <<>>, rest |-> <<>>]
        BY <1>5, SearchNothing, Zenon
  <2> QED BY <1>2, <2>1 DEF ChunkIndependent
<1> QED BY <1>4, <1>6 DEF Inv

\* A turn that reads n bytes.
LEMMA Turn ==
  ASSUME Inv, NEW n \in Nat, RxTurn(n)
  PROVE  Inv'
<1> PICK z : z = Stream
    OBVIOUS
<1> DEFINE c == Consumed
           d == SubSeq(z, c + 1, c + n)
           b == buffer \o d
           result == Search(b)
           a == SubSeq(z, 1, c)
           whole == Search(a)
<1>1. /\ pieces \in Seq(Piece) /\ buffer \in Seq(Nat) /\ base \in Nat
      /\ handled \in Seq(Found) /\ c <= Len(z) /\ c = base + Len(buffer)
      /\ z \in Seq(Nat) /\ Len(z) \in Nat
      BY StreamType DEF Inv, Types, Consumed
<1>2. n <= Len(z) - c /\ handled' = handled \o Moved(result.found, base)
      /\ buffer' = result.rest /\ base' = base + Len(b) - Len(result.rest) /\ pieces' = pieces
      BY DEF RxTurn
<1>3. Stream' = z
      BY <1>2 DEF Stream, Before
<1>4. handled = whole.found /\ buffer = whole.rest
      BY DEF Inv, ChunkIndependent
<1>5. c \in Nat /\ c + n \in Nat /\ c + n <= Len(z)
      BY <1>1, <1>2
<1> HIDE DEF c
<1>6. a \in Seq(Nat) /\ Len(a) = c /\ d \in Seq(Nat) /\ Len(d) = n /\ a \o d = SubSeq(z, 1, c + n)
  <2>1. \A k \in 1 .. c + n : z[k] \in Nat
        BY <1>1, <1>5
  <2>2. a \in Seq(Nat) /\ Len(a) = c /\ \A k \in 1 .. c : a[k] = z[k]
        BY <1>1, <1>5
  <2>3. d \in Seq(Nat) /\ Len(d) = n /\ \A k \in 1 .. n : d[k] = z[c + k]
    <3>1. \A k \in c + 1 .. c + n : z[k] \in Nat
          BY <1>5, <2>1
    <3> QED BY <1>1, <1>5, <3>1, SubSeqProperties
  <2> DEFINE f == a \o d
             g == SubSeq(z, 1, c + n)
  <2>4. g \in Seq(Nat) /\ Len(g) = c + n /\ \A k \in 1 .. c + n : g[k] = z[k]
        BY <1>1, <1>5
  <2> HIDE DEF a, d, g
  <2>5. f \in Seq(Nat) /\ Len(f) = c + n
        /\ \A k \in 1 .. c + n : f[k] = IF k <= c THEN a[k] ELSE d[k - c]
    <3>1. f \in Seq(Nat) /\ Len(f) = Len(a) + Len(d)
          /\ \A k \in 1 .. Len(a) + Len(d) : f[k] = IF k <= Len(a) THEN a[k] ELSE d[k - Len(a)]
          BY <2>2, <2>3, ConcatProperties, ZenonT(30)
    <3>2. Len(a) = c /\ Len(d) = n
          BY <2>2, <2>3
    <3> HIDE DEF f
    <3> QED BY <3>1, <3>2
  <2> HIDE DEF f
  <2>6. ASSUME NEW k \in 1 .. c + n PROVE f[k] = g[k]
    <3>1. CASE k <= c
      <4>1. k \in 1 .. c
            BY <1>5, <3>1
      <4> QED BY <2>2, <2>4, <2>5, <3>1, <4>1
    <3>2. CASE ~(k <= c)
      <4>1. k - c \in 1 .. n /\ c + (k - c) = k
            BY <1>5, <3>2
      <4>2. d[k - c] = z[k]
            BY <2>3, <4>1
      <4> QED BY <2>4, <2>5, <3>2, <4>2
    <3> QED BY <3>1, <3>2
  <2>7. f = g
        BY <2>4, <2>5, <2>6, SeqEqual
  <2> QED BY <2>2, <2>3, <2>7 DEF f, g
<1> HIDE DEF a, d
<1>7. b \in Seq(Nat) /\ Len(b) = Len(buffer) + n /\ Len(b) \in Nat
  <2>1. b \in Seq(Nat) /\ Len(b) = Len(buffer) + Len(d)
    <3>1. buffer \in Seq(Nat) /\ d \in Seq(Nat)
          BY <1>1, <1>6
    <3> QED BY <3>1, ConcatProperties
  <2> HIDE DEF b
  <2> QED BY <1>1, <1>6, <2>1
<1> HIDE DEF b
<1>8. result \in Result /\ Len(result.rest) <= Len(b)
      /\ result.found \in Seq(Found) /\ result.rest \in Seq(Nat)
      BY <1>7, SearchType
<1> HIDE DEF result
<1>9. Len(result.rest) \in Nat
      BY <1>8
<1>10. base' \in Nat /\ base' + Len(buffer') = c + n
      BY <1>1, <1>2, <1>5, <1>7, <1>8, <1>9
<1>11. Consumed' = c + n
      BY <1>10 DEF Consumed
<1>12. Types'
  <2>1. Moved(result.found, base) \in Seq(Found)
        BY <1>1, <1>8, MovedType
  <2>2. handled' \in Seq(Found)
        BY <1>1, <1>2, <2>1
  <2> QED BY <1>1, <1>2, <1>3, <1>5, <1>8, <1>10, <1>11, <2>2 DEF Types
<1>13. Search(a \o d) = Joined(whole, Search(whole.rest \o d), Len(a) - Len(whole.rest))
       BY <1>6, SearchTwice
<1> HIDE DEF whole
<1>14. Len(a) - Len(whole.rest) = base
  <2>1. Len(whole.rest) = Len(buffer) /\ Len(buffer) \in Nat
        BY <1>1, <1>4
  <2> QED BY <1>1, <1>5, <1>6, <2>1
<1>15. Search(SubSeq(z, 1, c + n)) = Joined(whole, result, base)
      BY <1>4, <1>6, <1>13, <1>14 DEF result, b
<1>16. ChunkIndependent'
  <2>1. Joined(whole, result, base) = [found |-> handled', rest |-> buffer']
        BY <1>2, <1>4 DEF Joined
  <2> QED BY <1>3, <1>11, <1>15, <2>1 DEF ChunkIndependent
<1> QED BY <1>12, <1>16 DEF Inv

LEMMA Invariant == Spec => []Inv
<1>1. Inv /\ [Next]_vars => Inv'
  <2> SUFFICES ASSUME Inv, [Next]_vars PROVE Inv'
      OBVIOUS
  <2>1. CASE Next
    <3> PICK n \in 0 .. Len(Stream) : RxTurn(n)
        BY <2>1 DEF Next
    <3>1. n \in Nat
          BY StreamType DEF Inv, Types
    <3> QED BY <3>1, Turn
  <2>2. CASE UNCHANGED vars
        BY <2>2, ZenonT(30) DEF vars, Inv, Types, ChunkIndependent, Consumed, Stream, Before
  <2> QED BY <2>1, <2>2
<1> QED BY <1>1, InitInv, PTL DEF Spec

\* What the driver is handed and what stays in the buffer depend on the bytes
\* that came over the line, not on how the reads of rxThread cut them.
THEOREM CutsDoNotMatter == Spec => []ChunkIndependent
<1>1. Inv => ChunkIndependent
      BY DEF Inv
<1> QED BY <1>1, Invariant, PTL

\* The buffer of rxThread never holds as much as a largest frame, whatever the
\* line sends.
THEOREM BufferStaysBounded == Spec => []BufferBounded
<1>1. Inv => BufferBounded
  <2> SUFFICES ASSUME Inv PROVE BufferBounded
      OBVIOUS
  <2> DEFINE a == SubSeq(Stream, 1, Consumed)
  <2>1. pieces \in Seq(Piece) /\ buffer \in Seq(Nat) /\ base \in Nat /\ Consumed <= Len(Stream)
        /\ buffer = Search(a).rest
        BY DEF Inv, Types, ChunkIndependent
  <2>2. Stream \in Seq(Nat) /\ Consumed \in Nat
        BY <2>1, StreamType DEF Consumed
  <2>3. a \in Seq(Nat)
        BY <2>1, <2>2
  <2> HIDE DEF a
  <2>4. buffer = <<>> \/ Kind(buffer) = "wait"
        BY <2>1, <2>3, SearchType
  <2>5. CASE buffer = <<>>
        BY <2>5, ReceiverAssumption DEF BufferBounded, MaxFrame
  <2>6. CASE Kind(buffer) = "wait"
        BY <2>1, <2>6, WaitsShort DEF BufferBounded
  <2> QED BY <2>4, <2>5, <2>6
<1> QED BY <1>1, Invariant, PTL

----------------------------------------------------------------------------
(* Intact frames.  *)

LEMMA BeginsTransitive ==
  ASSUME NEW r \in Seq(Nat), NEW t \in Seq(Nat), NEW u \in Seq(Nat), Begins(t, r), Begins(u, t)
  PROVE  Begins(u, r)
<1>1. Len(r) \in Nat /\ Len(t) \in Nat /\ Len(u) \in Nat /\ Len(r) <= Len(t) /\ Len(t) <= Len(u)
      BY DEF Begins
<1>2. ASSUME NEW k \in 1 .. Len(r) PROVE u[k] = r[k]
  <2>1. k \in 1 .. Len(t)
        BY <1>1
  <2>2. t[k] = r[k] /\ u[k] = t[k]
        BY <2>1 DEF Begins
  <2> QED BY <2>2
<1> QED BY <1>1, <1>2 DEF Begins

LEMMA StreamBegins ==
  ASSUME pieces \in Seq(Piece)
  PROVE  \A i \in 1 .. Len(pieces) : Begins(Stream, Before[i])
<1> DEFINE N == Len(pieces)
           B == Before
           z == Stream
           T == {i \in 1 .. N : Begins(z, B[i])}
<1>1. N \in Nat /\ z \in Seq(Nat) /\ z = B[N]
      BY StreamType DEF Stream
<1>2. /\ \A k \in 0 .. N : B[k] \in Seq(Nat)
      /\ \A k \in 1 .. N : B[k] = B[k - 1] \o pieces[k].bytes
      BY StreamLaid DEF Laid
<1> HIDE DEF N, B, z
<1>3. ASSUME NEW i \in 1 .. N, \A j \in i + 1 .. N : j \in T PROVE i \in T
  <2>1. CASE i = N
        BY <1>1, <2>1 DEF Begins
  <2>2. CASE i # N
    <3> PICK m : m = i + 1
        OBVIOUS
    <3>1. m \in i + 1 .. N /\ m \in 1 .. N /\ m - 1 = i /\ i \in 0 .. N /\ m \in 0 .. N
          BY <1>1, <2>2
    <3>2. Begins(z, B[m]) /\ B[m] = B[i] \o pieces[m].bytes
          BY <1>2, <1>3, <3>1
    <3>3. pieces[m] \in Piece
          BY <3>1, ElementOfSeq DEF N
    <3>4. pieces[m].bytes \in Seq(Nat)
          BY <3>3, ReceiverAssumption
    <3>5. B[i] \in Seq(Nat) /\ B[m] \in Seq(Nat)
          BY <1>2, <3>1
    <3>6. Begins(B[m], B[i])
          BY <3>2, <3>4, <3>5, ConcatBegins
    <3> QED BY <1>1, <3>2, <3>5, <3>6, BeginsTransitive
  <2> QED BY <2>1, <2>2
<1> HIDE DEF T
<1>4. \A i \in 1 .. N : i \in T
      BY <1>1, <1>3, DownFrom
<1> QED BY <1>4 DEF T, N, B, z

LEMMA WholeIsPacket ==
  ASSUME NEW w \in Seq(Nat), WholeFrame(w)
  PROVE  Kind(w) = "packet" /\ FrameSize(w) = Len(w)
<1>1. /\ w # <<>> /\ w[1] \in {SMALL, LARGE}
      /\ Len(w) >= MinFrame /\ Len(w) = FrameSize(w) /\ IsPacket(w)
      BY DEF WholeFrame
<1>2. ~Incomplete(w)
      BY <1>1 DEF Incomplete, MinFrame
<1> QED BY <1>1, <1>2 DEF Kind

Bytes(i) == pieces[i].bytes

\* Where the bytes of a piece are, among those that have been read.
LEMMA PieceLies ==
  ASSUME Types, NEW i \in 1 .. Len(pieces), NEW w, w = Bytes(i),
         Consumed >= End(i), NEW a, a = SubSeq(Stream, 1, Consumed)
  PROVE  /\ a \in Seq(Nat) /\ Len(a) = Consumed /\ w \in Seq(Nat)
         /\ Start(i) \in 1 .. Len(a) + 1 /\ End(i) = Start(i) + Len(w) - 1
         /\ Begins(Suffix(a, Start(i)), w)
<1> DEFINE z == Stream
           c == Consumed
           u == Before[i - 1]
           v == Before[i]
           p == Start(i)
           e == End(i)
<1>1. pieces \in Seq(Piece) /\ c \in Nat /\ c <= Len(z) /\ z \in Seq(Nat) /\ Len(z) \in Nat
      BY StreamType DEF Types, Consumed
<1>2. w \in Seq(Nat)
  <2>1. pieces[i] \in Piece
        BY <1>1, ElementOfSeq
  <2> QED BY <2>1, ReceiverAssumption DEF Bytes
<1>3. u \in Seq(Nat) /\ v = u \o w
  <2>1. i - 1 \in 0 .. Len(pieces)
        BY <1>1
  <2> QED BY <1>1, <2>1, StreamLaid DEF Laid, Bytes
<1>4. Begins(z, v)
      BY <1>1, StreamBegins
<1>5. p = 1 + Len(u) /\ e = p + Len(w) - 1 /\ c >= e
      BY DEF Start, End, Bytes
<1>6. a \in Seq(Nat) /\ Len(a) = c /\ \A k \in 1 .. c : a[k] = z[k]
      BY <1>1
<1> HIDE DEF z, c, u, v, p, e
<1>7. Len(u) \in Nat /\ Len(w) \in Nat /\ p \in 1 .. Len(a) + 1
  <2>1. Len(u) \in Nat /\ Len(w) \in Nat
        BY <1>2, <1>3
  <2> QED BY <1>1, <1>5, <1>6, <2>1, SMTT(30)
<1> DEFINE r == Suffix(a, p)
<1>8. r \in Seq(Nat) /\ Len(r) = c + 1 - p /\ \A k \in 1 .. c + 1 - p : r[k] = a[p + k - 1]
      BY <1>6, <1>7, SuffixType
<1> HIDE DEF r
<1>9. ASSUME NEW k \in 1 .. Len(w) PROVE r[k] = w[k]
  <2> PICK x : x = Len(u) + k
      OBVIOUS
  <2>1. x = p + k - 1 /\ x \in 1 .. c /\ k \in 1 .. c + 1 - p /\ x \in 1 .. Len(u) + Len(w)
        /\ ~(x <= Len(u)) /\ x - Len(u) = k
    <3>1. k \in Nat /\ k >= 1 /\ k <= Len(w) /\ x \in Nat /\ x >= 1 /\ x = p + k - 1
          BY <1>5, <1>7
    <3>2. x <= c
          BY <1>1, <1>5, <1>7, <3>1
    <3>3. p \in Nat /\ c \in Nat /\ k \in 1 .. c + 1 - p
      <4>1. p \in Nat
            BY <1>5, <1>7
      <4>2. c \in Nat
            BY <1>1
      <4> QED BY <3>1, <3>2, <4>1, <4>2
    <3>4. Len(u) \in Nat /\ Len(w) \in Nat
          BY <1>7
    <3>5. x \in 1 .. Len(u) + Len(w) /\ ~(x <= Len(u)) /\ x - Len(u) = k
          BY <3>1, <3>4
    <3> QED BY <3>1, <3>2, <3>3, <3>5
  <2>2. r[k] = z[x]
        BY <1>6, <1>8, <2>1
  <2>3. Len(v) = Len(u) + Len(w)
        /\ \A y \in 1 .. Len(u) + Len(w) : v[y] = IF y <= Len(u) THEN u[y] ELSE w[y - Len(u)]
        BY <1>2, <1>3, ConcatProperties
  <2>4. v[x] = w[k]
        BY <2>1, <2>3
  <2>5. x \in 1 .. Len(v)
        BY <2>1, <2>3
  <2>6. z[x] = v[x]
        BY <1>4, <2>5 DEF Begins
  <2> QED BY <2>2, <2>4, <2>6
<1>10. Len(w) <= Len(r)
       BY <1>1, <1>5, <1>7, <1>8
<1>11. Begins(r, w)
       BY <1>9, <1>10 DEF Begins
<1> QED BY <1>2, <1>5, <1>6, <1>7, <1>11 DEF c, p, e, r

\* An intact piece that has been read is a packet for the search at its place.
LEMMA IntactIsPacket ==
  ASSUME Types, NEW i \in 1 .. Len(pieces), pieces[i].intact, NEW w, w = Bytes(i),
         Consumed >= End(i), NEW a, a = SubSeq(Stream, 1, Consumed), NEW r, r = Suffix(a, Start(i))
  PROVE  r \in Seq(Nat) /\ Kind(r) = "packet" /\ FrameSize(r) = Len(w)
<1>1. /\ a \in Seq(Nat) /\ w \in Seq(Nat) /\ Start(i) \in 1 .. Len(a) + 1
      /\ Begins(Suffix(a, Start(i)), w)
      BY PieceLies
<1>2. r \in Seq(Nat) /\ Begins(r, w)
      BY <1>1, SuffixType
<1>3. WholeFrame(w)
  <2>1. pieces[i] \in Piece
        BY ElementOfSeq DEF Types
  <2> QED BY <2>1, ReceiverAssumption DEF Bytes
<1>4. Kind(w) = "packet" /\ FrameSize(w) = Len(w)
      BY <1>1, <1>3, WholeIsPacket
<1> QED BY <1>1, <1>2, <1>4, SameKind

\* A packet of f lies on the bytes from st to e.
Touches(f, st, e) == \E k \in DOMAIN f : f[k].at <= e /\ st < f[k].at + f[k].len

LEMMA TouchesLater ==
  ASSUME NEW p \in Found, NEW f \in Seq(Found), NEW st, NEW e,
         Touches(f, st, e) \/ (p.at <= e /\ st < p.at + p.len)
  PROVE  Touches(<<p>> \o f, st, e)
<1> DEFINE o == <<p>>
           g == o \o f
<1>1. o \in Seq(Found) /\ Len(o) = 1 /\ o[1] = p
      OBVIOUS
<1> HIDE DEF o
<1>2. g \in Seq(Found) /\ Len(g) = 1 + Len(f)
      /\ \A k \in 1 .. 1 + Len(f) : g[k] = IF k <= 1 THEN o[k] ELSE f[k - 1]
  <2>1. g \in Seq(Found) /\ Len(g) = Len(o) + Len(f)
        /\ \A k \in 1 .. Len(o) + Len(f) : g[k] = IF k <= Len(o) THEN o[k] ELSE f[k - Len(o)]
        BY <1>1, ConcatProperties
  <2> HIDE DEF g
  <2> QED BY <1>1, <2>1
<1> HIDE DEF g
<1>3. DOMAIN g = 1 .. 1 + Len(f) /\ DOMAIN f = 1 .. Len(f) /\ Len(f) \in Nat
      BY <1>2
<1>4. CASE p.at <= e /\ st < p.at + p.len
  <2>1. 1 \in DOMAIN g /\ g[1] = p
        BY <1>1, <1>2, <1>3
  <2>2. Touches(g, st, e)
        BY <1>4, <2>1 DEF Touches
  <2> QED BY <2>2 DEF g, o
<1>5. CASE Touches(f, st, e)
  <2> PICK k \in DOMAIN f : f[k].at <= e /\ st < f[k].at + f[k].len
      BY <1>5 DEF Touches
  <2>1. k + 1 \in DOMAIN g /\ (k + 1) - 1 = k /\ ~(k + 1 <= 1) /\ k + 1 \in 1 .. 1 + Len(f)
        BY <1>3
  <2>2. g[k + 1] = f[k]
        BY <1>2, <2>1
  <2>3. Touches(g, st, e)
        BY <2>1, <2>2 DEF Touches
  <2> QED BY <2>3 DEF g, o
<1> QED BY <1>4, <1>5

\* A packet at st is found, or one that lies on it, by a search that begins
\* before it and has bytes enough never to wait before it.
LEMMA NotLost ==
  ASSUME NEW a \in Seq(Nat), NEW st \in 1 .. Len(a), NEW e \in Nat, st <= e,
         Kind(Suffix(a, st)) = "packet", Len(a) >= st + MaxFrame - 2
  PROVE  \A i \in 1 .. st : Touches(SearchFrom(a)[i].found, st, e)
<1> PICK s : s = SearchFrom(a)
    OBVIOUS
<1> DEFINE T == {i \in 1 .. st : Touches(s[i].found, st, e)}
<1>1. st \in Nat /\ Len(a) \in Nat /\ MaxFrame \in Nat
      BY ReceiverAssumption DEF MaxFrame
<1>2. ASSUME NEW i \in 1 .. st, \A j \in i + 1 .. st : j \in T
      PROVE  Touches(s[i].found, st, e)
  <2> PICK r : r = Suffix(a, i)
      OBVIOUS
  <2>1. i \in 1 .. Len(a) + 1
        BY <1>1
  <2>2. Finds(s, i, r)
        BY <2>1, SearchCases
  <2>3. /\ Kind(r) = "end" <=> i = Len(a) + 1
        /\ Kind(r) = "packet" => i + FrameSize(r) \in i + 1 .. Len(a) + 1
        /\ r \in Seq(Nat) /\ Len(r) = Len(a) + 1 - i
        BY <2>1, StepsUp
  <2>4. Kind(r) # "end"
        BY <1>1, <2>3
  <2>5. Kind(r) # "wait"
    <3>1. CASE i = st
          BY <3>1
    <3>2. CASE i # st
      <4>1. ~(Len(r) < MaxFrame)
            BY <1>1, <2>3, <3>2
      <4> QED BY <2>3, <4>1, WaitsShort
    <3> QED BY <3>1, <3>2
  <2>6. CASE Kind(r) = "skip"
    <3>1. i # st
          BY <2>6
    <3>2. i + 1 \in i + 1 .. st
          BY <1>1, <3>1
    <3>3. s[i] = s[i + 1]
          BY <2>2, <2>6 DEF Finds
    <3> QED BY <1>2, <3>2, <3>3
  <2>7. CASE Kind(r) = "packet"
    <3> DEFINE x == i + FrameSize(r)
               p == Packet(r, i)
    <3>1. p \in Found /\ p.at = i /\ p.len = FrameSize(r)
          BY <2>3, <2>7, PacketType DEF Packet
    <3>2. s[i] = With(p, s[x])
          BY <2>2, <2>7 DEF Finds
    <3>3. FrameSize(r) \in Nat
          BY <3>1 DEF Found
    <3>4. x \in i + 1 .. Len(a) + 1 /\ x = p.at + p.len
          BY <2>3, <2>7, <3>1
    <3> HIDE DEF x, p
    <3>5. s[x] \in Result
          BY <2>1, <3>4, SearchFromStep
    <3>6. s[i].found = <<p>> \o s[x].found /\ s[x].found \in Seq(Found)
      <4> PICK y : y = s[x]
          OBVIOUS
      <4>1. y \in Result /\ s[i] = With(p, y)
            BY <3>2, <3>5
      <4>2. With(p, y).found = <<p>> \o y.found /\ y.found \in Seq(Found)
            BY <3>1, <4>1, WithType
      <4> QED BY <4>1, <4>2
    <3>7. CASE x <= st
      <4>1. x \in i + 1 .. st
            BY <1>1, <3>4, <3>7
      <4>2. Touches(s[x].found, st, e)
            BY <1>2, <4>1
      <4>3. Touches(<<p>> \o s[x].found, st, e)
            BY <3>1, <3>6, <4>2, TouchesLater
      <4> QED BY <3>6, <4>3
    <3>8. CASE ~(x <= st)
      <4>1. p.at <= e /\ st < p.at + p.len
        <5>1. x \in Nat /\ i \in Nat /\ i <= st
              BY <1>1, <3>4
        <5> QED BY <1>1, <3>1, <3>4, <3>8, <5>1
      <4>2. Touches(<<p>> \o s[x].found, st, e)
            BY <3>1, <3>6, <4>1, TouchesLater
      <4> QED BY <3>6, <4>2
    <3> QED BY <3>7, <3>8
  <2> QED BY <2>4, <2>5, <2>6, <2>7, KindType
<1>3. \A i \in 1 .. st : (\A j \in i + 1 .. st : j \in T) => i \in T
      BY <1>2
<1> HIDE DEF T
<1>4. \A i \in 1 .. st : i \in T
      BY <1>1, <1>3, DownFrom
<1> QED BY <1>4 DEF T

LEMMA Ends ==
  ASSUME NEW l \in Nat, l >= 1, NEW n \in Nat, NEW st \in 1 .. n + 1,
         NEW e, e = st + l - 1, n >= e
  PROVE  st \in 1 .. n /\ e \in Nat /\ st <= e
OBVIOUS

\* Noise before an intact frame does not cost the frame, however the noise
\* looks: it is handed over, or a packet that took some of its bytes was.
THEOREM FramesSurviveNoise == Spec => []Resynchronises
<1>1. Inv => Resynchronises
  <2> SUFFICES ASSUME Inv, NEW i \in DOMAIN pieces, pieces[i].intact,
                      Consumed >= Start(i) + MaxFrame - 2, Consumed >= End(i)
               PROVE  Touches(handled, Start(i), End(i))
      BY DEF Resynchronises, Touches
  <2> PICK w, a : w = Bytes(i) /\ a = SubSeq(Stream, 1, Consumed)
      OBVIOUS
  <2> PICK r : r = Suffix(a, Start(i))
      OBVIOUS
  <2>1. Types /\ i \in 1 .. Len(pieces) /\ handled = Search(a).found
        BY DEF Inv, Types, ChunkIndependent
  <2>2. /\ a \in Seq(Nat) /\ Len(a) = Consumed /\ w \in Seq(Nat)
        /\ Start(i) \in 1 .. Len(a) + 1 /\ End(i) = Start(i) + Len(w) - 1
        BY <2>1, PieceLies
  <2>3. r \in Seq(Nat) /\ Kind(r) = "packet" /\ FrameSize(r) = Len(w)
        BY <2>1, IntactIsPacket
  <2>4. Len(w) >= MinFrame
    <3>1. FrameSize(r) \in MinFrame .. Len(r)
          BY <2>3, PacketFits
    <3> QED BY <2>3, <3>1 DEF MinFrame
  <2> PICK st, e : st = Start(i) /\ e = End(i)
      OBVIOUS
  <2>5. st \in 1 .. Len(a) /\ e \in Nat /\ st <= e
    <3>1. Len(w) \in Nat /\ Len(w) >= 1 /\ Len(a) \in Nat
          BY <2>2, <2>4 DEF MinFrame
    <3>2. e = st + Len(w) - 1 /\ Len(a) >= e /\ st \in 1 .. Len(a) + 1
          BY <2>2
    <3> QED BY <3>1, <3>2, Ends
  <2>6. Len(a) >= st + MaxFrame - 2
        BY <2>2
  <2>7. Touches(SearchFrom(a)[1].found, st, e)
    <3>1. 1 \in 1 .. st
          BY <2>5
    <3>2. Kind(Suffix(a, st)) = "packet"
          BY <2>3
    <3> QED BY <2>2, <2>5, <2>6, <3>1, <3>2, NotLost
  <2> QED BY <2>1, <2>7 DEF Search
<1> QED BY <1>1, Invariant, PTL

LEMMA OneMore ==
  ASSUME NEW P \in Seq(Found), NEW p \in Found
  PROVE  /\ P \o <<p>> \in Seq(Found) /\ Len(P \o <<p>>) = Len(P) + 1
         /\ (P \o <<p>>)[Len(P) + 1] = p
         /\ \A i \in 1 .. Len(P) : (P \o <<p>>)[i] = P[i]
<1> DEFINE o == <<p>>
           Q == P \o o
<1>1. o \in Seq(Found) /\ Len(o) = 1 /\ o[1] = p
      OBVIOUS
<1> HIDE DEF o
<1>2. Q \in Seq(Found) /\ Len(Q) = Len(P) + Len(o)
      /\ \A i \in 1 .. Len(P) + Len(o) : Q[i] = IF i <= Len(P) THEN P[i] ELSE o[i - Len(P)]
      BY <1>1, ConcatProperties
<1> HIDE DEF Q
<1>3. Len(P) \in Nat /\ Len(Q) = Len(P) + 1
      BY <1>1, <1>2
<1>4. Q[Len(P) + 1] = p
  <2> DEFINE x == Len(P) + 1
  <2>1. x \in 1 .. Len(P) + Len(o) /\ ~(x <= Len(P)) /\ x - Len(P) = 1
        BY <1>1, <1>3
  <2> HIDE DEF x
  <2>2. Q[x] = p
        BY <1>1, <1>2, <2>1
  <2> QED BY <2>2 DEF x
<1>5. \A i \in 1 .. Len(P) : Q[i] = P[i]
      BY <1>1, <1>2, <1>3
<1> QED BY <1>2, <1>3, <1>4, <1>5 DEF Q, o

\* The first i packets of the search s are the first i pieces, and the search
\* has gone on from where the next one begins.
Heard(s, P, i) ==
  /\ Len(P) = i /\ s[1].found = P \o s[1 + Len(Before[i])].found
  /\ \A k \in 1 .. i : P[k].at = Start(k)

LEMMA NextPlace ==
  ASSUME NEW u \in Nat, NEW w \in Nat, NEW v, v = u + w, NEW st, st = 1 + u
  PROVE  st + w - 1 = v /\ st + w = 1 + v
OBVIOUS

\* Where the piece behind the first k ends.
LEMMA PieceEnds ==
  ASSUME pieces \in Seq(Piece), NEW k \in 0 .. Len(pieces) - 1, NEW m, m = k + 1
  PROVE  /\ m \in 1 .. Len(pieces) /\ Start(m) = 1 + Len(Before[k])
         /\ Len(Before[m]) = Len(Before[k]) + Len(Bytes(m)) /\ End(m) = Len(Before[m])
         /\ Len(Before[k]) \in Nat /\ Len(Bytes(m)) \in Nat
<1> DEFINE u == Before[k]
           v == Before[m]
           w == Bytes(m)
           st == Start(m)
           e == End(m)
<1>1. m \in 1 .. Len(pieces) /\ m - 1 = k /\ k \in 0 .. Len(pieces)
      OBVIOUS
<1>2. v = u \o w /\ u \in Seq(Nat)
      BY <1>1, StreamLaid DEF Laid, Bytes
<1>3. w \in Seq(Nat)
  <2>1. pieces[m] \in Piece
        BY <1>1, ElementOfSeq
  <2> QED BY <2>1, ReceiverAssumption DEF Bytes
<1>4. st = 1 + Len(u)
      BY <1>1 DEF Start
<1>5. e = st + Len(w) - 1
      BY DEF End, Bytes
<1> HIDE DEF u, v, w, st, e
<1>6. Len(v) = Len(u) + Len(w) /\ Len(u) \in Nat /\ Len(w) \in Nat
      BY <1>2, <1>3, ConcatProperties
<1>7. e = Len(v)
      BY <1>4, <1>5, <1>6, NextPlace
<1> QED BY <1>1, <1>4, <1>6, <1>7 DEF u, v, w, st, e

LEMMA HeardMore ==
  ASSUME Types, \A i \in DOMAIN pieces : pieces[i].intact,
         NEW a, a = SubSeq(Stream, 1, Consumed),
         NEW k \in 0 .. Len(pieces) - 1, NEW m, m = k + 1, Consumed >= Len(Before[m]),
         NEW P \in Seq(Found), Heard(SearchFrom(a), P, k)
  PROVE  \E Q \in Seq(Found) : Heard(SearchFrom(a), Q, m)
<1> PICK s : s = SearchFrom(a)
    OBVIOUS
<1>1. pieces \in Seq(Piece)
      BY DEF Types
<1>2. /\ m \in 1 .. Len(pieces) /\ Start(m) = 1 + Len(Before[k])
      /\ Len(Before[m]) = Len(Before[k]) + Len(Bytes(m)) /\ End(m) = Len(Before[m])
      /\ Len(Before[k]) \in Nat /\ Len(Bytes(m)) \in Nat
      BY <1>1, PieceEnds
<1> DEFINE w == Bytes(m)
           st == Start(m)
           lk == Len(Before[k])
           lm == Len(Before[m])
           r == Suffix(a, st)
<1>3. Consumed >= End(m)
      BY <1>2
<1>4. a \in Seq(Nat) /\ st \in 1 .. Len(a) + 1
      BY <1>2, <1>3, PieceLies
<1>5. r \in Seq(Nat) /\ Kind(r) = "packet" /\ FrameSize(r) = Len(w)
  <2>1. pieces[m].intact
        BY <1>1, <1>2
  <2> QED BY <1>2, <1>3, <2>1, IntactIsPacket, ZenonT(30)
<1>6. st = 1 + lk /\ lm = lk + Len(w) /\ lk \in Nat /\ Len(w) \in Nat
      BY <1>2
<1> HIDE DEF w, st, lk, lm
<1>7. r \in Seq(Nat) /\ Finds(s, st, r)
      BY <1>4, <1>5, SearchCases
<1>8. Kind(r) = "packet" => st + FrameSize(r) \in st + 1 .. Len(a) + 1
      BY <1>4, StepsUp
<1> HIDE DEF r
<1> DEFINE p == Packet(r, st)
           x == st + FrameSize(r)
<1>9. p \in Found /\ p.at = st
      BY <1>4, <1>5, PacketType DEF Packet
<1>10. s[st] = With(p, s[x])
      BY <1>5, <1>7 DEF Finds
<1>11. x = 1 + lm
  <2>1. st + Len(w) = 1 + lm
        BY <1>6, NextPlace
  <2> QED BY <1>5, <2>1
<1>12. x \in 1 .. Len(a) + 1
  <2>1. x \in st + 1 .. Len(a) + 1
        BY <1>5, <1>8
  <2> HIDE DEF x
  <2> QED BY <1>4, <2>1
<1> HIDE DEF p, x
<1> PICK y : y = s[x]
    OBVIOUS
<1>13. y \in Result
       BY <1>4, <1>12, SearchFromStep
<1>14. s[st].found = <<p>> \o y.found /\ y.found \in Seq(Found)
  <2>1. With(p, y).found = <<p>> \o y.found /\ y.found \in Seq(Found)
        BY <1>9, <1>13, WithType
  <2> QED BY <1>10, <2>1
<1> DEFINE o == <<p>>
           f == y.found
<1>15. o \in Seq(Found) /\ Len(o) = 1 /\ o[1] = p
       BY <1>9
<1> HIDE DEF o, f
<1>16. /\ Len(P) = k /\ s[1].found = P \o s[st].found
       /\ \A i \in 1 .. k : P[i].at = Start(i)
       BY <1>6 DEF Heard, lk
<1> DEFINE Q == P \o o
<1>17. Q \in Seq(Found) /\ Len(Q) = m /\ Q[m] = p /\ \A i \in 1 .. k : Q[i] = P[i]
  <2>1. Q \in Seq(Found) /\ Len(Q) = Len(P) + 1 /\ Q[Len(P) + 1] = p
        /\ \A i \in 1 .. Len(P) : Q[i] = P[i]
        BY <1>9, OneMore DEF o
  <2> HIDE DEF Q
  <2> QED BY <1>16, <2>1
<1>18. s[1].found = Q \o f
  <2>1. f \in Seq(Found) /\ s[st].found = o \o f
        BY <1>14 DEF o, f
  <2>2. (P \o o) \o f = P \o (o \o f)
        BY <1>15, <2>1, ConcatFound, SMTT(30)
  <2> QED BY <1>16, <2>1, <2>2 DEF Q
<1> HIDE DEF Q
<1>19. ASSUME NEW i \in 1 .. m PROVE Q[i].at = Start(i)
  <2>1. CASE i = m
        BY <1>9, <1>17, <2>1 DEF st
  <2>2. CASE i # m
    <3>1. i \in 1 .. k /\ i <= k
          BY <2>2
    <3>2. Q[i] = P[i]
          BY <1>17, <3>1
    <3> QED BY <1>16, <3>1, <3>2
  <2> QED BY <2>1, <2>2
<1>20. Heard(s, Q, m)
       BY <1>11, <1>17, <1>18, <1>19 DEF Heard, lm, f
<1> QED BY <1>17, <1>20

LEMMA HeardSoFar ==
  ASSUME Types, \A i \in DOMAIN pieces : pieces[i].intact,
         NEW a, a = SubSeq(Stream, 1, Consumed)
  PROVE  \A k \in 0 .. Len(pieces) :
           Consumed >= Len(Before[k]) => \E P \in Seq(Found) : Heard(SearchFrom(a), P, k)
<1> DEFINE N == Len(pieces)
           L(k) == Len(Before[k])
           Some(k) == \E P \in Seq(Found) : Heard(SearchFrom(a), P, k)
           T == {k \in 0 .. N : Consumed >= L(k) => Some(k)}
<1>1. pieces \in Seq(Piece) /\ Consumed \in Nat /\ Consumed <= Len(Stream) /\ N \in Nat
      BY DEF Types, Consumed
<1>2. a \in Seq(Nat)
      BY <1>1, StreamType
<1>3. 0 \in T
  <2>1. Before[0] = <<>>
        BY <1>1, StreamLaid DEF Laid
  <2>2. 1 + Len(Before[0]) = 1
        BY <2>1
  <2> DEFINE f == SearchFrom(a)[1].found
  <2>3. f \in Seq(Found)
        BY <1>2, SearchType DEF Search
  <2>4. <<>> \in Seq(Found) /\ <<>> \o f = f
        BY <2>3, ConcatEmptySeq
  <2>5. Heard(SearchFrom(a), <<>>, 0)
        BY <2>2, <2>4 DEF Heard
  <2>6. Some(0)
        BY <2>4, <2>5
  <2> HIDE DEF Some
  <2> QED BY <1>1, <2>6
<1>4. ASSUME NEW k \in 0 .. N - 1, k \in T PROVE k + 1 \in T
  <2> PICK m : m = k + 1
      OBVIOUS
  <2>1. L(m) = L(k) + Len(Bytes(m)) /\ L(k) \in Nat /\ Len(Bytes(m)) \in Nat /\ m \in 0 .. N
    <3>1. k \in 0 .. Len(pieces) - 1
          OBVIOUS
    <3>2. m \in 1 .. N /\ L(m) = L(k) + Len(Bytes(m)) /\ L(k) \in Nat /\ Len(Bytes(m)) \in Nat
          BY <1>1, <3>1, PieceEnds
    <3>3. m \in 0 .. N
          BY <1>1, <3>2
    <3> QED BY <3>2, <3>3
  <2>2. ASSUME Consumed >= L(m) PROVE Some(m)
    <3>1. Consumed >= L(k)
      <4> HIDE DEF L
      <4> QED BY <1>1, <2>1, <2>2
    <3>2. PICK P \in Seq(Found) : Heard(SearchFrom(a), P, k)
          BY <1>4, <3>1
    <3> QED BY <2>2, <3>2, HeardMore
  <2> HIDE DEF L, Some
  <2> QED BY <2>1, <2>2
<1> HIDE DEF T, N
<1>5. \A k \in 0 .. N : k \in T
      BY <1>1, <1>3, <1>4, UpTo
<1> QED BY <1>5 DEF T, N

\* Frames that follow each other without noise reach the driver one by one, in
\* the order sent, each when its last byte has been read.
THEOREM CleanLineHeard == Spec => []CleanLine
<1>1. Inv => CleanLine
  <2> SUFFICES ASSUME Inv, \A i \in DOMAIN pieces : pieces[i].intact,
                      NEW i \in DOMAIN pieces, Consumed >= End(i)
               PROVE  i \in DOMAIN handled /\ handled[i].at = Start(i)
      BY DEF CleanLine
  <2> DEFINE a == SubSeq(Stream, 1, Consumed)
             s == SearchFrom(a)
             f == s[1 + Len(Before[i])].found
  <2>1. Types /\ handled = s[1].found /\ handled \in Seq(Found) /\ pieces \in Seq(Piece)
        BY DEF Inv, Types, ChunkIndependent, Search
  <2>2. i \in 1 .. Len(pieces) /\ i - 1 \in 0 .. Len(pieces) - 1 /\ i \in 0 .. Len(pieces)
        /\ i = (i - 1) + 1
        BY <2>1
  <2>3. End(i) = Len(Before[i]) /\ Len(Before[i]) \in Nat
    <3>1. End(i) = Len(Before[i])
          BY <2>1, <2>2, PieceEnds
    <3>2. Before[i] \in Seq(Nat)
          BY <2>1, <2>2, StreamLaid DEF Laid
    <3> QED BY <3>1, <3>2
  <2>4. PICK P \in Seq(Found) : Heard(s, P, i)
        BY <2>1, <2>2, <2>3, HeardSoFar
  <2>5. f \in Seq(Found)
    <3>1. a \in Seq(Nat) /\ Len(a) = Consumed /\ Consumed \in Nat
          BY <2>1, StreamType DEF Types, Consumed
    <3> DEFINE x == 1 + Len(Before[i])
    <3>2. x \in 1 .. Len(a) + 1
          BY <2>3, <3>1
    <3> HIDE DEF x, a
    <3>3. s[x] \in Result
          BY <3>1, <3>2, SearchFromStep
    <3> QED BY <3>3 DEF Result, x
  <2> HIDE DEF f, s
  <2>6. Len(P) = i /\ handled = P \o f /\ P[i].at = Start(i)
    <3>1. i \in 1 .. i
          BY <2>2
    <3> QED BY <2>1, <2>4, <3>1 DEF Heard, f
  <2>7. Len(handled) = i + Len(f) /\ handled[i] = P[i] /\ Len(f) \in Nat
    <3>1. Len(P \o f) = Len(P) + Len(f)
          /\ \A k \in 1 .. Len(P) + Len(f) : (P \o f)[k] = IF k <= Len(P) THEN P[k] ELSE f[k - Len(P)]
          BY <2>5, ConcatProperties
    <3>2. i \in 1 .. Len(P) + Len(f) /\ i <= Len(P)
          BY <2>2, <2>5, <2>6
    <3>3. (P \o f)[i] = P[i]
          BY <3>1, <3>2
    <3> QED BY <2>5, <2>6, <3>1, <3>3
  <2>8. i \in DOMAIN handled
    <3>1. i \in 1 .. Len(handled)
          BY <2>2, <2>7
    <3> QED BY <2>1, <3>1
  <2> QED BY <2>6, <2>7, <2>8
<1> QED BY <1>1, Invariant, PTL
=============================================================================
