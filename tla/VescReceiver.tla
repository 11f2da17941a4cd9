---------------------------- MODULE VescReceiver ----------------------------
(***************************************************************************)
(* The receive thread of VescInterface (vesc_driver/src/vesc_interface.cpp)*)
(* and the packet factory it calls (vesc_packet_factory.cpp).  The thread  *)
(* reads whatever the serial port has, looks for frames in its buffer,     *)
(* hands packets to the driver, skips what is no frame and keeps the start *)
(* of a frame whose end has not come yet.                                  *)
(*                                                                         *)
(* A frame: 2 and a one-byte size, or 3 and a two-byte size; the payload;  *)
(* two bytes of checksum; 3.  The end byte of one frame is therefore a     *)
(* possible start of the next.  A byte here is a small number.             *)
(***************************************************************************)
EXTENDS Integers, Sequences, SequencesExt

CONSTANTS
  Piece,        \* what the line carries: [bytes, intact], intact for a whole
                \* valid frame, not for noise and damaged frames
  MaxPieces,    \* bound: pieces in one behaviour
  MaxPayload,   \* VESC_MAX_PAYLOAD_SIZE
  Registered    \* payload ids with a registered packet type

SMALL == 2    \* VESC_SOF_VAL_SMALL_FRAME
LARGE == 3    \* VESC_SOF_VAL_LARGE_FRAME
EOF   == 3    \* VESC_EOF_VAL
MinFrame == 5
MaxFrame == 6 + MaxPayload

VARIABLES
  pieces,     \* what the line carries in this behaviour
  buffer,     \* bytes read and not yet used
  base,       \* history: how many bytes were used before those of buffer
  handled     \* history: packets given to packet_handler_, [at, len, payload]

vars == <<pieces, buffer, base, handled>>

Init ==
  /\ pieces \in SeqOf(Piece, MaxPieces)
  /\ buffer = <<>> /\ base = 0
  /\ handled = <<>>

\* The bytes of the first k pieces, and of all.
Before[k \in 0 .. Len(pieces)] ==
  IF k = 0 THEN <<>> ELSE Before[k - 1] \o pieces[k].bytes

Stream   == Before[Len(pieces)]
Consumed == base + Len(buffer)

----------------------------------------------------------------------------
\* The factory, on the bytes r from a possible start of frame on.
HeaderSize(r)  == IF r[1] = SMALL THEN 2 ELSE 3
PayloadSize(r) == IF r[1] = SMALL THEN r[2] ELSE 256 * r[2] + r[3]
FrameSize(r)   == HeaderSize(r) + PayloadSize(r) + 3
Payload(r)     == SubSeq(r, HeaderSize(r) + 1, HeaderSize(r) + PayloadSize(r))

\* boost's CRC-16: here a sum in two bytes of four values each.
Checksum(p) ==
  LET sum == FoldSeq(+, 0, p) IN <<(sum \div 4) % 4, sum % 4>>

NeverOversized(r) == FALSE
Oversized(r) == PayloadSize(r) > MaxPayload

\* More bytes are needed to tell whether r begins with a frame.
Incomplete(r) ==
  Len(r) < MinFrame \/ (~Oversized(r) /\ Len(r) < FrameSize(r))

IsPacket(r) ==
  /\ ~Oversized(r)
  /\ r[FrameSize(r)] = EOF
  /\ SubSeq(r, FrameSize(r) - 2, FrameSize(r) - 1) = Checksum(Payload(r))
  /\ PayloadSize(r) > 0
  /\ r[HeaderSize(r) + 1] \in Registered

\* What an intact piece is.
WholeFrame(bytes) ==
  /\ bytes # <<>> /\ bytes[1] \in {SMALL, LARGE}
  /\ Len(bytes) >= MinFrame /\ Len(bytes) = FrameSize(bytes)
  /\ IsPacket(bytes)

ASSUME ReceiverAssumption ==
  /\ MaxPayload \in Nat /\ MaxPieces \in Nat
  /\ \A p \in Piece : p.bytes \in Seq(Nat) /\ (p.intact => WholeFrame(p.bytes))

\* How many bytes to step over where a candidate turned out to be no frame,
\* and what to keep of an incomplete one.
WholeCandidate(r) == IF FrameSize(r) < Len(r) THEN FrameSize(r) ELSE Len(r)
Skip(r) == 1

NothingKept(r) == <<>>
Kept(r) == r

\* The search of the buffer b from place i on, when later says what it finds
\* from the places after i: the packets, each with its place, and what stays in
\* the buffer.
SearchAt(b, later, i) ==
  LET r == SubSeq(b, i, Len(b))
      StartsFrame == r[1] \in {SMALL, LARGE}
  IN CASE r = <<>> -> [found |-> <<>>, rest |-> <<>>]
       [] r # <<>> /\ ~StartsFrame -> later[i + 1]
       [] r # <<>> /\ StartsFrame /\ Incomplete(r) -> [found |-> <<>>, rest |-> Kept(r)]
       [] r # <<>> /\ StartsFrame /\ ~Incomplete(r) /\ IsPacket(r) ->
            LET packet == [at |-> i, len |-> FrameSize(r), payload |-> Payload(r)]
            IN [later[i + FrameSize(r)] EXCEPT !.found = <<packet>> \o @]
       [] OTHER -> later[i + Skip(r)]

SearchFrom(b) ==
  LET from[i \in 1 .. Len(b) + 1] == SearchAt(b, from, i) IN from

Search(b) == SearchFrom(b)[1]

\* Packets found in a buffer that begins after `by` bytes of the stream.
Moved(found, by) == [k \in DOMAIN found |-> [found[k] EXCEPT !.at = by + @]]

\* One turn of the thread: a read that returns n bytes (none when it times
\* out), then the search.
RxTurn(n) ==
  /\ n <= Len(Stream) - Consumed
  /\ LET b      == buffer \o SubSeq(Stream, Consumed + 1, Consumed + n)
         result == Search(b)
     IN /\ handled' = handled \o Moved(result.found, base)
        /\ buffer' = result.rest
        /\ base' = base + Len(b) - Len(result.rest)
  /\ UNCHANGED pieces

Next == \E n \in 0 .. Len(Stream) : RxTurn(n)

Spec == Init /\ [][Next]_vars

----------------------------------------------------------------------------
\* Between two turns of the thread the buffer is shorter than the largest frame,
\* whatever the line sends: no garbage fills it, however long it lasts.
BufferBounded == Len(buffer) < MaxFrame

\* What reaches the driver depends on the bytes, not on how reads cut them.
ChunkIndependent ==
  LET whole == Search(SubSeq(Stream, 1, Consumed))
  IN handled = whole.found /\ buffer = whole.rest

\* Where piece i lies in the stream.
Start(i) == 1 + Len(Before[i - 1])
End(i)   == Start(i) + Len(pieces[i].bytes) - 1

\* An intact frame is not lost to noise before it: once a largest frame's
\* worth of bytes after its start has been read, it was handed over, unless
\* bytes of it passed for part of another valid frame.
Resynchronises ==
  \A i \in DOMAIN pieces :
    pieces[i].intact /\ Consumed >= Start(i) + MaxFrame - 2 /\ Consumed >= End(i) =>
      \E k \in DOMAIN handled :
        handled[k].at <= End(i) /\ Start(i) < handled[k].at + handled[k].len

\* Frames that follow each other without noise are all handed over, in order,
\* as soon as their last byte has been read.
CleanLine ==
  (\A i \in DOMAIN pieces : pieces[i].intact) =>
    \A i \in DOMAIN pieces :
      Consumed >= End(i) =>
        i \in DOMAIN handled /\ handled[i].at = Start(i)
=============================================================================
