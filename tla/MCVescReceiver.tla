--------------------------- MODULE MCVescReceiver ---------------------------
(***************************************************************************)
(* The receive thread for TLC: bytes 0 .. 3, payloads of at most two bytes *)
(* and every line of up to four pieces out of: two frames, a damaged       *)
(* frame, the beginnings of a small, of a large and of an oversized frame, *)
(* and a byte that means nothing.                                          *)
(***************************************************************************)
EXTENDS VescReceiver

Line(bytes)  == [bytes |-> bytes, intact |-> FALSE]
Frame(bytes) == [bytes |-> bytes, intact |-> TRUE]

MCPiece == {
  Frame(<<2, 1, 0, 0, 0, 3>>),
  Frame(<<3, 0, 2, 0, 3, 0, 3, 3>>),
  Line(<<2, 1, 0, 0, 1, 3>>),
  Line(<<2, 2>>),
  Line(<<3>>),
  Line(<<3, 1, 0>>),
  Line(<<1>>) }
=============================================================================
