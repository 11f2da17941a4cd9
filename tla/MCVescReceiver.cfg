SPECIFICATION Spec
CONSTANTS
  Piece <- MCPiece
  MaxPieces = 4
  MaxPayload = 2
  Registered = {0}
INVARIANTS
  BufferBounded
  ChunkIndependent
  Resynchronises
  CleanLine
