SPECIFICATION Spec
CONSTANTS
  Kinds = {"live"}
  Numberings = {"each"}
  Segs = 4
  Window = 3
  Units = 2
  FifoSize = 2
  Piece = 2
  ListMax = 5
  ListKeep = 2
  MaxSeq = 7
INVARIANTS NoTwice
