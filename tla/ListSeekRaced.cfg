SPECIFICATION Spec
CONSTANTS
  Kinds = {"vod"}
  Numberings = {"each", "first", "none"}
  Segs = 4
  Window = 3
  Units = 2
  FifoSize = 2
  Piece = 2
  ListMax = 5
  ListKeep = 2
  MaxSeq = 7
INVARIANTS SeekHeard
