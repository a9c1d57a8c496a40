SPECIFICATION FairSpec
CONSTANTS
  Kinds = {"live"}
  Numberings = {"each", "first", "none"}
  Segs = 3
  Window = 2
  Units = 2
  FifoSize = 2
  Piece = 2
  ListMax = 3
  ListKeep = 2
  MaxSeq = 5
PROPERTIES LiveStarts
