SPECIFICATION Spec
CONSTANTS
  player = player
  helper = helper
  Thread = {player}
  Size = 6
  Block = 2
  Gap = 1
  Keep = 2
  Slack = 2
  MaxReadSeek = 2
  Length = 6
  MaxRead = 2
  MaxSeek = 5
  Segments = {3}
  LowFails = TRUE
INVARIANTS SeekTold
