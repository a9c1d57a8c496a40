SPECIFICATION FairSpec
CONSTANTS
  player = player
  helper = helper
  Thread = {player}
  Size = 4
  Block = 2
  Gap = 1
  Keep = 2
  Slack = 0
  MaxReadSeek = 2
  Length = 5
  MaxRead = 2
  MaxSeek = 5
  Segments = {3}
  LowFails = TRUE
INVARIANTS TypeOK RingRight NoFalseEnd SeekLands
PROPERTIES IsStream Returns
