SPECIFICATION AllocSpec
CONSTANTS
  Block = {b1, b2, b3}
  Align = 2
  MaxCachedMemory = 2
  MaxCachedEntries = 1
  FastSize = 1
  MaxSize = 3
  Limits = {2, 4}
  Slack = 2
  Width = 12
  None = None
INVARIANTS OnePlace RoomEnough CountRight NothingLeft
SYMMETRY Symmetry
