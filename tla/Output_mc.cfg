SPECIFICATION FairSpec
CONSTANTS
  Chunk = 2
  MaxWrites = 3
  MaxLevel = 2
  MaxText = 4
  MaxCalls = 6
INVARIANTS  NothingLost BuffersSound
PROPERTY ShutdownEnds
