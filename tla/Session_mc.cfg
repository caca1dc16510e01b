SPECIFICATION FairSpec
CONSTANTS
  Process = {p1, p2}
  Key = {k1}
  Inode = {1, 2, 3}
  Byte <- MCByte
  Val <- MCVal
  Faults = {"open", "read", "write"}
  None = None
INVARIANTS ReadIsCurrent OneSession 
 
