\* Apply functions and destructors that call back into the table, four deep, and
\* may end in zend_bailout().
SPECIFICATION Spec
CONSTANTS
  Indices = {0}
  Names = {1}
  Values = {1}
  HashOffset = 8
  HashRange = 1
  MinTableSize = 1
  MaxCells = 3
  MaxIndex = 15
  Outer = {"add", "del", "update", "apply", "graceful"}
  Inner = {"add", "del", "update", "apply"}
  MaxDepth = 4
  Bailouts = TRUE
INVARIANTS NoUseAfterFree WellFormed ApplyComplete
