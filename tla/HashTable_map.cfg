\* Every operation, one after the other.
SPECIFICATION Spec
CONSTANTS
  Indices = {0, 1}
  Names = {1}
  Values = {1}
  HashOffset = 10
  HashRange = 1
  MinTableSize = 2
  MaxCells = 3
  MaxIndex = 15
  Outer = {"add", "del", "update", "apply", "reverse", "clean", "destroy", "graceful", "sort", "sortnew", "point"}
  Inner = {}
  MaxDepth = 1
  Bailouts = FALSE
INVARIANT CountExact
PROPERTY ImplementsMap
