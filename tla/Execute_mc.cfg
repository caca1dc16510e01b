CONSTANTS
  Vars = {a, p}
  Param = p
  Keys = {k}
  MaxZvals = 5
  Resources = {f}
  MaxInt = 1
  Overlaps = FALSE
SPECIFICATION Spec
INVARIANTS CountsExact AssignCopies RefBinds
PROPERTY Isolated
