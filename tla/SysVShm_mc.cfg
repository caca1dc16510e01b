SPECIFICATION Spec
CONSTANTS
  Proc = {p1, p2}
  Seg = {s1, s2}
  Key = {1, 2}
  Value = {1, 2}
  Length <- MCLen
  Largest = 18
  Sizes = {17, 18}
  None = None
SYMMETRY Symmetry
INVARIANTS WellFormed GetsLast
