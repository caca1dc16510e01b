SPECIFICATION Spec
CONSTANTS
  d1 = d1
  d2 = d2
  Directive = {d1, d2}
  UserDirective = {d1}
  Rank <- MCRank
  Handlers <- MCHandlers
  Addr = {a1, a2, a3}
  Texts = {e, x, y}
  Empty = e
  Known = {x}
  Default = x
  Native = n
  Free = Free
  Null = Null
  Conf = Conf
SYMMETRY Symmetry
INVARIANTS StringsSound InForce Restored
PROPERTY OnlyBack
