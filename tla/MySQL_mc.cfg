SPECIFICATION Spec
CONSTANTS
  Details = {d1, d2}
  Preset = d1
  Zvals = {v1, v2}
  Addr = {a1, a2}
  MaxLinks = 2
  MaxPersistent = 1
  MaxId = 3
  MaxRefs = 2
  Freed = Freed
  Nowhere = Nowhere
SYMMETRY Symmetry
INVARIANTS LinksCounted RefsExact LinksSound InSync MemorySound
