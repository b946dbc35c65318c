SPECIFICATION Spec
CONSTANTS
  MaxBlocks = 4
  InitialBlocks = 1
  GrowBy = 2
  None = None
  Request = {r1, r2}
  Hash = {h1, h2}
SYMMETRY Symmetry
INVARIANTS FreeListExact RefCountExact CachedSound StatsExact
PROPERTY WrittenBySoleHolder
