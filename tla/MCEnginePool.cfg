SPECIFICATION Spec
CONSTANTS
  None = None
  Enforcer = enforcer
  a = a
  b = b
  d = d
  Model = {a, b, d}
  Client = {c1, c2}
  Admin = {r1}
  Size <- MCSize
  Batched = {b, d}
  Embedder = {a}
  MaxModelMemory = 9
  Limits = {4, 9, None}
  Pinned = {}
  Objects = 2
INVARIANTS OwnedExplained LockDiscipline
PROPERTIES MemoryExplained
SYMMETRY Symmetry
CHECK_DEADLOCK FALSE
