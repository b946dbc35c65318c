SPECIFICATION QueueSpec
CONSTANTS
  MaxBlocks = 5
  InitialBlocks = 3
  None = None
INVARIANTS ListIntact
PROPERTY ImplementsAbs
