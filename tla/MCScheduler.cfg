SPECIFICATION SchedSpec
CONSTANTS
  None = None
  Request = {r1, r2, r3}
  VisionRequest = {r2, r3}
  MaxNumSeqs = 3
  CompletionBatchSize = 2
  MaxTokens = 2
  MaxRetries = 1
  MaxCorruptions = 1
  MaxErrors = 1
INVARIANTS RequestsTracked TablesExplained
