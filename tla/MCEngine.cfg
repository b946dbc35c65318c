SPECIFICATION Spec
CONSTANTS
  None = None
  Request = {r1, r2}
  VisionRequest = {}
  StreamRequest = {r1}
  StreamInterval = 1
  MaxAbortAlls = 1
  MaxNumSeqs = 2
  CompletionBatchSize = 2
  MaxTokens = 2
  MaxRetries = 0
  MaxCorruptions = 1
  MaxErrors = 1
INVARIANTS OutputsExact AbortAllIsReported OrphansExplained
CHECK_DEADLOCK FALSE
