SPECIFICATION FairSpec
CONSTANTS
  None = None
  Request = {r1, r2}
  VisionRequest = {}
  StreamRequest = {r1}
  StreamInterval = 1
  MaxAbortAlls = 1
  MaxNumSeqs = 1
  CompletionBatchSize = 1
  MaxTokens = 1
  MaxRetries = 1
  MaxCorruptions = 1
  MaxErrors = 1
PROPERTIES Answered Finishes
CHECK_DEADLOCK FALSE
