SPECIFICATION SnapSpec
CONSTANTS
  r1 = r1
  r2 = r2
  e1 = e1
  e2 = e2
  None = None
  Requests = {r1, r2}
  Engines = {e1, e2}
  EngineOf <- Together
  BlockSize = 2
  StepSize = 3
  QueueLimit = 1
  LengthOf <- Lengths
  BaseOf <- Bases
  MaxOutput = 1
  MaxAttempts = 2
  MaxFaults = 1
INVARIANT SnapshotsSound
CHECK_DEADLOCK FALSE
