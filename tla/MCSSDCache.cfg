SPECIFICATION Spec
CONSTANTS
  None = None
  Hash = {h1, h2}
  Modes = {TRUE, FALSE}
  Raw <- MCRaw
  Overhead = 1
  Header = 0
  NewBlock = 1
  Limits = {3, 0}
  HotMax = 2
  QueueSize = 1
  Replaces = TRUE
  MaxRestarts = 1
  MaxTrouble = 2
INVARIANTS SizesRight FilesIndexed KeptInBuffer
SYMMETRY Symmetry
CHECK_DEADLOCK FALSE
