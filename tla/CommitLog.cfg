CONSTANTS
  PrefixLen = 2
  Sizes <- MCSizes
  BufCap = 6
  MaxBytes = 16
  MaxStarts = 3
  IoMayFail = TRUE
SPECIFICATION Spec
INVARIANTS
  BytesInOrder
  TearsExplained
  FramedInOneRun
CHECK_DEADLOCK FALSE
