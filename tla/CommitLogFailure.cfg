CONSTANTS
  PrefixLen = 2
  Sizes <- MCSizes
  BufCap = 6
  MaxBytes = 16
  MaxStarts = 1
  IoMayFail = TRUE
SPECIFICATION Spec
INVARIANTS
  EveryEntryFramed
CHECK_DEADLOCK FALSE
