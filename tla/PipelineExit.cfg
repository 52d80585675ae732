SPECIFICATION Spec
CONSTANTS
  a1 = a1
  a2 = a2
  Addrs <- MCAddrs
  MaxEvents = 3
  RingCap = 2
  RawCap = 1
  DnsCap = 1
  BufCap = 1
  MapCapacity = 1
  IoMayFail = FALSE
PROPERTY FlushedOnExit
CHECK_DEADLOCK FALSE
