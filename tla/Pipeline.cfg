SPECIFICATION Spec
CONSTANTS
  a1 = a1
  a2 = a2
  Addrs <- MCAddrs
  MaxEvents = 5
  RingCap = 2
  RawCap = 2
  DnsCap = 1
  BufCap = 2
  MapCapacity = 1
  IoMayFail = TRUE
SYMMETRY AddrSymmetry
INVARIANTS TypeOK QueuesBounded InOrder Accounted PolicyBeforeLog DiesFromTheBack
PROPERTY ImplementsAuditLog
CHECK_DEADLOCK FALSE
