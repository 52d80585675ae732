CONSTANTS
  c1 = c1
  c2 = c2
  CPUs <- MCCPUs
  Frames <- MCFrames
  RingCap = 2
  MaxFrames = 3
SPECIFICATION FairSpec
INVARIANTS
  DeliveredExact
  PayloadInFrame
  RingDisjoint
  NoLostWakeUp
PROPERTIES
  AllTaken
  QuietWhenIdle
CHECK_DEADLOCK FALSE
