CONSTANTS
  p1 = p1
  p2 = p2
  p3 = p3
  d1 = d1
  d2 = d2
  Poppers <- ThreePoppers
  Data <- TwoData
  Spurious = TRUE
  MaxPushed = 3
SPECIFICATION FairSpec
INVARIANTS TypeOK NoLostWakeup NullIsAnEnd
PROPERTIES ImplementsFifo Drained
