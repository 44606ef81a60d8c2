SPECIFICATION StreamSpec
CONSTANTS
  p1 = p1
  p2 = p2
  Paths = {p1, p2}
  Timer = timer
  NumPackets = 3
  WindowBase = 2
  WindowMult = 2
  SeqLimit = 4
  WrapCounted = FALSE
  Lead = 2
INVARIANT TypeOK
INVARIANT GapTimed
PROPERTY ImplementsInOrder
PROPERTY HeadDelivered
PROPERTY ShutdownNeverHangs
