SPECIFICATION LeadSpec
CONSTANTS
  p1 = p1
  p2 = p2
  Paths = {p1}
  Timer = timer
  NumPackets = 3
  WindowBase = 2
  WindowMult = 2
  SeqLimit = 7
  WrapCounted = FALSE
  Lead = 4
INVARIANT InOrder
