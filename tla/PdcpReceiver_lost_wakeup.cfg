SPECIFICATION RegisteredSpec
CONSTANTS
  p1 = p1
  p2 = p2
  Paths = {p1}
  Timer = timer
  NumPackets = 2
  WindowBase = 2
  WindowMult = 2
  SeqLimit = 5
  WrapCounted = FALSE
  Lead = 2
PROPERTY GapSkipped
