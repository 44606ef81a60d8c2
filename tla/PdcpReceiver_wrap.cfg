SPECIFICATION PromptSpec
CONSTANTS
  p1 = p1
  p2 = p2
  Paths = {p1}
  Timer = timer
  NumPackets = 6
  WindowBase = 2
  WindowMult = 2
  SeqLimit = 3
  WrapCounted = TRUE
  Lead = 6
INVARIANT WrapTransparent
