SPECIFICATION FairSpec
CONSTANTS
  sched = sched
  frame = frame
  Threads = {sched, frame}
  NumLinks = 2
  Uninit = {0}
  MultilinkOff = FALSE
  ReinjectBurst = 0
  SweepOn = FALSE
  SweepMax = 1
  CanTimeOut = FALSE
  UintRange = 8
INVARIANT SkipIsNoOp
