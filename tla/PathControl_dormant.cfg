SPECIFICATION FairSpec
CONSTANTS
  sched = sched
  frame = frame
  Threads = {sched}
  NumLinks = 2
  Uninit = {0}
  MultilinkOff = TRUE
  ReinjectBurst = 0
  SweepOn = FALSE
  SweepMax = 1
  CanTimeOut = TRUE
  UintRange = 8
PROPERTY NeverDormant
