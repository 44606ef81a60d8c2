SPECIFICATION StartupSpec
CONSTANTS
  MaxTicks = 2
  sched = sched
  frame = frame
  Threads = {sched, frame}
  NumLinks = 2
  Uninit = {0, 7}
  MultilinkOff = FALSE
  ReinjectBurst = 1
  SweepOn = TRUE
  SweepMax = 1
  CanTimeOut = TRUE
  UintRange = 4
INVARIANT TypeOK
INVARIANT ReplyMatches
INVARIANT BurstNeverWraps
 
