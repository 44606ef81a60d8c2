SPECIFICATION Spec
CONSTANTS
  MaxFrames = 2
  NumLinks = 2
  PacketSize = 20
  MaxTotal = 20
  Percents = {50}
  Plans = {{1}, {0, 1}}
  Reports = {19, 40}
INVARIANT CompletesOutsideTheLock
