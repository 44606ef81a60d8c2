SPECIFICATION TurnsSpec
CONSTANTS
  NQ = 2
  Priority <- Ranked
  IdMod = 4
  MaxPackets = 2
  Sizes = {200}
  Budgets = {100, 250}
  BufferSize = 2
  MaxContexts = 2
  MayExpire = FALSE
INVARIANT Intact
