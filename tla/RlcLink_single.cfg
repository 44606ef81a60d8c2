SPECIFICATION TurnsSpec
CONSTANTS
  NQ = 1
  Priority <- Ranked
  IdMod = 4
  MaxPackets = 2
  Sizes = {200}
  Budgets = {100, 106, 218, 250}
  BufferSize = 2
  MaxContexts = 1
  MayExpire = TRUE
INVARIANT TypeOK
INVARIANT Intact
INVARIANT AckAccounted
INVARIANT RestOfOnePacket
INVARIANT BufferedBytes
INVARIANT Conserved
PROPERTY ImplementsFifo
PROPERTY PolledIsAcked
