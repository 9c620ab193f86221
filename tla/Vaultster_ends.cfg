SPECIFICATION Spec
CONSTANTS
  MaxClients = {1}
  ShortWrites = TRUE
  ChunkLength = 2
  MaxTransfer = 1
  MaxSize = 5
  MaxEndpoints = 2
  MaxFaults = 2
PROPERTY TransfersEnd
PROPERTY GoodTransfersArrive
