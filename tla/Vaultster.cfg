SPECIFICATION Spec
CONSTANTS
  MaxClients = {1, 2}
  ShortWrites = FALSE
  ChunkLength = 1
  MaxTransfer = 2
  MaxSize = 2
  MaxEndpoints = 1
  MaxFaults = 1
INVARIANT TypeOK
INVARIANT Aligned
INVARIANT OkMeansStored
INVARIANT BusyUntilOutcome
INVARIANT OutcomeTold
