CONSTANTS
  NoRow = NoRow
  Deals = {d1, d2}
  Smoke = {}
  Grace = 1
  Lag = 0
  Timeout = 2
  ChunkSize = 1
  MaxTime = 3
  MaxEdits = 2
  MaxFaults = 1
SPECIFICATION FairSpec
PROPERTY DriftIsRepaired
