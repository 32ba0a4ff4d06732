CONSTANTS
  NoRow = NoRow
  Deals = {d1, d2}
  Runs = {r1}
  Lag = 1
  CommitDelay = 1
  Start = 0
  ChunkSize = 1
  MaxTime = 3
  MaxEdits = 2
  MaxFaults = 1
SPECIFICATION RelayFairSpec
INVARIANTS RelayTypeOK ErpMirrorsOrg
PROPERTIES PublishesOnce EventuallyPublished ErpSettles
CHECK_DEADLOCK FALSE
