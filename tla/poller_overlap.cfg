CONSTANTS
  NoRow = NoRow
  Deals = {d1, d2}
  Runs = {r1, r2}
  Lag = 1
  CommitDelay = 1
  Start = 0
  ChunkSize = 2
  MaxTime = 3
  MaxEdits = 3
  MaxFaults = 1
SPECIFICATION Spec
SYMMETRY Interchangeable
INVARIANTS TypeOK NothingSkipped ReadsFinalState SnapshotStaysComplete
CHECK_DEADLOCK FALSE
