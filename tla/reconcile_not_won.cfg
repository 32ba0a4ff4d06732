CONSTANTS
  NoRow = NoRow
  Deals = {d1}
  Smoke = {}
  Grace = 1
  Lag = 0
  Timeout = 2
  ChunkSize = 1
  MaxTime = 3
  MaxEdits = 3
  MaxFaults = 0
SPECIFICATION Spec
INVARIANT NotWonIsNotWon
