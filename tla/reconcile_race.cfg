CONSTANTS
  NoRow = NoRow
  Deals = {d1, s1}
  Smoke = {s1}
  Grace = 2
  Lag = 0
  Timeout = 1
  ChunkSize = 1
  MaxTime = 4
  MaxEdits = 3
  MaxFaults = 0
SPECIFICATION Spec
INVARIANTS TypeOK DriftWasReal OrphansAreReal AheadMeansMovedOn
INVARIANTS OnTimeMeansNoDrift YoungRunsAreNotOvertaken
