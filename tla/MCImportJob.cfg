\* Two imports of the same two files; removals, two faults, a restart.
CONSTANTS
  Jobs = {j1, j2}
  Files = {f1, f2}
  Nobody = Nobody
  BatchSize = 1
  ChunkSize = 1
  PathPrefix = TRUE
  Deletes = TRUE
  MaxFaults = 2
  MaxCrashes = 1
SPECIFICATION LiveSpec
INVARIANTS
  DoneIsImported
  ProgressIsReal
  AllStagedFirst
PROPERTIES
  GoneStaysGone
  PollingEnds
CHECK_DEADLOCK FALSE
