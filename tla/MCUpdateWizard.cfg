\* Two releases, three sessions.
CONSTANTS
  Last = 2
  MaxSessions = 3
  MaxFaults = 1
  MaxCrashes = 2
SPECIFICATION Spec
CONSTRAINT OverlapBound
INVARIANTS
  SchemaBeforeCode
  SwapRecorded
PROPERTIES
  LinkedWhole
  ScriptsFollowLink
CHECK_DEADLOCK FALSE
