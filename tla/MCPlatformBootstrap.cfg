SPECIFICATION Spec
CONSTANTS
  MaxFaults = 4
  MaxRestarts = 4
INVARIANTS
  NoSyncBeforeRepo
  RunnerHasScripts
  InitialisedHasToken
PROPERTIES
  PlatformComesUp
