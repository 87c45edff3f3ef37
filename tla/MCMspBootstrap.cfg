SPECIFICATION MspSpec
CONSTANTS
  Tenants = {t1}
  MaxFaults = 2
  MaxRestarts = 1
  MaxPosts = 2
  MaxKeys = 2
CHECK_DEADLOCK FALSE
INVARIANTS
  MarksTrue
  CleanRunServes
  CreatedIsReady
PROPERTIES
  EverySetupEnds
