\* What settings-store.ts says of rejected runs.
CONSTANTS
  Runs = {r1}
  MaxComments = 2
  MaxFaults = 0
SPECIFICATION Spec
PROPERTIES RejectedRunNeverApplies
CHECK_DEADLOCK FALSE
