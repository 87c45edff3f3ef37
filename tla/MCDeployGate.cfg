\* Two runs of one repository, up to two decisions per issue; no symmetry,
\* because liveness is checked.
CONSTANTS
  Runs = {r1, r2}
  MaxComments = 2
  MaxFaults = 1
SPECIFICATION Spec
INVARIANTS
  ApprovedBeforeApply
  OneOpenIssue
  AwaitedIssueVisible
  DenialStandsUntilExpiry
PROPERTIES
  DispatchedRunEnds
  ImplementsDeployment
CHECK_DEADLOCK FALSE
