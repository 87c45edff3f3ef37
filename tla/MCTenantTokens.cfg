\* Two requests at a time, two sign-ins, one of the faults.
CONSTANTS
  Requests = {q1, q2}
  MaxCodes = 2
  MaxTokens = 3
  MaxFaults = 1
SPECIFICATION Spec
SYMMETRY Symmetry
INVARIANTS
  RowOfOneSignIn
  NewestKept
  DisconnectHolds
  RedeemedIsKept
CHECK_DEADLOCK FALSE
