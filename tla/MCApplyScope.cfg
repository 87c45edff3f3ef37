\* Two runs and a window, or one run and two windows.
CONSTANTS
  Items = {a, b}
  Unmatched = {b}
  Modals = {m1, m2}
  MaxRuns = 2
  MaxChanges = 2
  MaxToggles = 4
  MaxFaults = 1
  NoFile = NoFile
SPECIFICATION Spec
SYMMETRY Symmetry
CONSTRAINT Bound
INVARIANTS
  PlannedOnly
  NoGhostPlan
PROPERTIES
  WrittenMarksHold
CHECK_DEADLOCK FALSE
