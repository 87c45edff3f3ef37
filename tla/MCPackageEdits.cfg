\* Two pages, three operations, one fault.
CONSTANTS
  Pages = {p1, p2}
  MaxOps = 3
  MaxFaults = 1
SPECIFICATION Spec
SYMMETRY Symmetry
CONSTRAINT Plain
INVARIANTS
  ReportedIsThere
  RemovalQueued
  AssignedGroupExists
  OneLayout
CHECK_DEADLOCK FALSE
