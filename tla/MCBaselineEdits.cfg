\* Two pages and two policies, two of them opened, three handlers, one failure.
CONSTANTS
  Policies = {a, b}
  Pages = {p1, p2}
  None = None
  MaxClicks = 2
  MaxJobs = 3
  MaxWrites = 1
  MaxFaults = 1
SPECIFICATION Spec
SYMMETRY Symmetry
INVARIANTS
  ReportedIsGone
  NotForgotten
PROPERTIES
  NoEditUnseen
CHECK_DEADLOCK FALSE
