SPECIFICATION Spec
CONSTANTS
  Conns = {k1, k2}
  Band = {1, 2}
  Start = 2
  Results = {1, 3}
  NetDiff = 3
  JobsRetained = 2
  MaxSeen = 1
  FloodMin = 2
  MaxTemplates = 2
  MaxJobs = 3
  MaxSubmits = 3
INVARIANTS
  ResultPaysOnce
  WindowIsAccepted
  NewestJobCurrent
SYMMETRY MCSymmetry
CHECK_DEADLOCK FALSE
