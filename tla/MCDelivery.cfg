SPECIFICATION FairSpec
CONSTANTS
  Conns = {c1}
  AlarmDepth = 1
  MaxDrop = 0
  MaxTips = 2
  MaxExtras = 2
INVARIANTS
  NoneForgotten
PROPERTIES
  CleanOnNewTip
  MinersFollowTip
