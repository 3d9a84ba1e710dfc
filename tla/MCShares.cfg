SPECIFICATION FairSpec
CONSTANTS
  Band = {1, 2}
  Start = 2
  MaxRequested = 4
  Requests = {1, 3}
  Lucks = {1, 2, 3}
  NetDiff = 3
  QuietWindow = 1
  Grace = 0
  MaxSeen = 2
  MinKept = 1
  MaxKept = 2
  FloodMin = 3
  MaxJobs = 2
  MaxWorks = 2
  MaxShares = 4
  MaxAsks = 2
INVARIANTS
  NoDoubleCredit
  PinHolds
  InFlightTolerated
PROPERTIES
  CreditMovesOn
  QuietHeals
CHECK_DEADLOCK FALSE
