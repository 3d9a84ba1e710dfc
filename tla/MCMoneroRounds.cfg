SPECIFICATION FairSpec
CONSTANTS
  Miners = {alice, faucet}
  Faucet = faucet
  Comments = {}
  Own = {b1}
  Blocks <- MCBlocks
  Credits <- MCCredits
  Maturity = 3
  Tolerance = 3
  MaxReorg = 2
  Attempts = 2
  Faults = {}
  MaxForeign = 5
  MaxReorgs = 2
  MaxCrashes = 1
INVARIANTS
  OwedIsEarned
  OrphanedStaysOff
  WonIsCredited
PROPERTIES
  EventuallySettled
