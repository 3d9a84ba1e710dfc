SPECIFICATION FairSpec
CONSTANTS
  Miners = {alice, faucet}
  Faucet = faucet
  OtherCoin = {}
  Comments = {}
  Blocks = {b1}
  Window = 2
  FeePercent = 10
  Works = {1}
  Reward <- MCReward
  Maturity = 2
  Tolerance = 3
  MaxReorg = 1
  Chunk = 1
  Faults = {"timeout", "late_execution", "lost_reply", "check_fails"}
  MaxHeight = 4
  MaxReorgs = 1
  MaxShares = 3
  MaxCrashes = 1
INVARIANTS
  Solvent
  MaturedStaysOn
  OrphanedStaysOff
  WonIsCredited
PROPERTIES
  EventuallySettled
