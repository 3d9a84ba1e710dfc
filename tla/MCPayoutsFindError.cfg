SPECIFICATION Spec
CONSTANTS
  alice = alice
  faucet = faucet
  b1 = b1
  b2 = b2
  Miners = {alice, faucet}
  Faucet = faucet
  Comments = {c1, c2}
  NoComment = none
  Blocks = {b1}
  Credits <- MCCredits
  MinPayout = 1
  Budgets <- MCBudgets
  Adjustments = {1}
  Faults = {"find_error"}
  MaxCrashes = 0
  MaxAdjusts = 0
INVARIANTS
  NoDoublePay
