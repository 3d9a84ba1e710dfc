SPECIFICATION FairSpec
CONSTANTS
  alice = alice
  faucet = faucet
  b1 = b1
  b2 = b2
  Miners = {alice, faucet}
  Faucet = faucet
  Comments = {c1, c2}
  NoComment = none
  Blocks = {b1, b2}
  Credits <- MCCredits
  MinPayout = 1
  Budgets = {3}
  Adjustments = {1}
  Faults = {}
  MaxCrashes = 1
  MaxAdjusts = 1
INVARIANTS
  BroadcastOnBooks
  IntentCovered
  IntentBeforeSend
  NoDoublePay
PROPERTIES
  PaysIdeally
  EventuallyDebited
