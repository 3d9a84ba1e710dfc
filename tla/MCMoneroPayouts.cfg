SPECIFICATION FairSpec
CONSTANTS
  alice = alice
  faucet = faucet
  b1 = b1
  b2 = b2
  Miners = {alice, faucet}
  Faucet = faucet
  Comments = {c1, c2}
  NoComment = none
  Blocks = {b1, b2}
  Credits <- MCCredits
  MinPayout = 1
  Budgets = {1, 2}
  Faults = {}
  MaxCrashes = 1
INVARIANTS
  DebitOnlyIfBroadcast
  BroadcastOnBooks
PROPERTIES
  EventuallyResolved
