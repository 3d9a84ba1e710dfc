SPECIFICATION Spec
CONSTANTS
  alice = alice
  faucet = faucet
  b1 = b1
  b2 = b2
  Miners = {alice, faucet}
  Faucet = faucet
  Comments = {c1, c2}
  NoComment = none
  Blocks = {b1}
  Credits <- MCCredits
  MinPayout = 1
  Budgets <- MCBudgets
  Adjustments = {1}
  Faults = {"find_error", "late_send", "lost_reply",
            "hasty_operator", "racing_debit", "checkpoint_fails"}
  MaxCrashes = 1
  MaxAdjusts = 1
INVARIANTS
  OneIntentPerMiner
  DebitOnlyIfBroadcast
