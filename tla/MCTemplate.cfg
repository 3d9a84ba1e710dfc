SPECIFICATION Spec
CONSTANTS
  Heights = {16, 127, 255, 32767}
  Phases = {"legacy", "segwit", "mweb"}
  Subsidy = 50
  TagLengths = {4, 95}
  MaxTxs = 5
  MaxTips = 1
  MaxKept = 2
INVARIANTS
  BlocksAreValid
  NothingUnclaimed
