SPECIFICATION TxSpec
CONSTANTS
  c1 = c1
  c2 = c2
  UserIds = {1, 2}
  CallIds = {c1, c2}
  Payer <- MCPayer
  Sweeps = {s1, s2}
  Reviews = {r1}
  Funds <- MCFunds
  Adjustments = {1}
  MaxFunds = 1
  Usages = {1}
  Null = Null
SYMMETRY Symmetry
INVARIANTS DeadlockOnlyWhenLate StatusFollowsJournal NeverSilentlyCharged
PROPERTY TxImplementsWallet
CHECK_DEADLOCK FALSE
