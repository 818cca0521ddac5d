SPECIFICATION Spec
CONSTANTS
  Users = {u1}
  Calls = {c1, c2}
  Keys = {k1, k2}
  AdjustKeys = {a1}
  Requests = {r1, r2}
  Grants = {1}
  Deltas <- MCDeltas
  Holds = {1}
  Tokens = {0, 1, 2}
  NoValue = NoValue
SYMMETRY Symmetry
CHECK_DEADLOCK FALSE
INVARIANTS LedgerExplainsBalance OperationsPostedOnce JournalMatchesLedger HoldsBackReserved
PROPERTIES SettlementsStand UsageNeverGuessed ImplementsWallet
