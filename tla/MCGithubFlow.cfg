SPECIFICATION Spec
CONSTANTS
  Flows = {f1, f2}
  Requests = {r1, r2, r3}
  Users = {u1, u2}
  Githubs = {g1, g2}
  NoUser = NoUser
  NoGithub = NoGithub
CHECK_DEADLOCK FALSE
INVARIANTS AuthorizedAsLinked LinkedByConsent RedeemedOnce
