SPECIFICATION MCSpec
CONSTANTS
  p1 = p1
  r1 = r1
  m1 = m1
  u1 = u1
  u2 = u2
  plain = plain
  thinking = thinking
  protocol = protocol
  overrides = overrides
  common = common
  special = special
  Admins = {a1, a2}
  Callers = {c1}
  Providers = {p1, p2}
  Routes = {r1, r2}
  Aliases = {m1, m2}
  ModelKeys = {k1}
  Urls = {u1, u2}
  Defaults = {plain, thinking}
  Columns = {protocol, overrides}
  Choices = {common}
  Resolvable <- MCResolvable
  Reachable <- MCReachable
  MaxSaves = 3
SYMMETRY Symmetry
INVARIANTS KeyForDestination
CHECK_DEADLOCK FALSE
