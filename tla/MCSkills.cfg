SPECIFICATION Spec
CONSTANTS
  Workers = {w1, w2}
  Ids = {i1, i2, i3}
  Mutations = {m1, m2, m3, m4}
  Limit = 1
  MaxRevision = 3
SYMMETRY Symmetry
CHECK_DEADLOCK FALSE
INVARIANTS RevisionsExplained NoSilentRevival OvershootBounded
