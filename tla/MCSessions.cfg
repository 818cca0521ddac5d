SPECIFICATION Spec
CONSTANTS
  Workers = {w1, w2, w3}
  Ids = {i1, i2}
  MaxRotations = 1
  Nobody = Nobody
SYMMETRY Symmetry
INVARIANTS BanRevokesAll RedeemedOnce NoDeadlock
PROPERTIES RevokedForGood
