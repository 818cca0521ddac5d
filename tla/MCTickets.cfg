SPECIFICATION Spec
CONSTANTS
  Workers = {w1, w2}
  Ids = {t1, t2}
  Keys = {k1, k2}
  ReplyLimit = 2
  MaxRevision = 3
SYMMETRY Symmetry
INVARIANTS SubmittedOnce RepliesKept
PROPERTIES PurgedStaysErased
CHECK_DEADLOCK FALSE
