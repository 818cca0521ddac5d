SPECIFICATION Spec
CONSTANTS
  Workers = {w1, w2}
  Ids = {t1}
  Keys = {k1}
  ReplyLimit = 3
  MaxRevision = 3
PROPERTIES DeletedStaysErased
CHECK_DEADLOCK FALSE
