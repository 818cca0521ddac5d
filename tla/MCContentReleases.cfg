SPECIFICATION Spec
CONSTANTS
  s1 = s1
  t1 = t1
  Admins = {a1, a2}
  Skills = {s1, s2}
  Texts = {t1, t2}
  TypedVersions = {1}
  Catalog <- MCCatalog
  Cores = {1, 2}
  MaxRevision = 4
  MaxVersion = 3
  NoAdmin = NoAdmin
CHECK_DEADLOCK FALSE
INVARIANTS PublishedAsRead VersionsIncrease
PROPERTIES OffersOnlyFallByWithdrawal
