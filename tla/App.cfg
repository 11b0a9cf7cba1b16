SPECIFICATION FairSpec
CONSTANTS
  p = p
  q = q
  a = a
  b = b
  Providers <- TwoProviders
  Listed = {a}
  Answers <- OneAnswer
  Bare = {q}
  MaxKeys = 2
CHECK_DEADLOCK FALSE
INVARIANTS
  NoStalePointer
  Answerable
  CacheKept
PROPERTIES
  Quits
  CatalogArrives
