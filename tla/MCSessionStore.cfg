SPECIFICATION Spec
CONSTANTS
  s1 = s1
  s2 = s2
  Sessions <- MCSessions
  MaxMessages = 2
  MaxHistory <- MCMaxHistory
  None = None
INVARIANTS
  HistoryRetained
  AckedDurable
  CacheClean
  NoResurrection
  ListingComplete
