SPECIFICATION FairSpec
CONSTANTS
  s1 = s1
  s2 = s2
  l1 = l1
  l2 = l2
  v1 = v1
  Sharers <- MCSameSharers
  WantedId <- MCSameWanted
  Listers <- MCListers
  Limits <- SomeLimits
  DefaultLimit = 2
  MaxLimit = 3
  CachedLimit = 2
  CacheFails = TRUE
INVARIANT TypeOK
INVARIANT OneVideoOneAnnouncement
INVARIANT InvalidationSuffices
INVARIANT TotalIsCovered
PROPERTY EventuallyFresh
CHECK_DEADLOCK FALSE
