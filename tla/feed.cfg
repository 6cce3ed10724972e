SPECIFICATION FeedFairSpec
CONSTANTS
  PageSize = 2
  CacheSizes <- MCCacheSizes
  FirstRows = 3
  MaxRows = 8
INVARIANT FeedIsContiguous
PROPERTY FeedEnds
CHECK_DEADLOCK FALSE
