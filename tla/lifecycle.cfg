SPECIFICATION LifeFairSpec
CONSTANTS
  h1 = h1
  h2 = h2
  h3 = h3
  w1 = w1
  w2 = w2
  Submitters <- MCHandlers
  Pool <- MCPool
  QueueCap = 1
  MaxJobs = 3
INVARIANT ExactlyOnce
INVARIANT DrainedWhenStopped
INVARIANT GracefulEndIsClean
INVARIANT RedisOutlivesJobs
 
PROPERTY ShutdownEnds
PROPERTY NothingIsStuck
CHECK_DEADLOCK FALSE
