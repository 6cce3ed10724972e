SPECIFICATION FairSpec
CONSTANTS
  SeenCap = 1
  ReplayLimit = 2
  MaxEvents = 3
  MaxFaults = 2
  MaxExpiries = 1
INVARIANT AnnouncedOnce
INVARIANT NothingIsSkipped
PROPERTY EventsArrive
CHECK_DEADLOCK FALSE
