SPECIFICATION FairSpec
CONSTANTS
  SeenCap = 2
  ReplayLimit = 2
  MaxEvents = 1
  MaxFaults = 1
  MaxExpiries = 1
PROPERTY ReconnectsAutomatically
CHECK_DEADLOCK FALSE
