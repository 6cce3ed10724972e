SPECIFICATION FairSpec
CONSTANTS
  Mine <- MCMine
  UnreadMax = 2
  MaxRows = 2
  MaxMarks = 2
  MaxFaults = 2
INVARIANT SeenStaysSeen
PROPERTY BadgeSettles
CHECK_DEADLOCK FALSE
