SPECIFICATION FairSpec
CONSTANTS
  t1 = t1
  t2 = t2
  r1 = r1
  r2 = r2
  r3 = r3
  u1 = u1
  u2 = u2
  NoUser = NoUser
  Users <- MCUsers
  Tabs <- MCTabs
  Requests <- MCTwoRequests
  TabOf <- MCTwoTabOf
  MaxPairs = 3
INVARIANT SessionsAreWhole
INVARIANT StoredIsHeld
INVARIANT RefreshIsTransparent
PROPERTY RequestsEnd
CHECK_DEADLOCK FALSE
