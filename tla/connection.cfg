SPECIFICATION ConnFairSpec
CONSTANTS
  c1 = c1
  c2 = c2
  u1 = u1
  u2 = u2
  Nobody = Nobody
  Users <- MCUsers
  Clients <- MCOneClient
  UserOf <- MCOneUserOf
  SendCap = 2
  UnregisterCap = 2
  DispatchCap = 1
  MaxEvents = 3
  MaxBacklog = 2
INVARIANT ConnTypeOK
INVARIANT WireIsFaithful
INVARIANT ReplayComesFirst
INVARIANT HubKnowsTheServed
PROPERTY EndsAreReleased
CHECK_DEADLOCK FALSE
