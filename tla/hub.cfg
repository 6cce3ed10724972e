SPECIFICATION FairSpec
CONSTANTS
  c1 = c1
  c2 = c2
  u1 = u1
  u2 = u2
  Nobody = Nobody
  Users <- MCUsers
  Clients <- MCClients
  UserOf <- MCSameUser
  SendCap = 1
  UnregisterCap = 1
  DispatchCap = 1
  MaxEvents = 2
INVARIANT NoChannelPanic
INVARIANT RegistryIsExact
INVARIANT ContiguousDelivery
PROPERTY ImplementsFanout
PROPERTY NothingWaitsForever
CHECK_DEADLOCK FALSE
