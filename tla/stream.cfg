SPECIFICATION FairSpec
CONSTANTS
  r1 = r1
  r2 = r2
  c1 = c1
  c2 = c2
  u1 = u1
  u2 = u2
  Nobody = Nobody
  Users <- MCUsers
  Targets <- MCTargets
  Replicas <- MCOneReplica
  Clients <- MCOneClient
  ReplicaOf <- MCOneReplicaOf
  UserOf <- MCOneUserOf
  MaxLen = 2
  ReadCount = 2
  ReplayLimit = 1
  QueueCap = 1
  SinceKinds = {"stream"}
  MaxEvents = 3
INVARIANT TypeOK
INVARIANT ResumeIsExact
INVARIANT SubscriberIsContiguous
PROPERTY HubsFanOut
PROPERTY SubscriberProgresses
CHECK_DEADLOCK FALSE
