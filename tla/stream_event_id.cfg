SPECIFICATION Spec
CONSTANTS
  r1 = r1
  r2 = r2
  c1 = c1
  c2 = c2
  u1 = u1
  u2 = u2
  Nobody = Nobody
  Users <- MCNobodyElse
  Targets <- MCBroadcast
  Replicas <- MCOneReplica
  Clients <- MCOneClient
  ReplicaOf <- MCOneReplicaOf
  UserOf <- MCOneUserOf
  MaxLen = 2
  ReadCount = 2
  ReplayLimit = 1
  QueueCap = 1
  SinceKinds = {"event"}
  MaxEvents = 3
INVARIANT ResumesFromEventId
CHECK_DEADLOCK FALSE
