---------------------------- MODULE StreamProofs ----------------------------
(***************************************************************************)
(* The Redis transport, for any number of replicas, connections and        *)
(* entries and every limit: each subscriber hands the stream over without  *)
(* a gap, every replica's hub is a Fanout of what its subscriber hands     *)
(* over, and a connection that resumes from a stream id has no gap between *)
(* its backlog and the live events.                                        *)
(***************************************************************************)
EXTENDS Stream, FiniteSetTheorems, TLAPS

\* The newest entry is never trimmed.
NewestIsKept == stream # <<>> => trimmed < Len(stream)

\* Entry y may be dispatched after x: what lies between is trimmed.
NextAfter(x, y) == x < y /\ \A z \in x + 1..y - 1 : z <= trimmed

\* What XREAD returned is a run of consecutive entries, and after the first
\* dispatch a page continues where the last one ended.
Reading(r) ==
  /\ batch[r] # <<>> <=> reader[r] = "dispatching"
  /\ \A i \in 1..Len(batch[r]) - 1 : batch[r][i + 1] = batch[r][i] + 1
  /\ lastID[r] # 0 <=> dispatched[r] # <<>>
  /\ dispatched[r] # <<>> => lastID[r] = dispatched[r][Len(dispatched[r])]
  /\ lastID[r] # 0 /\ reader[r] = "waiting" => askedAt[r] = lastID[r]
  /\ lastID[r] # 0 /\ batch[r] # <<>> => NextAfter(lastID[r], batch[r][1])

InOrder(r) ==
  \A i \in 1..Len(dispatched[r]) - 1 : NextAfter(dispatched[r][i], dispatched[r][i + 1])

\* What the hub has pushed to c: since it joined, everything addressed to it.
Served(c) ==
  LET r == ReplicaOf[c] IN
  /\ joined[c] <= served[r]
  /\ got[c] \subseteq 1..served[r]
  /\ \A i \in got[c] : AddressedTo(c, queue[r][i])
  /\ Registered(c) =>
       \A i \in joined[c] + 1..served[r] : AddressedTo(c, queue[r][i]) => i \in got[c]

\* What the backlog of c has, if it could be read: of the events its hub had
\* handled when it joined, everything addressed to it that was still there.
Replayed(c) ==
  /\ \A x \in replayed[c] : AddressedTo(c, x)
  /\ phase[c] \in {"replaying", "live"} /\ since[c].kind = "stream" /\ c \notin unread =>
       \A i \in 1..joined[c] :
         LET x == queue[ReplicaOf[c]][i] IN
           since[c].at < x /\ AddressedTo(c, x) => x \in replayed[c] \cup cut[c]

Inv ==
  /\ TypeOK
  /\ NewestIsKept
  /\ \A r \in Replicas : Reading(r) /\ InOrder(r)
  /\ \A c \in Clients : Served(c) /\ Replayed(c)

-----------------------------------------------------------------------------
(* Lemmas.                                                                 *)

LEMMA Limits ==
  /\ MaxLen \in Nat \ {0} /\ ReadCount \in Nat \ {0}
  /\ ReplayLimit \in Nat \ {0} /\ QueueCap \in Nat \ {0}
  BY StreamAssumption

LEMMA ReplicaOfClient ==
  ASSUME NEW c \in Clients
  PROVE  ReplicaOf[c] \in Replicas /\ UserOf[c] \in Users
  BY StreamAssumption

\* The type invariant one variable at a time.
LEMMA Typed ==
  ASSUME TypeOK
  PROVE  /\ stream \in Seq(Recipient) /\ Len(stream) \in Nat
         /\ trimmed \in 0..Len(stream)
         /\ up \in [Replicas -> BOOLEAN]
         /\ hub \in [Replicas -> {"running", "done"}]
         /\ reader \in [Replicas -> {"idle", "waiting", "dispatching", "ended"}]
         /\ lastID \in [Replicas -> 0..Len(stream)]
         /\ askedAt \in [Replicas -> 0..Len(stream)]
         /\ batch \in [Replicas -> Seq(Entries)]
         /\ dispatched \in [Replicas -> Seq(Entries)]
         /\ queue \in [Replicas -> Seq(Entries)]
         /\ served \in [Replicas -> Nat]
         /\ phase \in [Clients -> {"new", "registering", "joined", "replaying", "live", "ended"}]
         /\ since \in [Clients -> SinceIds]
         /\ joined \in [Clients -> Nat]
         /\ got \in [Clients -> SUBSET Nat]
         /\ replayed \in [Clients -> SUBSET Entries]
         /\ cut \in [Clients -> SUBSET Entries]
         /\ unread \subseteq Clients
  BY DEF TypeOK

LEMMA SeqMono ==
  ASSUME NEW S, NEW T, S \subseteq T, NEW s \in Seq(S)
  PROVE  s \in Seq(T)
  OBVIOUS

\* A publish adds one entry at the end, and may trim older ones.
LEMMA Published ==
  ASSUME TypeOK, NEW to \in Recipient, Publish(to)
  PROVE  /\ stream' \in Seq(Recipient) /\ Len(stream') = Len(stream) + 1
         /\ \A x \in Entries : stream'[x] = stream[x]
         /\ Entries \subseteq Entries'
         /\ 0..Len(stream) \subseteq 0..Len(stream')
         /\ trimmed <= trimmed' /\ trimmed' < Len(stream') /\ trimmed' \in Nat
  <1> DEFINE n == Len(stream)
  <1>0. n \in Nat /\ stream \in Seq(Recipient) /\ trimmed \in 0..n
    BY Typed
  <1>1. /\ stream' \in Seq(Recipient) /\ Len(stream') = n + 1
        /\ \A x \in 1..n : stream'[x] = stream[x]
    BY <1>0 DEF Publish
  <1>2. PICK t \in trimmed..n : /\ t = trimmed \/ t <= n + 1 - MaxLen
                                /\ trimmed' = t
    BY DEF Publish
  <1> HIDE DEF n
  <1>3. trimmed <= t /\ t < n + 1 /\ t \in Nat
    BY <1>0, <1>2
  <1>4. 1..n \subseteq 1..(n + 1) /\ 0..n \subseteq 0..(n + 1)
    BY <1>0
  <1> QED BY <1>1, <1>2, <1>3, <1>4 DEF Entries, n

\* Every other step leaves Redis alone.
LEMMA RedisSteps ==
  ASSUME TypeOK, [Next]_streamVars
  PROVE  UNCHANGED redisVars \/ \E to \in Recipient : Publish(to)
  <1>1. ASSUME NEW to \in Targets, Publish(to) PROVE to \in Recipient
    BY StreamAssumption DEF Recipient
  <1>2. ASSUME NEW r \in Replicas,
               \/ Ask(r) \/ Deliver(r) \/ Timeout(r) \/ ReadFails(r) \/ Dispatch(r)
               \/ ReaderStops(r) \/ Cancel(r) \/ CloseHub(r)
               \/ \E slow \in SUBSET ClientsOf(r) : Serve(r, slow)
        PROVE  UNCHANGED redisVars
    BY <1>2 DEF Ask, Deliver, Timeout, ReadFails, Dispatch, ReaderStops, Cancel, CloseHub, Serve
  <1>3. ASSUME NEW c \in Clients,
               \/ \E s \in SinceIds : Open(c, s)
               \/ Join(c) \/ Refuse(c) \/ Replay(c) \/ GoLive(c) \/ ReplayFails(c) \/ ReplayNothing(c) \/ Leave(c)
        PROVE  UNCHANGED redisVars
    BY <1>3 DEF Open, Join, Refuse, Replay, GoLive, ReplayFails, ReplayNothing, Leave
  <1> QED BY <1>1, <1>2, <1>3 DEF Next, streamVars

\* The stream only grows, at the end, and is only trimmed further.
LEMMA StreamGrows ==
  ASSUME TypeOK, [Next]_streamVars
  PROVE  /\ stream' \in Seq(Recipient)
         /\ Entries \subseteq Entries'
         /\ 0..Len(stream) \subseteq 0..Len(stream')
         /\ \A x \in Entries : stream'[x] = stream[x]
         /\ trimmed <= trimmed' /\ trimmed' \in 0..Len(stream')
  <1>1. CASE UNCHANGED redisVars
    BY <1>1, Typed DEF redisVars, Entries
  <1>2. ASSUME NEW to \in Recipient, Publish(to)
        PROVE  /\ stream' \in Seq(Recipient)
               /\ Entries \subseteq Entries'
               /\ 0..Len(stream) \subseteq 0..Len(stream')
               /\ \A x \in Entries : stream'[x] = stream[x]
               /\ trimmed <= trimmed' /\ trimmed' \in 0..Len(stream')
    <2>1. Len(stream) \in Nat
      BY Typed
    <2>2. Len(stream') = Len(stream) + 1 /\ trimmed' < Len(stream') /\ trimmed' \in Nat
      BY <1>2, Published
    <2>3. trimmed' \in 0..Len(stream')
      BY <2>1, <2>2
    <2> QED BY <1>2, <2>3, Published
  <1> QED BY <1>1, <1>2, RedisSteps

LEMMA SinceGrows ==
  ASSUME TypeOK, [Next]_streamVars
  PROVE  SinceIds \subseteq SinceIds'
  BY StreamGrows DEF SinceIds

LEMMA NewestNext ==
  ASSUME TypeOK, NewestIsKept, [Next]_streamVars
  PROVE  NewestIsKept'
  <1>1. CASE UNCHANGED redisVars
    BY <1>1 DEF redisVars, NewestIsKept
  <1>2. ASSUME NEW to \in Recipient, Publish(to) PROVE NewestIsKept'
    BY <1>2, Published DEF NewestIsKept
  <1> QED BY <1>1, <1>2, RedisSteps

\* What XREAD returns: the entries that follow the position, as a run.
LEMMA Page ==
  ASSUME TypeOK, NewestIsKept, NEW r \in Replicas, Deliver(r)
  PROVE  LET K == KeptAfter(askedAt[r])
             m == Cardinality(Oldest(askedAt[r], ReadCount))
         IN /\ K \in Nat /\ m \in Nat /\ 1 <= m /\ m <= ReadCount /\ K + m <= Len(stream)
            /\ askedAt[r] <= K
            /\ \A z \in askedAt[r] + 1..K : z <= trimmed
  <1> DEFINE a == askedAt[r]
             n == Len(stream)
             K == KeptAfter(a)
             hi == IF K + ReadCount <= n THEN K + ReadCount ELSE n
  <1>0. /\ a \in 0..n /\ a < n /\ n \in Nat /\ trimmed \in 0..n /\ ReadCount \in Nat \ {0}
        /\ trimmed < n
    <2>1. a \in 0..n /\ a < n /\ n \in Nat /\ trimmed \in 0..n
      BY Typed DEF Deliver
    <2>2. stream # <<>>
      BY <2>1
    <2> QED BY <2>1, <2>2, Limits DEF NewestIsKept
  <1>1. K \in Nat /\ a <= K /\ K < n /\ \A z \in a + 1..K : z <= trimmed
    BY <1>0 DEF KeptAfter
  <1>2. Oldest(a, ReadCount) = {x \in 1..n : K < x /\ x <= K + ReadCount}
    BY DEF Oldest, Entries
  <1> HIDE DEF a, n, K
  <1>3. hi \in Nat /\ K + 1 \in Int /\ K + 1 <= hi /\ hi <= n /\ hi - K <= ReadCount
    BY <1>0, <1>1
  <1>4. {x \in 1..n : K < x /\ x <= K + ReadCount} = (K + 1)..hi
    BY <1>0, <1>1
  <1> HIDE DEF hi
  <1>5. Cardinality((K + 1)..hi) = hi - (K + 1) + 1
    BY <1>3, FS_Interval
  <1>6. Cardinality(Oldest(a, ReadCount)) = hi - K
    <2>1. Oldest(a, ReadCount) = (K + 1)..hi
      BY <1>2, <1>4
    <2>2. hi - (K + 1) + 1 = hi - K
      BY <1>1, <1>3
    <2> QED BY <1>5, <2>1, <2>2
  <1>7. hi - K \in Nat /\ 1 <= hi - K /\ K + (hi - K) <= n
    BY <1>1, <1>3
  <1> QED BY <1>1, <1>3, <1>6, <1>7 DEF a, n, K

-----------------------------------------------------------------------------
(* Type correctness.                                                       *)

\* No channel or page holds more than its limit.
Bounded(r) ==
  /\ served[r] <= Len(queue[r])
  /\ Len(queue[r]) - served[r] <= QueueCap
  /\ Len(batch[r]) <= ReadCount

LEMMA TypesInit == Init => TypeOK
  <1> SUFFICES ASSUME Init PROVE TypeOK
    OBVIOUS
  <1>1. stream \in Seq(Recipient) /\ trimmed \in 0..Len(stream)
    BY DEF Init
  <1>2. /\ up \in [Replicas -> BOOLEAN]
        /\ hub \in [Replicas -> {"running", "done"}]
        /\ reader \in [Replicas -> {"idle", "waiting", "dispatching", "ended"}]
    BY DEF Init
  <1>3. /\ lastID \in [Replicas -> 0..Len(stream)]
        /\ askedAt \in [Replicas -> 0..Len(stream)]
    BY DEF Init
  <1>4. /\ batch \in [Replicas -> Seq(Entries)]
        /\ dispatched \in [Replicas -> Seq(Entries)]
        /\ queue \in [Replicas -> Seq(Entries)]
        /\ served \in [Replicas -> Nat]
    BY DEF Init
  <1>5. \A r \in Replicas : Bounded(r)
    BY Limits DEF Init, Bounded
  <1>6. /\ phase \in [Clients -> {"new", "registering", "joined", "replaying", "live", "ended"}]
        /\ joined \in [Clients -> Nat]
        /\ got \in [Clients -> SUBSET Nat]
        /\ replayed \in [Clients -> SUBSET Entries]
        /\ cut \in [Clients -> SUBSET Entries]
        /\ unread \subseteq Clients
    BY DEF Init
  <1>7. since \in [Clients -> SinceIds]
    BY DEF Init, SinceIds
  <1> QED BY <1>1, <1>2, <1>3, <1>4, <1>5, <1>6, <1>7 DEF TypeOK, Bounded

\* What has the type of a variable keeps it when the stream grows.
LEMMA TypesGrow ==
  ASSUME TypeOK, [Next]_streamVars
  PROVE  /\ lastID \in [Replicas -> 0..Len(stream')]
         /\ askedAt \in [Replicas -> 0..Len(stream')]
         /\ batch \in [Replicas -> Seq(Entries')]
         /\ dispatched \in [Replicas -> Seq(Entries')]
         /\ queue \in [Replicas -> Seq(Entries')]
         /\ since \in [Clients -> SinceIds']
         /\ replayed \in [Clients -> SUBSET Entries']
         /\ cut \in [Clients -> SUBSET Entries']
  <1>t. /\ lastID \in [Replicas -> 0..Len(stream)]
        /\ askedAt \in [Replicas -> 0..Len(stream)]
        /\ batch \in [Replicas -> Seq(Entries)]
        /\ dispatched \in [Replicas -> Seq(Entries)]
        /\ queue \in [Replicas -> Seq(Entries)]
        /\ since \in [Clients -> SinceIds]
        /\ replayed \in [Clients -> SUBSET Entries]
        /\ cut \in [Clients -> SUBSET Entries]
    BY Typed
  <1>1. Entries \subseteq Entries' /\ 0..Len(stream) \subseteq 0..Len(stream')
    BY StreamGrows
  <1>2. Seq(Entries) \subseteq Seq(Entries')
    BY <1>1, SeqMono
  <1>3. SinceIds \subseteq SinceIds'
    BY SinceGrows
  <1> QED BY <1>t, <1>1, <1>2, <1>3

LEMMA TypesNext ==
  ASSUME TypeOK, NewestIsKept, \A r \in Replicas : Reading(r), [Next]_streamVars
  PROVE  TypeOK'
  <1>t. /\ up \in [Replicas -> BOOLEAN]
        /\ hub \in [Replicas -> {"running", "done"}]
        /\ reader \in [Replicas -> {"idle", "waiting", "dispatching", "ended"}]
        /\ served \in [Replicas -> Nat]
        /\ phase \in [Clients -> {"new", "registering", "joined", "replaying", "live", "ended"}]
        /\ joined \in [Clients -> Nat]
        /\ got \in [Clients -> SUBSET Nat]
        /\ unread \subseteq Clients
        /\ \A r \in Replicas : Bounded(r)
    BY DEF TypeOK, Bounded
  <1>g. /\ lastID \in [Replicas -> 0..Len(stream')]
        /\ askedAt \in [Replicas -> 0..Len(stream')]
        /\ batch \in [Replicas -> Seq(Entries')]
        /\ dispatched \in [Replicas -> Seq(Entries')]
        /\ queue \in [Replicas -> Seq(Entries')]
        /\ since \in [Clients -> SinceIds']
        /\ replayed \in [Clients -> SUBSET Entries']
        /\ cut \in [Clients -> SUBSET Entries']
    BY TypesGrow
  <1>s. stream' \in Seq(Recipient) /\ trimmed' \in 0..Len(stream')
    BY StreamGrows
  <1>r. ASSUME hubVars' = hubVars, readerVars' = readerVars
        PROVE  /\ hub' \in [Replicas -> {"running", "done"}]
               /\ reader' \in [Replicas -> {"idle", "waiting", "dispatching", "ended"}]
               /\ lastID' \in [Replicas -> 0..Len(stream')]
               /\ askedAt' \in [Replicas -> 0..Len(stream')]
               /\ batch' \in [Replicas -> Seq(Entries')]
               /\ dispatched' \in [Replicas -> Seq(Entries')]
               /\ queue' \in [Replicas -> Seq(Entries')]
               /\ served' \in [Replicas -> Nat]
               /\ \A r \in Replicas : Bounded(r)'
    BY <1>r, <1>t, <1>g DEF hubVars, readerVars, Bounded
  <1>c. ASSUME clientVars' = clientVars
        PROVE  /\ phase' \in [Clients -> {"new", "registering", "joined", "replaying", "live", "ended"}]
               /\ since' \in [Clients -> SinceIds']
               /\ joined' \in [Clients -> Nat]
               /\ got' \in [Clients -> SUBSET Nat]
               /\ replayed' \in [Clients -> SUBSET Entries']
               /\ cut' \in [Clients -> SUBSET Entries']
               /\ unread' \subseteq Clients
    BY <1>c, <1>t, <1>g DEF clientVars
  <1>1. CASE UNCHANGED <<up, readerVars, hubVars, clientVars>>
    BY <1>1, <1>t, <1>s, <1>r, <1>c DEF TypeOK, Bounded
  <1>2. CASE UNCHANGED streamVars \/ \E to \in Targets : Publish(to)
    BY <1>1, <1>2 DEF streamVars, Publish
  \* Subscriber.Run, except for what it hands over.
  <1>3. ASSUME NEW r \in Replicas,
               Ask(r) \/ Timeout(r) \/ ReadFails(r) \/ ReaderStops(r)
        PROVE  TypeOK'
    <2>1. /\ reader' \in [Replicas -> {"idle", "waiting", "dispatching", "ended"}]
          /\ UNCHANGED <<up, lastID, batch, dispatched, hubVars, clientVars>>
      BY <1>3, <1>t DEF Ask, Timeout, ReadFails, ReaderStops
    <2>2. askedAt' \in [Replicas -> 0..Len(stream')]
      <3>1. CASE Ask(r)
        <4>1. lastID[r] \in 0..Len(stream) /\ Len(stream) \in 0..Len(stream)
          BY Typed
        <4>2. stream' = stream /\ askedAt' = [askedAt EXCEPT ![r] = IF lastID[r] = 0 THEN Len(stream) ELSE lastID[r]]
          BY <3>1 DEF Ask, redisVars
        <4> QED BY <1>g, <4>1, <4>2
      <3>2. CASE askedAt' = askedAt
        BY <1>g, <3>2
      <3> QED BY <1>3, <3>1, <3>2 DEF Timeout, ReadFails, ReaderStops
    <2>3. \A q \in Replicas : Bounded(q)'
      BY <1>t, <2>1 DEF hubVars, Bounded
    <2> QED BY <1>t, <1>g, <1>s, <1>c, <2>1, <2>2, <2>3 DEF hubVars, TypeOK, Bounded
  <1>4. ASSUME NEW r \in Replicas, Deliver(r) PROVE TypeOK'
    <2> DEFINE K == KeptAfter(askedAt[r])
               m == Cardinality(Oldest(askedAt[r], ReadCount))
               b == [i \in 1..m |-> K + i]
    <2>1. /\ reader' \in [Replicas -> {"idle", "waiting", "dispatching", "ended"}]
          /\ UNCHANGED <<stream, up, lastID, askedAt, dispatched, hubVars, clientVars>>
          /\ batch' = [batch EXCEPT ![r] = b]
      BY <1>4, <1>t DEF Deliver, redisVars
    <2>2. /\ K \in Nat /\ m \in Nat /\ m <= ReadCount /\ K + m <= Len(stream)
          /\ Len(stream) \in Nat
      BY <1>4, Page, Typed
    <2> HIDE DEF K, m
    <2>3. b \in Seq(Entries') /\ Len(b) = m
      <3>1. \A i \in 1..m : K + i \in 1..Len(stream)
        BY <2>2
      <3>2. b \in [1..m -> Entries']
        BY <2>1, <3>1 DEF Entries
      <3> QED BY <2>2, <3>2
    <2> HIDE DEF b
    <2>4. batch' \in [Replicas -> Seq(Entries')]
      BY <1>g, <2>1, <2>3
    <2>5. \A q \in Replicas : Bounded(q)'
      <3> SUFFICES ASSUME NEW q \in Replicas PROVE Len(batch'[q]) <= ReadCount
        BY <1>t, <2>1 DEF hubVars, Bounded
      <3>1. batch'[q] = IF q = r THEN b ELSE batch[q]
        BY <1>g, <2>1
      <3> QED BY <1>t, <2>2, <2>3, <3>1 DEF Bounded
    <2> QED BY <1>t, <1>g, <1>s, <1>c, <2>1, <2>4, <2>5 DEF hubVars, TypeOK, Bounded
  <1>5. ASSUME NEW r \in Replicas, Dispatch(r) PROVE TypeOK'
    <2> DEFINE x == Head(batch[r])
    <2>0. /\ batch[r] \in Seq(Entries) /\ batch[r] # <<>>
          /\ queue[r] \in Seq(Entries) /\ dispatched[r] \in Seq(Entries)
          /\ served[r] \in Nat
      BY <1>5, Typed DEF Dispatch, Reading
    <2>1. x \in Entries /\ Tail(batch[r]) \in Seq(Entries) /\ Len(Tail(batch[r])) <= Len(batch[r])
      BY <2>0
    <2>2. /\ stream' = stream /\ UNCHANGED <<up, hub, askedAt, served, clientVars>>
          /\ lastID' = [lastID EXCEPT ![r] = x]
          /\ dispatched' = [dispatched EXCEPT ![r] = Append(@, x)]
          /\ batch' = [batch EXCEPT ![r] = Tail(@)]
          /\ reader' \in [Replicas -> {"idle", "waiting", "dispatching", "ended"}]
      BY <1>5, <1>t DEF Dispatch, redisVars
    <2> HIDE DEF x
    <2>3. x \in 0..Len(stream') /\ Entries' = Entries
      BY <2>1, <2>2 DEF Entries
    <2>4. Append(dispatched[r], x) \in Seq(Entries') /\ Append(queue[r], x) \in Seq(Entries')
          /\ Len(Append(queue[r], x)) = Len(queue[r]) + 1
      BY <2>0, <2>1, <2>3
    <2>5. /\ lastID' \in [Replicas -> 0..Len(stream')]
          /\ dispatched' \in [Replicas -> Seq(Entries')]
          /\ batch' \in [Replicas -> Seq(Entries')]
      BY <1>g, <2>1, <2>2, <2>3, <2>4
    <2>6. \/ queue' = queue
          \/ Accepts(r) /\ queue' = [queue EXCEPT ![r] = Append(@, x)]
      BY <1>5 DEF Dispatch, x
    <2>7. queue' \in [Replicas -> Seq(Entries')]
      BY <1>g, <2>4, <2>6
    <2>8. ASSUME NEW q \in Replicas PROVE Bounded(q)'
      <3>1. Len(batch'[q]) <= ReadCount
        <4>1. batch'[q] = IF q = r THEN Tail(batch[r]) ELSE batch[q]
          BY <1>g, <2>2
        <4>2. Len(batch[q]) <= ReadCount /\ Len(batch[r]) <= ReadCount
          BY <1>t DEF Bounded
        <4>3. Len(Tail(batch[r])) \in Nat /\ Len(batch[r]) \in Nat
          BY <2>0, <2>1
        <4> QED BY <2>1, <4>1, <4>2, <4>3, Limits
      <3>2. CASE queue'[q] = queue[q]
        BY <1>t, <2>2, <3>1, <3>2 DEF Bounded
      <3>3. CASE q = r /\ Accepts(r) /\ queue'[q] = Append(queue[r], x)
        <4>1. Len(queue'[q]) = Len(queue[r]) + 1 /\ Len(queue[r]) - served[r] < QueueCap
              /\ served[r] <= Len(queue[r])
          BY <1>t, <2>4, <3>3 DEF Accepts, Bounded
        <4>2. Len(queue[r]) \in Nat /\ served[r] \in Nat /\ QueueCap \in Nat /\ served'[q] = served[r]
          BY <2>0, <2>2, <3>3, Limits
        <4>3. served'[q] <= Len(queue'[q]) /\ Len(queue'[q]) - served'[q] <= QueueCap
          BY <4>1, <4>2
        <4> QED BY <3>1, <4>3 DEF Bounded
      <3> QED BY <1>g, <2>6, <3>2, <3>3
    <2> QED BY <1>t, <1>g, <1>s, <1>c, <2>2, <2>5, <2>7, <2>8 DEF TypeOK, Bounded
  <1>6. ASSUME NEW r \in Replicas, Cancel(r) \/ CloseHub(r) PROVE TypeOK'
    <2>1. /\ up' \in [Replicas -> BOOLEAN]
          /\ hub' \in [Replicas -> {"running", "done"}]
          /\ phase' \in [Clients -> {"new", "registering", "joined", "replaying", "live", "ended"}]
          /\ UNCHANGED <<readerVars, queue, served, since, joined, got, replayed, cut, unread>>
      BY <1>6, <1>t DEF Cancel, CloseHub, hubVars, clientVars
    <2>2. \A q \in Replicas : Bounded(q)'
      BY <1>t, <2>1 DEF readerVars, Bounded
    <2> QED BY <1>t, <1>g, <1>s, <2>1, <2>2 DEF readerVars, TypeOK, Bounded
  <1>7. ASSUME NEW r \in Replicas, NEW slow \in SUBSET ClientsOf(r), Serve(r, slow) PROVE TypeOK'
    <2>1. served[r] \in Nat /\ served[r] + 1 \in Nat
      BY <1>t
    <2>2. /\ served' = [served EXCEPT ![r] = served[r] + 1]
          /\ UNCHANGED <<up, readerVars, hub, queue, since, joined, replayed, cut, unread>>
          /\ phase' \in [Clients -> {"new", "registering", "joined", "replaying", "live", "ended"}]
      BY <1>7, <1>t DEF Serve
    <2>3. got' \in [Clients -> SUBSET Nat]
      BY <1>7, <1>t, <2>1 DEF Serve
    <2>4. served' \in [Replicas -> Nat]
      BY <1>t, <2>1, <2>2
    <2>5. ASSUME NEW q \in Replicas PROVE Bounded(q)'
      <3>1. queue[q] \in Seq(Entries')
        BY <1>g
      <3>2. Len(queue[q]) \in Nat /\ served[q] \in Nat /\ QueueCap \in Nat
        BY <1>t, <3>1, Limits
      <3>3. CASE q = r
        <4>1. served'[q] = served[q] + 1 /\ served[q] < Len(queue[q])
              /\ Len(queue[q]) - served[q] <= QueueCap
          BY <1>7, <1>t, <2>2, <3>3 DEF Serve, Bounded
        <4>2. served'[q] <= Len(queue[q]) /\ Len(queue[q]) - served'[q] <= QueueCap
          BY <3>2, <4>1
        <4> QED BY <1>t, <2>2, <4>2 DEF readerVars, Bounded
      <3>4. CASE q # r
        BY <1>t, <2>2, <3>4 DEF readerVars, Bounded
      <3> QED BY <3>3, <3>4
    <2> QED BY <1>t, <1>g, <1>s, <2>2, <2>3, <2>4, <2>5 DEF readerVars, TypeOK, Bounded
  <1>8. ASSUME NEW c \in Clients,
               Join(c) \/ Refuse(c) \/ GoLive(c) \/ ReplayFails(c) \/ ReplayNothing(c) \/ Leave(c)
        PROVE  TypeOK'
    <2>1. joined' \in [Clients -> Nat] /\ unread' \subseteq Clients
      BY <1>8, <1>t, ReplicaOfClient DEF Join, Refuse, GoLive, ReplayFails, ReplayNothing, Leave
    <2>2. /\ phase' \in [Clients -> {"new", "registering", "joined", "replaying", "live", "ended"}]
          /\ UNCHANGED <<up, readerVars, hubVars, since, got, replayed, cut>>
      BY <1>8, <1>t DEF Join, Refuse, GoLive, ReplayFails, ReplayNothing, Leave
    <2> QED BY <1>t, <1>g, <1>s, <1>r, <2>1, <2>2 DEF TypeOK, Bounded
  <1>9. ASSUME NEW c \in Clients, NEW s \in SinceIds, Open(c, s) PROVE TypeOK'
    <2>1. /\ phase' \in [Clients -> {"new", "registering", "joined", "replaying", "live", "ended"}]
          /\ UNCHANGED <<up, readerVars, hubVars, joined, got, replayed, cut, unread>>
      BY <1>9, <1>t DEF Open
    <2>2. since' \in [Clients -> SinceIds']
      BY <1>9, <1>g, SinceGrows DEF Open
    <2> QED BY <1>t, <1>g, <1>s, <1>r, <2>1, <2>2 DEF TypeOK, Bounded
  <1>10. ASSUME NEW c \in Clients, Replay(c) PROVE TypeOK'
    <2>1. /\ phase' \in [Clients -> {"new", "registering", "joined", "replaying", "live", "ended"}]
          /\ stream' = stream /\ UNCHANGED <<up, readerVars, hubVars, since, joined, got, unread>>
      BY <1>10, <1>t DEF Replay, redisVars
    <2>2. /\ replayed' \in [Clients -> SUBSET Entries']
          /\ cut' \in [Clients -> SUBSET Entries']
      BY <1>10, <1>g, <2>1 DEF Replay, Oldest, Entries
    <2> QED BY <1>t, <1>g, <1>s, <1>r, <2>1, <2>2 DEF TypeOK, Bounded
  <1> QED
    BY <1>2, <1>3, <1>4, <1>5, <1>6, <1>7, <1>8, <1>9, <1>10 DEF Next

-----------------------------------------------------------------------------
(* The subscriber.                                                         *)

\* What was trimmed stays trimmed.
LEMMA StillNext ==
  ASSUME trimmed \in Nat, trimmed' \in Nat, trimmed <= trimmed',
         NEW x \in Nat, NEW y \in Nat, NextAfter(x, y)
  PROVE  x < y /\ \A z \in x + 1..y - 1 : z <= trimmed'
  <1> SUFFICES ASSUME NEW z \in x + 1..y - 1 PROVE z <= trimmed'
    BY DEF NextAfter
  <1>1. z \in Int /\ z <= trimmed
    BY DEF NextAfter
  <1> QED BY <1>1

LEMMA ElementOf ==
  ASSUME NEW S, NEW s \in Seq(S), NEW i \in 1..Len(s)
  PROVE  s[i] \in S
  OBVIOUS

\* A step that leaves the subscriber of d alone.
LEMMA ReaderFrame ==
  ASSUME TypeOK, [Next]_streamVars, NEW d \in Replicas, Reading(d), InOrder(d),
         UNCHANGED <<reader[d], lastID[d], askedAt[d], batch[d], dispatched[d]>>
  PROVE  Reading(d)' /\ InOrder(d)'
  <1>t. /\ trimmed \in Nat /\ trimmed' \in Nat /\ trimmed <= trimmed'
        /\ lastID[d] \in Nat
        /\ batch[d] \in Seq(Nat) /\ dispatched[d] \in Seq(Nat)
    <2>1. Entries \subseteq Nat
      BY DEF Entries
    <2>2. batch[d] \in Seq(Entries) /\ dispatched[d] \in Seq(Entries)
      BY Typed
    <2>3. batch[d] \in Seq(Nat) /\ dispatched[d] \in Seq(Nat)
      BY <2>1, <2>2, SeqMono
    <2> QED BY <2>3, Typed, StreamGrows
  <1>1. ASSUME lastID[d] # 0, batch[d] # <<>> PROVE NextAfter(lastID[d], batch[d][1])'
    <2>1. batch[d][1] \in Nat /\ batch'[d][1] = batch[d][1] /\ lastID'[d] = lastID[d]
      BY <1>t, <1>1
    <2>2. NextAfter(lastID[d], batch[d][1])
      BY <1>1 DEF Reading
    <2> DEFINE x == lastID[d]
               y == batch[d][1]
    <2> HIDE DEF x, y
    <2>3. x \in Nat /\ y \in Nat /\ NextAfter(x, y)
      BY <1>t, <2>1, <2>2 DEF x, y
    <2>4. x < y /\ \A z \in x + 1..y - 1 : z <= trimmed'
      BY <1>t, <2>3, StillNext
    <2> QED BY <2>1, <2>4 DEF NextAfter, x, y
  <1>2. Reading(d)'
    BY <1>1 DEF Reading
  <1>3. InOrder(d)'
    <2> SUFFICES ASSUME NEW i \in 1..Len(dispatched[d]) - 1
                 PROVE  NextAfter(dispatched[d][i], dispatched[d][i + 1])'
      BY DEF InOrder
    <2> DEFINE x == dispatched[d][i]
               y == dispatched[d][i + 1]
    <2>1. dispatched'[d][i] = x /\ dispatched'[d][i + 1] = y
      OBVIOUS
    <2>i. i \in 1..Len(dispatched[d]) /\ i + 1 \in 1..Len(dispatched[d])
      BY <1>t
    <2>n. x \in Nat /\ y \in Nat
      BY <1>t, <2>i, ElementOf
    <2>c. NextAfter(x, y)
      BY DEF InOrder
    <2> HIDE DEF x, y
    <2>2. x < y /\ \A z \in x + 1..y - 1 : z <= trimmed'
      BY <1>t, <2>n, <2>c, StillNext
    <2> QED BY <2>1, <2>2 DEF NextAfter, x, y
  <1> QED BY <1>2, <1>3

\* The subscriber asks, waits, fails or stops, with nothing to hand over.
LEMMA ReaderIdles ==
  ASSUME TypeOK, NEW d \in Replicas, Reading(d), InOrder(d),
         Ask(d) \/ Timeout(d) \/ ReadFails(d) \/ ReaderStops(d)
  PROVE  Reading(d)' /\ InOrder(d)'
  <1>t. d \in DOMAIN reader /\ d \in DOMAIN askedAt
    BY Typed
  <1>1. UNCHANGED <<trimmed, lastID, batch, dispatched>>
    BY DEF Ask, Timeout, ReadFails, ReaderStops, redisVars
  <1>2. batch[d] = <<>> /\ reader'[d] # "dispatching"
    BY <1>t DEF Ask, Timeout, ReadFails, ReaderStops, Reading
  <1>3. lastID[d] # 0 /\ reader'[d] = "waiting" => askedAt'[d] = lastID[d]
    BY <1>t DEF Ask, Timeout, ReadFails, ReaderStops, Reading
  <1>4. InOrder(d)'
    BY <1>1 DEF InOrder, NextAfter
  <1> QED BY <1>1, <1>2, <1>3, <1>4 DEF Reading

\* A page arrives: it continues where the last one ended.
LEMMA PageArrives ==
  ASSUME TypeOK, NewestIsKept, NEW d \in Replicas, Reading(d), InOrder(d), Deliver(d)
  PROVE  Reading(d)' /\ InOrder(d)'
  <1> DEFINE a == askedAt[d]
             K == KeptAfter(a)
             m == Cardinality(Oldest(a, ReadCount))
             b == [i \in 1..m |-> K + i]
  <1>1. /\ UNCHANGED <<trimmed, lastID, askedAt, dispatched>>
        /\ batch'[d] = b /\ reader'[d] = "dispatching" /\ reader[d] = "waiting"
    BY Typed DEF Deliver, redisVars
  <1>2. /\ K \in Nat /\ m \in Nat /\ 1 <= m /\ a <= K
        /\ \A z \in a + 1..K : z <= trimmed
    BY Page
  <1>a. a \in Nat
    BY Typed
  <1>3. lastID[d] # 0 => a = lastID[d]
    BY <1>1 DEF Reading
  <1> HIDE DEF K, m, a
  <1>4. Len(b) = m /\ b # <<>> /\ b[1] = K + 1
    BY <1>2
  <1>5. \A i \in 1..m - 1 : b[i + 1] = b[i] + 1
    <2> SUFFICES ASSUME NEW i \in 1..m - 1 PROVE b[i + 1] = b[i] + 1
      OBVIOUS
    <2>1. i \in 1..m /\ i + 1 \in 1..m
      BY <1>2
    <2>2. K + (i + 1) = (K + i) + 1
      BY <1>2, <2>1
    <2> QED BY <2>1, <2>2
  <1> HIDE DEF b
  <1>6. a < K + 1 /\ (K + 1) - 1 = K
    BY <1>2, <1>a
  <1>7. lastID[d] # 0 =>
          lastID[d] < b[1] /\ \A z \in lastID[d] + 1..b[1] - 1 : z <= trimmed'
    BY <1>1, <1>2, <1>3, <1>4, <1>6
  <1>8. InOrder(d)'
    BY <1>1 DEF InOrder, NextAfter
  <1>9. Reading(d)'
    <2>1. b # <<>> /\ \A i \in 1..Len(b) - 1 : b[i + 1] = b[i] + 1
      BY <1>4, <1>5
    <2>2. /\ lastID'[d] # 0 <=> dispatched'[d] # <<>>
          /\ dispatched'[d] # <<>> => lastID'[d] = dispatched'[d][Len(dispatched'[d])]
      BY <1>1 DEF Reading
    <2>3. (lastID[d] # 0 => NextAfter(lastID[d], batch[d][1]))'
      BY <1>1, <1>7 DEF NextAfter
    <2> QED BY <1>1, <2>1, <2>2, <2>3 DEF Reading
  <1> QED BY <1>8, <1>9

LEMMA EmptyIsEmpty ==
  ASSUME NEW S, NEW s \in Seq(S)
  PROVE  s # <<>> <=> Len(s) # 0
  OBVIOUS

LEMMA Appended ==
  ASSUME NEW S, NEW s \in Seq(S), NEW e \in S
  PROVE  /\ Append(s, e) # <<>> /\ Len(Append(s, e)) = Len(s) + 1
         /\ Append(s, e)[Len(s) + 1] = e
         /\ \A i \in 1..Len(s) : Append(s, e)[i] = s[i]
  <1>1. /\ Len(s) \in Nat /\ Append(s, e) \in Seq(S)
        /\ Len(Append(s, e)) = Len(s) + 1
        /\ Append(s, e)[Len(s) + 1] = e
    OBVIOUS
  <1>2. \A i \in 1..Len(s) : Append(s, e)[i] = s[i]
    OBVIOUS
  <1>3. Append(s, e) # <<>>
    BY <1>1, EmptyIsEmpty
  <1> QED BY <1>1, <1>2, <1>3

\* An entry is handed over: the one after the last, or after trimmed ones.
LEMMA HandedOver ==
  ASSUME TypeOK, NEW d \in Replicas, Reading(d), InOrder(d), Dispatch(d)
  PROVE  Reading(d)' /\ InOrder(d)'
  <1> DEFINE b == batch[d]
             h == dispatched[d]
             n == Len(b)
             k == Len(h)
             x == b[1]
  <1>t. Entries \subseteq Nat \ {0} /\ b \in Seq(Entries) /\ h \in Seq(Entries)
    BY Typed DEF Entries
  <1>0. b \in Seq(Nat \ {0}) /\ h \in Seq(Nat \ {0}) /\ b # <<>>
    <2>1. b # <<>>
      BY DEF Dispatch, Reading
    <2> HIDE DEF b, h
    <2> QED BY <1>t, <2>1, SeqMono
  <1>1. /\ trimmed' = trimmed
        /\ lastID'[d] = Head(b) /\ dispatched'[d] = Append(h, Head(b))
        /\ batch'[d] = Tail(b)
        /\ reader'[d] = IF n = 1 THEN "idle" ELSE "dispatching"
    BY Typed DEF Dispatch, redisVars
  <1>2. /\ \A i \in 1..n - 1 : b[i + 1] = b[i] + 1
        /\ h # <<>> => lastID[d] = h[k] /\ NextAfter(lastID[d], x)
        /\ \A i \in 1..k - 1 : NextAfter(h[i], h[i + 1])
    <2>1. lastID[d] # 0 <=> h # <<>>
      BY DEF Reading
    <2> QED BY <1>0, <2>1 DEF Reading, InOrder
  <1> HIDE DEF b, h
  <1>3. n \in Nat \ {0} /\ k \in Nat /\ x \in Nat \ {0} /\ Head(b) = x
    BY <1>0
  <1>4. /\ Len(Tail(b)) = n - 1 /\ (Tail(b) # <<>> <=> n # 1)
        /\ \A i \in 1..n - 1 : Tail(b)[i] = b[i + 1]
    <2>1. Len(Tail(b)) = n - 1 /\ Tail(b) \in Seq(Nat \ {0})
      BY <1>0
    <2>2. \A i \in 1..n - 1 : Tail(b)[i] = b[i + 1]
      BY <1>0
    <2>3. Tail(b) # <<>> <=> Len(Tail(b)) # 0
      BY <2>1, EmptyIsEmpty, Zenon
    <2>4. n - 1 # 0 <=> n # 1
      BY <1>3
    <2> QED BY <2>1, <2>2, <2>3, <2>4
  <1>5. /\ Append(h, x) # <<>> /\ Len(Append(h, x)) = k + 1 /\ Append(h, x)[k + 1] = x
        /\ \A i \in 1..k : Append(h, x)[i] = h[i]
    <2>1. h \in Seq(Nat \ {0}) /\ x \in Nat \ {0}
      BY <1>0, <1>3
    <2> HIDE DEF x
    <2> QED BY <2>1, Appended
  <1> DEFINE tl == Tail(b)
             ap == Append(h, x)
  <1>6. /\ lastID'[d] = x /\ dispatched'[d] = ap /\ batch'[d] = tl
        /\ reader'[d] \in {"idle", "dispatching"}
        /\ batch'[d] # <<>> <=> reader'[d] = "dispatching"
    BY <1>1, <1>3, <1>4
  <1>7. /\ Len(tl) = n - 1 /\ \A i \in 1..n - 1 : tl[i] = b[i + 1]
        /\ tl # <<>> => n # 1
    BY <1>4
  <1>8. ap # <<>> /\ Len(ap) = k + 1 /\ ap[k + 1] = x /\ \A i \in 1..k : ap[i] = h[i]
    BY <1>5
  <1> HIDE DEF tl, ap, n, k, x
  <1>9. \A i \in 1..Len(tl) - 1 : tl[i + 1] = tl[i] + 1
    <2> SUFFICES ASSUME NEW i \in 1..(n - 1) - 1 PROVE tl[i + 1] = tl[i] + 1
      BY <1>7
    <2>1. i \in 1..n - 1 /\ i + 1 \in 1..n - 1
      BY <1>3
    <2> QED BY <1>2, <1>7, <2>1
  <1>10. tl # <<>> => x < tl[1] /\ \A z \in x + 1..tl[1] - 1 : z <= trimmed'
    <2> SUFFICES ASSUME tl # <<>> PROVE x < tl[1] /\ \A z \in x + 1..tl[1] - 1 : z <= trimmed'
      OBVIOUS
    <2>1. 1 \in 1..n - 1
      BY <1>3, <1>7
    <2>2. tl[1] = b[1] + 1
      BY <1>2, <1>7, <2>1
    <2>3. tl[1] = x + 1
      BY <2>2 DEF x
    <2>4. x < x + 1 /\ \A z \in x + 1..(x + 1) - 1 : FALSE
      BY <1>3
    <2> QED BY <2>3, <2>4
  <1>11. Reading(d)'
    <2>1. /\ lastID'[d] # 0 <=> dispatched'[d] # <<>>
          /\ dispatched'[d] # <<>> => lastID'[d] = dispatched'[d][Len(dispatched'[d])]
      BY <1>3, <1>6, <1>8
    <2>2. (lastID[d] # 0 /\ batch[d] # <<>> => NextAfter(lastID[d], batch[d][1]))'
      BY <1>6, <1>10 DEF NextAfter
    <2>3. \A i \in 1..Len(batch'[d]) - 1 : batch'[d][i + 1] = batch'[d][i] + 1
      BY <1>6, <1>9
    <2>4. reader'[d] # "waiting"
      BY <1>6
    <2> QED BY <1>6, <2>1, <2>2, <2>3, <2>4 DEF Reading
  <1>12. InOrder(d)'
    BY <1>1, <1>2, <1>3, <1>6, <1>8 DEF InOrder, NextAfter
  <1> QED BY <1>11, <1>12

LEMMA ReadersNext ==
  ASSUME TypeOK, NewestIsKept, [Next]_streamVars, NEW d \in Replicas, Reading(d), InOrder(d)
  PROVE  Reading(d)' /\ InOrder(d)'
  <1>t. /\ DOMAIN reader = Replicas /\ DOMAIN lastID = Replicas /\ DOMAIN askedAt = Replicas
        /\ DOMAIN batch = Replicas /\ DOMAIN dispatched = Replicas
    BY Typed
  <1>1. CASE UNCHANGED readerVars
    <2>1. UNCHANGED <<reader[d], lastID[d], askedAt[d], batch[d], dispatched[d]>>
      BY <1>1 DEF readerVars
    <2> QED BY <2>1, ReaderFrame
  <1>2. ASSUME NEW r \in Replicas,
               \/ Ask(r) \/ Deliver(r) \/ Timeout(r) \/ ReadFails(r) \/ Dispatch(r)
               \/ ReaderStops(r)
        PROVE  Reading(d)' /\ InOrder(d)'
    <2>1. CASE r = d
      BY <1>2, <2>1, ReaderIdles, PageArrives, HandedOver
    <2>2. CASE r # d
      <3>1. UNCHANGED <<reader[d], lastID[d], askedAt[d], batch[d], dispatched[d]>>
        BY <1>2, <1>t, <2>2 DEF Ask, Deliver, Timeout, ReadFails, Dispatch, ReaderStops
      <3> QED BY <3>1, ReaderFrame
    <2> QED BY <2>1, <2>2
  <1>3. ASSUME NEW r \in Replicas,
               \/ Cancel(r) \/ CloseHub(r)
               \/ \E slow \in SUBSET ClientsOf(r) : Serve(r, slow)
        PROVE  UNCHANGED readerVars
    BY <1>3 DEF Cancel, CloseHub, Serve
  <1>4. ASSUME NEW c \in Clients,
               \/ \E s \in SinceIds : Open(c, s)
               \/ Join(c) \/ Refuse(c) \/ Replay(c) \/ GoLive(c) \/ ReplayFails(c) \/ ReplayNothing(c) \/ Leave(c)
        PROVE  UNCHANGED readerVars
    BY <1>4 DEF Open, Join, Refuse, Replay, GoLive, ReplayFails, ReplayNothing, Leave
  <1>5. CASE UNCHANGED streamVars \/ \E to \in Targets : Publish(to)
    BY <1>1, <1>5 DEF streamVars, Publish
  <1> QED BY <1>1, <1>2, <1>3, <1>4, <1>5 DEF Next

-----------------------------------------------------------------------------
(* The hub and its connections.                                            *)

\* The queue of a hub only grows, and who an event is for does not change.
LEMMA QueueGrows ==
  ASSUME TypeOK, [Next]_streamVars, NEW r \in Replicas
  PROVE  /\ Len(queue[r]) \in Nat /\ Len(queue[r]) <= Len(queue'[r])
         /\ \A i \in 1..Len(queue[r]) :
              /\ queue[r][i] \in Entries
              /\ queue'[r][i] = queue[r][i]
              /\ stream'[queue[r][i]] = stream[queue[r][i]]
  <1> DEFINE n == Len(queue[r])
  <1>0. queue[r] \in Seq(Entries) /\ n \in Nat /\ \A i \in 1..n : queue[r][i] \in Entries
    BY Typed
  <1>1. \A i \in 1..n : stream'[queue[r][i]] = stream[queue[r][i]]
    BY <1>0, StreamGrows
  <1>2. CASE queue'[r] = queue[r]
    BY <1>0, <1>1, <1>2
  <1>3. ASSUME NEW x, queue'[r] = Append(queue[r], x)
        PROVE  n <= Len(queue'[r]) /\ \A i \in 1..n : queue'[r][i] = queue[r][i]
    BY <1>0, <1>3
  <1>4. ASSUME NEW q \in Replicas, Dispatch(q)
        PROVE  queue'[r] = queue[r] \/ \E x : queue'[r] = Append(queue[r], x)
    <2>1. DOMAIN queue = Replicas
      BY Typed
    <2>2. queue' = queue \/ \E x : queue' = [queue EXCEPT ![q] = Append(@, x)]
      BY <1>4 DEF Dispatch
    <2> QED BY <2>1, <2>2
  <1>5. ASSUME NEW q \in Replicas,
               \/ Ask(q) \/ Deliver(q) \/ Timeout(q) \/ ReadFails(q) \/ ReaderStops(q)
               \/ Cancel(q) \/ CloseHub(q) \/ \E slow \in SUBSET ClientsOf(q) : Serve(q, slow)
        PROVE  queue' = queue
    BY <1>5 DEF Ask, Deliver, Timeout, ReadFails, ReaderStops, Cancel, CloseHub, Serve, hubVars
  <1>6. ASSUME NEW c \in Clients,
               \/ \E s \in SinceIds : Open(c, s)
               \/ Join(c) \/ Refuse(c) \/ Replay(c) \/ GoLive(c) \/ ReplayFails(c) \/ ReplayNothing(c) \/ Leave(c)
        PROVE  queue' = queue
    BY <1>6 DEF Open, Join, Refuse, Replay, GoLive, ReplayFails, ReplayNothing, Leave, hubVars
  <1>7. CASE UNCHANGED streamVars \/ \E to \in Targets : Publish(to)
    BY <1>2, <1>7 DEF streamVars, Publish, hubVars
  <1>8. queue'[r] = queue[r] \/ \E x : queue'[r] = Append(queue[r], x)
    BY <1>4, <1>5, <1>6, <1>7 DEF Next, streamVars, Publish, hubVars
  <1> QED BY <1>0, <1>1, <1>2, <1>3, <1>8

\* An event that the hub of c has handled stays what it is.
LEMMA HandledStays ==
  ASSUME TypeOK, [Next]_streamVars, NEW c \in Clients, NEW i \in 1..served[ReplicaOf[c]]
  PROVE  LET r == ReplicaOf[c] IN
           /\ i \in 1..Len(queue[r])
           /\ queue[r][i] \in Entries
           /\ queue'[r][i] = queue[r][i]
           /\ (AddressedTo(c, queue[r][i]))' <=> AddressedTo(c, queue[r][i])
  <1> DEFINE r == ReplicaOf[c]
  <1>1. r \in Replicas
    BY ReplicaOfClient
  <1>2. served[r] \in Nat /\ served[r] <= Len(queue[r])
    BY <1>1 DEF TypeOK
  <1>3. Len(queue[r]) \in Nat /\ i \in 1..served[r]
    BY <1>1, QueueGrows
  <1> HIDE DEF r
  <1>4. i \in 1..Len(queue[r])
    BY <1>2, <1>3
  <1>5. /\ queue[r][i] \in Entries /\ queue'[r][i] = queue[r][i]
        /\ stream'[queue[r][i]] = stream[queue[r][i]]
    BY <1>1, <1>4, QueueGrows
  <1>6. (AddressedTo(c, queue[r][i]))' <=> AddressedTo(c, queue[r][i])
    BY <1>5 DEF AddressedTo
  <1> QED BY <1>4, <1>5, <1>6 DEF r

\* The steps that push nothing to c and do not register it.
LEMMA ServedFrame ==
  ASSUME TypeOK, [Next]_streamVars, NEW c \in Clients, Served(c),
         UNCHANGED <<joined[c], got[c], served[ReplicaOf[c]]>>,
         Registered(c)' => Registered(c)
  PROVE  Served(c)'
  <1> DEFINE r == ReplicaOf[c]
  <1>1. /\ joined[c] <= served[r] /\ got[c] \subseteq 1..served[r]
        /\ \A i \in got[c] : AddressedTo(c, queue[r][i])
        /\ Registered(c) =>
             \A i \in joined[c] + 1..served[r] : AddressedTo(c, queue[r][i]) => i \in got[c]
    BY DEF Served
  <1>2. \A i \in 1..served[r] : (AddressedTo(c, queue[r][i]))' <=> AddressedTo(c, queue[r][i])
    BY HandledStays
  <1>3. joined[c] \in Nat /\ joined[c] + 1..served[r] \subseteq 1..served[r]
    <2>1. joined[c] \in Nat /\ served[r] \in Nat
      BY Typed, ReplicaOfClient
    <2> HIDE DEF r
    <2> QED BY <2>1
  <1> QED BY <1>1, <1>2, <1>3 DEF Served

\* Register: what c will get begins after what the hub has handled.
LEMMA ServedJoin ==
  ASSUME TypeOK, [Next]_streamVars, NEW c \in Clients, Served(c), Join(c)
  PROVE  Served(c)'
  <1> DEFINE r == ReplicaOf[c]
             k == served[r]
  <1>1. k \in Nat /\ got[c] \subseteq 1..k /\ \A i \in got[c] : AddressedTo(c, queue[r][i])
    BY Typed, ReplicaOfClient DEF Served
  <1>2. joined'[c] = k /\ got'[c] = got[c] /\ served'[r] = k
    BY Typed DEF Join, hubVars
  <1>3. \A i \in 1..k : (AddressedTo(c, queue[r][i]))' <=> AddressedTo(c, queue[r][i])
    BY HandledStays
  <1> HIDE DEF k
  <1>4. k <= k /\ k + 1..k = {}
    BY <1>1
  <1> QED BY <1>1, <1>2, <1>3, <1>4 DEF Served

\* The hub handles an event: c gets it if it is registered and the event is for
\* it, or is dropped.
LEMMA ServedServe ==
  ASSUME TypeOK, [Next]_streamVars, NEW c \in Clients, Served(c),
         NEW slow \in SUBSET ClientsOf(ReplicaOf[c]), Serve(ReplicaOf[c], slow)
  PROVE  Served(c)'
  <1> DEFINE r == ReplicaOf[c]
             k == served[r]
             x == queue[r][k + 1]
             T == {d \in ClientsOf(r) : Registered(d) /\ AddressedTo(d, x)}
  <1>0. r \in Replicas /\ k \in Nat /\ joined[c] \in Nat
    BY Typed, ReplicaOfClient
  <1>1. /\ joined[c] <= k /\ got[c] \subseteq 1..k
        /\ \A i \in got[c] : AddressedTo(c, queue[r][i])
        /\ Registered(c) =>
             \A i \in joined[c] + 1..k : AddressedTo(c, queue[r][i]) => i \in got[c]
    BY DEF Served
  <1>2. /\ stream' = stream /\ queue' = queue /\ joined' = joined /\ served'[r] = k + 1
        /\ slow \subseteq T
        /\ got'[c] = IF c \in T \ slow THEN got[c] \cup {k + 1} ELSE got[c]
        /\ phase'[c] = IF c \in slow THEN "ended" ELSE phase[c]
    BY <1>0, Typed DEF Serve, redisVars
  <1>3. c \in T <=> Registered(c) /\ AddressedTo(c, x)
    BY DEF ClientsOf
  <1>4. \A y : (AddressedTo(c, y))' <=> AddressedTo(c, y)
    BY <1>2 DEF AddressedTo
  <1>5. Registered(c)' => Registered(c) /\ c \notin slow
    BY <1>2 DEF Registered
  <1>6. /\ got'[c] \subseteq got[c] \cup {k + 1} /\ got[c] \subseteq got'[c]
        /\ k + 1 \in got'[c] => k + 1 \in got[c] \/ AddressedTo(c, x)
        /\ Registered(c)' /\ AddressedTo(c, x) => k + 1 \in got'[c]
    BY <1>2, <1>3, <1>5
  <1> HIDE DEF T, k, r
  <1>7. /\ 1..k \cup {k + 1} \subseteq 1..k + 1 /\ joined[c] <= k + 1
        /\ \A i \in joined[c] + 1..k + 1 : i \in joined[c] + 1..k \/ i = k + 1
    BY <1>0, <1>1
  <1> HIDE DEF x
  <1>8. \A i \in got'[c] : AddressedTo(c, queue[r][i])
    BY <1>1, <1>6 DEF x
  <1>9. Registered(c)' =>
          \A i \in joined[c] + 1..k + 1 : AddressedTo(c, queue[r][i]) => i \in got'[c]
    BY <1>1, <1>5, <1>6, <1>7 DEF x
  <1>10. got'[c] \subseteq 1..k + 1
    BY <1>1, <1>6, <1>7
  <1> QED BY <1>2, <1>4, <1>7, <1>8, <1>9, <1>10 DEF Served, r

\* The steps of others, and those of c other than Join and Replay.
LEMMA ClientSteps ==
  ASSUME TypeOK, [Next]_streamVars, NEW c \in Clients
  PROVE  \/ /\ UNCHANGED <<joined[c], got[c], served[ReplicaOf[c]], since[c], replayed[c], cut[c]>>
            /\ Registered(c)' => Registered(c)
            /\ phase'[c] \in {"replaying", "live"} /\ since[c].kind = "stream" /\ c \notin unread' =>
                 phase[c] \in {"replaying", "live"} /\ c \notin unread
         \/ /\ UNCHANGED <<joined[c], got[c], served[ReplicaOf[c]], replayed[c]>>
            /\ ~Registered(c) /\ ~Registered(c)'
         \/ Join(c)
         \/ Replay(c)
         \/ \E slow \in SUBSET ClientsOf(ReplicaOf[c]) : Serve(ReplicaOf[c], slow)
  <1> DEFINE Frame == /\ UNCHANGED <<joined[c], got[c], served[ReplicaOf[c]], since[c], replayed[c], cut[c]>>
                      /\ Registered(c)' => Registered(c)
                      /\ phase'[c] \in {"replaying", "live"} /\ since[c].kind = "stream" /\ c \notin unread' =>
                           phase[c] \in {"replaying", "live"} /\ c \notin unread
             Opens == /\ UNCHANGED <<joined[c], got[c], served[ReplicaOf[c]], replayed[c]>>
                      /\ ~Registered(c) /\ ~Registered(c)'
  <1>t. DOMAIN phase = Clients /\ DOMAIN served = Replicas /\ DOMAIN since = Clients
        /\ DOMAIN joined = Clients /\ DOMAIN replayed = Clients /\ DOMAIN cut = Clients
        /\ ReplicaOf[c] \in Replicas
    BY Typed, ReplicaOfClient
  <1>1. CASE UNCHANGED <<clientVars, served>>
    BY <1>1 DEF clientVars, Registered
  <1>2. CASE UNCHANGED streamVars \/ \E to \in Targets : Publish(to)
    BY <1>1, <1>2 DEF streamVars, Publish, hubVars
  <1>3. ASSUME NEW r \in Replicas,
               \/ Ask(r) \/ Deliver(r) \/ Timeout(r) \/ ReadFails(r) \/ Dispatch(r)
               \/ ReaderStops(r) \/ Cancel(r)
        PROVE  UNCHANGED <<clientVars, served>>
    BY <1>3 DEF Ask, Deliver, Timeout, ReadFails, Dispatch, ReaderStops, Cancel, hubVars
  <1>4. ASSUME NEW r \in Replicas, CloseHub(r)
        PROVE  Frame
    BY <1>4 DEF CloseHub, Registered
  <1>5. ASSUME NEW r \in Replicas, NEW slow \in SUBSET ClientsOf(r), Serve(r, slow), r # ReplicaOf[c]
        PROVE  Frame
    <2>1. c \notin ClientsOf(r)
      BY <1>5 DEF ClientsOf
    <2>2. /\ phase'[c] = IF c \in slow THEN "ended" ELSE phase[c]
          /\ UNCHANGED <<joined, since, replayed, cut, unread>>
          /\ served'[ReplicaOf[c]] = served[ReplicaOf[c]]
      BY <1>5, <1>t DEF Serve
    <2>3. got'[c] = got[c]
      BY <1>5, <2>1 DEF Serve
    <2> QED BY <2>1, <2>2, <2>3 DEF Registered
  <1>6. ASSUME NEW d \in Clients, d # c,
               \/ \E s \in SinceIds : Open(d, s)
               \/ Join(d) \/ Refuse(d) \/ Replay(d) \/ GoLive(d) \/ ReplayFails(d) \/ ReplayNothing(d) \/ Leave(d)
        PROVE  Frame
    BY <1>6, <1>t DEF Open, Join, Refuse, Replay, GoLive, ReplayFails, ReplayNothing, Leave, Registered, hubVars
  <1>7. ASSUME \E s \in SinceIds : Open(c, s)
        PROVE  Opens
    BY <1>7, <1>t DEF Open, Registered, hubVars
  <1>8. ASSUME Refuse(c) \/ GoLive(c) \/ ReplayFails(c) \/ ReplayNothing(c) \/ Leave(c)
        PROVE  Frame
    BY <1>8, <1>t DEF Refuse, GoLive, ReplayFails, ReplayNothing, Leave, Registered, hubVars
  <1> QED BY <1>1, <1>2, <1>3, <1>4, <1>5, <1>6, <1>7, <1>8 DEF Next, clientVars, Registered

LEMMA ServedNext ==
  ASSUME TypeOK, [Next]_streamVars, NEW c \in Clients, Served(c)
  PROVE  Served(c)'
  <1>1. CASE Replay(c)
    BY <1>1, ServedFrame, Typed DEF Replay, Registered, hubVars
  <1> QED BY <1>1, ClientSteps, ServedFrame, ServedJoin, ServedServe

\* The steps that leave the backlog of c alone.
LEMMA ReplayedFrame ==
  ASSUME TypeOK, [Next]_streamVars, NEW c \in Clients, Served(c), Replayed(c),
         UNCHANGED replayed[c],
         phase'[c] \in {"replaying", "live"} /\ since'[c].kind = "stream" /\ c \notin unread' =>
           /\ phase[c] \in {"replaying", "live"} /\ c \notin unread
           /\ UNCHANGED <<joined[c], since[c], cut[c]>>
  PROVE  Replayed(c)'
  <1> DEFINE r == ReplicaOf[c]
  <1>1. joined[c] \in Nat /\ served[r] \in Nat /\ joined[c] <= served[r]
    BY Typed, ReplicaOfClient DEF Served
  <1>2. \A i \in 1..joined[c] :
          /\ queue'[r][i] = queue[r][i]
          /\ (AddressedTo(c, queue[r][i]))' <=> AddressedTo(c, queue[r][i])
    <2>1. 1..joined[c] \subseteq 1..served[r]
      <3> HIDE DEF r
      <3> QED BY <1>1
    <2> QED BY <2>1, HandledStays
  <1>3. \A x \in replayed[c] : stream'[x] = stream[x]
    BY Typed, StreamGrows
  <1>4. \A x \in replayed'[c] : (AddressedTo(c, x))'
    BY <1>3 DEF Replayed, AddressedTo
  <1> QED BY <1>2, <1>4 DEF Replayed, AddressedTo

\* Replay: an entry after the since id is in the page that XRANGE returns, or
\* trimmed, or beyond the limit.
LEMMA ReplayedReplay ==
  ASSUME TypeOK, [Next]_streamVars, NEW c \in Clients, Served(c), Replay(c)
  PROVE  Replayed(c)'
  <1> DEFINE r == ReplicaOf[c]
             a == since[c].at
             page == Oldest(a, ReplayLimit)
  <1>1. /\ stream' = stream /\ queue' = queue /\ since' = since /\ joined' = joined
        /\ replayed'[c] = {x \in page : AddressedTo(c, x)}
        /\ cut'[c] = {x \in Entries : a < x /\ OutOfReach(a, x)}
    BY Typed DEF Replay, redisVars, hubVars
  <1>2. \A x : (AddressedTo(c, x))' <=> AddressedTo(c, x)
    BY <1>1 DEF AddressedTo
  <1>3. \A i \in 1..joined[c] : queue[r][i] \in Entries
    <2>1. joined[c] \in Nat /\ served[r] \in Nat /\ joined[c] <= served[r]
      BY Typed, ReplicaOfClient DEF Served
    <2>2. 1..joined[c] \subseteq 1..served[r]
      <3> HIDE DEF r
      <3> QED BY <2>1
    <2> QED BY <2>2, HandledStays
  <1>4. \A x \in Entries : a < x => x \in page \/ OutOfReach(a, x)
    <2>1. Entries \subseteq Nat /\ trimmed \in Nat
      BY Typed DEF Entries
    <2> SUFFICES ASSUME NEW x \in Entries, a < x, ~OutOfReach(a, x)
                 PROVE  x \in page
      OBVIOUS
    <2>2. KeptAfter(a) < x
      BY <2>1 DEF OutOfReach, KeptAfter
    <2>3. KeptAfter(a) \in Nat /\ ReplayLimit \in Nat
      <3>1. a \in Nat
        BY Typed DEF SinceIds, NoSince, Entries
      <3> QED BY <2>1, <3>1, Limits DEF KeptAfter
    <2>4. x <= KeptAfter(a) + ReplayLimit
      BY <2>1, <2>3 DEF OutOfReach
    <2> QED BY <2>2, <2>4 DEF Oldest
  <1> HIDE DEF page
  <1>5. \A i \in 1..joined[c] :
          a < queue[r][i] /\ AddressedTo(c, queue[r][i]) => queue[r][i] \in replayed'[c] \cup cut'[c]
    BY <1>1, <1>3, <1>4
  <1> QED BY <1>1, <1>2, <1>5 DEF Replayed

LEMMA ReplayedNext ==
  ASSUME TypeOK, [Next]_streamVars, NEW c \in Clients, Served(c), Replayed(c)
  PROVE  Replayed(c)'
  <1>1. CASE Join(c)
    <2>1. phase'[c] = "joined" /\ replayed' = replayed
      BY <1>1, Typed DEF Join
    <2> QED BY <2>1, ReplayedFrame
  <1>2. CASE \E slow \in SUBSET ClientsOf(ReplicaOf[c]) : Serve(ReplicaOf[c], slow)
    <2>1. /\ UNCHANGED <<joined, since, replayed, cut, unread>>
          /\ phase'[c] \in {"replaying", "live"} => phase'[c] = phase[c]
      BY <1>2 DEF Serve
    <2> QED BY <2>1, ReplayedFrame
  <1>3. CASE /\ UNCHANGED <<joined[c], got[c], served[ReplicaOf[c]], replayed[c]>>
             /\ ~Registered(c) /\ ~Registered(c)'
    BY <1>3, ReplayedFrame DEF Registered
  <1> QED BY <1>1, <1>2, <1>3, ClientSteps, ReplayedFrame, ReplayedReplay

-----------------------------------------------------------------------------
(* The invariant and what follows from it.                                 *)

LEMMA InitInv == Init => Inv
  <1> SUFFICES ASSUME Init PROVE Inv
    OBVIOUS
  <1>1. TypeOK /\ NewestIsKept
    BY TypesInit DEF Init, NewestIsKept
  <1>2. ASSUME NEW r \in Replicas PROVE Reading(r) /\ InOrder(r)
    BY DEF Init, Reading, InOrder
  <1>3. ASSUME NEW c \in Clients PROVE Served(c) /\ Replayed(c)
    BY ReplicaOfClient DEF Init, Served, Replayed, Registered
  <1> QED BY <1>1, <1>2, <1>3 DEF Inv

LEMMA NextInv ==
  ASSUME Inv, [Next]_streamVars
  PROVE  Inv'
  <1>0. /\ TypeOK /\ NewestIsKept
        /\ \A r \in Replicas : Reading(r) /\ InOrder(r)
        /\ \A c \in Clients : Served(c) /\ Replayed(c)
    BY DEF Inv
  <1>1. TypeOK' /\ NewestIsKept'
    BY <1>0, TypesNext, NewestNext
  <1>2. \A r \in Replicas : Reading(r)' /\ InOrder(r)'
    BY <1>0, ReadersNext
  <1>3. \A c \in Clients : Served(c)' /\ Replayed(c)'
    BY <1>0, ServedNext, ReplayedNext
  <1> QED BY <1>1, <1>2, <1>3 DEF Inv

LEMMA InvHolds == Spec => []Inv
  <1>1. Inv /\ UNCHANGED streamVars => Inv'
    BY NextInv
  <1> QED BY InitInv, NextInv, <1>1, PTL DEF Spec

\* Every state of the transport is well typed: a subscriber never holds more
\* entries than it asks XREAD for, a hub never more events than its buffer, and
\* every position and every id the code keeps is that of an entry that was added.
THEOREM TypeCorrect == Spec => []TypeOK
  BY InvHolds, PTL DEF Inv

\* Subscriber.Run hands the stream to its hub in order and without a gap other
\* than entries that were trimmed, over every failure and time-out of XREAD.
THEOREM SubscribersContiguous == Spec => []SubscriberIsContiguous
  <1>1. ASSUME Inv PROVE SubscriberIsContiguous
    BY <1>1 DEF Inv, InOrder, NextAfter, SubscriberIsContiguous
  <1> QED BY <1>1, InvHolds, PTL

\* A live connection has, from its backlog or live, every event its hub has
\* handled for its user since it joined and, when it resumes from a stream id
\* and XRANGE did not fail, since that id, and none of another user:
\* registering before reading the backlog leaves no gap.
THEOREM ResumesExact == Spec => []ResumeIsExact
  <1>1. ASSUME Inv PROVE ResumeIsExact
    <2>0. ASSUME NEW c \in Clients PROVE Served(c) /\ Replayed(c)
      BY <1>1 DEF Inv
    <2>1. RoutedToRecipient
      BY <2>0 DEF RoutedToRecipient, Has, Served, Replayed
    <2>2. ASSUME NEW c \in Clients, phase[c] = "live", NEW i \in 1..served[ReplicaOf[c]],
                 Owed(c, i), AddressedTo(c, queue[ReplicaOf[c]][i])
          PROVE  queue[ReplicaOf[c]][i] \in Has(c) \cup cut[c]
      <3>1. joined[c] \in Nat /\ served[ReplicaOf[c]] \in Nat
        BY <1>1, Typed, ReplicaOfClient DEF Inv
      <3>2. \/ i \in 1..joined[c] /\ ~(joined[c] < i)
            \/ i \in joined[c] + 1..served[ReplicaOf[c]]
        BY <3>1
      <3>3. CASE i \in 1..joined[c] /\ ~(joined[c] < i)
        BY <2>0, <2>2, <3>3 DEF Owed, Replayed, Has
      <3>4. CASE i \in joined[c] + 1..served[ReplicaOf[c]]
        <4>1. i \in got[c]
          BY <2>0, <2>2, <3>4 DEF Served, Registered
        <4> QED BY <4>1 DEF Has
      <3> QED BY <3>2, <3>3, <3>4
    <2>3. ResumeHasNoGap
      BY <2>2 DEF ResumeHasNoGap
    <2> QED BY <2>1, <2>3 DEF ResumeIsExact
  <1> QED BY <1>1, InvHolds, PTL

-----------------------------------------------------------------------------
(* Every hub is a Fanout.                                                  *)

\* The variables of Fanout, read off the hub of r.
LogOf(r) == [i \in 1..Len(queue[r]) |-> stream[queue[r][i]]]

StandingOf(c) == IF Registered(c) THEN "live" ELSE IF phase[c] = "ended" THEN "ended" ELSE "new"

PhaseOf(r) == [c \in ClientsOf(r) |-> StandingOf(c)]

JoinedOf(r) == [c \in ClientsOf(r) |-> joined[c]]

GotOf(r) == [c \in ClientsOf(r) |-> got[c]]

LEMMA HubInit ==
  ASSUME Init, NEW r \in Replicas
  PROVE  HubOf(r)!Init
  BY DEF Init, HubOf!Init, ClientsOf, Registered

\* The steps of Fanout, in these terms.
LEMMA HubStutters ==
  ASSUME NEW r \in Replicas,
         LogOf(r)' = LogOf(r), served'[r] = served[r],
         \A c \in ClientsOf(r) : /\ StandingOf(c)' = StandingOf(c)
                                 /\ UNCHANGED <<joined[c], got[c]>>
  PROVE  UNCHANGED HubOf(r)!vars
  BY DEF HubOf!vars, LogOf, StandingOf, ClientsOf

LEMMA HubAccepts ==
  ASSUME NEW r \in Replicas, NEW to \in Recipient,
         LogOf(r)' = Append(LogOf(r), to), served'[r] = served[r],
         \A c \in ClientsOf(r) : /\ StandingOf(c)' = StandingOf(c)
                                 /\ UNCHANGED <<joined[c], got[c]>>
  PROVE  HubOf(r)!Next
  <1>1. HubOf(r)!Accept(to)
    BY DEF HubOf!Accept, LogOf, StandingOf, ClientsOf
  <1> QED BY <1>1 DEF HubOf!Next, Recipient

LEMMA HubJoins ==
  ASSUME NEW r \in Replicas, NEW d \in ClientsOf(r),
         LogOf(r)' = LogOf(r), served'[r] = served[r],
         StandingOf(d) = "new", StandingOf(d)' = "live", joined'[d] = served[r],
         got'[d] = got[d],
         \A c \in ClientsOf(r) \ {d} : /\ StandingOf(c)' = StandingOf(c)
                                       /\ UNCHANGED <<joined[c], got[c]>>
  PROVE  HubOf(r)!Next
  <1>1. HubOf(r)!Join(d)
    BY DEF HubOf!Join, LogOf, StandingOf, ClientsOf
  <1> QED BY <1>1 DEF HubOf!Next

LEMMA HubEnds ==
  ASSUME NEW r \in Replicas, NEW S \in SUBSET ClientsOf(r),
         LogOf(r)' = LogOf(r), served'[r] = served[r],
         \A c \in ClientsOf(r) :
           /\ StandingOf(c)' = IF c \in S THEN "ended" ELSE StandingOf(c)
           /\ UNCHANGED <<joined[c], got[c]>>
  PROVE  HubOf(r)!Next
  <1>1. HubOf(r)!End(S)
    BY DEF HubOf!End, LogOf, StandingOf, ClientsOf
  <1> QED BY <1>1 DEF HubOf!Next

LEMMA HubServes ==
  ASSUME NEW r \in Replicas, NEW S \in SUBSET ClientsOf(r),
         LogOf(r)' = LogOf(r), served'[r] = served[r] + 1, served[r] < Len(LogOf(r)),
         \A c \in ClientsOf(r) :
           /\ StandingOf(c)' = IF c \in S THEN "ended" ELSE StandingOf(c)
           /\ joined'[c] = joined[c]
           /\ got'[c] = IF /\ StandingOf(c) = "live" /\ c \notin S
                           /\ LogOf(r)[served[r] + 1] \in {Nobody, UserOf[c]}
                        THEN got[c] \cup {served[r] + 1} ELSE got[c]
  PROVE  HubOf(r)!Next
  <1>1. HubOf(r)!Serve(S)
    BY DEF HubOf!Serve, HubOf!Addressed, LogOf, StandingOf, ClientsOf
  <1> QED BY <1>1 DEF HubOf!Next

\* What a hub has accepted stays as long as its queue does.
LEMMA LogKept ==
  ASSUME TypeOK, [Next]_streamVars, NEW r \in Replicas, queue'[r] = queue[r]
  PROVE  LogOf(r)' = LogOf(r)
  <1>1. \A i \in 1..Len(queue[r]) : stream'[queue[r][i]] = stream[queue[r][i]]
    BY QueueGrows
  <1> QED BY <1>1 DEF LogOf

LEMMA HubOthers ==
  ASSUME TypeOK, [Next]_streamVars, NEW r \in Replicas,
         queue'[r] = queue[r], served'[r] = served[r],
         \A c \in ClientsOf(r) : /\ StandingOf(c)' = StandingOf(c)
                                 /\ UNCHANGED <<joined[c], got[c]>>
  PROVE  UNCHANGED HubOf(r)!vars
  BY LogKept, HubStutters

\* Dispatch: the hub accepts the event, or the event is lost.
LEMMA HubDispatch ==
  ASSUME TypeOK, [Next]_streamVars, NEW r \in Replicas, Reading(r), Dispatch(r)
  PROVE  HubOf(r)!Next \/ UNCHANGED HubOf(r)!vars
  <1> DEFINE x == Head(batch[r])
             q == queue[r]
  <1>1. /\ UNCHANGED <<stream, served, joined, got, phase>>
        /\ queue'[r] = q \/ queue'[r] = Append(q, x)
    BY Typed DEF Dispatch, redisVars, clientVars
  <1>2. x \in Entries /\ q \in Seq(Entries)
    <2>1. batch[r] \in Seq(Entries) /\ batch[r] # <<>> /\ q \in Seq(Entries)
      BY Typed DEF Dispatch, Reading
    <2> QED BY <2>1
  <1>3. \A c \in ClientsOf(r) : /\ StandingOf(c)' = StandingOf(c)
                                /\ UNCHANGED <<joined[c], got[c]>>
    BY <1>1 DEF StandingOf, Registered
  <1>4. CASE queue'[r] = q
    BY <1>1, <1>3, <1>4, HubOthers
  <1>5. CASE queue'[r] = Append(q, x)
    <2>1. stream[x] \in Recipient
      BY <1>2, Typed DEF Entries
    <2>2. LogOf(r)' = [i \in 1..Len(Append(q, x)) |-> stream[Append(q, x)[i]]]
      BY <1>1, <1>5 DEF LogOf
    <2>3. LogOf(r) = [i \in 1..Len(q) |-> stream[q[i]]]
      BY DEF LogOf
    <2> HIDE DEF x, q
    <2>4. Len(Append(q, x)) = Len(q) + 1 /\ Len(q) \in Nat
      BY <1>2
    <2>5. Append(q, x)[Len(q) + 1] = x /\ \A i \in 1..Len(q) : Append(q, x)[i] = q[i]
      BY <1>2
    <2>6. LogOf(r)' = Append(LogOf(r), stream[x])
      BY <2>2, <2>3, <2>4, <2>5
    <2> QED BY <1>1, <1>3, <2>1, <2>6, HubAccepts
  <1> QED BY <1>1, <1>4, <1>5

LEMMA HubServe ==
  ASSUME TypeOK, [Next]_streamVars, NEW r \in Replicas, NEW slow \in SUBSET ClientsOf(r),
         Serve(r, slow)
  PROVE  HubOf(r)!Next
  <1> DEFINE k == served[r]
             x == queue[r][k + 1]
             T == {c \in ClientsOf(r) : Registered(c) /\ AddressedTo(c, x)}
  <1>1. /\ UNCHANGED <<queue, joined>> /\ served'[r] = k + 1
        /\ k < Len(queue[r]) /\ k \in Nat /\ slow \subseteq T
        /\ \A c \in ClientsOf(r) :
             /\ got'[c] = IF c \in T \ slow THEN got[c] \cup {k + 1} ELSE got[c]
             /\ phase'[c] = IF c \in slow THEN "ended" ELSE phase[c]
    BY Typed DEF Serve, ClientsOf
  <1>2. Len(LogOf(r)) = Len(queue[r]) /\ LogOf(r)[k + 1] = stream[x]
    <2>1. Len(queue[r]) \in Nat /\ k + 1 \in 1..Len(queue[r])
      BY <1>1, QueueGrows
    <2> QED BY <2>1 DEF LogOf
  <1>3. LogOf(r)' = LogOf(r)
    BY <1>1, LogKept
  <1> HIDE DEF k, x
  <1>4. ASSUME NEW c \in ClientsOf(r)
        PROVE  /\ StandingOf(c)' = IF c \in slow THEN "ended" ELSE StandingOf(c)
               /\ joined'[c] = joined[c]
               /\ got'[c] = IF /\ StandingOf(c) = "live" /\ c \notin slow
                               /\ stream[x] \in {Nobody, UserOf[c]}
                            THEN got[c] \cup {k + 1} ELSE got[c]
    <2>1. c \in T <=> StandingOf(c) = "live" /\ stream[x] \in {Nobody, UserOf[c]}
      BY DEF StandingOf, AddressedTo
    <2>2. StandingOf(c)' = IF c \in slow THEN "ended" ELSE StandingOf(c)
      BY <1>1 DEF StandingOf, Registered
    <2> HIDE DEF T
    <2> QED BY <1>1, <2>1, <2>2
  <1> HIDE DEF T
  <1> QED BY <1>1, <1>2, <1>3, <1>4, HubServes DEF k

\* The hub is closed, and ends its clients.
LEMMA HubCloses ==
  ASSUME TypeOK, [Next]_streamVars, NEW r \in Replicas, CloseHub(r)
  PROVE  HubOf(r)!Next
  <1> DEFINE S == {c \in ClientsOf(r) : Registered(c)}
  <1>1. /\ UNCHANGED <<queue, served, joined, got>>
        /\ \A c \in ClientsOf(r) : phase'[c] = IF c \in S THEN "ended" ELSE phase[c]
    BY DEF CloseHub, ClientsOf
  <1>2. \A c \in ClientsOf(r) : StandingOf(c)' = IF c \in S THEN "ended" ELSE StandingOf(c)
    BY <1>1 DEF StandingOf, Registered
  <1>3. S \in SUBSET ClientsOf(r)
    OBVIOUS
  <1> HIDE DEF S
  <1> QED BY <1>1, <1>2, <1>3, LogKept, HubEnds

\* The steps of a connection.
LEMMA HubClient ==
  ASSUME TypeOK, [Next]_streamVars, NEW r \in Replicas, NEW d \in ClientsOf(r),
         \/ \E s \in SinceIds : Open(d, s)
         \/ Join(d) \/ Refuse(d) \/ Replay(d) \/ GoLive(d) \/ ReplayFails(d) \/ ReplayNothing(d) \/ Leave(d)
  PROVE  HubOf(r)!Next \/ UNCHANGED HubOf(r)!vars
  <1>0. d \in Clients /\ ReplicaOf[d] = r
    BY DEF ClientsOf
  <1>t. DOMAIN phase = Clients /\ DOMAIN joined = Clients
    BY Typed
  <1>1. /\ UNCHANGED <<queue, served, got>>
        /\ \A c \in ClientsOf(r) \ {d} : phase'[c] = phase[c] /\ joined'[c] = joined[c]
    <2>1. UNCHANGED <<queue, served, got>>
      BY DEF Open, Join, Refuse, Replay, GoLive, ReplayFails, ReplayNothing, Leave, hubVars
    <2>2. \A c \in Clients \ {d} : phase'[c] = phase[c] /\ joined'[c] = joined[c]
      BY <1>0, <1>t DEF Open, Join, Refuse, Replay, GoLive, ReplayFails, ReplayNothing, Leave
    <2> QED BY <2>1, <2>2 DEF ClientsOf
  <1>2. \A c \in ClientsOf(r) \ {d} : StandingOf(c)' = StandingOf(c)
    BY <1>1 DEF StandingOf, Registered
  <1>3. LogOf(r)' = LogOf(r)
    BY <1>1, LogKept
  <1>4. CASE \/ \E s \in SinceIds : Open(d, s)
             \/ Replay(d) \/ GoLive(d) \/ ReplayFails(d) \/ ReplayNothing(d)
    <2>1. joined' = joined /\ StandingOf(d)' = StandingOf(d)
      BY <1>0, <1>t, <1>4 DEF Open, Replay, GoLive, ReplayFails, ReplayNothing, StandingOf, Registered
    <2> QED BY <1>1, <1>2, <2>1, HubOthers
  <1>5. CASE Join(d)
    <2>1. /\ StandingOf(d) = "new" /\ StandingOf(d)' = "live"
          /\ joined'[d] = served[r] /\ got'[d] = got[d]
      BY <1>0, <1>t, <1>1, <1>5 DEF Join, StandingOf, Registered
    <2> QED BY <1>1, <1>2, <1>3, <2>1, HubJoins
  <1>6. CASE Refuse(d) \/ Leave(d)
    <2>1. joined' = joined /\ StandingOf(d)' = "ended"
      BY <1>0, <1>t, <1>6 DEF Refuse, Leave, StandingOf, Registered
    <2>2. \A c \in ClientsOf(r) :
            /\ StandingOf(c)' = IF c \in {d} THEN "ended" ELSE StandingOf(c)
            /\ UNCHANGED <<joined[c], got[c]>>
      BY <1>1, <1>2, <2>1
    <2>3. {d} \in SUBSET ClientsOf(r)
      OBVIOUS
    <2> QED BY <1>1, <1>3, <2>2, <2>3, HubEnds
  <1> QED BY <1>4, <1>5, <1>6

LEMMA HubStep ==
  ASSUME TypeOK, [Next]_streamVars, NEW r \in Replicas, Reading(r)
  PROVE  HubOf(r)!Next \/ UNCHANGED HubOf(r)!vars
  <1>t. /\ DOMAIN queue = Replicas /\ DOMAIN served = Replicas
        /\ DOMAIN phase = Clients /\ DOMAIN joined = Clients
    BY Typed
  <1>1. CASE queue'[r] = queue[r] /\ UNCHANGED <<served, clientVars>>
    <2>1. \A c \in ClientsOf(r) : /\ StandingOf(c)' = StandingOf(c)
                                  /\ UNCHANGED <<joined[c], got[c]>>
      BY <1>1 DEF clientVars, StandingOf, Registered
    <2> QED BY <1>1, <2>1, HubOthers
  <1>2. CASE UNCHANGED streamVars \/ \E to \in Targets : Publish(to)
    BY <1>1, <1>2 DEF streamVars, Publish, hubVars
  <1>3. ASSUME NEW q \in Replicas,
               \/ Ask(q) \/ Deliver(q) \/ Timeout(q) \/ ReadFails(q) \/ ReaderStops(q)
               \/ Cancel(q) \/ (Dispatch(q) /\ q # r)
        PROVE  queue'[r] = queue[r] /\ UNCHANGED <<served, clientVars>>
    BY <1>3, <1>t DEF Ask, Deliver, Timeout, ReadFails, ReaderStops, Cancel, Dispatch, hubVars
  <1>4. ASSUME NEW q \in Replicas, NEW slow \in SUBSET ClientsOf(q), q # r,
               Serve(q, slow) \/ CloseHub(q)
        PROVE  UNCHANGED HubOf(r)!vars
    <2>1. \A c \in ClientsOf(r) : c \in Clients /\ c \notin ClientsOf(q)
      BY <1>4 DEF ClientsOf
    <2>2. /\ queue' = queue /\ served'[r] = served[r] /\ joined' = joined
          /\ \A c \in ClientsOf(r) : phase'[c] = phase[c]
      BY <1>4, <1>t, <2>1 DEF Serve, CloseHub
    <2>3. \A c \in ClientsOf(r) : got'[c] = got[c]
      BY <1>4, <2>1 DEF Serve, CloseHub
    <2>4. \A c \in ClientsOf(r) : StandingOf(c)' = StandingOf(c)
      BY <2>2 DEF StandingOf, Registered
    <2> QED BY <2>2, <2>3, <2>4, HubOthers
  <1>5. ASSUME NEW d \in Clients, ReplicaOf[d] # r,
               \/ \E s \in SinceIds : Open(d, s)
               \/ Join(d) \/ Refuse(d) \/ Replay(d) \/ GoLive(d) \/ ReplayFails(d) \/ ReplayNothing(d) \/ Leave(d)
        PROVE  UNCHANGED HubOf(r)!vars
    <2>1. \A c \in ClientsOf(r) : c \in Clients /\ c # d
      BY <1>5 DEF ClientsOf
    <2>2. /\ UNCHANGED <<queue, served, got>>
          /\ \A c \in ClientsOf(r) : phase'[c] = phase[c] /\ joined'[c] = joined[c]
      BY <1>5, <1>t, <2>1 DEF Open, Join, Refuse, Replay, GoLive, ReplayFails, ReplayNothing, Leave, hubVars
    <2>3. \A c \in ClientsOf(r) : StandingOf(c)' = StandingOf(c)
      BY <2>2 DEF StandingOf, Registered
    <2> QED BY <2>2, <2>3, HubOthers
  <1>6. ASSUME NEW d \in Clients, ReplicaOf[d] = r PROVE d \in ClientsOf(r)
    BY <1>6 DEF ClientsOf
  <1>7. CASE \E to \in Targets : Publish(to)
    BY <1>2, <1>7
  <1>8. ASSUME NEW q \in Replicas,
               \/ Ask(q) \/ Deliver(q) \/ Timeout(q) \/ ReadFails(q) \/ Dispatch(q)
               \/ ReaderStops(q) \/ Cancel(q) \/ CloseHub(q)
               \/ \E slow \in SUBSET ClientsOf(q) : Serve(q, slow)
        PROVE  HubOf(r)!Next \/ UNCHANGED HubOf(r)!vars
    <2>1. CASE q = r
      BY <1>1, <1>3, <1>8, <2>1, HubDispatch, HubServe, HubCloses
    <2>2. CASE q # r
      BY <1>1, <1>3, <1>4, <1>8, <2>2
    <2> QED BY <2>1, <2>2
  <1>9. ASSUME NEW d \in Clients,
               \/ \E s \in SinceIds : Open(d, s)
               \/ Join(d) \/ Refuse(d) \/ Replay(d) \/ GoLive(d) \/ ReplayFails(d) \/ ReplayNothing(d) \/ Leave(d)
        PROVE  HubOf(r)!Next \/ UNCHANGED HubOf(r)!vars
    BY <1>5, <1>6, <1>9, HubClient
  <1> QED BY <1>2, <1>7, <1>8, <1>9 DEF Next

\* With what its subscriber hands over, every replica's hub is a Fanout: an
\* event that was accepted goes to every connection it is for, from the one it
\* joined at until it ends, whatever the readers of the stream go through.
THEOREM EveryHubFansOut == Spec => HubsFanOut
  <1>1. Init => \A r \in Replicas : HubOf(r)!Init
    BY HubInit
  <1>2. Inv /\ [Next]_streamVars => \A r \in Replicas : HubOf(r)!Next \/ UNCHANGED HubOf(r)!vars
    BY HubStep DEF Inv
  <1> QED BY <1>1, <1>2, InvHolds, PTL DEF Spec, HubsFanOut
=============================================================================
