------------------------------- MODULE Stream -------------------------------
(***************************************************************************)
(* Notifications across replicas: the Redis stream and its publisher,      *)
(* subscriber and replay (backend/internal/modules/notifications/          *)
(* stream.go), with the resuming connections of handler.go.                *)
(*                                                                         *)
(* Every replica runs one subscriber goroutine that pumps the stream into  *)
(* its own hub.  The hub is taken at the level of Fanout.tla, which Hub.tla *)
(* implements, with its bounded dispatch queue; a connection is registered *)
(* first, then its backlog is read from the stream, then it is live.       *)
(*                                                                         *)
(* stream is every entry ever added, of which the first trimmed are gone.  *)
(* A stream id is a position in it; 0 stands for "$" in lastID.            *)
(***************************************************************************)
EXTENDS Integers, Sequences, FiniteSets

CONSTANTS
  Replicas, Clients, ReplicaOf,  \* ReplicaOf[c] serves connection c
  Users, UserOf, Nobody,
  Targets,      \* recipients of the events that are published
  MaxLen,       \* streamMaxLen: the stream is trimmed to about this many
  ReadCount,    \* entries per XREAD
  ReplayLimit,  \* wsReplayLimit
  QueueCap,     \* broadcastBuffer of the hub
  SinceKinds,   \* bound: the kinds of since that are given, besides none
  MaxEvents     \* bound on the entries added

ASSUME StreamAssumption ==
  /\ ReplicaOf \in [Clients -> Replicas]
  /\ UserOf \in [Clients -> Users]
  /\ Nobody \notin Users
  /\ Targets \subseteq Users \cup {Nobody}
  /\ {MaxLen, ReadCount, ReplayLimit, QueueCap} \subseteq Nat \ {0}
  /\ SinceKinds \subseteq {"stream", "event"}
  /\ MaxEvents \in Nat

VARIABLES
  stream,     \* recipients of the entries
  trimmed,
  up,         \* up[r]: the server context of r is not cancelled
  hub,        \* hub[r]: "running", or "done" once it has stopped
  reader,     \* reader[r]: where Subscriber.Run stands
  lastID,     \* lastID[r]
  askedAt,    \* askedAt[r]: the position after which the pending XREAD reads
  batch,      \* batch[r]: the entries it returned, not yet dispatched
  dispatched, \* history: dispatched[r] are the entries handed to the hub, in order
  queue,      \* queue[r]: the entries the hub accepted, in order
  served,     \* served[r]: how many of them it has handled
  phase,      \* phase[c]
  since,      \* since[c]: the since parameter of the request
  joined,     \* history: served when c was registered
  got,        \* history: got[c] are the indices in queue pushed to c
  replayed,   \* history: replayed[c] are the entries of its backlog
  cut,        \* history: entries trimmed, or beyond the limit, at the replay
  unread      \* history: the connections whose replay failed

redisVars == <<stream, trimmed>>
readerVars == <<reader, lastID, askedAt, batch, dispatched>>
hubVars == <<hub, queue, served>>
clientVars == <<phase, since, joined, got, replayed, cut, unread>>
streamVars == <<redisVars, up, readerVars, hubVars, clientVars>>

Recipient == Users \cup {Nobody}
Entries == 1..Len(stream)

\* No since, a stream id, or the id of an event, which is a UUID.
NoSince == [kind |-> "none", at |-> 0]
SinceIds ==
  {NoSince} \cup {s \in [kind : SinceKinds, at : 0..Len(stream)] : s.kind = "event" => s.at # 0}

TypeOK ==
  /\ stream \in Seq(Recipient)
  /\ trimmed \in 0..Len(stream)
  /\ up \in [Replicas -> BOOLEAN]
  /\ hub \in [Replicas -> {"running", "done"}]
  /\ reader \in [Replicas -> {"idle", "waiting", "dispatching", "ended"}]
  /\ lastID \in [Replicas -> 0..Len(stream)]
  /\ askedAt \in [Replicas -> 0..Len(stream)]
  /\ batch \in [Replicas -> Seq(Entries)]
  /\ dispatched \in [Replicas -> Seq(Entries)]
  /\ queue \in [Replicas -> Seq(Entries)]
  /\ served \in [Replicas -> Nat]
  /\ \A r \in Replicas :
       /\ served[r] <= Len(queue[r])
       /\ Len(queue[r]) - served[r] <= QueueCap
       /\ Len(batch[r]) <= ReadCount
  /\ phase \in [Clients -> {"new", "registering", "joined", "replaying", "live", "ended"}]
  /\ since \in [Clients -> SinceIds]
  /\ joined \in [Clients -> Nat]
  /\ got \in [Clients -> SUBSET Nat]
  /\ replayed \in [Clients -> SUBSET Entries]
  /\ cut \in [Clients -> SUBSET Entries]
  /\ unread \subseteq Clients

Init ==
  /\ stream = <<>>
  /\ trimmed = 0
  /\ up = [r \in Replicas |-> TRUE]
  /\ hub = [r \in Replicas |-> "running"]
  /\ reader = [r \in Replicas |-> "idle"]
  /\ lastID = [r \in Replicas |-> 0]
  /\ askedAt = [r \in Replicas |-> 0]
  /\ batch = [r \in Replicas |-> <<>>]
  /\ dispatched = [r \in Replicas |-> <<>>]
  /\ queue = [r \in Replicas |-> <<>>]
  /\ served = [r \in Replicas |-> 0]
  /\ phase = [c \in Clients |-> "new"]
  /\ since = [c \in Clients |-> NoSince]
  /\ joined = [c \in Clients |-> 0]
  /\ got = [c \in Clients |-> {}]
  /\ replayed = [c \in Clients |-> {}]
  /\ cut = [c \in Clients |-> {}]
  /\ unread = {}

AddressedTo(c, x) == stream[x] \in {Nobody, UserOf[c]}

\* The position before the first entry that is still kept after p.
KeptAfter(p) == IF p < trimmed THEN trimmed ELSE p

\* The n oldest entries kept after p: what XREAD and XRANGE return.
Oldest(p, n) == {x \in Entries : KeptAfter(p) < x /\ x <= KeptAfter(p) + n}

\* Entry x is trimmed, or ReplayLimit or more kept ones are between p and it.
OutOfReach(p, x) == x <= trimmed \/ x > KeptAfter(p) + ReplayLimit

-----------------------------------------------------------------------------
(* Publishing.                                                             *)

\* XADD with MAXLEN ~: Redis may keep more than MaxLen, never fewer.
Publish(to) ==
  /\ Len(stream) < MaxEvents
  /\ stream' = Append(stream, to)
  /\ \E t \in trimmed..Len(stream) :
       /\ t = trimmed \/ t <= Len(stream) + 1 - MaxLen
       /\ trimmed' = t
  /\ UNCHANGED <<up, readerVars, hubVars, clientVars>>

-----------------------------------------------------------------------------
(* Subscriber.Run.                                                         *)

\* XREAD reaches the server, where "$" becomes the last id there is.
Ask(r) ==
  /\ up[r]
  /\ reader[r] = "idle"
  /\ reader' = [reader EXCEPT ![r] = "waiting"]
  /\ askedAt' = [askedAt EXCEPT ![r] = IF lastID[r] = 0 THEN Len(stream) ELSE lastID[r]]
  /\ UNCHANGED <<redisVars, up, lastID, batch, dispatched, hubVars, clientVars>>

\* XREAD returns.
Deliver(r) ==
  /\ reader[r] = "waiting"
  /\ askedAt[r] < Len(stream)
  /\ reader' = [reader EXCEPT ![r] = "dispatching"]
  /\ LET page == Oldest(askedAt[r], ReadCount) IN
       batch' = [batch EXCEPT ![r] = [i \in 1..Cardinality(page) |-> KeptAfter(askedAt[r]) + i]]
  /\ UNCHANGED <<redisVars, up, lastID, askedAt, dispatched, hubVars, clientVars>>

\* streamReadBlock passes with nothing to return.
Timeout(r) ==
  /\ reader[r] = "waiting"
  /\ askedAt[r] = Len(stream)
  /\ reader' = [reader EXCEPT ![r] = "idle"]
  /\ UNCHANGED <<redisVars, up, lastID, askedAt, batch, dispatched, hubVars, clientVars>>

\* An error of XREAD; the loop backs off and asks again.
ReadFails_Restarts(r) ==
  /\ reader[r] = "waiting"
  /\ reader' = [reader EXCEPT ![r] = "idle"]
  /\ lastID' = [lastID EXCEPT ![r] = 0]
  /\ UNCHANGED <<redisVars, up, askedAt, batch, dispatched, hubVars, clientVars>>

ReadFails_Returns(r) ==
  /\ reader[r] = "waiting"
  /\ reader' = [reader EXCEPT ![r] = "ended"]
  /\ UNCHANGED <<redisVars, up, lastID, askedAt, batch, dispatched, hubVars, clientVars>>

ReadFails(r) ==
  /\ reader[r] = "waiting"
  /\ reader' = [reader EXCEPT ![r] = "idle"]
  /\ UNCHANGED <<redisVars, up, lastID, askedAt, batch, dispatched, hubVars, clientVars>>

\* dispatch: the hub accepts the event, unless its queue is full or it has been
\* told to stop.
Accepts_Unbounded(r) == TRUE

Accepts(r) == Len(queue[r]) - served[r] < QueueCap

Dispatch(r) ==
  /\ reader[r] = "dispatching"
  /\ LET x == Head(batch[r]) IN
       /\ lastID' = [lastID EXCEPT ![r] = x]
       /\ dispatched' = [dispatched EXCEPT ![r] = Append(@, x)]
       /\ \/ /\ Accepts(r)
             /\ queue' = [queue EXCEPT ![r] = Append(@, x)]
          \/ /\ ~Accepts(r) \/ ~up[r]
             /\ UNCHANGED queue
  /\ batch' = [batch EXCEPT ![r] = Tail(@)]
  /\ reader' = [reader EXCEPT ![r] = IF Len(batch[r]) = 1 THEN "idle" ELSE @]
  /\ UNCHANGED <<redisVars, up, hub, askedAt, served, clientVars>>

\* XREAD fails because the context is cancelled, or the back-off is cut short.
ReaderStops(r) ==
  /\ ~up[r]
  /\ reader[r] \in {"idle", "waiting"}
  /\ reader' = [reader EXCEPT ![r] = "ended"]
  /\ UNCHANGED <<redisVars, up, lastID, askedAt, batch, dispatched, hubVars, clientVars>>

-----------------------------------------------------------------------------
(* The hub, as in Fanout, and the server context.                          *)

Registered_AfterReplay(c) == phase[c] = "live"

Registered(c) == phase[c] \in {"joined", "replaying", "live"}

ClientsOf(r) == {c \in Clients : ReplicaOf[c] = r}

\* The next event goes to every registered client it is addressed to, except
\* those whose send channel is full, which are dropped.
Serve_SkipsSlow(r, slow) ==
  /\ hub[r] = "running"
  /\ served[r] < Len(queue[r])
  /\ served' = [served EXCEPT ![r] = @ + 1]
  /\ LET T == {c \in ClientsOf(r) : Registered(c) /\ AddressedTo(c, queue[r][served[r] + 1])}
     IN /\ slow \subseteq T
        /\ got' = [c \in Clients |-> IF c \in T \ slow THEN got[c] \cup {served[r] + 1} ELSE got[c]]
  /\ UNCHANGED <<redisVars, up, readerVars, hub, queue, phase, since, joined, replayed, cut, unread>>

Serve(r, slow) ==
  /\ hub[r] = "running"
  /\ served[r] < Len(queue[r])
  /\ served' = [served EXCEPT ![r] = @ + 1]
  /\ LET T == {c \in ClientsOf(r) : Registered(c) /\ AddressedTo(c, queue[r][served[r] + 1])}
     IN /\ slow \subseteq T
        /\ got' = [c \in Clients |-> IF c \in T \ slow THEN got[c] \cup {served[r] + 1} ELSE got[c]]
        /\ phase' = [c \in Clients |-> IF c \in slow THEN "ended" ELSE phase[c]]
  /\ UNCHANGED <<redisVars, up, readerVars, hub, queue, since, joined, replayed, cut, unread>>

\* The server context is cancelled.
Cancel(r) ==
  /\ up[r]
  /\ up' = [up EXCEPT ![r] = FALSE]
  /\ UNCHANGED <<redisVars, readerVars, hubVars, clientVars>>

\* Then the hub is closed and ends its clients.
CloseHub(r) ==
  /\ ~up[r]
  /\ hub[r] = "running"
  /\ hub' = [hub EXCEPT ![r] = "done"]
  /\ phase' = [c \in Clients |-> IF c \in ClientsOf(r) /\ Registered(c) THEN "ended" ELSE phase[c]]
  /\ UNCHANGED <<redisVars, up, readerVars, queue, served, since, joined, got, replayed, cut, unread>>

-----------------------------------------------------------------------------
(* A connection.                                                           *)

\* A request with since s; s names an entry there has been.
Open(c, s) ==
  /\ phase[c] = "new"
  /\ phase' = [phase EXCEPT ![c] = "registering"]
  /\ since' = [since EXCEPT ![c] = s]
  /\ UNCHANGED <<redisVars, up, readerVars, hubVars, joined, got, replayed, cut, unread>>

\* Register.
Join(c) ==
  /\ phase[c] = "registering"
  /\ hub[ReplicaOf[c]] = "running"
  /\ phase' = [phase EXCEPT ![c] = "joined"]
  /\ joined' = [joined EXCEPT ![c] = served[ReplicaOf[c]]]
  /\ UNCHANGED <<redisVars, up, readerVars, hubVars, since, got, replayed, cut, unread>>

\* Register finds the hub stopped.
Refuse(c) ==
  /\ phase[c] = "registering"
  /\ ~up[ReplicaOf[c]]
  /\ phase' = [phase EXCEPT ![c] = "ended"]
  /\ UNCHANGED <<redisVars, up, readerVars, hubVars, since, joined, got, replayed, cut, unread>>

\* Replay: the oldest ReplayLimit entries after a stream id, without those for
\* other users.
Replay(c) ==
  /\ phase[c] = "joined"
  /\ since[c].kind = "stream"
  /\ phase' = [phase EXCEPT ![c] = "replaying"]
  /\ LET page == Oldest(since[c].at, ReplayLimit) IN
       /\ replayed' = [replayed EXCEPT ![c] = {x \in page : AddressedTo(c, x)}]
       /\ cut' = [cut EXCEPT ![c] = {x \in Entries : since[c].at < x /\ OutOfReach(since[c].at, x)}]
  /\ UNCHANGED <<redisVars, up, readerVars, hubVars, since, joined, got, unread>>

\* The backlog has been written; readLoop and writeLoop are started.
GoLive(c) ==
  /\ phase[c] = "replaying"
  /\ phase' = [phase EXCEPT ![c] = "live"]
  /\ UNCHANGED <<redisVars, up, readerVars, hubVars, since, joined, got, replayed, cut, unread>>

\* XRANGE fails: always when since is not a stream id, and with a stream id when
\* Redis cannot be read.  The error is logged, and the connection goes on
\* without a backlog.
ReplayFails(c) ==
  /\ phase[c] = "joined"
  /\ since[c].kind # "none"
  /\ phase' = [phase EXCEPT ![c] = "live"]
  /\ unread' = unread \cup {c}
  /\ UNCHANGED <<redisVars, up, readerVars, hubVars, since, joined, got, replayed, cut>>

\* No since was given.
ReplayNothing(c) ==
  /\ phase[c] = "joined"
  /\ since[c].kind = "none"
  /\ phase' = [phase EXCEPT ![c] = "live"]
  /\ UNCHANGED <<redisVars, up, readerVars, hubVars, since, joined, got, replayed, cut, unread>>

Leave(c) ==
  /\ Registered(c)
  /\ phase' = [phase EXCEPT ![c] = "ended"]
  /\ UNCHANGED <<redisVars, up, readerVars, hubVars, since, joined, got, replayed, cut, unread>>

-----------------------------------------------------------------------------
Next ==
  \/ \E to \in Targets : Publish(to)
  \/ \E r \in Replicas :
       \/ Ask(r) \/ Deliver(r) \/ Timeout(r) \/ ReadFails(r) \/ Dispatch(r) \/ ReaderStops(r)
       \/ \E slow \in SUBSET ClientsOf(r) : Serve(r, slow)
       \/ Cancel(r) \/ CloseHub(r)
  \/ \E c \in Clients :
       \/ \E s \in SinceIds : Open(c, s)
       \/ Join(c) \/ Refuse(c) \/ Leave(c)
       \/ Replay(c) \/ GoLive(c) \/ ReplayFails(c) \/ ReplayNothing(c)

Spec == Init /\ [][Next]_streamVars

\* The subscriber goroutine keeps running, and an outage of Redis ends: if it
\* can be read again and again, it is read.
FairSpec ==
  /\ Spec
  /\ \A r \in Replicas :
       /\ WF_streamVars(Ask(r))
       /\ SF_streamVars(Deliver(r))
       /\ WF_streamVars(Dispatch(r))
       /\ WF_streamVars(ReaderStops(r))

-----------------------------------------------------------------------------
(* Properties.                                                             *)

HandledBy(r) == {queue[r][i] : i \in 1..served[r]}

Has(c) == replayed[c] \cup {queue[ReplicaOf[c]][i] : i \in got[c]}

\* A live connection has, live or with its backlog, every event for its user
\* that its hub has handled since the connection joined and, when it resumes
\* from a stream id and the backlog could be read, before: every one after that
\* id, unless it was trimmed or beyond the limit when the backlog was read.
\* (Registering before reading the backlog closes the gap between the two.  A
\* replay that fails leaves a gap up to joined, and nothing fills it.)
Owed(c, i) ==
  \/ joined[c] < i
  \/ since[c].kind = "stream" /\ c \notin unread /\ since[c].at < queue[ReplicaOf[c]][i]

ResumeHasNoGap ==
  \A c \in Clients : phase[c] = "live" =>
    \A i \in 1..served[ReplicaOf[c]] :
      LET x == queue[ReplicaOf[c]][i] IN
        Owed(c, i) /\ AddressedTo(c, x) => x \in Has(c) \cup cut[c]

\* An event for one user reaches no other, live or replayed.
RoutedToRecipient == \A c \in Clients : \A x \in Has(c) : AddressedTo(c, x)

ResumeIsExact == RoutedToRecipient /\ ResumeHasNoGap

\* From the first entry it dispatches on, a subscriber hands over every entry
\* once and in order, over any failures and time-outs of XREAD; it jumps only
\* over entries that were trimmed while it was behind.
SubscriberIsContiguous ==
  \A r \in Replicas : \A i \in 1..Len(dispatched[r]) - 1 :
    LET x == dispatched[r][i]
        y == dispatched[r][i + 1]
    IN x < y /\ \A z \in x + 1..y - 1 : z <= trimmed

\* Every replica's hub, with what its subscriber hands over, is a Fanout.
HubOf(r) == INSTANCE Fanout WITH
  Clients <- ClientsOf(r),
  log <- [i \in 1..Len(queue[r]) |-> stream[queue[r][i]]],
  pos <- served[r],
  phase <- [c \in ClientsOf(r) |->
              IF Registered(c) THEN "live" ELSE IF phase[c] = "ended" THEN "ended" ELSE "new"],
  from <- [c \in ClientsOf(r) |-> joined[c]],
  got <- [c \in ClientsOf(r) |-> got[c]]

HubsFanOut ==
  /\ \A r \in Replicas : HubOf(r)!Init
  /\ [][\A r \in Replicas : HubOf(r)!Next \/ UNCHANGED HubOf(r)!vars]_streamVars

\* A subscriber makes progress: once it has read anything, every later entry is
\* dispatched or trimmed, or the replica shuts down; and a cancelled server
\* context ends it, also in the middle of an outage.
SubscriberProgresses ==
  \A r \in Replicas :
    /\ \A x \in 1..MaxEvents :
         lastID[r] # 0 /\ x <= Len(stream) /\ x > lastID[r]
           ~> lastID[r] >= x \/ x <= trimmed \/ ~up[r]
    /\ ~up[r] ~> reader[r] = "ended"

\* "reconnects with ?since=<id> for inline replay", the id being that of the
\* last event: a connection that resumes with one has no gap either.
ResumesFromEventId ==
  \A c \in Clients : phase[c] = "live" /\ since[c].kind = "event" =>
    \A x \in HandledBy(ReplicaOf[c]) :
      since[c].at < x /\ AddressedTo(c, x) => x \in Has(c) \cup cut[c]
=============================================================================
