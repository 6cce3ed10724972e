-------------------------------- MODULE Hub --------------------------------
(***************************************************************************)
(* The notification hub of backend/internal/modules/notifications/hub.go.  *)
(*                                                                         *)
(* One owner goroutine (run) reads four channels and is the only one that  *)
(* touches the client registry or closes a client's send channel:          *)
(*                                                                         *)
(*   stop        closed once by Close                                      *)
(*   register    unbuffered; the caller waits for an acknowledgement       *)
(*   unregister  buffered, UnregisterCap entries                           *)
(*   dispatch    buffered, DispatchCap entries; publishing never blocks    *)
(*                                                                         *)
(* Every other goroutine only posts to those channels.  A connection is    *)
(* one element of Clients; pc[c] is where the goroutine serving it stands  *)
(* with respect to the hub.  The dispatch channel is kept as the log of    *)
(* all messages it ever accepted and the number the owner has received, so *)
(* that its content is the part of the log after handled; an event is then *)
(* its position in the log, and log[i] is its recipient.                   *)
(***************************************************************************)
EXTENDS Integers, Sequences, FiniteSets

CONSTANTS
  Clients, Users, UserOf,
  Nobody,         \* uuid.Nil
  SendCap,        \* sendBufferSize: capacity of a client's send channel
  UnregisterCap,  \* capacity of the unregister channel
  DispatchCap,    \* broadcastBuffer: capacity of the dispatch channel
  MaxEvents       \* bound on the number of publish calls

ASSUME HubAssumption ==
  /\ IsFiniteSet(Clients)
  /\ UserOf \in [Clients -> Users]
  /\ Nobody \notin Users
  /\ SendCap \in Nat \ {0}
  /\ UnregisterCap \in Nat \ {0}
  /\ DispatchCap \in Nat \ {0}
  /\ MaxEvents \in Nat

VARIABLES
  stopped,    \* h.stop is closed
  hub,        \* "running", or "done" once run has returned and closed h.done
  log,        \* messages ever accepted by h.dispatch (recipients)
  handled,    \* how many of them the owner has received
  published,  \* number of publish calls
  unregQ,     \* h.unregister
  byUser,     \* clientRegistry.byUser, an absent key being the empty set
  count,      \* h.count
  pc,         \* pc[c]: the goroutine serving c
  chan,       \* state of c.send: "open", "closed", or "panicked" after a
              \* send on, or a second close of, the closed channel
  send,       \* content of c.send
  joined,     \* history: handled when c was added to the registry
  pushed      \* history: every event ever sent on c.send

hubVars == <<stopped, hub, log, handled, published, unregQ, byUser, count,
             pc, chan, send, joined, pushed>>

Recipient == Users \cup {Nobody}

\* Positions of a serving goroutine: not yet in Register; blocked in it;
\* returned from it; blocked in Unregister; returned from that.
Positions == {"idle", "registering", "serving", "unregistering", "gone"}

Types ==
  /\ stopped \in BOOLEAN
  /\ hub \in {"running", "done"}
  /\ log \in Seq(Recipient)
  /\ handled \in 0..Len(log)
  /\ published \in Nat
  /\ unregQ \in Seq(Clients)
  /\ byUser \in [Users -> SUBSET Clients]
  /\ count \in Int
  /\ pc \in [Clients -> Positions]
  /\ chan \in [Clients -> {"open", "closed", "panicked"}]
  /\ send \in [Clients -> Seq(Nat)]
  /\ joined \in [Clients -> Nat]
  /\ pushed \in [Clients -> SUBSET Nat]

WithinCapacity ==
  /\ Len(log) - handled <= DispatchCap
  /\ Len(unregQ) <= UnregisterCap
  /\ \A c \in Clients : Len(send[c]) <= SendCap

\* Type correctness: the values of Go's types, and no channel ever holds more
\* than its capacity.
TypeOK == Types /\ WithinCapacity

Init ==
  /\ stopped = FALSE
  /\ hub = "running"
  /\ log = <<>>
  /\ handled = 0
  /\ published = 0
  /\ unregQ = <<>>
  /\ byUser = [u \in Users |-> {}]
  /\ count = 0
  /\ pc = [c \in Clients |-> "idle"]
  /\ chan = [c \in Clients |-> "open"]
  /\ send = [c \in Clients |-> <<>>]
  /\ joined = [c \in Clients |-> 0]
  /\ pushed = [c \in Clients |-> {}]

-----------------------------------------------------------------------------
(* The registry.                                                           *)

IsRegistered_Unchecked(c) == TRUE

IsRegistered(c) == c \in byUser[UserOf[c]]

Registered == {c \in Clients : IsRegistered(c)}

\* The result of closing, or of sending on, a channel in state s.
Closed(s) == IF s = "open" THEN "closed" ELSE "panicked"
SentOn(s) == IF s = "open" THEN "open" ELSE "panicked"

\* The registry without the clients in S, each removed from its own user's set.
Without(S) == [u \in Users |-> byUser[u] \ {c \in S : UserOf[c] = u}]

\* The connections a message for to is delivered to.
Targets_BroadcastWhenOffline(to) ==
  IF to = Nobody \/ (to \in Users /\ byUser[to] = {})
  THEN UNION {byUser[u] : u \in Users} ELSE byUser[to]

Targets(to) ==
  IF to = Nobody THEN UNION {byUser[u] : u \in Users} ELSE byUser[to]

HasRoom(c) == Len(send[c]) < SendCap

\* deliver reports false for a client whose buffer is full, and deliverTo
\* drops that client instead of skipping the message.
Dropped_SkipSlow(S) == {}

Dropped(S) == {c \in S : ~HasRoom(c)}

-----------------------------------------------------------------------------
(* Callers.                                                                *)

\* The HTTP handler calls Register for a freshly upgraded connection.
CallRegister(c) ==
  /\ pc[c] = "idle"
  /\ pc' = [pc EXCEPT ![c] = "registering"]
  /\ UNCHANGED <<stopped, hub, log, handled, published, unregQ, byUser, count,
                 chan, send, joined, pushed>>

\* Register takes its stop case: the hub will never own the client, so the
\* caller closes the send channel itself.
RegisterStopped(c) ==
  /\ pc[c] = "registering"
  /\ stopped
  /\ pc' = [pc EXCEPT ![c] = "serving"]
  /\ chan' = [chan EXCEPT ![c] = Closed(@)]
  /\ UNCHANGED <<stopped, hub, log, handled, published, unregQ, byUser, count,
                 send, joined, pushed>>

\* readLoop has ended: its deferred call to Unregister begins.
CallUnregister(c) ==
  /\ pc[c] = "serving"
  /\ pc' = [pc EXCEPT ![c] = "unregistering"]
  /\ UNCHANGED <<stopped, hub, log, handled, published, unregQ, byUser, count,
                 chan, send, joined, pushed>>

PostUnregister(c) ==
  /\ pc[c] = "unregistering"
  /\ Len(unregQ) < UnregisterCap
  /\ unregQ' = Append(unregQ, c)
  /\ pc' = [pc EXCEPT ![c] = "gone"]
  /\ UNCHANGED <<stopped, hub, log, handled, published, byUser, count, chan,
                 send, joined, pushed>>

UnregisterStopped(c) ==
  /\ pc[c] = "unregistering"
  /\ stopped
  /\ pc' = [pc EXCEPT ![c] = "gone"]
  /\ UNCHANGED <<stopped, hub, log, handled, published, unregQ, byUser, count,
                 chan, send, joined, pushed>>

\* publish, called by Broadcast (to = Nobody) and SendToUser.  The message is
\* queued when there is room.  It is lost when the queue is full, or when the
\* select takes the stop case.
Publish(to) ==
  /\ published < MaxEvents
  /\ published' = published + 1
  /\ \/ /\ Len(log) - handled < DispatchCap
        /\ log' = Append(log, to)
     \/ /\ stopped \/ Len(log) - handled >= DispatchCap
        /\ UNCHANGED log
  /\ UNCHANGED <<stopped, hub, handled, unregQ, byUser, count, pc, chan, send,
                 joined, pushed>>

\* Close: closeOnce makes every call but the first a wait for done.
Close ==
  /\ ~stopped
  /\ stopped' = TRUE
  /\ UNCHANGED <<hub, log, handled, published, unregQ, byUser, count, pc, chan,
                 send, joined, pushed>>

\* writeLoop receives from c.send; a closed channel still yields what it holds.
Receive(c) ==
  /\ pc[c] \in {"serving", "unregistering", "gone"}
  /\ send[c] # <<>>
  /\ send' = [send EXCEPT ![c] = Tail(@)]
  /\ UNCHANGED <<stopped, hub, log, handled, published, unregQ, byUser, count,
                 pc, chan, joined, pushed>>

-----------------------------------------------------------------------------
(* The owner goroutine: one action per case of the select in run.          *)

\* register: add the client and close the acknowledgement channel.  add
\* ignores a client that is already in the registry.
RunRegister(c) ==
  /\ hub = "running"
  /\ pc[c] = "registering"
  /\ pc' = [pc EXCEPT ![c] = "serving"]
  /\ byUser' = [byUser EXCEPT ![UserOf[c]] = @ \cup {c}]
  /\ count' = IF IsRegistered(c) THEN count ELSE count + 1
  /\ joined' = [joined EXCEPT ![c] = handled]
  /\ UNCHANGED <<stopped, hub, log, handled, published, unregQ, chan, send,
                 pushed>>

\* unregister: drop does nothing for a client the registry does not hold.
RunUnregister ==
  /\ hub = "running"
  /\ unregQ # <<>>
  /\ unregQ' = Tail(unregQ)
  /\ LET c == Head(unregQ) IN
       IF IsRegistered(c)
       THEN /\ byUser' = Without({c})
            /\ chan' = [chan EXCEPT ![c] = Closed(@)]
            /\ count' = count - 1
       ELSE UNCHANGED <<byUser, chan, count>>
  /\ UNCHANGED <<stopped, hub, log, handled, published, pc, send, joined,
                 pushed>>

\* dispatch: the clients are visited in map order, which is arbitrary; the
\* outcome for one does not depend on the others, so the visits are one step.
RunDispatch ==
  /\ hub = "running"
  /\ handled < Len(log)
  /\ handled' = handled + 1
  /\ LET T == Targets(log[handled + 1])
         D == Dropped(T)
         OK == {c \in T : HasRoom(c)}
     IN /\ send' = [c \in Clients |->
                     IF c \in OK THEN Append(send[c], handled + 1) ELSE send[c]]
        /\ pushed' = [c \in Clients |->
                       IF c \in OK THEN pushed[c] \cup {handled + 1} ELSE pushed[c]]
        /\ chan' = [c \in Clients |->
                     IF c \in D THEN Closed(chan[c])
                     ELSE IF c \in OK THEN SentOn(chan[c]) ELSE chan[c]]
        /\ byUser' = Without(D)
        /\ count' = count - Cardinality(D)
  /\ UNCHANGED <<stopped, hub, log, published, unregQ, pc, joined>>

\* stop: closeAll closes every registered client's channel, then done is
\* closed.  The registry map itself is left as it was.
RunStop_WaitsForClients ==
  /\ hub = "running"
  /\ stopped
  /\ Registered = {}
  /\ hub' = "done"
  /\ count' = 0
  /\ UNCHANGED <<stopped, log, handled, published, unregQ, byUser, pc, chan,
                 send, joined, pushed>>

RunStop_KeepsCount ==
  /\ hub = "running"
  /\ stopped
  /\ hub' = "done"
  /\ chan' = [c \in Clients |-> IF c \in Registered THEN Closed(chan[c]) ELSE chan[c]]
  /\ UNCHANGED <<stopped, log, handled, published, unregQ, byUser, count, pc,
                 send, joined, pushed>>

RunStop ==
  /\ hub = "running"
  /\ stopped
  /\ hub' = "done"
  /\ chan' = [c \in Clients |-> IF c \in Registered THEN Closed(chan[c]) ELSE chan[c]]
  /\ count' = 0
  /\ UNCHANGED <<stopped, log, handled, published, unregQ, byUser, pc, send,
                 joined, pushed>>

-----------------------------------------------------------------------------
Next ==
  \/ \E to \in Recipient : Publish(to)
  \/ Close
  \/ RunUnregister
  \/ RunDispatch
  \/ RunStop
  \/ \E c \in Clients :
       \/ CallRegister(c)
       \/ RegisterStopped(c)
       \/ CallUnregister(c)
       \/ PostUnregister(c)
       \/ UnregisterStopped(c)
       \/ Receive(c)
       \/ RunRegister(c)

Spec == Init /\ [][Next]_hubVars

(***************************************************************************)
(* The owner goroutine is always scheduled again, and Go's select picks    *)
(* uniformly among the ready cases, so a case that stays ready is taken.   *)
(* A goroutine blocked on a channel that stays ready is released.  Nothing *)
(* is assumed of publishers, peers or of Close being called.               *)
(***************************************************************************)
HubFairness ==
  /\ WF_hubVars(RunStop)
  /\ WF_hubVars(RunUnregister)
  /\ WF_hubVars(RunDispatch)
  /\ \A c \in Clients :
       /\ WF_hubVars(RunRegister(c) \/ RegisterStopped(c))
       /\ SF_hubVars(PostUnregister(c) \/ UnregisterStopped(c))

FairSpec == Spec /\ HubFairness

-----------------------------------------------------------------------------
(* Safety.                                                                 *)

\* No goroutine ever sends on, or closes again, a send channel that is closed:
\* slow-client drops, repeated unregister requests, closeAll and the close in
\* Register's stop case never meet on the same channel.
NoChannelPanic == \A c \in Clients : chan[c] # "panicked"

\* The published count is the number of registered clients while the hub runs,
\* and zero once it is done.
CountMatches ==
  count = IF hub = "running" THEN Cardinality(Registered) ELSE 0

\* Once Register has returned, an open send channel belongs to a client the
\* running owner still holds.
OpenIsOwned ==
  \A c \in Clients :
    pc[c] \in {"serving", "unregistering", "gone"} /\ chan[c] = "open"
      => hub = "running" /\ IsRegistered(c)

\* The registry is exact, whatever the order of registrations, duplicate
\* unregistrations, drops and a stop: the count is right, and every open channel
\* can still be closed by some later step, so that no writeLoop is left waiting
\* on a channel nobody will close.
RegistryIsExact == CountMatches /\ OpenIsOwned

\* The events among the first n handled that c is owed: those after it joined
\* that are addressed to everyone or to its user.
Owed(c, n) == {i \in joined[c]+1..n : log[i] \in {Nobody, UserOf[c]}}

\* What a connection was ever sent is everything it is owed up to some point of
\* the log and nothing else; for a client still registered that point is the
\* last handled event.  A slow client is cut off, never skipped, so the last
\* event it received tells where to resume; and no event of another user is in
\* the set.
ContiguousDelivery ==
  \A c \in Clients :
    \E n \in joined[c]..handled :
      /\ pushed[c] = Owed(c, n)
      /\ hub = "running" /\ IsRegistered(c) => n = handled

-----------------------------------------------------------------------------
(* Liveness, under FairSpec.                                               *)

\* Calls return: Close, because the owner always gets to its stop case and closes
\* done; Register, acknowledged by the owner or through the stop case; and
\* Unregister, even if the unregister channel was full.
CallsReturn ==
  /\ stopped ~> hub = "done"
  /\ \A c \in Clients :
       /\ pc[c] = "registering" ~> pc[c] # "registering"
       /\ pc[c] = "unregistering" ~> pc[c] # "unregistering"

\* After a connection's readLoop has ended its send channel is closed sooner or
\* later, which is what ends its writeLoop.
GoneIsClosed ==
  \A c \in Clients : pc[c] = "gone" ~> chan[c] # "open"

\* An accepted event is handled unless the hub is stopped: no client, however
\* slow, stalls the owner (nothing is assumed about Receive).
AcceptedIsHandled ==
  \A i \in 1..MaxEvents : Len(log) >= i ~> handled >= i \/ stopped

\* Nobody waits for ever on the hub: callers, ended connections, accepted events.
NothingWaitsForever == CallsReturn /\ GoneIsClosed /\ AcceptedIsHandled

-----------------------------------------------------------------------------
(* Refinement.                                                             *)

Phase(c) ==
  CASE chan[c] # "open" -> "ended"
    [] chan[c] = "open" /\ IsRegistered(c) -> "live"
    [] OTHER -> "new"

Promise == INSTANCE Fanout WITH
  pos <- handled,
  phase <- [c \in Clients |-> Phase(c)],
  from <- joined,
  got <- pushed

\* The hub with its goroutines, channels and capacities does what Fanout says.
ImplementsFanout == Promise!Spec
=============================================================================
