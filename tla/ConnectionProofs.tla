-------------------------- MODULE ConnectionProofs --------------------------
(***************************************************************************)
(* The notification hub and the connections it serves, for every set of    *)
(* clients and users and every capacity.  First the safety of the hub of   *)
(* Hub.tla by itself, in layers: types, then the ownership of the send     *)
(* channels, then what the ownership is used for (the client count and     *)
(* contiguous delivery).  Then the connections: the hub's theorems hold    *)
(* of it in place, and a replayed backlog comes before the live events.    *)
(***************************************************************************)
EXTENDS Connection, FiniteSetTheorems, TLAPS

(***************************************************************************)
(* Part 1: the hub.                                                        *)
(***************************************************************************)

\* A client is filed under its own user.
FiledByUser == \A u \in Users : \A c \in byUser[u] : UserOf[c] = u

\* Until Register returns the owner has not seen the client, or is about to
\* acknowledge it: its channel is open and nothing was sent on it.
FreshIsUntouched ==
  \A c \in Clients :
    pc[c] \in {"idle", "registering"} =>
      ~IsRegistered(c) /\ chan[c] = "open" /\ pushed[c] = {} /\ joined[c] = 0

\* The running owner holds only open channels.
RegisteredIsOpen ==
  hub = "running" => \A c \in Clients : IsRegistered(c) => chan[c] = "open"

\* Who may close a channel next: the caller of Register before it returns, the
\* owner while it holds the client, nobody afterwards.
Ownership ==
  /\ FiledByUser
  /\ FreshIsUntouched
  /\ RegisteredIsOpen
  /\ OpenIsOwned
  /\ NoChannelPanic

-----------------------------------------------------------------------------
(* Lemmas about the registry operators.                                    *)

\* A message goes to the registered clients it is addressed to.
LEMMA TargetsAreRegistered ==
  ASSUME Types, FiledByUser, NEW to \in Recipient, NEW c \in Clients
  PROVE  c \in Targets(to) <=> IsRegistered(c) /\ to \in {Nobody, UserOf[c]}
  BY HubAssumption DEF Types, FiledByUser, Recipient, Targets, IsRegistered

LEMMA TargetsAreClients ==
  ASSUME Types, NEW to \in Recipient
  PROVE  Targets(to) \subseteq Clients
  BY HubAssumption DEF Types, Recipient, Targets

\* Removing S leaves the registered clients outside S, still filed properly.
LEMMA WithoutRemoves ==
  ASSUME Types, NEW S, S \subseteq Clients, byUser' = Without(S)
  PROVE  /\ byUser' \in [Users -> SUBSET Clients]
         /\ \A c \in Clients : IsRegistered(c)' <=> IsRegistered(c) /\ c \notin S
         /\ FiledByUser => FiledByUser'
  <1>1. byUser' \in [Users -> SUBSET Clients]
    BY DEF Types, Without
  <1>2. \A c \in Clients : IsRegistered(c)' <=> IsRegistered(c) /\ c \notin S
    BY HubAssumption DEF Types, Without, IsRegistered
  <1>3. FiledByUser => FiledByUser'
    BY DEF Types, Without, FiledByUser
  <1> QED BY <1>1, <1>2, <1>3

\* The owner picks the next message from what was accepted.
LEMMA NextMessage ==
  ASSUME Types, handled < Len(log)
  PROVE  log[handled + 1] \in Recipient /\ handled + 1 \in 1..Len(log)
  BY DEF Types

-----------------------------------------------------------------------------
(* Types.                                                                  *)

LEMMA TypeInit == Init => Types
  <1> SUFFICES ASSUME Init PROVE Types
    OBVIOUS
  <1>1. log \in Seq(Recipient) /\ unregQ \in Seq(Clients) /\ handled \in 0..Len(log)
    BY DEF Init
  <1>2. send \in [Clients -> Seq(Nat)]
    BY DEF Init
  <1>3. byUser \in [Users -> SUBSET Clients] /\ pushed \in [Clients -> SUBSET Nat]
    BY DEF Init
  <1>4. pc \in [Clients -> Positions] /\ chan \in [Clients -> {"open", "closed", "panicked"}]
    BY DEF Init, Positions
  <1>5. joined \in [Clients -> Nat] /\ count \in Int /\ published \in Nat
    BY DEF Init
  <1>6. stopped \in BOOLEAN /\ hub \in {"running", "done"}
    BY DEF Init
  <1> QED BY <1>1, <1>2, <1>3, <1>4, <1>5, <1>6 DEF Types

LEMMA TypeNext == Types /\ [Next]_hubVars => Types'
  <1> SUFFICES ASSUME Types, [Next]_hubVars PROVE Types'
    OBVIOUS
  <1>1. ASSUME NEW to \in Recipient, Publish(to) PROVE Types'
    <2>1. log' \in Seq(Recipient) /\ Len(log) <= Len(log')
      <3>1. CASE log' = Append(log, to)
        BY <3>1 DEF Types
      <3>2. CASE log' = log
        BY <3>2 DEF Types
      <3> QED BY <1>1, <3>1, <3>2 DEF Publish
    <2> QED BY <1>1, <2>1 DEF Publish, Types
  <1>2. CASE Close
    BY <1>2 DEF Types, Positions, Close
  <1>3. CASE RunUnregister
    <2>1. Head(unregQ) \in Clients /\ Tail(unregQ) \in Seq(Clients)
      BY <1>3 DEF RunUnregister, Types
    <2>2. CASE IsRegistered(Head(unregQ))
      <3>1. byUser' = Without({Head(unregQ)})
        BY <1>3, <2>2 DEF RunUnregister
      <3>2. byUser' \in [Users -> SUBSET Clients]
        BY <3>1, <2>1, WithoutRemoves
      <3>3. chan' \in [Clients -> {"open", "closed", "panicked"}]
        BY <1>3, <2>1, <2>2 DEF Types, RunUnregister, Closed
      <3>4. count' \in Int
        BY <1>3, <2>2 DEF Types, RunUnregister
      <3> QED BY <1>3, <2>1, <3>2, <3>3, <3>4 DEF Types, RunUnregister
    <2>3. CASE ~IsRegistered(Head(unregQ))
      BY <1>3, <2>1, <2>3 DEF Types, RunUnregister
    <2> QED BY <2>2, <2>3
  <1>4. CASE RunDispatch
    <2> DEFINE T == Targets(log[handled + 1])
               D == Dropped(T)
               OK == {c \in T : HasRoom(c)}
    <2>1. T \subseteq Clients /\ D \subseteq Clients /\ handled + 1 \in 1..Len(log)
      BY <1>4, TargetsAreClients, NextMessage DEF RunDispatch, Dropped
    <2>2. byUser' \in [Users -> SUBSET Clients]
      BY <1>4, <2>1, WithoutRemoves DEF RunDispatch
    <2>3. send' \in [Clients -> Seq(Nat)] /\ pushed' \in [Clients -> SUBSET Nat]
      BY <1>4, <2>1 DEF Types, RunDispatch
    <2>4. chan' \in [Clients -> {"open", "closed", "panicked"}]
      BY <1>4 DEF Types, RunDispatch, Closed, SentOn
    <2>5. count' \in Int
      <3>1. IsFiniteSet(D)
        BY <2>1, HubAssumption, FS_Subset
      <3>2. Cardinality(D) \in Nat
        BY <3>1, FS_CardinalityType
      <3> QED BY <1>4, <3>2 DEF Types, RunDispatch
    <2> QED BY <1>4, <2>1, <2>2, <2>3, <2>4, <2>5 DEF Types, RunDispatch
  <1>5. CASE RunStop
    BY <1>5 DEF Types, Positions, RunStop, Closed
  <1>6. ASSUME NEW c \in Clients, CallRegister(c) PROVE Types'
    BY <1>6 DEF Types, Positions, CallRegister
  <1>7. ASSUME NEW c \in Clients, RegisterStopped(c) PROVE Types'
    BY <1>7 DEF Types, Positions, RegisterStopped, Closed
  <1>8. ASSUME NEW c \in Clients, CallUnregister(c) PROVE Types'
    BY <1>8 DEF Types, Positions, CallUnregister
  <1>9. ASSUME NEW c \in Clients, PostUnregister(c) PROVE Types'
    BY <1>9 DEF Types, Positions, PostUnregister
  <1>10. ASSUME NEW c \in Clients, UnregisterStopped(c) PROVE Types'
    BY <1>10 DEF Types, Positions, UnregisterStopped
  <1>11. ASSUME NEW c \in Clients, Receive(c) PROVE Types'
    BY <1>11 DEF Types, Positions, Receive
  <1>12. ASSUME NEW c \in Clients, RunRegister(c) PROVE Types'
    <2>1. UserOf[c] \in Users
      BY <1>12, HubAssumption
    <2>2. byUser' \in [Users -> SUBSET Clients]
      BY <1>12, <2>1 DEF Types, RunRegister
    <2> QED BY <1>12, <2>2 DEF Types, Positions, RunRegister
  <1>13. CASE UNCHANGED hubVars
    BY <1>13 DEF Types, Positions, hubVars
  <1> QED
    BY <1>1, <1>2, <1>3, <1>4, <1>5, <1>6, <1>7, <1>8, <1>9, <1>10, <1>11,
       <1>12, <1>13 DEF Next

LEMMA TypesHold == Spec => []Types
  BY TypeInit, TypeNext, PTL DEF Spec

LEMMA CapacityInit == Init => WithinCapacity
  BY HubAssumption DEF Init, WithinCapacity

LEMMA CapacityNext == Types /\ WithinCapacity /\ [Next]_hubVars => WithinCapacity'
  <1> SUFFICES ASSUME Types, WithinCapacity, [Next]_hubVars PROVE WithinCapacity'
    OBVIOUS
  <1>1. ASSUME UNCHANGED <<log, handled, unregQ, send>> PROVE WithinCapacity'
    BY <1>1 DEF WithinCapacity
  <1>2. ASSUME NEW to \in Recipient, Publish(to) PROVE WithinCapacity'
    <2>1. CASE log' = Append(log, to) /\ Len(log) - handled < DispatchCap
      <3>1. Len(log') - handled' <= DispatchCap
        BY <1>2, <2>1, HubAssumption DEF Publish, Types
      <3> QED BY <1>2, <3>1 DEF Publish, WithinCapacity
    <2> QED BY <1>1, <1>2, <2>1 DEF Publish
  <1>3. CASE RunUnregister
    <2>1. Len(unregQ') <= UnregisterCap
      BY <1>3, HubAssumption DEF RunUnregister, Types, WithinCapacity
    <2> QED BY <1>3, <2>1 DEF RunUnregister, WithinCapacity
  <1>4. CASE RunDispatch
    <2>1. Len(log') - handled' <= DispatchCap
      BY <1>4, HubAssumption DEF RunDispatch, Types, WithinCapacity
    <2>2. \A c \in Clients :
            \/ send'[c] = send[c]
            \/ HasRoom(c) /\ send'[c] = Append(send[c], handled + 1)
      BY <1>4 DEF RunDispatch
    <2>3. \A c \in Clients : Len(send'[c]) <= SendCap
      <3> SUFFICES ASSUME NEW c \in Clients PROVE Len(send'[c]) <= SendCap
        OBVIOUS
      <3>1. CASE HasRoom(c) /\ send'[c] = Append(send[c], handled + 1)
        <4>1. Len(send'[c]) = Len(send[c]) + 1
          BY <3>1 DEF Types
        <4> QED BY <3>1, <4>1, HubAssumption DEF HasRoom, Types
      <3>2. CASE send'[c] = send[c]
        BY <3>2 DEF WithinCapacity
      <3> QED BY <2>2, <3>1, <3>2
    <2> QED BY <1>4, <2>1, <2>3 DEF RunDispatch, WithinCapacity
  <1>5. ASSUME NEW c \in Clients, PostUnregister(c) PROVE WithinCapacity'
    <2>1. Len(unregQ') <= UnregisterCap
      BY <1>5, HubAssumption DEF PostUnregister, Types
    <2> QED BY <1>5, <2>1 DEF PostUnregister, WithinCapacity
  <1>6. ASSUME NEW c \in Clients, Receive(c) PROVE WithinCapacity'
    <2>1. \A d \in Clients : Len(send'[d]) <= SendCap
      <3>1. Len(Tail(send[c])) <= SendCap
        BY <1>6, HubAssumption DEF Receive, Types, WithinCapacity
      <3> QED BY <1>6, <3>1 DEF Receive, Types, WithinCapacity
    <2> QED BY <1>6, <2>1 DEF Receive, WithinCapacity
  <1> QED
    BY <1>1, <1>2, <1>3, <1>4, <1>5, <1>6 DEF Next, Close, RunStop, CallRegister,
       RegisterStopped, CallUnregister, UnregisterStopped, RunRegister, hubVars

\* The variables keep the types of the Go values they model, and no channel
\* holds more than its capacity.
THEOREM TypeCorrect == Spec => []TypeOK
  BY TypesHold, CapacityInit, CapacityNext, PTL DEF Spec, TypeOK

-----------------------------------------------------------------------------
(* Ownership of the send channels.                                         *)

LEMMA OwnershipInit == Init => Ownership
  BY HubAssumption DEF Init, Ownership, FiledByUser, FreshIsUntouched,
     RegisteredIsOpen, OpenIsOwned, NoChannelPanic, IsRegistered

\* A step that leaves the registry, the channels and the owner alone, and moves
\* a client only among the positions after Register, keeps the ownership.
LEMMA OwnershipFrame ==
  ASSUME Types, Ownership,
         UNCHANGED <<hub, byUser, chan, joined, pushed>>,
         \A c \in Clients :
           \/ pc'[c] = pc[c]
           \/ pc[c] = "idle" /\ pc'[c] = "registering"
           \/ /\ pc[c] \in {"serving", "unregistering"}
              /\ pc'[c] \in {"unregistering", "gone"}
  PROVE  Ownership'
  BY DEF Ownership, FiledByUser, FreshIsUntouched, RegisteredIsOpen,
     OpenIsOwned, NoChannelPanic, IsRegistered

LEMMA OwnershipNext == Types /\ Ownership /\ [Next]_hubVars => Ownership'
  <1> SUFFICES ASSUME Types, Ownership, [Next]_hubVars PROVE Ownership'
    OBVIOUS
  <1>1. ASSUME NEW to \in Recipient, Publish(to) PROVE Ownership'
    BY <1>1, OwnershipFrame DEF Publish
  <1>2. CASE Close
    BY <1>2, OwnershipFrame DEF Close
  <1>3. CASE RunUnregister
    <2> DEFINE d == Head(unregQ)
    <2>1. d \in Clients
      BY <1>3 DEF RunUnregister, Types
    <2>2. CASE ~IsRegistered(d)
      BY <1>3, <2>2, OwnershipFrame DEF RunUnregister
    <2>3. CASE IsRegistered(d)
      <3>1. byUser' = Without({d})
        BY <1>3, <2>3 DEF RunUnregister
      <3>2. FiledByUser' /\ \A c \in Clients : IsRegistered(c)' <=> IsRegistered(c) /\ c # d
        BY <2>1, <3>1, WithoutRemoves DEF Ownership
      <3>3. chan[d] = "open" /\ chan' = [chan EXCEPT ![d] = "closed"]
        BY <1>3, <2>1, <2>3 DEF RunUnregister, Closed, Ownership, RegisteredIsOpen
      <3>4. UNCHANGED <<hub, pc, joined, pushed>>
        BY <1>3 DEF RunUnregister
      <3>5. FreshIsUntouched'
        BY <2>3, <3>2, <3>3, <3>4 DEF Ownership, FreshIsUntouched, Types
      <3>6. RegisteredIsOpen' /\ OpenIsOwned' /\ NoChannelPanic'
        BY <3>2, <3>3, <3>4 DEF Ownership, RegisteredIsOpen, OpenIsOwned,
           NoChannelPanic, Types
      <3> QED BY <3>2, <3>5, <3>6 DEF Ownership
    <2> QED BY <2>2, <2>3
  <1>4. CASE RunDispatch
    <2> DEFINE T == Targets(log[handled + 1])
               D == Dropped(T)
    <2>1. log[handled + 1] \in Recipient
      BY <1>4, NextMessage DEF RunDispatch
    <2>2. \A c \in T : c \in Clients /\ IsRegistered(c) /\ chan[c] = "open"
      BY <1>4, <2>1, TargetsAreClients, TargetsAreRegistered
         DEF Ownership, RegisteredIsOpen, RunDispatch
    <2>3. /\ FiledByUser'
          /\ \A c \in Clients : IsRegistered(c)' <=> IsRegistered(c) /\ c \notin D
      <3>1. D \subseteq Clients /\ byUser' = Without(D)
        BY <1>4, <2>2 DEF RunDispatch, Dropped
      <3> QED BY <3>1, WithoutRemoves DEF Ownership
    <2>4. \A c \in Clients : chan'[c] = IF c \in D THEN "closed" ELSE chan[c]
      <3>1. D \subseteq T
        BY DEF Dropped
      <3> QED BY <1>4, <2>2, <3>1 DEF RunDispatch, Closed, SentOn
    <2>5. \A c \in Clients : c \notin T => pushed'[c] = pushed[c]
      BY <1>4 DEF RunDispatch
    <2>6. UNCHANGED <<hub, pc, joined>>
      BY <1>4 DEF RunDispatch
    <2>7. FreshIsUntouched'
      <3>1. \A c \in D : c \in T
        BY DEF Dropped
      <3> HIDE DEF T, D
      <3> QED BY <2>2, <2>3, <2>4, <2>5, <2>6, <3>1 DEF Ownership, FreshIsUntouched
    <2>8. RegisteredIsOpen' /\ OpenIsOwned' /\ NoChannelPanic'
      <3> HIDE DEF T, D
      <3> QED BY <2>3, <2>4, <2>6 DEF Ownership, RegisteredIsOpen, OpenIsOwned, NoChannelPanic
    <2> QED BY <2>3, <2>7, <2>8 DEF Ownership
  <1>5. CASE RunStop
    <2>1. \A c \in Clients : IsRegistered(c)' <=> IsRegistered(c)
      BY <1>5 DEF RunStop, IsRegistered
    <2>2. \A c \in Clients : chan'[c] = IF IsRegistered(c) THEN "closed" ELSE chan[c]
      BY <1>5 DEF RunStop, Closed, Registered, Ownership, RegisteredIsOpen
    <2>3. hub = "running" /\ hub' = "done" /\ UNCHANGED <<pc, joined, pushed>>
      BY <1>5 DEF RunStop
    <2>4. FiledByUser'
      BY <1>5 DEF RunStop, Ownership, FiledByUser
    <2> QED BY <2>1, <2>2, <2>3, <2>4 DEF Ownership, FreshIsUntouched,
           RegisteredIsOpen, OpenIsOwned, NoChannelPanic
  <1>6. ASSUME NEW c \in Clients, CallRegister(c) PROVE Ownership'
    BY <1>6, OwnershipFrame DEF CallRegister, Types
  <1>7. ASSUME NEW c \in Clients, RegisterStopped(c) PROVE Ownership'
    <2>1. chan' = [chan EXCEPT ![c] = "closed"] /\ pc' = [pc EXCEPT ![c] = "serving"]
      BY <1>7 DEF RegisterStopped, Closed, Ownership, FreshIsUntouched
    <2>2. ~IsRegistered(c)
      BY <1>7 DEF RegisterStopped, Ownership, FreshIsUntouched
    <2> QED BY <1>7, <2>1, <2>2 DEF RegisterStopped, Types, Ownership, FiledByUser,
           FreshIsUntouched, RegisteredIsOpen, OpenIsOwned, NoChannelPanic, IsRegistered
  <1>8. ASSUME NEW c \in Clients, CallUnregister(c) PROVE Ownership'
    BY <1>8, OwnershipFrame DEF CallUnregister, Types
  <1>9. ASSUME NEW c \in Clients, PostUnregister(c) PROVE Ownership'
    BY <1>9, OwnershipFrame DEF PostUnregister, Types
  <1>10. ASSUME NEW c \in Clients, UnregisterStopped(c) PROVE Ownership'
    BY <1>10, OwnershipFrame DEF UnregisterStopped, Types
  <1>11. ASSUME NEW c \in Clients, Receive(c) PROVE Ownership'
    BY <1>11, OwnershipFrame DEF Receive
  <1>12. ASSUME NEW c \in Clients, RunRegister(c) PROVE Ownership'
    <2>1. \A d \in Clients : IsRegistered(d)' <=> IsRegistered(d) \/ d = c
      BY <1>12, HubAssumption DEF RunRegister, Types, IsRegistered
    <2>2. FiledByUser'
      BY <1>12, HubAssumption DEF RunRegister, Types, Ownership, FiledByUser
    <2>3. chan[c] = "open" /\ hub = "running" /\ UNCHANGED <<hub, chan, pushed>>
      BY <1>12 DEF RunRegister, Ownership, FreshIsUntouched
    <2>4. /\ pc' = [pc EXCEPT ![c] = "serving"]
          /\ \A d \in Clients \ {c} : joined'[d] = joined[d]
      BY <1>12 DEF RunRegister, Types
    <2>5. FreshIsUntouched'
      BY <2>1, <2>3, <2>4 DEF Ownership, FreshIsUntouched, Types
    <2>6. RegisteredIsOpen' /\ OpenIsOwned' /\ NoChannelPanic'
      BY <2>1, <2>3, <2>4 DEF Ownership, RegisteredIsOpen, OpenIsOwned,
         NoChannelPanic, Types
    <2> QED BY <2>2, <2>5, <2>6 DEF Ownership
  <1>13. CASE UNCHANGED hubVars
    BY <1>13, OwnershipFrame DEF hubVars
  <1> QED
    BY <1>1, <1>2, <1>3, <1>4, <1>5, <1>6, <1>7, <1>8, <1>9, <1>10, <1>11,
       <1>12, <1>13 DEF Next

LEMMA OwnershipHolds == Spec => []Ownership
  BY TypesHold, OwnershipInit, OwnershipNext, PTL DEF Spec

\* No send on, and no second close of, a closed send channel, in any
\* interleaving of the owner, the publishers and the connections.
THEOREM NeverPanics == Spec => []NoChannelPanic
  <1>1. Ownership => NoChannelPanic
    BY DEF Ownership
  <1> QED BY <1>1, OwnershipHolds, PTL

\* A served connection whose channel is open is held by the running owner, so
\* no writeLoop waits on a channel that nobody will ever close.
THEOREM OpenChannelsAreOwned == Spec => []OpenIsOwned
  <1>1. Ownership => OpenIsOwned
    BY DEF Ownership
  <1> QED BY <1>1, OwnershipHolds, PTL

-----------------------------------------------------------------------------
(* The client count.                                                       *)

\* The owner only removes from the registry the slow clients among a message's
\* targets, all of them registered.
LEMMA DropsRegistered ==
  ASSUME Types, Ownership, RunDispatch
  PROVE  LET D == Dropped(Targets(log[handled + 1]))
         IN /\ byUser' = Without(D)
            /\ D \subseteq Registered
            /\ Registered' = Registered \ D
  <1> DEFINE T == Targets(log[handled + 1])
             D == Dropped(T)
  <1>1. T \subseteq Registered
    <2>1. log[handled + 1] \in Recipient
      BY NextMessage DEF RunDispatch
    <2> QED BY <2>1, TargetsAreClients, TargetsAreRegistered DEF Ownership, Registered
  <1>2. D \subseteq Registered /\ D \subseteq Clients
    BY <1>1 DEF Dropped, Registered
  <1>3. byUser' = Without(D)
    BY DEF RunDispatch
  <1>4. \A c \in Clients : IsRegistered(c)' <=> IsRegistered(c) /\ c \notin D
    <2> HIDE DEF D
    <2> QED BY <1>2, <1>3, WithoutRemoves
  <1>5. Registered' = Registered \ D
    BY <1>4 DEF Registered
  <1> QED BY <1>2, <1>3, <1>5

LEMMA RegisteredIsFinite == IsFiniteSet(Registered)
  BY HubAssumption, FS_Subset DEF Registered

LEMMA CountInit == Init => CountMatches
  <1>1. Init => Registered = {}
    BY HubAssumption DEF Init, Registered, IsRegistered
  <1> QED BY <1>1, FS_EmptySet DEF Init, CountMatches

LEMMA CountNext ==
  Types /\ Ownership /\ CountMatches /\ [Next]_hubVars => CountMatches'
  <1> SUFFICES ASSUME Types, Ownership, CountMatches, [Next]_hubVars
               PROVE  CountMatches'
    OBVIOUS
  <1>1. CASE UNCHANGED <<hub, byUser, count>>
    BY <1>1 DEF CountMatches, Registered, IsRegistered
  <1>2. CASE RunUnregister /\ IsRegistered(Head(unregQ))
    <2> DEFINE d == Head(unregQ)
    <2>1. d \in Registered /\ {d} \subseteq Clients
      BY <1>2 DEF RunUnregister, Types, Registered
    <2>2. byUser' = Without({d}) /\ count' = count - 1
      BY <1>2 DEF RunUnregister
    <2>3. Registered' = Registered \ {d}
      <3>1. \A c \in Clients : IsRegistered(c)' <=> IsRegistered(c) /\ c \notin {d}
        <4> HIDE DEF d
        <4> QED BY <2>1, <2>2, WithoutRemoves
      <3> QED BY <3>1 DEF Registered
    <2>4. Cardinality(Registered \ {d}) = Cardinality(Registered) - 1
      BY <2>1, RegisteredIsFinite, FS_RemoveElement
    <2> QED BY <1>2, <2>2, <2>3, <2>4 DEF RunUnregister, CountMatches
  <1>3. CASE RunDispatch
    <2> DEFINE D == Dropped(Targets(log[handled + 1]))
    <2>1. D \subseteq Registered /\ Registered' = Registered \ D
      BY <1>3, DropsRegistered
    <2>2. /\ IsFiniteSet(D) /\ Cardinality(D) \in Nat
          /\ Cardinality(Registered) \in Nat
          /\ Cardinality(Registered \ D) = Cardinality(Registered) - Cardinality(D)
      <3>1. IsFiniteSet(D) /\ Registered \cap D = D
        BY <2>1, RegisteredIsFinite, FS_Subset
      <3> QED BY <3>1, RegisteredIsFinite, FS_Difference, FS_CardinalityType
    <2>3. hub = "running" /\ hub' = hub /\ count' = count - Cardinality(D)
      BY <1>3 DEF RunDispatch
    <2> QED BY <2>1, <2>2, <2>3 DEF CountMatches
  <1>4. CASE RunStop
    BY <1>4 DEF RunStop, CountMatches
  <1>5. ASSUME NEW c \in Clients, RunRegister(c) PROVE CountMatches'
    <2>1. c \notin Registered /\ count' = count + 1 /\ hub = "running" /\ hub' = hub
      BY <1>5 DEF RunRegister, Ownership, FreshIsUntouched, Registered
    <2>2. Registered' = Registered \cup {c}
      BY <1>5, HubAssumption DEF RunRegister, Types, Registered, IsRegistered
    <2>3. Cardinality(Registered \cup {c}) = Cardinality(Registered) + 1
      BY <2>1, RegisteredIsFinite, FS_AddElement
    <2> QED BY <2>1, <2>2, <2>3 DEF CountMatches
  <1> QED
    BY <1>1, <1>2, <1>3, <1>4, <1>5 DEF Next, Publish, Close, RunUnregister,
       CallRegister, RegisterStopped, CallUnregister, PostUnregister,
       UnregisterStopped, Receive, hubVars

\* Count is exact at every moment, through duplicate unregistrations, drops of
\* slow clients and shutdown.
THEOREM CountIsExact == Spec => []CountMatches
  BY TypesHold, OwnershipHolds, CountInit, CountNext, PTL DEF Spec

\* The registry is exact in any order of registrations, unregistrations, drops
\* and a stop.
THEOREM RegistryHolds == Spec => []RegistryIsExact
  <1>1. CountMatches /\ OpenIsOwned => RegistryIsExact
    BY DEF RegistryIsExact
  <1> QED BY <1>1, CountIsExact, OpenChannelsAreOwned, PTL

-----------------------------------------------------------------------------
(* Contiguous delivery.                                                    *)

\* What c is owed up to n does not change while its join position and the
\* first n log entries stay.
LEMMA OwedFrame ==
  ASSUME Types, NEW c \in Clients, NEW n \in 0..handled,
         joined'[c] = joined[c], \A i \in 1..handled : log'[i] = log[i]
  PROVE  Owed(c, n)' = Owed(c, n)
  <1>1. joined[c] \in Nat /\ handled \in Nat
    BY DEF Types
  <1>2. joined[c] + 1..n \subseteq 1..handled
    BY <1>1
  <1> QED BY <1>2 DEF Owed

\* One client's part of ContiguousDelivery.
Window(c) ==
  \E n \in joined[c]..handled :
    /\ pushed[c] = Owed(c, n)
    /\ hub = "running" /\ IsRegistered(c) => n = handled

LEMMA ContiguousInit == Init => ContiguousDelivery
  BY DEF Init, ContiguousDelivery, Owed

LEMMA ContiguousNext ==
  Types /\ Ownership /\ ContiguousDelivery /\ [Next]_hubVars => ContiguousDelivery'
  <1> SUFFICES ASSUME Types, Ownership, ContiguousDelivery, [Next]_hubVars,
                      NEW c \in Clients
               PROVE  Window(c)'
    BY DEF ContiguousDelivery, Window
  <1> PICK n \in joined[c]..handled :
             /\ pushed[c] = Owed(c, n)
             /\ hub = "running" /\ IsRegistered(c) => n = handled
    BY DEF ContiguousDelivery
  <1>0. n \in 0..handled /\ handled \in Nat /\ joined[c] \in Nat
    BY DEF Types
  \* Steps of anyone but the owner, and the owner's steps that serve nothing:
  \* the window stays, and no client becomes registered.
  <1>1. ASSUME handled' = handled, joined'[c] = joined[c], pushed'[c] = pushed[c],
               \A i \in 1..handled : log'[i] = log[i],
               hub' = "running" => hub = "running",
               IsRegistered(c)' => IsRegistered(c)
        PROVE  Window(c)'
    <2>1. Owed(c, n)' = Owed(c, n)
      BY <1>0, <1>1, OwedFrame
    <2> QED BY <1>1, <2>1 DEF Window
  <1>2. ASSUME UNCHANGED <<handled, joined, pushed, hub, byUser>>,
               \A i \in 1..handled : log'[i] = log[i]
        PROVE  Window(c)'
    BY <1>1, <1>2 DEF IsRegistered
  <1>3. ASSUME NEW to \in Recipient, Publish(to) PROVE Window(c)'
    <2>1. \A i \in 1..handled : log'[i] = log[i]
      <3>1. CASE log' = Append(log, to)
        BY <3>1 DEF Types
      <3> QED BY <1>3, <3>1 DEF Publish
    <2> QED BY <1>2, <1>3, <2>1 DEF Publish
  <1>4. CASE RunUnregister /\ IsRegistered(Head(unregQ))
    <2> DEFINE d == Head(unregQ)
    <2>1. {d} \subseteq Clients /\ byUser' = Without({d})
      BY <1>4 DEF RunUnregister, Types
    <2>2. IsRegistered(c)' => IsRegistered(c)
      BY <2>1, WithoutRemoves
    <2> QED BY <1>1, <1>4, <2>2 DEF RunUnregister
  <1>5. CASE RunStop
    BY <1>1, <1>5 DEF RunStop, IsRegistered
  <1>6. ASSUME NEW d \in Clients, RunRegister(d) PROVE Window(c)'
    <2>1. CASE c # d
      <3>1. IsRegistered(c)' => IsRegistered(c)
        BY <1>6, <2>1, HubAssumption DEF RunRegister, Types, IsRegistered
      <3> QED BY <1>1, <1>6, <2>1, <3>1 DEF RunRegister, Types
    <2>2. CASE c = d
      <3>1. /\ pushed'[c] = {} /\ joined'[c] = handled /\ handled' = handled
        BY <1>6, <2>2 DEF RunRegister, Types, Ownership, FreshIsUntouched
      <3>2. Owed(c, handled)' = {}
        BY <1>0, <3>1 DEF Owed
      <3>3. handled \in joined'[c]..handled'
        BY <1>0, <3>1
      <3> QED BY <3>1, <3>2, <3>3 DEF Window
    <2> QED BY <2>1, <2>2
  <1>7. CASE RunDispatch
    <2> DEFINE to == log[handled + 1]
               T == Targets(to)
               D == Dropped(T)
    <2>1. to \in Recipient /\ handled' = handled + 1
      BY <1>7, NextMessage DEF RunDispatch
    <2>2. UNCHANGED <<hub, joined, log>> /\ hub = "running"
      BY <1>7 DEF RunDispatch
    <2>3. c \in T <=> IsRegistered(c) /\ to \in {Nobody, UserOf[c]}
      BY <2>1, TargetsAreRegistered DEF Ownership
    <2>4. IsRegistered(c)' <=> IsRegistered(c) /\ c \notin D
      BY <1>7, DropsRegistered DEF Registered
    <2>5. \A m \in 0..handled : Owed(c, m)' = Owed(c, m)
      BY <2>2, OwedFrame
    <2>6. CASE ~IsRegistered(c) \/ c \in D
      <3>1. pushed'[c] = pushed[c]
        BY <1>7, <2>3, <2>6 DEF RunDispatch, Dropped
      <3>2. ~IsRegistered(c)'
        BY <2>4, <2>6
      <3>3. n \in joined'[c]..handled'
        BY <1>0, <2>1, <2>2
      <3> QED BY <1>0, <2>5, <3>1, <3>2, <3>3 DEF Window
    <2>7. CASE IsRegistered(c) /\ c \notin D
      <3> PICK k \in Nat : k = handled + 1
        BY <1>0
      <3>1. pushed'[c] = IF to \in {Nobody, UserOf[c]}
                         THEN pushed[c] \cup {k} ELSE pushed[c]
        BY <1>7, <2>3, <2>7 DEF RunDispatch, Dropped
      <3>2. pushed[c] = Owed(c, handled)
        BY <2>2, <2>7
      <3>3. Owed(c, k)' = IF to \in {Nobody, UserOf[c]}
                          THEN Owed(c, handled) \cup {k} ELSE Owed(c, handled)
        <4>1. joined[c]+1..k = (joined[c]+1..handled) \cup {k}
          BY <1>0
        <4>2. Owed(c, k)' = {i \in joined[c]+1..k : log[i] \in {Nobody, UserOf[c]}}
          BY <2>2 DEF Owed
        <4> QED BY <4>1, <4>2 DEF Owed
      <3>4. k \in joined'[c]..handled'
        BY <1>0, <2>1, <2>2
      <3> QED BY <2>1, <3>1, <3>2, <3>3, <3>4 DEF Window
    <2> QED BY <2>6, <2>7
  <1> QED
    BY <1>2, <1>3, <1>4, <1>5, <1>6, <1>7 DEF Next, Close, RunUnregister,
       CallRegister, RegisterStopped, CallUnregister, PostUnregister,
       UnregisterStopped, Receive, hubVars

\* Every connection receives a contiguous stretch of what is addressed to it,
\* and nothing addressed to anyone else, however the owner, the publishers and
\* slow readers interleave.
THEOREM DeliveryIsContiguous == Spec => []ContiguousDelivery
  BY TypesHold, OwnershipHolds, ContiguousInit, ContiguousNext, PTL DEF Spec

-----------------------------------------------------------------------------
(* Refinement of Fanout.                                                   *)

\* The phases of Fanout, read off the hub.
Phases == [c \in Clients |-> Phase(c)]

LEMMA RefineInit == Init => Promise!Init
  BY HubAssumption DEF Init, Promise!Init, Phase, IsRegistered

LEMMA RefineNext ==
  Types /\ Ownership /\ [Next]_hubVars => [Promise!Next]_Promise!vars
  <1> SUFFICES ASSUME Types, Ownership, [Next]_hubVars
               PROVE  [Promise!Next]_Promise!vars
    OBVIOUS
  <1>1. ASSUME UNCHANGED <<log, handled, byUser, chan, joined, pushed>>
        PROVE  UNCHANGED Promise!vars
    BY <1>1 DEF Promise!vars, Phase, IsRegistered
  <1>2. ASSUME NEW to \in Recipient, Publish(to) PROVE [Promise!Next]_Promise!vars
    <2>1. CASE UNCHANGED log
      BY <1>1, <1>2, <2>1 DEF Publish
    <2>2. CASE log' = Append(log, to)
      <3>1. UNCHANGED Phases
        BY <1>2 DEF Publish, Phases, Phase, IsRegistered
      <3>2. Promise!Accept(to)
        BY <1>2, <2>2, <3>1 DEF Publish, Promise!Accept, Phases
      <3> QED BY <3>2 DEF Promise!Next, Recipient
    <2> QED BY <1>2, <2>1, <2>2 DEF Publish
  \* Closing the channels of a set of clients ends those clients.
  <1>3. ASSUME NEW S \in SUBSET Clients, UNCHANGED <<log, handled, joined, pushed>>,
               \A c \in Clients : chan'[c] = IF c \in S THEN "closed" ELSE chan[c],
               \A c \in Clients \ S : IsRegistered(c)' <=> IsRegistered(c)
        PROVE  Promise!Next
    <2>1. Phases' = [c \in Clients |-> IF c \in S THEN "ended" ELSE Phases[c]]
      BY <1>3 DEF Phases, Phase
    <2>2. Promise!End(S)
      BY <1>3, <2>1 DEF Promise!End, Phases
    <2> QED BY <2>2 DEF Promise!Next
  <1>4. CASE RunUnregister /\ IsRegistered(Head(unregQ))
    <2> DEFINE d == Head(unregQ)
    <2>1. d \in Clients /\ byUser' = Without({d})
      BY <1>4 DEF RunUnregister, Types
    <2>2. \A c \in Clients : chan'[c] = IF c \in {d} THEN "closed" ELSE chan[c]
      BY <1>4, <2>1 DEF RunUnregister, Closed, Types, Ownership, RegisteredIsOpen
    <2>3. \A c \in Clients \ {d} : IsRegistered(c)' <=> IsRegistered(c)
      BY <2>1, WithoutRemoves
    <2> QED BY <1>3, <1>4, <2>1, <2>2, <2>3 DEF RunUnregister
  <1>5. CASE RunStop
    <2>1. \A c \in Clients : chan'[c] = IF c \in Registered THEN "closed" ELSE chan[c]
      BY <1>5 DEF RunStop, Closed, Registered, Ownership, RegisteredIsOpen
    <2>2. \A c \in Clients : IsRegistered(c)' <=> IsRegistered(c)
      BY <1>5 DEF RunStop, IsRegistered
    <2>3. Registered \in SUBSET Clients
      BY DEF Registered
    <2> QED BY <1>3, <1>5, <2>1, <2>2, <2>3 DEF RunStop
  <1>6. ASSUME NEW c \in Clients, RegisterStopped(c) PROVE Promise!Next
    <2>1. \A d \in Clients : chan'[d] = IF d \in {c} THEN "closed" ELSE chan[d]
      BY <1>6 DEF RegisterStopped, Closed, Types, Ownership, FreshIsUntouched
    <2> QED BY <1>3, <1>6, <2>1 DEF RegisterStopped, IsRegistered
  <1>7. ASSUME NEW c \in Clients, RunRegister(c) PROVE Promise!Next
    <2>1. \A d \in Clients : IsRegistered(d)' <=> IsRegistered(d) \/ d = c
      BY <1>7, HubAssumption DEF RunRegister, Types, IsRegistered
    <2>2. chan[c] = "open" /\ ~IsRegistered(c) /\ UNCHANGED chan
      BY <1>7 DEF RunRegister, Ownership, FreshIsUntouched
    <2>3. Phases[c] = "new" /\ Phases' = [Phases EXCEPT ![c] = "live"]
      BY <2>1, <2>2 DEF Phases, Phase
    <2>4. Promise!Join(c)
      BY <1>7, <2>3 DEF RunRegister, Promise!Join, Phases
    <2> QED BY <2>4 DEF Promise!Next
  <1>8. CASE RunDispatch
    <2> DEFINE to == log[handled + 1]
               T == Targets(to)
               D == Dropped(T)
    <2>1. to \in Recipient
      BY <1>8, NextMessage DEF RunDispatch
    <2>2. \A c \in Clients : c \in T <=> Phases[c] = "live" /\ Promise!Addressed(to, c)
      BY <1>8, <2>1, TargetsAreRegistered
         DEF RunDispatch, Ownership, RegisteredIsOpen, Phases, Phase, Promise!Addressed
    <2>3. D \in SUBSET Clients /\ D \subseteq T /\ Registered' = Registered \ D
      BY <1>8, DropsRegistered DEF Registered, Dropped
    <2>4. \A c \in Clients : chan'[c] = IF c \in D THEN "closed" ELSE chan[c]
      <3>1. \A c \in Clients : c \in T => chan[c] = "open"
        BY <2>2 DEF Phases, Phase
      <3> QED BY <1>8, <2>3, <3>1 DEF RunDispatch, Closed, SentOn
    <2>5. Phases' = [c \in Clients |-> IF c \in D THEN "ended" ELSE Phases[c]]
      <3>1. \A c \in Clients \ D : IsRegistered(c)' <=> IsRegistered(c)
        BY <2>3 DEF Registered
      <3> HIDE DEF D
      <3> QED BY <2>4, <3>1 DEF Phases, Phase
    <2>6. pushed' = [c \in Clients |->
                      IF Phases[c] = "live" /\ Promise!Addressed(to, c) /\ c \notin D
                      THEN pushed[c] \cup {handled + 1} ELSE pushed[c]]
      <3>1. \A c \in Clients : c \in {x \in T : HasRoom(x)} <=>
              Phases[c] = "live" /\ Promise!Addressed(to, c) /\ c \notin D
        BY <2>2 DEF Dropped
      <3> QED BY <1>8, <3>1 DEF RunDispatch
    <2>7. handled < Len(log) /\ handled' = handled + 1 /\ UNCHANGED <<log, joined>>
      BY <1>8 DEF RunDispatch
    <2>8. Promise!Serve(D)
      <3> HIDE DEF D
      <3> QED BY <2>5, <2>6, <2>7 DEF Promise!Serve, Phases
    <2> QED BY <2>3, <2>8 DEF Promise!Next
  <1> QED
    BY <1>1, <1>2, <1>4, <1>5, <1>6, <1>7, <1>8 DEF Next, Close, RunUnregister,
       CallRegister, CallUnregister, PostUnregister, UnregisterStopped, Receive,
       hubVars

\* The hub, with its goroutines, channels, capacities and shutdown, implements
\* the log-and-positions promise of Fanout.
THEOREM HubImplementsFanout == Spec => ImplementsFanout
  BY TypesHold, OwnershipHolds, RefineInit, RefineNext, PTL
     DEF Spec, ImplementsFanout, Promise!Spec

-----------------------------------------------------------------------------
(***************************************************************************)
(* Part 2: connections.                                                    *)
(***************************************************************************)

\* Every step of a connection is a step of the hub or leaves it alone.
LEMMA ConnStepIsHubStep == [ConnNext]_connVars => [Next]_hubVars
  <1> SUFFICES ASSUME [ConnNext]_connVars PROVE [Next]_hubVars
    OBVIOUS
  <1>1. CASE HubStep
    BY <1>1 DEF HubStep, Next
  <1>2. ASSUME NEW c \in Clients, Connect(c) PROVE Next
    BY <1>2 DEF Connect, Next
  <1>3. ASSUME NEW c \in Clients, PeerLeaves(c) PROVE UNCHANGED hubVars
    BY <1>3 DEF PeerLeaves
  <1>4. ASSUME NEW c \in Clients, HandlerStep(c) PROVE UNCHANGED hubVars
    BY <1>4 DEF HandlerStep, QueryBacklog, ReplayWrite, ReplayFails, RunClient
  <1>5. ASSUME NEW c \in Clients, ReaderStep(c) PROVE [Next]_hubVars
    BY <1>5 DEF ReaderStep, ReadFails, CloseConn, Next
  <1>6. ASSUME NEW c \in Clients, WriterStep(c) PROVE [Next]_hubVars
    <2>1. CASE TakeMessage(c)
      BY <2>1 DEF TakeMessage, Next
    <2>2. CASE WriteMessage(c) \/ WriteFails(c) \/ ChannelClosed(c) \/ PingFails(c)
      BY <2>2 DEF WriteMessage, WriteFails, ChannelClosed, PingFails, EndWriter
    <2> QED BY <1>6, <2>1, <2>2 DEF WriterStep
  <1>7. CASE UNCHANGED connVars
    BY <1>7 DEF connVars
  <1> QED BY <1>1, <1>2, <1>3, <1>4, <1>5, <1>6, <1>7 DEF ConnNext

\* The hub under real connections is the hub of Hub.tla.
LEMMA ConnectionsKeepHub == ConnSpec => Spec
  <1>1. ConnInit => Init
    BY DEF ConnInit
  <1> QED BY <1>1, ConnStepIsHubStep, PTL DEF ConnSpec, Spec

\* So no send channel of a connection is ever closed twice or sent on after it
\* was closed.
THEOREM ConnectionsNeverPanic == ConnSpec => []NoChannelPanic
  BY ConnectionsKeepHub, NeverPanics, PTL

\* And what a connection is pushed has no gap.
THEOREM ConnectionsAreContiguous == ConnSpec => []ContiguousDelivery
  BY ConnectionsKeepHub, DeliveryIsContiguous, PTL

-----------------------------------------------------------------------------
(* Type correctness of the connection's own state.                         *)

LEMMA ConnectionsTyped == ConnSpec => []Types
  <1>1. TypeOK => Types
    BY DEF TypeOK
  <1> QED BY <1>1, ConnectionsKeepHub, TypeCorrect, PTL

LEMMA ConnTypesInit == ConnInit => ConnTypes
  <1> SUFFICES ASSUME ConnInit PROVE ConnTypes
    OBVIOUS
  <1>1. 0 \in 0..MaxBacklog
    BY ConnectionAssumption
  <1>2. /\ stage \in [Clients -> Stages]
        /\ writer \in [Clients -> {"off", "running", "ended"}]
        /\ conn \in [Clients -> {"open", "broken", "closed"}]
        /\ peer \in [Clients -> {"up", "down"}]
    BY DEF ConnInit, Stages
  <1>3. hand \in [Clients -> Nat] /\ backlog \in [Clients -> 0..MaxBacklog]
    BY <1>1 DEF ConnInit
  <1>4. wire \in [Clients -> Seq(Nat \cup {Backlog, CloseFrame})]
    BY DEF ConnInit
  <1> QED BY <1>2, <1>3, <1>4 DEF ConnTypes

\* A frame written keeps wire a sequence of frames.
LEMMA WriteFrame ==
  ASSUME ConnTypes, NEW c \in Clients, NEW f \in Nat \cup {Backlog, CloseFrame},
         wire' = [wire EXCEPT ![c] = Append(@, f)]
  PROVE  /\ wire' \in [Clients -> Seq(Nat \cup {Backlog, CloseFrame})]
         /\ \A d \in Clients \ {c} : wire'[d] = wire[d]
         /\ DOMAIN wire'[c] = 1..(Len(wire[c]) + 1)
         /\ DOMAIN wire[c] = 1..Len(wire[c])
         /\ Len(wire[c]) \in Nat
         /\ wire'[c][Len(wire[c]) + 1] = f
         /\ \A i \in 1..Len(wire[c]) : wire'[c][i] = wire[c][i]
  <1> DEFINE F == Nat \cup {Backlog, CloseFrame}
  <1>1. wire \in [Clients -> Seq(F)]
    BY DEF ConnTypes
  <1>2. wire[c] \in Seq(F) /\ f \in F
    BY <1>1
  <1>3. wire'[c] = Append(wire[c], f) /\ \A d \in Clients \ {c} : wire'[d] = wire[d]
    BY <1>1
  <1> HIDE DEF F
  <1>4. Append(wire[c], f) \in Seq(F) /\ Len(Append(wire[c], f)) = Len(wire[c]) + 1
    BY <1>2
  <1>5. /\ Append(wire[c], f)[Len(wire[c]) + 1] = f
        /\ \A i \in 1..Len(wire[c]) : Append(wire[c], f)[i] = wire[c][i]
        /\ DOMAIN wire[c] = 1..Len(wire[c])
        /\ Len(wire[c]) \in Nat
    BY <1>2
  <1>6. DOMAIN Append(wire[c], f) = 1..(Len(wire[c]) + 1)
    BY <1>4
  <1>7. wire' \in [Clients -> Seq(F)]
    BY <1>1, <1>4
  <1> QED BY <1>3, <1>5, <1>6, <1>7 DEF F

\* Every frame is an old one or the one just written, which is the last.
LEMMA FrameAdded ==
  ASSUME ConnTypes, NEW c \in Clients, NEW f \in Nat \cup {Backlog, CloseFrame},
         wire' = [wire EXCEPT ![c] = Append(@, f)]
  PROVE  \A i \in DOMAIN wire'[c] :
           i \in DOMAIN wire[c] \/ (i = Len(wire'[c]) /\ wire'[c][i] = f)
  <1> DEFINE n == Len(wire[c])
  <1>1. /\ DOMAIN wire'[c] = 1..(n + 1)
        /\ DOMAIN wire[c] = 1..n
        /\ n \in Nat
        /\ wire'[c][n + 1] = f
    BY WriteFrame
  <1>2. wire'[c] \in Seq(Nat \cup {Backlog, CloseFrame})
    BY WriteFrame
  <1>3. DOMAIN wire'[c] = 1..Len(wire'[c]) /\ Len(wire'[c]) \in Nat
    BY <1>2
  <1> HIDE DEF n
  <1>4. Len(wire'[c]) = n + 1
    BY <1>1, <1>3
  <1>5. \A i \in 1..(n + 1) : i \in 1..n \/ i = n + 1
    BY <1>1
  <1> QED BY <1>1, <1>4, <1>5

LEMMA ConnTypesNext == Types /\ ConnTypes /\ [ConnNext]_connVars => ConnTypes'
  <1> SUFFICES ASSUME Types, ConnTypes, [ConnNext]_connVars PROVE ConnTypes'
    OBVIOUS
  <1>1. CASE UNCHANGED connectionVars
    BY <1>1 DEF connectionVars, ConnTypes
  <1>2. CASE HubStep
    BY <1>1, <1>2 DEF HubStep
  <1>3. ASSUME NEW c \in Clients, Connect(c) \/ PeerLeaves(c) PROVE ConnTypes'
    BY <1>3 DEF Connect, PeerLeaves, ConnTypes, Stages
  <1>4. ASSUME NEW c \in Clients, HandlerStep(c) PROVE ConnTypes'
    <2>1. ASSUME NEW n \in 0..MaxBacklog, QueryBacklog(c, n) PROVE ConnTypes'
      BY <2>1 DEF QueryBacklog, ConnTypes, Stages
    <2>2. CASE ReplayWrite(c)
      <3>1. wire' \in [Clients -> Seq(Nat \cup {Backlog, CloseFrame})]
        BY <2>2, WriteFrame DEF ReplayWrite
      <3>2. backlog[c] - 1 \in 0..MaxBacklog
        BY <2>2, ConnectionAssumption DEF ReplayWrite, ConnTypes
      <3>3. backlog' \in [Clients -> 0..MaxBacklog]
        BY <2>2, <3>2 DEF ReplayWrite, ConnTypes
      <3> QED BY <2>2, <3>1, <3>3 DEF ReplayWrite, ConnTypes
    <2>3. CASE ReplayFails(c)
      <3>1. 0 \in 0..MaxBacklog
        BY ConnectionAssumption
      <3> QED BY <2>3, <3>1 DEF ReplayFails, ConnTypes
    <2>4. CASE RunClient(c)
      BY <2>4 DEF RunClient, ConnTypes, Stages
    <2> QED BY <1>4, <2>1, <2>2, <2>3, <2>4 DEF HandlerStep
  <1>5. ASSUME NEW c \in Clients, ReaderStep(c) PROVE ConnTypes'
    BY <1>5 DEF ReaderStep, ReadFails, CloseConn, ConnTypes, Stages
  <1>6. ASSUME NEW c \in Clients, WriterStep(c) PROVE ConnTypes'
    <2>e. ASSUME EndWriter(c), wire' \in [Clients -> Seq(Nat \cup {Backlog, CloseFrame})]
          PROVE  ConnTypes'
      BY <2>e DEF EndWriter, ConnTypes
    <2>1. CASE TakeMessage(c)
      <3>1. send[c] \in Seq(Nat) /\ send[c] # <<>>
        BY <2>1 DEF TakeMessage, Receive, Types
      <3>2. Head(send[c]) \in Nat
        BY <3>1
      <3> QED BY <2>1, <3>2 DEF TakeMessage, ConnTypes
    <2>2. CASE WriteMessage(c)
      <3>1. hand[c] \in Nat \cup {Backlog, CloseFrame}
        BY DEF ConnTypes
      <3>2. wire' \in [Clients -> Seq(Nat \cup {Backlog, CloseFrame})]
        BY <2>2, <3>1, WriteFrame DEF WriteMessage
      <3> QED BY <2>2, <3>2 DEF WriteMessage, ConnTypes
    <2>3. CASE WriteFails(c) \/ PingFails(c)
      <3>1. wire' = wire /\ EndWriter(c)
        BY <2>3 DEF WriteFails, PingFails
      <3>2. wire' \in [Clients -> Seq(Nat \cup {Backlog, CloseFrame})]
        BY <3>1 DEF ConnTypes
      <3> QED BY <3>1, <3>2, <2>e
    <2>4. CASE ChannelClosed(c)
      <3>1. CASE wire' = [wire EXCEPT ![c] = Append(@, CloseFrame)]
        <4>1. wire' \in [Clients -> Seq(Nat \cup {Backlog, CloseFrame})]
          BY <3>1, WriteFrame
        <4> QED BY <2>4, <4>1, <2>e DEF ChannelClosed
      <3>2. CASE wire' = wire
        <4>1. wire' \in [Clients -> Seq(Nat \cup {Backlog, CloseFrame})]
          BY <3>2 DEF ConnTypes
        <4> QED BY <2>4, <4>1, <2>e DEF ChannelClosed
      <3> QED BY <2>4, <3>1, <3>2 DEF ChannelClosed
    <2> QED BY <1>6, <2>1, <2>2, <2>3, <2>4 DEF WriterStep
  <1> QED BY <1>1, <1>2, <1>3, <1>4, <1>5, <1>6 DEF ConnNext, connVars, connectionVars

LEMMA ConnTypesHold == ConnSpec => []ConnTypes
  BY ConnTypesInit, ConnTypesNext, ConnectionsTyped, PTL DEF ConnSpec

\* Type correctness; in particular a replay never exceeds its limit.
THEOREM ConnectionTypeCorrect == ConnSpec => []ConnTypeOK
  BY ConnTypesHold, PTL DEF ConnTypeOK

-----------------------------------------------------------------------------
(* Registering and unregistering.                                          *)

\* What waits in the unregister channel are requests for connections that have
\* made theirs, one for each.
AskedOnce ==
  \A i \in DOMAIN unregQ :
    /\ pc[unregQ[i]] = "gone"
    /\ \A j \in DOMAIN unregQ : unregQ[i] = unregQ[j] => i = j

Waiting(c) == \E i \in DOMAIN unregQ : unregQ[i] = c

\* A connection that has made its request and is still held has it waiting.
HeldWaits ==
  \A c \in Clients : pc[c] = "gone" /\ hub = "running" /\ IsRegistered(c) => stopped \/ Waiting(c)

LEMMA RequestsInit == Init => AskedOnce /\ HeldWaits
  BY DEF Init, AskedOnce, HeldWaits

\* A step that leaves the channel alone, moves no connection to or from where it
\* has made its request, and adds none of these to the registry.
LEMMA RequestsFrame ==
  ASSUME Types, AskedOnce, HeldWaits, UNCHANGED unregQ,
         stopped => stopped', hub' = "running" => hub = "running",
         \A c \in Clients : /\ pc[c] = "gone" <=> pc'[c] = "gone"
                            /\ IsRegistered(c)' /\ pc[c] = "gone" => IsRegistered(c)
  PROVE  AskedOnce' /\ HeldWaits'
  <1>q. unregQ' = unregQ
    OBVIOUS
  <1>1. ASSUME NEW i \in DOMAIN unregQ, NEW j \in DOMAIN unregQ
        PROVE  pc'[unregQ[i]] = "gone" /\ (unregQ[i] = unregQ[j] => i = j)
    <2>1. unregQ[i] \in Clients
      BY DEF Types
    <2>2. pc[unregQ[i]] = "gone" /\ (unregQ[i] = unregQ[j] => i = j)
      BY DEF AskedOnce
    <2> QED BY <2>1, <2>2
  <1>2. ASSUME NEW c \in Clients, pc'[c] = "gone", hub' = "running", IsRegistered(c)'
        PROVE  stopped' \/ Waiting(c)
    <2>1. pc[c] = "gone" /\ hub = "running" /\ IsRegistered(c)
      BY <1>2
    <2>2. stopped \/ Waiting(c)
      BY <2>1 DEF HeldWaits
    <2> QED BY <2>2
  <1>3. \A c \in Clients : Waiting(c)' <=> Waiting(c)
    BY <1>q DEF Waiting
  <1> QED BY <1>q, <1>1, <1>2, <1>3 DEF AskedOnce, HeldWaits

LEMMA RequestsNext ==
  Types /\ Ownership /\ AskedOnce /\ HeldWaits /\ [Next]_hubVars => AskedOnce' /\ HeldWaits'
  <1> SUFFICES ASSUME Types, Ownership, AskedOnce, HeldWaits, [Next]_hubVars
               PROVE  AskedOnce' /\ HeldWaits'
    OBVIOUS
  <1>t. unregQ \in Seq(Clients) /\ pc \in [Clients -> Positions]
    BY DEF Types
  <1>1. CASE (\E to \in Recipient : Publish(to)) \/ Close \/ RunStop \/ UNCHANGED hubVars
    BY <1>1, RequestsFrame DEF Publish, Close, RunStop, IsRegistered, hubVars
  <1>2. CASE RunUnregister
    <2> DEFINE d == Head(unregQ)
    <2>1. /\ unregQ # <<>> /\ unregQ' = Tail(unregQ) /\ UNCHANGED <<hub, stopped, pc>>
          /\ byUser' = IF IsRegistered(d) THEN Without({d}) ELSE byUser
      BY <1>2 DEF RunUnregister
    <2>2. /\ d \in Clients /\ Len(unregQ) \in Nat \ {0} /\ unregQ[1] = d
          /\ DOMAIN unregQ = 1..Len(unregQ)
          /\ DOMAIN unregQ' = 1..(Len(unregQ) - 1)
          /\ \A i \in DOMAIN unregQ' : unregQ'[i] = unregQ[i + 1] /\ i + 1 \in DOMAIN unregQ
      BY <2>1, <1>t
    <2>3. AskedOnce'
      <3> SUFFICES ASSUME NEW i \in DOMAIN unregQ'
                   PROVE  /\ pc'[unregQ'[i]] = "gone"
                          /\ \A j \in DOMAIN unregQ' : unregQ'[i] = unregQ'[j] => i = j
        BY DEF AskedOnce
      <3>1. pc[unregQ[i + 1]] = "gone"
        BY <2>2 DEF AskedOnce
      <3>2. ASSUME NEW j \in DOMAIN unregQ', unregQ'[i] = unregQ'[j] PROVE i = j
        <4>1. i + 1 = j + 1
          BY <2>2, <3>2 DEF AskedOnce
        <4> QED BY <4>1, <2>2
      <3> QED BY <2>1, <2>2, <3>1, <3>2
    <2>4. \A c \in Clients : IsRegistered(c)' => IsRegistered(c) /\ c # d
      <3>1. CASE IsRegistered(d)
        BY <2>1, <2>2, <3>1, WithoutRemoves
      <3>2. CASE ~IsRegistered(d)
        BY <2>1, <3>2 DEF IsRegistered
      <3> QED BY <3>1, <3>2
    <2>5. ASSUME NEW c \in Clients, pc'[c] = "gone", hub' = "running", IsRegistered(c)', ~stopped'
          PROVE  Waiting(c)'
      <3>1. pc[c] = "gone" /\ hub = "running" /\ IsRegistered(c) /\ ~stopped /\ c # d
        BY <2>1, <2>4, <2>5
      <3>2. PICK i \in DOMAIN unregQ : unregQ[i] = c
        BY <3>1 DEF HeldWaits, Waiting
      <3>3. i # 1 /\ i - 1 \in DOMAIN unregQ'
        BY <2>2, <3>1, <3>2
      <3>4. unregQ'[i - 1] = c
        <4>1. unregQ'[i - 1] = unregQ[(i - 1) + 1] /\ (i - 1) + 1 = i
          BY <2>2, <3>2, <3>3
        <4> QED BY <4>1, <3>2
      <3> QED BY <3>3, <3>4 DEF Waiting
    <2> QED BY <2>3, <2>5 DEF HeldWaits
  <1>3. CASE RunDispatch
    <2> DEFINE D == Dropped(Targets(log[handled + 1]))
    <2>1. byUser' = Without(D) /\ UNCHANGED <<hub, stopped, unregQ, pc>>
      BY <1>3 DEF RunDispatch
    <2>2. D \subseteq Clients
      <3>1. log[handled + 1] \in Recipient
        BY <1>3, NextMessage DEF RunDispatch
      <3> QED BY <3>1, TargetsAreClients DEF Dropped
    <2>3. \A c \in Clients : IsRegistered(c)' => IsRegistered(c)
      <3> HIDE DEF D
      <3> QED BY <2>1, <2>2, WithoutRemoves
    <2> QED BY <2>1, <2>3, RequestsFrame
  <1>4. ASSUME NEW c \in Clients, CallRegister(c) \/ RegisterStopped(c) \/ CallUnregister(c)
        PROVE  AskedOnce' /\ HeldWaits'
    <2>1. /\ UNCHANGED <<stopped, hub, unregQ, byUser>>
          /\ \A d \in Clients : pc[d] = "gone" <=> pc'[d] = "gone"
      BY <1>4, <1>t DEF CallRegister, RegisterStopped, CallUnregister
    <2> QED BY <2>1, RequestsFrame DEF IsRegistered
  <1>5. ASSUME NEW c \in Clients, Receive(c) PROVE AskedOnce' /\ HeldWaits'
    BY <1>5, RequestsFrame DEF Receive, IsRegistered
  <1>6. ASSUME NEW c \in Clients, RunRegister(c) PROVE AskedOnce' /\ HeldWaits'
    <2>1. /\ UNCHANGED <<stopped, hub, unregQ>>
          /\ \A d \in Clients : pc[d] = "gone" <=> pc'[d] = "gone"
          /\ pc[c] # "gone"
      BY <1>6, <1>t DEF RunRegister
    <2>2. \A d \in Clients : IsRegistered(d)' /\ d # c => IsRegistered(d)
      BY <1>6, HubAssumption DEF RunRegister, Types, IsRegistered
    <2> QED BY <2>1, <2>2, RequestsFrame
  <1>7. ASSUME NEW c \in Clients, UnregisterStopped(c) PROVE AskedOnce' /\ HeldWaits'
    <2>1. stopped /\ pc' = [pc EXCEPT ![c] = "gone"] /\ UNCHANGED <<stopped, unregQ>>
      BY <1>7 DEF UnregisterStopped
    <2>2. AskedOnce'
      BY <2>1, <1>t DEF AskedOnce
    <2> QED BY <2>1, <2>2 DEF HeldWaits
  <1>8. ASSUME NEW c \in Clients, PostUnregister(c) PROVE AskedOnce' /\ HeldWaits'
    <2> DEFINE n == Len(unregQ)
    <2>1. /\ pc[c] = "unregistering" /\ pc' = [pc EXCEPT ![c] = "gone"]
          /\ unregQ' = Append(unregQ, c) /\ UNCHANGED <<stopped, hub, byUser>>
      BY <1>8 DEF PostUnregister
    <2>2. /\ n \in Nat /\ DOMAIN unregQ = 1..n /\ DOMAIN unregQ' = 1..(n + 1)
          /\ unregQ'[n + 1] = c
          /\ \A i \in 1..n : unregQ'[i] = unregQ[i] /\ unregQ[i] \in Clients
      BY <2>1, <1>t
    <2> HIDE DEF n
    <2>3. \A i \in 1..n : pc[unregQ[i]] = "gone" /\ unregQ[i] # c
      BY <2>1, <2>2 DEF AskedOnce
    <2>4. AskedOnce'
      <3> SUFFICES ASSUME NEW i \in 1..(n + 1)
                   PROVE  /\ pc'[unregQ'[i]] = "gone"
                          /\ \A j \in 1..(n + 1) : unregQ'[i] = unregQ'[j] => i = j
        BY <2>2 DEF AskedOnce
      <3>1. CASE i = n + 1
        BY <3>1, <2>1, <2>2, <2>3, <1>t
      <3>2. CASE i \in 1..n
        <4>1. pc'[unregQ'[i]] = "gone"
          BY <3>2, <2>1, <2>2, <2>3, <1>t
        <4>2. ASSUME NEW j \in 1..(n + 1), unregQ'[i] = unregQ'[j] PROVE i = j
          <5>1. j \in 1..n
            BY <3>2, <4>2, <2>2, <2>3
          <5> QED BY <3>2, <4>2, <5>1, <2>2 DEF AskedOnce
        <4> QED BY <4>1, <4>2
      <3> QED BY <3>1, <3>2, <2>2
    <2>5. ASSUME NEW d \in Clients, pc'[d] = "gone", hub' = "running", IsRegistered(d)', ~stopped'
          PROVE  Waiting(d)'
      <3>1. CASE d = c
        BY <3>1, <2>2 DEF Waiting
      <3>2. CASE d # c
        <4>1. Waiting(d)
          BY <3>2, <2>1, <2>5, <1>t DEF HeldWaits, IsRegistered
        <4>2. PICK i \in 1..n : unregQ[i] = d
          BY <4>1, <2>2 DEF Waiting
        <4>3. i \in DOMAIN unregQ' /\ unregQ'[i] = d
          BY <4>2, <2>2
        <4> QED BY <4>3 DEF Waiting
      <3> QED BY <3>1, <3>2
    <2> QED BY <2>4, <2>5 DEF HeldWaits
  <1> QED BY <1>1, <1>2, <1>3, <1>4, <1>5, <1>6, <1>7, <1>8 DEF Next

\* Where the goroutine of a connection stands with respect to the hub.
StageAt(c) ==
  /\ stage[c] = "new" => pc[c] = "idle"
  /\ stage[c] = "handling" => pc[c] \in {"registering", "serving"}
  /\ stage[c] \in {"replaying", "reading"} => pc[c] = "serving"
  /\ stage[c] = "closing" => pc[c] \in {"unregistering", "gone"}
  /\ stage[c] = "ended" => pc[c] = "gone"

InStep == \A c \in Clients : StageAt(c)

LEMMA InStepInit == ConnInit => InStep
  BY DEF ConnInit, Init, InStep, StageAt

LEMMA InStepNext == Types /\ ConnTypes /\ InStep /\ [ConnNext]_connVars => InStep'
  <1> SUFFICES ASSUME Types, ConnTypes, InStep, [ConnNext]_connVars, NEW c \in Clients
               PROVE  StageAt(c)'
    BY DEF InStep
  <1>t. /\ stage \in [Clients -> Stages] /\ pc \in [Clients -> Positions]
        /\ StageAt(c)
    BY DEF Types, ConnTypes, InStep
  <1>1. CASE HubStep
    <2>1. stage' = stage
      BY <1>1 DEF HubStep, connectionVars
    <2>2. CASE (\E to \in Recipient : Publish(to)) \/ Close \/ RunUnregister \/ RunDispatch \/ RunStop
      BY <2>1, <2>2, <1>t DEF Publish, Close, RunUnregister, RunDispatch, RunStop, StageAt
    <2>3. ASSUME NEW d \in Clients,
                 \/ RunRegister(d) \/ RegisterStopped(d)
                 \/ PostUnregister(d) \/ UnregisterStopped(d)
          PROVE  StageAt(c)'
      BY <2>1, <2>3, <1>t
         DEF RunRegister, RegisterStopped, PostUnregister, UnregisterStopped, StageAt, Stages
    <2> QED BY <1>1, <2>2, <2>3 DEF HubStep
  <1>2. ASSUME NEW d \in Clients, Connect(d) PROVE StageAt(c)'
    BY <1>2, <1>t DEF Connect, CallRegister, StageAt
  <1>3. ASSUME NEW d \in Clients, PeerLeaves(d) PROVE StageAt(c)'
    BY <1>3, <1>t DEF PeerLeaves, hubVars, StageAt
  <1>4. ASSUME NEW d \in Clients, HandlerStep(d) PROVE StageAt(c)'
    BY <1>4, <1>t DEF HandlerStep, QueryBacklog, ReplayWrite, ReplayFails, RunClient, hubVars,
       StageAt
  <1>5. ASSUME NEW d \in Clients, ReaderStep(d) PROVE StageAt(c)'
    BY <1>5, <1>t DEF ReaderStep, ReadFails, CallUnregister, CloseConn, hubVars, StageAt
  <1>6. ASSUME NEW d \in Clients, WriterStep(d) PROVE StageAt(c)'
    <2>1. UNCHANGED <<stage, pc>>
      BY <1>6 DEF WriterStep, TakeMessage, Receive, WriteMessage, WriteFails, ChannelClosed,
         PingFails, EndWriter, hubVars
    <2> QED BY <2>1, <1>t DEF StageAt
  <1>7. CASE UNCHANGED connVars
    BY <1>7, <1>t DEF connVars, hubVars, connectionVars, StageAt
  <1> QED BY <1>1, <1>2, <1>3, <1>4, <1>5, <1>6, <1>7 DEF ConnNext

\* The hub owns the connections that are served, and is asked once to forget one
\* that has ended.
THEOREM HubKnows == ConnSpec => []HubKnowsTheServed
  <1>1. Types /\ ConnTypes /\ Ownership /\ AskedOnce /\ HeldWaits /\ InStep => HubKnowsTheServed
    <2> SUFFICES ASSUME Types, ConnTypes, Ownership, AskedOnce, HeldWaits, InStep
                 PROVE  HubKnowsTheServed
      OBVIOUS
    <2>1. ASSUME NEW c \in Clients, stage[c] \in {"replaying", "reading"}, chan[c] = "open"
          PROVE  hub = "running" /\ IsRegistered(c)
      BY <2>1 DEF Ownership, OpenIsOwned, InStep, StageAt
    <2>2. ASSUME NEW c \in Clients, stage[c] = "ended", hub = "running", IsRegistered(c)
          PROVE  stopped \/ \E i \in DOMAIN unregQ : unregQ[i] = c
      BY <2>2 DEF HeldWaits, Waiting, InStep, StageAt
    <2>3. ASSUME NEW i \in DOMAIN unregQ
          PROVE  /\ stage[unregQ[i]] \in {"closing", "ended"}
                 /\ \A j \in DOMAIN unregQ : unregQ[i] = unregQ[j] => i = j
      <3>1. unregQ[i] \in Clients /\ pc[unregQ[i]] = "gone"
        BY DEF Types, AskedOnce
      <3>2. stage[unregQ[i]] \in Stages /\ StageAt(unregQ[i])
        BY <3>1 DEF ConnTypes, InStep
      <3>3. stage[unregQ[i]] \in {"closing", "ended"}
        BY <3>1, <3>2 DEF StageAt, Stages
      <3> QED BY <3>3 DEF AskedOnce
    <2> QED BY <2>1, <2>2, <2>3 DEF HubKnowsTheServed
  <1>2. ConnInit => Init
    BY DEF ConnInit
  <1>3. ConnSpec => []Ownership
    BY ConnectionsKeepHub, OwnershipHolds, PTL
  <1>4. ConnSpec => [](AskedOnce /\ HeldWaits)
    BY <1>2, <1>3, ConnectionsTyped, RequestsInit, RequestsNext, ConnStepIsHubStep, PTL
    DEF ConnSpec
  <1>5. ConnSpec => []InStep
    BY InStepInit, InStepNext, ConnectionsTyped, ConnTypesHold, PTL DEF ConnSpec
  <1> QED BY <1>1, <1>3, <1>4, <1>5, ConnectionsTyped, ConnTypesHold, PTL

-----------------------------------------------------------------------------
(* The replay: a live frame is written by writeLoop only, which starts when *)
(* the last replayed frame has been written or given up.                   *)

OnlyBacklog(c) == \A i \in DOMAIN wire[c] : wire[c][i] = Backlog

BacklogFirst(c) ==
  \A i, j \in DOMAIN wire[c] : i < j /\ wire[c][j] = Backlog => wire[c][i] = Backlog

ReplayPhase(c) ==
  /\ stage[c] \in {"new", "handling", "replaying"} => writer[c] = "off"
  /\ stage[c] \in {"new", "handling"} => backlog[c] = 0
  /\ writer[c] # "off" => backlog[c] = 0
  /\ writer[c] = "off" => hand[c] = 0 /\ OnlyBacklog(c)
  /\ BacklogFirst(c)

Replays == \A c \in Clients : ReplayPhase(c)

LEMMA ReplaysInit == ConnInit => Replays
  <1> SUFFICES ASSUME ConnInit, NEW c \in Clients PROVE ReplayPhase(c)
    BY DEF Replays
  <1>1. wire[c] = <<>>
    BY DEF ConnInit
  <1>2. OnlyBacklog(c) /\ BacklogFirst(c)
    BY <1>1 DEF OnlyBacklog, BacklogFirst
  <1> QED BY <1>2 DEF ReplayPhase, ConnInit

\* A step that concerns another connection only.
LEMMA OtherConnection ==
  ASSUME NEW d \in Clients, ReplayPhase(d),
         stage'[d] = stage[d], writer'[d] = writer[d], hand'[d] = hand[d],
         backlog'[d] = backlog[d], wire'[d] = wire[d]
  PROVE  ReplayPhase(d)'
  BY DEF ReplayPhase, OnlyBacklog, BacklogFirst

\* Appending a frame: a replayed one while only such are there, or a live one.
LEMMA FrameWritten ==
  ASSUME ConnTypes, NEW c \in Clients, NEW f \in Nat \cup {Backlog, CloseFrame},
         wire' = [wire EXCEPT ![c] = Append(@, f)],
         BacklogFirst(c),
         f = Backlog => OnlyBacklog(c)
  PROVE  /\ BacklogFirst(c)'
         /\ f = Backlog => OnlyBacklog(c)'
  <1> DEFINE n == Len(wire[c])
  <1>1. /\ DOMAIN wire'[c] = 1..(n + 1)
        /\ DOMAIN wire[c] = 1..n
        /\ n \in Nat
        /\ wire'[c][n + 1] = f
        /\ \A i \in 1..n : wire'[c][i] = wire[c][i]
    BY WriteFrame
  <1> HIDE DEF n
  <1>2. \A i \in 1..(n + 1) : i \in 1..n \/ i = n + 1
    BY <1>1
  <1>3. ASSUME f = Backlog PROVE OnlyBacklog(c)'
    BY <1>1, <1>2, <1>3 DEF OnlyBacklog
  <1>4. BacklogFirst(c)'
    <2> SUFFICES ASSUME NEW i \in 1..(n + 1), NEW j \in 1..(n + 1),
                        i < j, wire'[c][j] = Backlog
        PROVE wire'[c][i] = Backlog
      BY <1>1 DEF BacklogFirst
    <2>1. i \in 1..n
      BY <1>1
    <2>2. CASE j = n + 1
      BY <2>1, <2>2, <1>1 DEF OnlyBacklog
    <2>3. CASE j \in 1..n
      BY <2>1, <2>3, <1>1 DEF BacklogFirst
    <2> QED BY <1>2, <2>2, <2>3
  <1> QED BY <1>3, <1>4

LEMMA ReplaysNext == ConnTypes /\ Replays /\ [ConnNext]_connVars => Replays'
  <1> SUFFICES ASSUME ConnTypes, Replays, [ConnNext]_connVars PROVE Replays'
    OBVIOUS
  <1>t. /\ stage \in [Clients -> Stages]
        /\ writer \in [Clients -> {"off", "running", "ended"}]
        /\ hand \in [Clients -> Nat]
        /\ backlog \in [Clients -> 0..MaxBacklog]
        /\ DOMAIN wire = Clients
    BY DEF ConnTypes
  <1>1. CASE UNCHANGED connectionVars
    BY <1>1, OtherConnection DEF connectionVars, Replays
  <1>2. CASE HubStep
    BY <1>1, <1>2 DEF HubStep
  <1>3. ASSUME NEW c \in Clients,
               \A d \in Clients \ {c} :
                 /\ stage'[d] = stage[d] /\ writer'[d] = writer[d] /\ hand'[d] = hand[d]
                 /\ backlog'[d] = backlog[d] /\ wire'[d] = wire[d],
               ReplayPhase(c)'
        PROVE  Replays'
    <2>1. ASSUME NEW d \in Clients PROVE ReplayPhase(d)'
      <3>1. CASE d = c
        BY <3>1, <1>3
      <3>2. CASE d # c
        BY <3>2, <1>3, OtherConnection DEF Replays
      <3> QED BY <3>1, <3>2
    <2> QED BY <2>1 DEF Replays
  \* Steps of c that write no frame.
  <1>4. ASSUME NEW c \in Clients,
               wire' = wire,
               \A d \in Clients \ {c} :
                 stage'[d] = stage[d] /\ writer'[d] = writer[d] /\ hand'[d] = hand[d]
                 /\ backlog'[d] = backlog[d],
               stage'[c] \in {"new", "handling", "replaying"} => writer'[c] = "off",
               stage'[c] \in {"new", "handling"} => backlog'[c] = 0,
               writer'[c] # "off" => backlog'[c] = 0,
               writer'[c] = "off" => writer[c] = "off" /\ hand'[c] = 0
        PROVE  Replays'
    <2>1. ReplayPhase(c)'
      BY <1>4 DEF Replays, ReplayPhase, OnlyBacklog, BacklogFirst
    <2> QED BY <1>3, <1>4, <2>1
  <1>5. ASSUME NEW c \in Clients, Connect(c) \/ PeerLeaves(c) PROVE Replays'
    BY <1>4, <1>5, <1>t DEF Connect, PeerLeaves, Replays, ReplayPhase
  <1>6. ASSUME NEW c \in Clients, HandlerStep(c) PROVE Replays'
    <2>1. ASSUME NEW n \in 0..MaxBacklog, QueryBacklog(c, n) PROVE Replays'
      BY <2>1, <1>4, <1>t DEF QueryBacklog, Replays, ReplayPhase
    <2>2. CASE ReplayWrite(c)
      <3>1. /\ backlog[c] > 0
            /\ wire' = [wire EXCEPT ![c] = Append(@, Backlog)]
            /\ backlog' = [backlog EXCEPT ![c] = @ - 1]
            /\ UNCHANGED <<stage, writer, hand>>
        BY <2>2 DEF ReplayWrite
      <3>2. ReplayPhase(c) /\ backlog[c] \in Nat
        BY <1>t DEF Replays
      <3>3. writer[c] = "off" /\ stage[c] \notin {"new", "handling"}
        BY <3>1, <3>2 DEF ReplayPhase
      <3>4. OnlyBacklog(c) /\ BacklogFirst(c) /\ hand[c] = 0
        BY <3>2, <3>3 DEF ReplayPhase
      <3>5. OnlyBacklog(c)' /\ BacklogFirst(c)'
        BY <3>1, <3>4, FrameWritten
      <3>6. ReplayPhase(c)'
        BY <3>1, <3>3, <3>4, <3>5 DEF ReplayPhase
      <3>7. \A d \in Clients \ {c} : backlog'[d] = backlog[d] /\ wire'[d] = wire[d]
        BY <3>1, <1>t
      <3> QED BY <3>1, <3>6, <3>7, <1>3
    <2>3. CASE ReplayFails(c)
      BY <2>3, <1>4, <1>t DEF ReplayFails, Replays, ReplayPhase
    <2>4. CASE RunClient(c)
      BY <2>4, <1>4, <1>t DEF RunClient, Replays, ReplayPhase
    <2> QED BY <1>6, <2>1, <2>2, <2>3, <2>4 DEF HandlerStep
  <1>7. ASSUME NEW c \in Clients, ReaderStep(c) PROVE Replays'
    BY <1>4, <1>7, <1>t DEF ReaderStep, ReadFails, CloseConn, Replays, ReplayPhase
  <1>8. ASSUME NEW c \in Clients, WriterStep(c) PROVE Replays'
    <2>0. ReplayPhase(c)
      BY DEF Replays
    <2>1. CASE TakeMessage(c)
      <3>1. writer[c] = "running" /\ UNCHANGED <<stage, writer, backlog, wire>>
            /\ hand' = [hand EXCEPT ![c] = Head(send[c])]
        BY <2>1 DEF TakeMessage, Selecting
      <3> QED BY <3>1, <2>0, <1>4, <1>t DEF ReplayPhase
    <2>2. CASE WriteMessage(c)
      <3>1. /\ hand[c] # 0
            /\ wire' = [wire EXCEPT ![c] = Append(@, hand[c])]
            /\ hand' = [hand EXCEPT ![c] = 0]
            /\ UNCHANGED <<stage, writer, backlog>>
        BY <2>2 DEF WriteMessage
      <3>2. writer[c] # "off" /\ BacklogFirst(c)
        BY <3>1, <2>0 DEF ReplayPhase
      <3>3. hand[c] \in Nat \cup {Backlog, CloseFrame} /\ hand[c] # Backlog
        BY <3>1, <1>t DEF Backlog
      <3>4. BacklogFirst(c)'
        BY <3>1, <3>2, <3>3, FrameWritten
      <3>5. ReplayPhase(c)'
        BY <3>1, <3>2, <3>4, <2>0, <1>t DEF ReplayPhase
      <3>6. \A d \in Clients \ {c} : hand'[d] = hand[d] /\ wire'[d] = wire[d]
        BY <3>1, <1>t
      <3> QED BY <3>1, <3>5, <3>6, <1>3
    <2>3. CASE WriteFails(c) \/ PingFails(c)
      <3>1. wire' = wire /\ EndWriter(c) /\ (hand[c] # 0 \/ writer[c] = "running")
        BY <2>3 DEF WriteFails, PingFails, Selecting
      <3>2. writer[c] # "off"
        BY <3>1, <2>0 DEF ReplayPhase
      <3> QED BY <3>1, <3>2, <2>0, <1>4, <1>t DEF EndWriter, ReplayPhase
    <2>4. CASE ChannelClosed(c)
      <3>1. writer[c] = "running" /\ EndWriter(c)
        BY <2>4 DEF ChannelClosed, Selecting
      <3>2. CASE wire' = [wire EXCEPT ![c] = Append(@, CloseFrame)]
        <4>1. BacklogFirst(c)
          BY <2>0 DEF ReplayPhase
        <4>2. CloseFrame # Backlog
          BY DEF CloseFrame, Backlog
        <4>3. BacklogFirst(c)'
          BY <3>2, <4>1, <4>2, FrameWritten
        <4>4. ReplayPhase(c)'
          BY <3>1, <4>3, <2>0, <1>t DEF ReplayPhase, EndWriter
        <4>5. \A d \in Clients \ {c} :
                /\ stage'[d] = stage[d] /\ writer'[d] = writer[d] /\ hand'[d] = hand[d]
                /\ backlog'[d] = backlog[d] /\ wire'[d] = wire[d]
          BY <3>1, <3>2, <1>t DEF EndWriter
        <4> QED BY <4>4, <4>5, <1>3
      <3>3. CASE wire' = wire
        BY <3>1, <3>3, <2>0, <1>4, <1>t DEF EndWriter, ReplayPhase
      <3> QED BY <2>4, <3>2, <3>3 DEF ChannelClosed
    <2> QED BY <1>8, <2>1, <2>2, <2>3, <2>4 DEF WriterStep
  <1> QED BY <1>1, <1>2, <1>5, <1>6, <1>7, <1>8 DEF ConnNext, connVars, connectionVars

\* The replay and writeLoop are never two writers of one connection at a time:
\* no replayed frame follows a live one.
THEOREM ReplayIsFirst == ConnSpec => []ReplayComesFirst
  <1>1. Replays => ReplayComesFirst
    BY DEF Replays, ReplayPhase, BacklogFirst, ReplayComesFirst
  <1> QED BY <1>1, ReplaysInit, ReplaysNext, ConnTypesHold, PTL DEF ConnSpec

-----------------------------------------------------------------------------
(* The wire: what a peer reads against what the hub pushed.                *)

Follows(c) ==
  /\ InOrder(c)
  /\ Written(c) \subseteq pushed[c]
  /\ \A e \in Written(c), f \in pushed[c] \ Written(c) : e < f
  /\ writer[c] # "ended" =>
       /\ pushed[c] \ Written(c) = Pending(c)
       /\ WaitInOrder(c)

\* A close frame is written when the channel is closed and empty, by a writeLoop
\* that ends with it; nothing is pushed to the client afterwards.
ClosedLast(c) ==
  \A i \in DOMAIN wire[c] : wire[c][i] = CloseFrame =>
    /\ i = Len(wire[c])
    /\ chan[c] # "open"
    /\ writer[c] = "ended"
    /\ pushed[c] \subseteq Written(c)

WireState(c) ==
  /\ writer[c] = "ended" => hand[c] = 0
  /\ Follows(c)
  /\ ClosedLast(c)

WireInv == \A c \in Clients : WireState(c)

\* The hub has handled what it pushed.
PushedPast == \A c \in Clients : pushed[c] \subseteq 1..handled

LEMMA WireInit == ConnInit => WireInv
  <1> SUFFICES ASSUME ConnInit, NEW c \in Clients PROVE WireState(c)
    BY DEF WireInv
  <1>1. /\ wire[c] = <<>> /\ pushed[c] = {} /\ hand[c] = 0 /\ send[c] = <<>>
        /\ writer[c] = "off"
    BY DEF ConnInit, Init
  <1>2. Live(c) = {} /\ Written(c) = {} /\ Pending(c) = {}
    BY <1>1 DEF Live, Written, Pending
  <1>3. Follows(c)
    BY <1>1, <1>2 DEF Follows, InOrder, WaitInOrder
  <1>4. ClosedLast(c)
    BY <1>1 DEF ClosedLast
  <1> QED BY <1>1, <1>3, <1>4 DEF WireState

\* What the hub does to the channel of c in a step other than a receive: it may
\* send the event it handles on an open channel, and it never opens a closed one.
Sent(c) ==
  /\ chan[c] = "open"
  /\ pushed'[c] = pushed[c] \cup {handled + 1}
  /\ send'[c] = Append(send[c], handled + 1)

Quiet(c) ==
  /\ pushed'[c] = pushed[c]
  /\ send'[c] = send[c]
  /\ chan[c] # "open" => chan'[c] # "open"

LEMMA HubEffect ==
  ASSUME Types, Ownership, NEW c \in Clients,
         HubStep \/ \E d \in Clients : CallRegister(d) \/ CallUnregister(d)
  PROVE  Sent(c) \/ Quiet(c)
  <1>t. /\ DOMAIN chan = Clients /\ DOMAIN send = Clients /\ DOMAIN pushed = Clients
    BY DEF Types
  <1>c. \A s : Closed(s) # "open"
    BY DEF Closed
  <1>1. ASSUME NEW d \in Clients,
               \/ RunRegister(d) \/ PostUnregister(d) \/ UnregisterStopped(d)
               \/ CallRegister(d) \/ CallUnregister(d)
        PROVE  Quiet(c)
    BY <1>1 DEF RunRegister, PostUnregister, UnregisterStopped, CallRegister,
                CallUnregister, Quiet
  <1>2. ASSUME NEW d \in Clients, RegisterStopped(d) PROVE Quiet(c)
    BY <1>2, <1>t, <1>c DEF RegisterStopped, Quiet
  <1>3. ASSUME NEW to \in Recipient, Publish(to) PROVE Quiet(c)
    BY <1>3 DEF Publish, Quiet
  <1>4. CASE Close
    BY <1>4 DEF Close, Quiet
  <1>5. CASE RunUnregister
    BY <1>5, <1>t, <1>c DEF RunUnregister, Quiet
  <1>6. CASE RunStop
    BY <1>6, <1>t, <1>c DEF RunStop, Quiet
  <1>7. CASE RunDispatch
    <2> DEFINE T == Targets(log[handled + 1])
    <2>1. log[handled + 1] \in Recipient
      BY <1>7, NextMessage DEF RunDispatch
    <2>2. c \in T => chan[c] = "open"
      BY <1>7, <2>1, TargetsAreRegistered DEF RunDispatch, Ownership, RegisteredIsOpen
    <2>3. /\ send'[c] = IF c \in T /\ HasRoom(c) THEN Append(send[c], handled + 1) ELSE send[c]
          /\ pushed'[c] = IF c \in T /\ HasRoom(c) THEN pushed[c] \cup {handled + 1} ELSE pushed[c]
          /\ c \notin T => chan'[c] = chan[c]
      BY <1>7 DEF RunDispatch, Dropped
    <2> QED BY <2>2, <2>3 DEF Sent, Quiet
  <1> QED BY <1>1, <1>2, <1>3, <1>4, <1>5, <1>6, <1>7 DEF HubStep

\* A step that leaves the connection and its channel alone.
LEMMA WireQuiet ==
  ASSUME NEW c \in Clients, WireState(c), Quiet(c),
         wire'[c] = wire[c], hand'[c] = hand[c],
         writer'[c] = "ended" <=> writer[c] = "ended"
  PROVE  WireState(c)'
  <1>1. Live(c)' = Live(c) /\ Written(c)' = Written(c) /\ Pending(c)' = Pending(c)
    BY DEF Live, Written, Pending, Quiet
  <1>2. (InOrder(c) => InOrder(c)') /\ (WaitInOrder(c) => WaitInOrder(c)')
    BY <1>1 DEF InOrder, WaitInOrder, Quiet
  <1>3. Follows(c)'
    BY <1>1, <1>2 DEF WireState, Follows, Quiet
  <1>4. ClosedLast(c)'
    BY <1>1 DEF WireState, ClosedLast, Quiet
  <1> QED BY <1>3, <1>4 DEF WireState

\* The hub sends the event it handles: it follows all the others.
LEMMA WireSent ==
  ASSUME Types, ConnTypes, PushedPast, NEW c \in Clients, WireState(c), Sent(c),
         wire'[c] = wire[c], hand'[c] = hand[c], writer'[c] = writer[c]
  PROVE  WireState(c)'
  <1> DEFINE n == Len(send[c])
             h == handled + 1
  <1>0. /\ handled \in Nat /\ n \in Nat /\ send[c] \in Seq(Nat) /\ h \in Nat
        /\ DOMAIN send[c] = 1..n
    BY DEF Types
  <1>1. /\ DOMAIN send'[c] = 1..(n + 1)
        /\ send'[c][n + 1] = h
        /\ \A i \in 1..n : send'[c][i] = send[c][i]
    BY <1>0 DEF Sent
  <1>2. \A i \in 1..(n + 1) : i \in 1..n \/ i = n + 1
    BY <1>0
  <1>3. Live(c)' = Live(c) /\ Written(c)' = Written(c)
    BY DEF Live, Written
  <1>4. \A e \in pushed[c] : e \in Nat /\ e < h
    BY <1>0 DEF PushedPast
  <1>5. pushed'[c] = pushed[c] \cup {h}
    BY DEF Sent
  <1> HIDE DEF n, h
  <1>6. 1..n \subseteq 1..(n + 1) /\ n + 1 \in 1..(n + 1)
    BY <1>0
  <1>7. Pending(c)' = Pending(c) \cup {h}
    BY <1>0, <1>1, <1>2, <1>6 DEF Pending
  <1>8. h \notin pushed[c]
    BY <1>0, <1>4
  <1>9. Follows(c)'
    <2>1. InOrder(c)'
      BY <1>3 DEF WireState, Follows, InOrder
    <2>2. Written(c)' \subseteq pushed'[c]
      BY <1>3, <1>5 DEF WireState, Follows
    <2>3. pushed'[c] \ Written(c)' = (pushed[c] \ Written(c)) \cup {h}
      BY <1>3, <1>5, <1>8 DEF WireState, Follows
    <2>4. \A e \in Written(c)', f \in pushed'[c] \ Written(c)' : e < f
      BY <1>3, <1>4, <2>3 DEF WireState, Follows
    <2>5. ASSUME writer'[c] # "ended" PROVE WaitInOrder(c)'
      <3>1. WaitInOrder(c) /\ pushed[c] \ Written(c) = Pending(c)
        BY <2>5 DEF WireState, Follows
      <3>2. \A i \in 1..n : send[c][i] \in pushed[c]
        BY <1>0, <3>1 DEF Pending
      <3>3. hand[c] # 0 => hand[c] \in pushed[c]
        BY <3>1 DEF Pending
      <3>4. ASSUME NEW i \in 1..(n + 1), NEW j \in 1..(n + 1), i < j
            PROVE  send'[c][i] < send'[c][j]
        <4>1. i \in 1..n
          BY <1>0, <3>4
        <4>2. CASE j \in 1..n
          BY <1>0, <1>1, <3>1, <3>4, <4>1, <4>2 DEF WaitInOrder
        <4>3. CASE j = n + 1
          BY <1>1, <1>4, <3>2, <4>1, <4>3
        <4> QED BY <1>2, <4>2, <4>3
      <3>5. ASSUME hand'[c] # 0, NEW i \in 1..(n + 1) PROVE hand'[c] < send'[c][i]
        <4>1. CASE i \in 1..n
          BY <1>0, <1>1, <3>1, <3>5, <4>1 DEF WaitInOrder
        <4>2. CASE i = n + 1
          BY <1>1, <1>4, <3>3, <3>5, <4>2
        <4> QED BY <1>2, <4>1, <4>2
      <3> QED BY <1>1, <3>4, <3>5 DEF WaitInOrder
    <2>6. writer'[c] # "ended" => pushed'[c] \ Written(c)' = Pending(c)'
      BY <1>7, <2>3 DEF WireState, Follows
    <2> QED BY <2>1, <2>2, <2>4, <2>5, <2>6 DEF Follows
  <1>10. \A i \in DOMAIN wire'[c] : wire'[c][i] # CloseFrame
    BY DEF WireState, ClosedLast, Sent
  <1>11. ClosedLast(c)'
    BY <1>10 DEF ClosedLast
  <1> QED BY <1>9, <1>11 DEF WireState

\* A frame appended: a live one joins the events written, another changes nothing.
LEMMA FrameCounts ==
  ASSUME ConnTypes, NEW c \in Clients, NEW f \in Nat \cup {Backlog, CloseFrame},
         wire' = [wire EXCEPT ![c] = Append(@, f)]
  PROVE  /\ f \in {Backlog, CloseFrame} =>
              Written(c)' = Written(c) /\ (InOrder(c) => InOrder(c)')
         /\ f \notin {Backlog, CloseFrame} =>
              /\ Written(c)' = Written(c) \cup {f}
              /\ InOrder(c) /\ (\A e \in Written(c) : e < f) => InOrder(c)'
  <1> DEFINE n == Len(wire[c])
  <1>1. /\ DOMAIN wire'[c] = 1..(n + 1)
        /\ DOMAIN wire[c] = 1..n
        /\ n \in Nat
        /\ wire'[c][n + 1] = f
        /\ \A i \in 1..n : wire'[c][i] = wire[c][i]
    BY WriteFrame
  <1> HIDE DEF n
  <1>2. \A i \in 1..(n + 1) : i \in 1..n \/ i = n + 1
    BY <1>1
  <1>3. 1..n \subseteq 1..(n + 1) /\ n + 1 \in 1..(n + 1) /\ n + 1 \notin 1..n
    BY <1>1
  <1>4. (f > 0 <=> f \notin {Backlog, CloseFrame}) /\ f \in Int
    BY DEF Backlog, CloseFrame
  <1>5. Live(c) \subseteq 1..n
    BY <1>1 DEF Live
  <1>6. CASE f \in {Backlog, CloseFrame}
    <2>1. Live(c)' = Live(c)
      BY <1>1, <1>2, <1>3, <1>4, <1>6 DEF Live
    <2>2. \A i \in Live(c) : wire'[c][i] = wire[c][i]
      BY <1>1, <1>5
    <2> QED BY <1>6, <2>1, <2>2 DEF Written, InOrder
  <1>7. CASE f \notin {Backlog, CloseFrame}
    <2>1. Live(c)' = Live(c) \cup {n + 1}
      BY <1>1, <1>2, <1>3, <1>4, <1>7 DEF Live
    <2>2. \A i \in Live(c) : wire'[c][i] = wire[c][i] /\ wire[c][i] \in Written(c)
      BY <1>1, <1>5 DEF Written
    <2>3. Written(c)' = Written(c) \cup {f}
      <3>1. Written(c)' = {wire'[c][i] : i \in Live(c)} \cup {f}
        BY <1>1, <2>1 DEF Written
      <3>2. {wire'[c][i] : i \in Live(c)} = {wire[c][i] : i \in Live(c)}
        BY <2>2
      <3> QED BY <3>1, <3>2 DEF Written
    <2>4. ASSUME InOrder(c), \A e \in Written(c) : e < f PROVE InOrder(c)'
      <3> SUFFICES ASSUME NEW i \in Live(c)', NEW j \in Live(c)', i < j
                   PROVE  wire'[c][i] < wire'[c][j]
        BY DEF InOrder
      <3>1. i \in Live(c)
        BY <1>1, <1>5, <2>1
      <3>2. CASE j \in Live(c)
        BY <2>2, <2>4, <3>1, <3>2 DEF InOrder
      <3>3. CASE j = n + 1
        BY <1>1, <2>2, <2>4, <3>1, <3>3
      <3> QED BY <2>1, <3>2, <3>3
    <2> QED BY <1>7, <2>3, <2>4
  <1> QED BY <1>6, <1>7

\* writeLoop receives: the oldest waiting event passes into its hand.
LEMMA WireTaken ==
  ASSUME Types, ConnTypes, PushedPast, NEW c \in Clients, WireState(c), TakeMessage(c)
  PROVE  WireState(c)'
  <1> DEFINE n == Len(send[c])
             e == send[c][1]
  <1>0. /\ n \in Nat \ {0} /\ send[c] \in Seq(Nat) /\ send[c] # <<>> /\ DOMAIN send[c] = 1..n
        /\ send'[c] = Tail(send[c]) /\ hand'[c] = e /\ hand[c] = 0 /\ writer[c] = "running"
        /\ UNCHANGED <<pushed, wire, writer, chan>>
    BY DEF TakeMessage, Receive, Selecting, Types, ConnTypes
  <1>1. /\ DOMAIN send'[c] = 1..(n - 1)
        /\ \A i \in 1..(n - 1) : send'[c][i] = send[c][i + 1]
    BY <1>0
  <1> HIDE DEF n
  <1>2. Live(c)' = Live(c) /\ Written(c)' = Written(c)
    BY <1>0 DEF Live, Written
  <1>3. WaitInOrder(c) /\ pushed[c] \ Written(c) = Pending(c)
    BY <1>0 DEF WireState, Follows
  <1>4. 1 \in 1..n /\ \A i \in 1..(n - 1) : i + 1 \in 1..n /\ 1 < i + 1
    BY <1>0
  <1>5. e \in Nat \ {0}
    <2>1. e \in pushed[c]
      BY <1>0, <1>3, <1>4 DEF Pending
    <2>2. handled \in Nat /\ pushed[c] \subseteq 1..handled
      BY DEF PushedPast, Types
    <2> HIDE DEF e
    <2> QED BY <2>1, <2>2
  <1>6. Pending(c)' = Pending(c)
    <2>1. Pending(c) = {send[c][i] : i \in 1..n}
      BY <1>0 DEF Pending
    <2>2. Pending(c)' = {e} \cup {send[c][i + 1] : i \in 1..(n - 1)}
      <3>1. {hand'[c]} \ {0} = {e}
        BY <1>0, <1>5
      <3>2. {send'[c][i] : i \in DOMAIN send'[c]} = {send[c][i + 1] : i \in 1..(n - 1)}
        BY <1>1
      <3> QED BY <3>1, <3>2 DEF Pending
    <2>3. \A i \in 1..n : i = 1 \/ (i - 1 \in 1..(n - 1) /\ i = (i - 1) + 1)
      BY <1>0
    <2>4. {send[c][i] : i \in 1..n} \subseteq {e} \cup {send[c][i + 1] : i \in 1..(n - 1)}
      BY <2>3
    <2>5. {e} \cup {send[c][i + 1] : i \in 1..(n - 1)} \subseteq {send[c][i] : i \in 1..n}
      BY <1>4
    <2> QED BY <2>1, <2>2, <2>4, <2>5
  <1>7. WaitInOrder(c)'
    <2>1. \A i, j \in 1..(n - 1) : i < j => i + 1 < j + 1
      BY <1>0
    <2>2. \A i, j \in 1..n : i < j => send[c][i] < send[c][j]
      BY <1>0, <1>3 DEF WaitInOrder
    <2>3. \A i, j \in 1..(n - 1) : i < j => send'[c][i] < send'[c][j]
      BY <1>1, <1>4, <2>1, <2>2
    <2>4. \A i \in 1..(n - 1) : e < send'[c][i]
      BY <1>1, <1>4, <2>2
    <2> QED BY <1>0, <1>1, <2>3, <2>4 DEF WaitInOrder
  <1>8. Follows(c)'
    BY <1>0, <1>2, <1>3, <1>6, <1>7 DEF WireState, Follows, InOrder
  <1>9. ClosedLast(c)'
    BY <1>0, <1>2 DEF WireState, ClosedLast
  <1> QED BY <1>0, <1>8, <1>9 DEF WireState

\* writeLoop writes: the event in its hand is the oldest not yet written.
LEMMA WireWritten ==
  ASSUME Types, ConnTypes, PushedPast, NEW c \in Clients, WireState(c), WriteMessage(c)
  PROVE  WireState(c)'
  <1> DEFINE h == hand[c]
             S == {send[c][i] : i \in DOMAIN send[c]}
  <1>0. /\ h \in Nat \ {0} /\ hand'[c] = 0 /\ writer[c] # "ended"
        /\ wire' = [wire EXCEPT ![c] = Append(@, h)]
        /\ UNCHANGED <<pushed, writer, chan, send>>
    BY DEF WriteMessage, hubVars, ConnTypes, WireState
  <1>1. h \in Nat \cup {Backlog, CloseFrame} /\ h \notin {Backlog, CloseFrame}
    BY <1>0 DEF Backlog, CloseFrame
  <1>2. /\ Written(c)' = Written(c) \cup {h}
        /\ InOrder(c) /\ (\A e \in Written(c) : e < h) => InOrder(c)'
    BY <1>0, <1>1, FrameCounts
  <1>3. InOrder(c) /\ WaitInOrder(c) /\ pushed[c] \ Written(c) = Pending(c)
    BY <1>0 DEF WireState, Follows
  <1>4. Pending(c) = {h} \cup S /\ Pending(c)' = S
    BY <1>0 DEF Pending
  <1>5. \A f \in S : h < f
    BY <1>0, <1>3 DEF WaitInOrder
  <1> HIDE DEF h, S
  <1>6. h \notin S
    BY <1>0, <1>5
  <1>7. \A e \in Written(c), f \in {h} \cup S : e < f
    BY <1>3, <1>4 DEF WireState, Follows
  <1>8. pushed[c] \ Written(c)' = S
    BY <1>2, <1>3, <1>4, <1>6
  <1>9. Follows(c)'
    <2>1. InOrder(c)'
      BY <1>2, <1>3, <1>7
    <2>2. Written(c)' \subseteq pushed'[c]
      BY <1>0, <1>2, <1>3, <1>4 DEF WireState, Follows
    <2>3. \A e \in Written(c)', f \in pushed'[c] \ Written(c)' : e < f
      BY <1>0, <1>2, <1>5, <1>7, <1>8
    <2>4. WaitInOrder(c)'
      BY <1>0, <1>3 DEF WaitInOrder
    <2> QED BY <1>0, <1>4, <1>8, <2>1, <2>2, <2>3, <2>4 DEF Follows
  <1>10. \A i \in DOMAIN wire[c] : wire[c][i] # CloseFrame
    BY <1>0 DEF WireState, ClosedLast
  <1>11. \A i \in DOMAIN wire'[c] : wire'[c][i] # CloseFrame
    <2>1. \A i \in DOMAIN wire'[c] : i \in DOMAIN wire[c] \/ wire'[c][i] = h
      BY <1>0, <1>1, FrameAdded
    <2> QED BY <1>0, <1>1, <1>10, <2>1, WriteFrame
  <1>12. ClosedLast(c)'
    BY <1>11 DEF ClosedLast
  <1> QED BY <1>0, <1>9, <1>12 DEF WireState

\* A replayed frame is not a live one.
LEMMA WireReplayed ==
  ASSUME ConnTypes, Replays, NEW c \in Clients, WireState(c), ReplayWrite(c)
  PROVE  WireState(c)'
  <1>1. /\ wire' = [wire EXCEPT ![c] = Append(@, Backlog)]
        /\ UNCHANGED <<pushed, writer, chan, send, hand>>
    BY DEF ReplayWrite, hubVars
  <1>2. writer[c] = "off"
    <2>1. backlog[c] # 0
      BY DEF ReplayWrite
    <2> QED BY <2>1 DEF Replays, ReplayPhase
  <1>3. Written(c)' = Written(c) /\ (InOrder(c) => InOrder(c)')
    BY <1>1, FrameCounts
  <1>4. Pending(c)' = Pending(c) /\ (WaitInOrder(c) => WaitInOrder(c)')
    BY <1>1 DEF Pending, WaitInOrder
  <1>5. Follows(c)'
    BY <1>1, <1>3, <1>4 DEF WireState, Follows
  <1>6. \A i \in DOMAIN wire[c] : wire[c][i] # CloseFrame
    BY <1>2 DEF WireState, ClosedLast
  <1>7. \A i \in DOMAIN wire'[c] : wire'[c][i] # CloseFrame
    <2>2. Backlog # CloseFrame
      BY DEF Backlog, CloseFrame
    <2>1. \A i \in DOMAIN wire'[c] : i \in DOMAIN wire[c] \/ wire'[c][i] = Backlog
      BY <1>1, FrameAdded
    <2> QED BY <1>1, <1>6, <2>1, <2>2, WriteFrame
  <1>8. ClosedLast(c)'
    BY <1>7 DEF ClosedLast
  <1> QED BY <1>1, <1>2, <1>5, <1>8 DEF WireState

\* writeLoop ends, with a close frame only if nothing is left to write.
LEMMA WireEnded ==
  ASSUME ConnTypes, NEW c \in Clients, WireState(c), EndWriter(c), writer[c] # "ended",
         \/ wire' = wire
         \/ /\ wire' = [wire EXCEPT ![c] = Append(@, CloseFrame)]
            /\ chan[c] # "open" /\ send[c] = <<>> /\ hand[c] = 0
  PROVE  WireState(c)'
  <1>1. /\ UNCHANGED <<pushed, chan, send>> /\ hand'[c] = 0 /\ writer'[c] = "ended"
    BY DEF EndWriter, hubVars, ConnTypes
  <1>2. \A i \in DOMAIN wire[c] : wire[c][i] # CloseFrame
    BY DEF WireState, ClosedLast
  <1>3. Follows(c)
    BY DEF WireState
  <1>4. CASE wire' = wire
    <2>1. Written(c)' = Written(c) /\ (InOrder(c) => InOrder(c)')
      BY <1>4 DEF Written, Live, InOrder
    <2>2. Follows(c)'
      BY <1>1, <1>3, <2>1 DEF Follows
    <2>3. ClosedLast(c)'
      BY <1>2, <1>4 DEF ClosedLast
    <2> QED BY <1>1, <2>2, <2>3 DEF WireState
  <1>5. CASE /\ wire' = [wire EXCEPT ![c] = Append(@, CloseFrame)]
             /\ chan[c] # "open" /\ send[c] = <<>> /\ hand[c] = 0
    <2>1. Written(c)' = Written(c) /\ (InOrder(c) => InOrder(c)')
      BY <1>5, FrameCounts
    <2>2. Pending(c) = {}
      BY <1>5 DEF Pending
    <2>3. Follows(c)'
      BY <1>1, <1>3, <2>1 DEF Follows
    <2>4. pushed'[c] \subseteq Written(c)'
      BY <1>1, <1>3, <2>1, <2>2 DEF Follows
    <2>5. \A i \in DOMAIN wire'[c] : wire'[c][i] = CloseFrame => i = Len(wire'[c])
      <3>1. \A i \in DOMAIN wire'[c] : i \in DOMAIN wire[c] \/ i = Len(wire'[c])
        BY <1>5, FrameAdded
      <3> QED BY <1>2, <1>5, <3>1, WriteFrame
    <2>6. ClosedLast(c)'
      BY <1>1, <1>5, <2>4, <2>5 DEF ClosedLast
    <2> QED BY <1>1, <2>3, <2>6 DEF WireState
  <1> QED BY <1>4, <1>5

LEMMA WireNext ==
  Types /\ Ownership /\ ConnTypes /\ Replays /\ PushedPast /\ WireInv /\ [ConnNext]_connVars
    => WireInv'
  <1> SUFFICES ASSUME Types, Ownership, ConnTypes, Replays, PushedPast, WireInv,
                      [ConnNext]_connVars,
                      NEW d \in Clients
               PROVE  WireState(d)'
    BY DEF WireInv
  <1>t. /\ stage \in [Clients -> Stages]
        /\ writer \in [Clients -> {"off", "running", "ended"}]
        /\ hand \in [Clients -> Nat]
        /\ DOMAIN wire = Clients /\ DOMAIN send = Clients
    BY DEF ConnTypes, Types
  <1>0. WireState(d)
    BY DEF WireInv
  <1>h. UNCHANGED hubVars => Quiet(d)
    BY DEF hubVars, Quiet
  <1>1. CASE UNCHANGED connVars
    BY <1>0, <1>1, <1>h, WireQuiet DEF connVars, connectionVars
  <1>2. CASE HubStep
    BY <1>0, <1>2, HubEffect, WireQuiet, WireSent DEF HubStep, connectionVars
  <1>3. ASSUME NEW c \in Clients, Connect(c) \/ ReadFails(c) PROVE WireState(d)'
    <2>1. UNCHANGED <<writer, hand, wire>> /\ (CallRegister(c) \/ CallUnregister(c))
      BY <1>3 DEF Connect, ReadFails
    <2> QED BY <1>0, <2>1, HubEffect, WireQuiet, WireSent
  \* Steps of the handler, the reader and the peer that write no frame.
  <1>4. ASSUME NEW c \in Clients,
               \/ PeerLeaves(c) \/ CloseConn(c) \/ ReplayFails(c) \/ RunClient(c)
               \/ \E n \in 0..MaxBacklog : QueryBacklog(c, n)
        PROVE  WireState(d)'
    <2>1. CASE RunClient(c)
      <3>1. /\ UNCHANGED hubVars /\ UNCHANGED <<hand, wire>>
            /\ writer' = [writer EXCEPT ![c] = "running"]
            /\ stage[c] = "replaying"
        BY <2>1 DEF RunClient
      <3>2. writer[c] = "off"
        BY <3>1 DEF Replays, ReplayPhase
      <3>3. writer'[d] = "ended" <=> writer[d] = "ended"
        BY <1>t, <3>1, <3>2
      <3> QED BY <1>0, <1>h, <3>1, <3>3, WireQuiet
    <2>2. CASE \/ PeerLeaves(c) \/ CloseConn(c) \/ ReplayFails(c)
               \/ \E n \in 0..MaxBacklog : QueryBacklog(c, n)
      <3>1. UNCHANGED hubVars /\ UNCHANGED <<writer, hand, wire>>
        BY <2>2 DEF PeerLeaves, CloseConn, ReplayFails, QueryBacklog
      <3> QED BY <1>0, <1>h, <3>1, WireQuiet
    <2> QED BY <1>4, <2>1, <2>2
  <1>5. ASSUME NEW c \in Clients, ReplayWrite(c) PROVE WireState(d)'
    <2>1. CASE d = c
      BY <1>0, <1>5, <2>1, WireReplayed
    <2>2. CASE d # c
      <3>1. wire'[d] = wire[d] /\ UNCHANGED <<writer, hand>> /\ UNCHANGED hubVars
        BY <1>5, <1>t, <2>2 DEF ReplayWrite
      <3> QED BY <1>0, <1>h, <3>1, WireQuiet
    <2> QED BY <2>1, <2>2
  <1>6. ASSUME NEW c \in Clients, WriterStep(c) PROVE WireState(d)'
    <2>1. CASE d # c
      <3>1. Quiet(d)
        <4>1. CASE TakeMessage(c)
          BY <1>t, <2>1, <4>1 DEF TakeMessage, Receive, Quiet
        <4>2. CASE ~TakeMessage(c)
          BY <1>6, <1>h, <4>2 DEF WriterStep, WriteMessage, WriteFails, ChannelClosed,
                                  PingFails, EndWriter
        <4> QED BY <4>1, <4>2
      <3>2. wire'[d] = wire[d] /\ hand'[d] = hand[d] /\ writer'[d] = writer[d]
        BY <1>6, <1>t, <2>1 DEF WriterStep, TakeMessage, WriteMessage, WriteFails,
                                ChannelClosed, PingFails, EndWriter
      <3> QED BY <1>0, <3>1, <3>2, WireQuiet
    <2>2. CASE d = c
      <3>1. CASE TakeMessage(c)
        BY <1>0, <2>2, <3>1, WireTaken
      <3>2. CASE WriteMessage(c)
        BY <1>0, <2>2, <3>2, WireWritten
      <3>3. CASE WriteFails(c) \/ PingFails(c)
        <4>1. wire' = wire /\ EndWriter(c) /\ (hand[c] # 0 \/ writer[c] = "running")
          BY <3>3 DEF WriteFails, PingFails, Selecting
        <4>2. writer[c] # "ended"
          BY <1>0, <2>2, <4>1 DEF WireState
        <4> QED BY <1>0, <2>2, <4>1, <4>2, WireEnded
      <3>4. CASE ChannelClosed(c)
        BY <1>0, <2>2, <3>4, WireEnded DEF ChannelClosed, Selecting
      <3> QED BY <1>6, <3>1, <3>2, <3>3, <3>4 DEF WriterStep
    <2> QED BY <2>1, <2>2
  <1> QED BY <1>1, <1>2, <1>3, <1>4, <1>5, <1>6 DEF ConnNext, HandlerStep, ReaderStep

LEMMA WireInvHolds == ConnSpec => []WireInv
  <1>1. Types /\ ContiguousDelivery => PushedPast
    <2> SUFFICES ASSUME Types, ContiguousDelivery, NEW c \in Clients
                 PROVE  pushed[c] \subseteq 1..handled
      BY DEF PushedPast
    <2>1. PICK n \in joined[c]..handled : pushed[c] = Owed(c, n)
      BY DEF ContiguousDelivery
    <2>2. joined[c] \in Nat /\ handled \in Nat /\ n \in Nat /\ n <= handled
      BY DEF Types
    <2>3. joined[c] + 1..n \subseteq 1..handled
      BY <2>2
    <2> QED BY <2>1, <2>3 DEF Owed
  <1>2. ConnSpec => []Replays
    BY ReplaysInit, ReplaysNext, ConnTypesHold, PTL DEF ConnSpec
  <1>3. ConnSpec => []Ownership
    BY ConnectionsKeepHub, OwnershipHolds, PTL
  <1> QED BY <1>1, <1>2, <1>3, WireInit, WireNext, ConnTypesHold, ConnectionsTyped,
             ConnectionsAreContiguous, PTL DEF ConnSpec

\* What a peer reads is what the hub pushed to it, in order, each event once and
\* none passed over, through drops, shutdown, lost peers and failed writes; and a
\* close frame means that it has everything.
THEOREM WireIsExact == ConnSpec => []WireIsFaithful
  <1>1. WireInv => WireFollowsHub
    BY DEF WireInv, WireState, Follows, WireFollowsHub
  <1>2. WireInv => CloseFrameIsLast
    <2> SUFFICES ASSUME WireInv, NEW c \in Clients, NEW i \in DOMAIN wire[c],
                        wire[c][i] = CloseFrame
                 PROVE  /\ i = Len(wire[c])
                        /\ \A e \in pushed[c] : \E j \in DOMAIN wire[c] : wire[c][j] = e
      BY DEF CloseFrameIsLast
    <2>1. i = Len(wire[c]) /\ pushed[c] \subseteq Written(c)
      BY DEF WireInv, WireState, ClosedLast
    <2> QED BY <2>1 DEF Written, Live
  <1> QED BY <1>1, <1>2, WireInvHolds, PTL DEF WireIsFaithful
=============================================================================
