----------------------------- MODULE Connection -----------------------------
(***************************************************************************)
(* One websocket connection: Handler.handle and replayBacklog of           *)
(* backend/internal/modules/notifications/handler.go, readLoop and         *)
(* writeLoop of client.go, over the hub.                                   *)
(*                                                                         *)
(* A connection passes through up to three goroutines.  The HTTP handler   *)
(* registers it and writes the backlog; then readLoop and writeLoop run    *)
(* side by side, and each of them closes the network connection when it    *)
(* ends.  The hub closes the send channel when it drops the client or      *)
(* stops.  The peer may leave, or stop answering, at any time.             *)
(***************************************************************************)
EXTENDS Hub

CONSTANT MaxBacklog    \* bound on the frames replayed: wsReplayLimit

ASSUME ConnectionAssumption == MaxBacklog \in Nat

VARIABLES
  stage,    \* stage[c]: the handler, then readLoop
  writer,   \* writer[c]: writeLoop is "off", "running" or "ended"
  hand,     \* hand[c]: the event writeLoop has received and not yet written, or 0
  backlog,  \* backlog[c]: frames the replay has still to write
  conn,     \* conn[c]: "open"; "broken" after a failed write, which makes the
            \* library refuse all later ones; "closed"
  peer,     \* peer[c]: "up", or "down" when it left or stopped answering
  wire      \* wire[c]: the frames written

connectionVars == <<stage, writer, hand, backlog, conn, peer, wire>>
connVars == <<hubVars, connectionVars>>

\* A frame is the number of a live event, or one of these.
Backlog == 0
CloseFrame == -1

Stages == {"new", "handling", "replaying", "reading", "closing", "ended"}

ConnTypes ==
  /\ stage \in [Clients -> Stages]
  /\ writer \in [Clients -> {"off", "running", "ended"}]
  /\ hand \in [Clients -> Nat]
  /\ backlog \in [Clients -> 0..MaxBacklog]
  /\ conn \in [Clients -> {"open", "broken", "closed"}]
  /\ peer \in [Clients -> {"up", "down"}]
  /\ wire \in [Clients -> Seq(Nat \cup {Backlog, CloseFrame})]

ConnInit ==
  /\ Init
  /\ stage = [c \in Clients |-> "new"]
  /\ writer = [c \in Clients |-> "off"]
  /\ hand = [c \in Clients |-> 0]
  /\ backlog = [c \in Clients |-> 0]
  /\ conn = [c \in Clients |-> "open"]
  /\ peer = [c \in Clients |-> "up"]
  /\ wire = [c \in Clients |-> <<>>]

\* The library: a write on an open connection may succeed even if the peer has
\* gone (it is buffered), and may fail only if it has; no write succeeds after
\* one that failed, or after Close.
CanWrite(c) == conn[c] = "open"
CanFail(c) == peer[c] = "down" \/ conn[c] # "open"

-----------------------------------------------------------------------------
(* The handler.                                                            *)

\* The upgrade has succeeded; Register is called.
Connect(c) ==
  /\ stage[c] = "new"
  /\ CallRegister(c)
  /\ stage' = [stage EXCEPT ![c] = "handling"]
  /\ UNCHANGED <<writer, hand, backlog, conn, peer, wire>>

\* Register has returned and the backlog has been read: n frames for this user.
\* None if the request has no since, the transport has no log, or Replay fails.  (The
\* first form reads one more; the second does not wait for Register.)
QueryBacklog_NoLimit(c, n) ==
  /\ stage[c] = "handling"
  /\ pc[c] = "serving"
  /\ stage' = [stage EXCEPT ![c] = "replaying"]
  /\ backlog' = [backlog EXCEPT ![c] = n + 1]
  /\ UNCHANGED <<hubVars, writer, hand, conn, peer, wire>>

QueryBacklog_RegisterInBackground(c, n) ==
  /\ stage[c] = "handling"
  /\ stage' = [stage EXCEPT ![c] = "replaying"]
  /\ backlog' = [backlog EXCEPT ![c] = n]
  /\ UNCHANGED <<hubVars, writer, hand, conn, peer, wire>>

QueryBacklog(c, n) ==
  /\ stage[c] = "handling"
  /\ pc[c] = "serving"
  /\ stage' = [stage EXCEPT ![c] = "replaying"]
  /\ backlog' = [backlog EXCEPT ![c] = n]
  /\ UNCHANGED <<hubVars, writer, hand, conn, peer, wire>>

ReplayWrite(c) ==
  /\ backlog[c] > 0
  /\ CanWrite(c)
  /\ wire' = [wire EXCEPT ![c] = Append(@, Backlog)]
  /\ backlog' = [backlog EXCEPT ![c] = @ - 1]
  /\ UNCHANGED <<hubVars, stage, writer, hand, conn, peer>>

\* A failed write ends the replay, and only that.
ReplayFails(c) ==
  /\ backlog[c] > 0
  /\ CanFail(c)
  /\ backlog' = [backlog EXCEPT ![c] = 0]
  /\ conn' = [conn EXCEPT ![c] = IF @ = "open" THEN "broken" ELSE @]
  /\ UNCHANGED <<hubVars, stage, writer, hand, peer, wire>>

\* go client.Run.  (The first form starts the client before the replay.)
RunClient_BeforeReplay(c) ==
  /\ stage[c] = "replaying"
  /\ stage' = [stage EXCEPT ![c] = "reading"]
  /\ writer' = [writer EXCEPT ![c] = "running"]
  /\ UNCHANGED <<hubVars, hand, backlog, conn, peer, wire>>

RunClient(c) ==
  /\ stage[c] = "replaying"
  /\ backlog[c] = 0
  /\ stage' = [stage EXCEPT ![c] = "reading"]
  /\ writer' = [writer EXCEPT ![c] = "running"]
  /\ UNCHANGED <<hubVars, hand, backlog, conn, peer, wire>>

-----------------------------------------------------------------------------
(* readLoop.                                                               *)

\* A read fails: the peer has left or sent too much, the connection is closed,
\* or no pong came before the deadline (none will once writeLoop has ended,
\* since no ping is sent).  The deferred function calls Unregister.
ReadFails_ClosesOnly(c) ==
  /\ stage[c] = "reading"
  /\ peer[c] = "down" \/ conn[c] = "closed" \/ writer[c] = "ended"
  /\ stage' = [stage EXCEPT ![c] = "ended"]
  /\ conn' = [conn EXCEPT ![c] = "closed"]
  /\ UNCHANGED <<hubVars, writer, hand, backlog, peer, wire>>

ReadFails(c) ==
  /\ stage[c] = "reading"
  /\ peer[c] = "down" \/ conn[c] = "closed" \/ writer[c] = "ended"
  /\ CallUnregister(c)
  /\ stage' = [stage EXCEPT ![c] = "closing"]
  /\ UNCHANGED <<writer, hand, backlog, conn, peer, wire>>

\* Unregister has returned.
CloseConn(c) ==
  /\ stage[c] = "closing"
  /\ pc[c] = "gone"
  /\ stage' = [stage EXCEPT ![c] = "ended"]
  /\ conn' = [conn EXCEPT ![c] = "closed"]
  /\ UNCHANGED <<hubVars, writer, hand, backlog, peer, wire>>

-----------------------------------------------------------------------------
(* writeLoop.                                                              *)

Selecting(c) == writer[c] = "running" /\ hand[c] = 0

\* The select takes a message.  (The first form keeps only the newest.)
TakeMessage_Newest(c) ==
  /\ Selecting(c)
  /\ send[c] # <<>>
  /\ hand' = [hand EXCEPT ![c] = send[c][Len(send[c])]]
  /\ send' = [send EXCEPT ![c] = <<>>]
  /\ UNCHANGED <<stopped, hub, log, handled, published, unregQ, byUser, count, pc, chan,
                 joined, pushed, stage, writer, backlog, conn, peer, wire>>

TakeMessage(c) ==
  /\ Selecting(c)
  /\ Receive(c)
  /\ hand' = [hand EXCEPT ![c] = Head(send[c])]
  /\ UNCHANGED <<stage, writer, backlog, conn, peer, wire>>

WriteMessage(c) ==
  /\ hand[c] # 0
  /\ CanWrite(c)
  /\ wire' = [wire EXCEPT ![c] = Append(@, hand[c])]
  /\ hand' = [hand EXCEPT ![c] = 0]
  /\ UNCHANGED <<hubVars, stage, writer, backlog, conn, peer>>

\* writeLoop returns: its deferred function closes the connection.
EndWriter(c) ==
  /\ writer' = [writer EXCEPT ![c] = "ended"]
  /\ hand' = [hand EXCEPT ![c] = 0]
  /\ conn' = [conn EXCEPT ![c] = "closed"]
  /\ UNCHANGED <<hubVars, stage, backlog, peer>>

WriteFails(c) ==
  /\ hand[c] # 0
  /\ CanFail(c)
  /\ EndWriter(c)
  /\ UNCHANGED wire

\* The select finds the channel closed and empty: a close frame ends the stream.
ChannelClosed(c) ==
  /\ Selecting(c)
  /\ chan[c] # "open"
  /\ send[c] = <<>>
  /\ \/ /\ CanWrite(c)
        /\ wire' = [wire EXCEPT ![c] = Append(@, CloseFrame)]
     \/ /\ CanFail(c)
        /\ UNCHANGED wire
  /\ EndWriter(c)

\* The ticker fires and the ping cannot be written.  (A ping that is written
\* changes nothing.)
PingFails(c) ==
  /\ Selecting(c)
  /\ CanFail(c)
  /\ EndWriter(c)
  /\ UNCHANGED wire

-----------------------------------------------------------------------------
PeerLeaves(c) ==
  /\ stage[c] # "new"
  /\ peer[c] = "up"
  /\ peer' = [peer EXCEPT ![c] = "down"]
  /\ UNCHANGED <<hubVars, stage, writer, hand, backlog, conn, wire>>

\* What the hub, its publishers and its callers inside Register and Unregister do.
HubStep ==
  /\ \/ \E to \in Recipient : Publish(to)
     \/ Close \/ RunUnregister \/ RunDispatch \/ RunStop
     \/ \E c \in Clients :
          \/ RunRegister(c) \/ RegisterStopped(c)
          \/ PostUnregister(c) \/ UnregisterStopped(c)
  /\ UNCHANGED connectionVars

HandlerStep(c) ==
  \/ \E n \in 0..MaxBacklog : QueryBacklog(c, n)
  \/ ReplayWrite(c) \/ ReplayFails(c) \/ RunClient(c)

ReaderStep(c) == ReadFails(c) \/ CloseConn(c)

WriterStep(c) ==
  \/ TakeMessage(c) \/ WriteMessage(c) \/ WriteFails(c)
  \/ ChannelClosed(c) \/ PingFails(c)

ConnNext ==
  \/ HubStep
  \/ \E c \in Clients :
       Connect(c) \/ PeerLeaves(c) \/ HandlerStep(c) \/ ReaderStep(c) \/ WriterStep(c)

ConnSpec == ConnInit /\ [][ConnNext]_connVars

(***************************************************************************)
(* The three goroutines of a connection keep running: writes end within    *)
(* writeWait and reads within pongWait once nothing is heard, so none      *)
(* blocks for ever.  Nothing is assumed of peers, publishers or Close, nor *)
(* that a new connection is ever made.                                     *)
(***************************************************************************)
ConnFairSpec ==
  /\ ConnSpec
  /\ HubFairness
  /\ \A c \in Clients :
       /\ WF_connVars(HandlerStep(c))
       /\ WF_connVars(ReaderStep(c))
       /\ WF_connVars(WriterStep(c))

-----------------------------------------------------------------------------
(* Safety.                                                                 *)

\* Type correctness of the connection's own state.
ConnTypeOK == ConnTypes

\* The positions and the events of the live frames.
Live(c) == {i \in DOMAIN wire[c] : wire[c][i] > 0}
Written(c) == {wire[c][i] : i \in Live(c)}

\* The events received by writeLoop or waiting for it.
Pending(c) == ({hand[c]} \ {0}) \cup {send[c][i] : i \in DOMAIN send[c]}

InOrder(c) == \A i, j \in Live(c) : i < j => wire[c][i] < wire[c][j]

WaitInOrder(c) ==
  /\ \A i, j \in DOMAIN send[c] : i < j => send[c][i] < send[c][j]
  /\ hand[c] # 0 => \A i \in DOMAIN send[c] : hand[c] < send[c][i]

\* The live frames are events the hub pushed, in order and each once, and none
\* was passed over; as long as writeLoop runs, the rest of them is in its hand
\* or waits in the channel, in order too.
WireFollowsHub ==
  \A c \in Clients :
    /\ InOrder(c)
    /\ Written(c) \subseteq pushed[c]
    /\ \A e \in Written(c), f \in pushed[c] \ Written(c) : e < f
    /\ writer[c] # "ended" =>
         /\ pushed[c] \ Written(c) = Pending(c)
         /\ WaitInOrder(c)

\* "replayBacklog runs before writeLoop, so it is the only writer on conn": the
\* replayed frames come first, and live ones are not mixed with them.
ReplayComesFirst ==
  \A c \in Clients : \A i, j \in DOMAIN wire[c] :
    i < j /\ wire[c][j] = Backlog => wire[c][i] = Backlog

\* A peer that reads the close frame has been sent everything the hub ever
\* pushed to it, and nothing follows: what it has is then a complete prefix
\* (ContiguousDelivery) from which it can resume.
CloseFrameIsLast ==
  \A c \in Clients : \A i \in DOMAIN wire[c] :
    wire[c][i] = CloseFrame =>
      /\ i = Len(wire[c])
      /\ \A e \in pushed[c] : \E j \in DOMAIN wire[c] : wire[c][j] = e

\* What a peer reads is what the hub pushed, and it can tell when it is complete.
WireIsFaithful == WireFollowsHub /\ CloseFrameIsLast

\* "Register synchronously so racing publishers don't broadcast before the hub knows
\* the client": the hub owns a connection whose backlog is being read or written, or
\* which is being served, unless it has ended it.  What it owns it is told to forget,
\* once, and only when readLoop has ended: no connection is left in the registry of a
\* running hub without a request for it, nor asked for twice.
HubKnowsTheServed ==
  /\ \A c \in Clients :
       /\ stage[c] \in {"replaying", "reading"} /\ chan[c] = "open" =>
            hub = "running" /\ IsRegistered(c)
       /\ stage[c] = "ended" /\ hub = "running" /\ IsRegistered(c) =>
            stopped \/ \E i \in DOMAIN unregQ : unregQ[i] = c
  /\ \A i \in DOMAIN unregQ :
       /\ stage[unregQ[i]] \in {"closing", "ended"}
       /\ \A j \in DOMAIN unregQ : unregQ[i] = unregQ[j] => i = j

-----------------------------------------------------------------------------
(* Liveness, under ConnFairSpec.                                           *)

\* No goroutine is left, the network connection is closed, and the hub does not
\* hold the client.
Released(c) ==
  /\ stage[c] = "ended"
  /\ writer[c] = "ended"
  /\ conn[c] = "closed"
  /\ hub = "done" \/ ~IsRegistered(c)

\* Nothing is leaked: a peer that has gone, in any stage, takes its connection with
\* it, and so does the hub: a client it cut off, or that met a hub already
\* stopped, is released even if its peer stays connected and keeps answering.
EndsAreReleased ==
  \A c \in Clients : peer[c] = "down" \/ chan[c] # "open" ~> Released(c)
=============================================================================
