------------------------------- MODULE Fanout -------------------------------
(***************************************************************************)
(* What the notification hub promises to a connection, with no goroutines, *)
(* channels or capacities: the accepted events form one log, a reader      *)
(* position moves along it, and a connection is served every event         *)
(* addressed to it from the moment it joins until the moment it is ended.  *)
(* A reader may be ended at any time, but it is never skipped: that is     *)
(* what makes resuming from the last received event meaningful.            *)
(*                                                                         *)
(* Hub.tla implements this specification.                                  *)
(***************************************************************************)
EXTENDS Integers, Sequences

CONSTANTS
  Clients,  \* connections
  Users,    \* user ids
  UserOf,   \* UserOf[c] is the user that opened connection c
  Nobody    \* the zero user id: an event for Nobody goes to every connection

VARIABLES
  log,      \* accepted events in order; log[i] is the recipient of event i
  pos,      \* how many of them have been served
  phase,    \* phase[c] \in {"new", "live", "ended"}
  from,     \* from[c] is the position at which c joined
  got       \* got[c] is the set of events served to c

vars == <<log, pos, phase, from, got>>

Addressed(to, c) == to \in {Nobody, UserOf[c]}

Init ==
  /\ log = <<>>
  /\ pos = 0
  /\ phase = [c \in Clients |-> "new"]
  /\ from = [c \in Clients |-> 0]
  /\ got = [c \in Clients |-> {}]

Accept(to) ==
  /\ log' = Append(log, to)
  /\ UNCHANGED <<pos, phase, from, got>>

Join(c) ==
  /\ phase[c] = "new"
  /\ phase' = [phase EXCEPT ![c] = "live"]
  /\ from' = [from EXCEPT ![c] = pos]
  /\ UNCHANGED <<log, pos, got>>

End(S) ==
  /\ phase' = [c \in Clients |-> IF c \in S THEN "ended" ELSE phase[c]]
  /\ UNCHANGED <<log, pos, from, got>>

\* The next event is served to every live reader it is addressed to, except
\* the readers in lost, which are ended instead.
Serve(lost) ==
  /\ pos < Len(log)
  /\ pos' = pos + 1
  /\ phase' = [c \in Clients |-> IF c \in lost THEN "ended" ELSE phase[c]]
  /\ got' = [c \in Clients |->
              IF phase[c] = "live" /\ Addressed(log[pos + 1], c) /\ c \notin lost
              THEN got[c] \cup {pos + 1}
              ELSE got[c]]
  /\ UNCHANGED <<log, from>>

Next ==
  \/ \E to \in Users \cup {Nobody} : Accept(to)
  \/ \E c \in Clients : Join(c)
  \/ \E S \in SUBSET Clients : End(S) \/ Serve(S)

Spec == Init /\ [][Next]_vars
=============================================================================
