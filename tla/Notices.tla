------------------------------- MODULE Notices -------------------------------
(***************************************************************************)
(* The browser's end of the notifications: useNotificationsSocket          *)
(* (frontend/src/modules/notifications/hooks), mounted by the layout of    *)
(* the private pages, over the WebSocket and GET /notifications/since of   *)
(* backend/internal/modules/notifications/handler.go.                      *)
(*                                                                         *)
(* One tab of one user.  Every event is for this user; an event is its     *)
(* position in the durable log.  What is done with an event that is new to *)
(* the page (toast, badge, list, feed) reads nothing of this state: see    *)
(* Bell, Feed and Pages.                                                   *)
(***************************************************************************)
EXTENDS Naturals, Sequences, FiniteSets, SequencesExt

CONSTANTS
  SeenCap,      \* SEEN_EVENT_CAP
  ReplayLimit,  \* wsReplayLimit, and the limit of getNotificationsSince
  MaxEvents,    \* bound on the events published
  MaxFaults,    \* bound on the connections, requests and pages lost while signed in
  MaxExpiries   \* bound on the access tokens that expire

ASSUME NoticesAssumption ==
  /\ SeenCap \in Nat \ {0}
  /\ ReplayLimit \in Nat \ {0}
  /\ MaxEvents \in Nat /\ MaxFaults \in Nat /\ MaxExpiries \in Nat

VARIABLES
  published,   \* the length of the log
  session,     \* "none", or whether the access token in the store is still good
  mounted,     \* a private page is shown
  socket,      \* "off", "connecting", "open", or "waiting" for the timer
  conn,        \* the connection's state at the server
  tab,         \* what the page and local storage remember
  recovering,  \* the calls of recoverViaHttp under way
  lossy,       \* history: the server has not replayed all that was asked for
  faults, expiries

noticesVars == <<published, session, mounted, socket, conn, tab, recovering,
                 lossy, faults, expiries>>

\* The server's side of a connection: the ?since= it was asked for, the backlog
\* still to send, and the next live event.
NoConn == [state |-> "none", asked |-> 0, backlog |-> <<>>, next |-> 0]

Init ==
  /\ published = 0
  /\ session = "none"
  /\ mounted = FALSE
  /\ socket = "off"
  /\ conn = NoConn
  \* seenOrderRef (and its set), lastEventIdRef, LAST_EVENT_ID_KEY; history: the
  \* last events this page took for new, and all that any page did.
  /\ tab = [seen |-> <<>>, cursor |-> 0, stored |-> 0, recent |-> <<>>, handled |-> {}]
  /\ recovering = {}
  /\ lossy = FALSE
  /\ faults = 0 /\ expiries = 0

-----------------------------------------------------------------------------
(* handleEvent and rememberSeen.                                           *)

LastOf(s, n) == IF Len(s) > n THEN Tail(s) ELSE s

\* Mutant: the oldest id is evicted one event early.
Handle_EvictsEarly(t, e) ==
  IF e \in ToSet(t.seen) THEN t
  ELSE [t EXCEPT !.seen = LastOf(Append(@, e), SeenCap - 1),
                 !.recent = LastOf(Append(@, e), SeenCap + 1),
                 !.cursor = e, !.stored = e, !.handled = @ \cup {e}]

\* An event the page has seen is skipped; another becomes the last one.
Handle(t, e) ==
  IF e \in ToSet(t.seen) THEN t
  ELSE [t EXCEPT !.seen = LastOf(Append(@, e), SeenCap),
                 !.recent = LastOf(Append(@, e), SeenCap + 1),
                 !.cursor = e, !.stored = e, !.handled = @ \cup {e}]

\* The events of an answer are handled one after the other.
HandleAll(t, events) ==
  LET after[i \in 0..Len(events)] ==
        IF i = 0 THEN t ELSE Handle(after[i - 1], events[i])
  IN after[Len(events)]

\* What the log answers to someone who has handled event e.
Newer(e) ==
  [i \in 1..(IF published - e < ReplayLimit THEN published - e ELSE ReplayLimit) |-> e + i]

-----------------------------------------------------------------------------
(* The effect that owns the socket.                                        *)

\* Mutant: buildUrl leaves ?since= out.
Dial_NoSince(t) ==
  /\ socket' = "connecting"
  /\ conn' = NoConn

\* connect: with the cursor of the moment.
Dial(t) ==
  /\ socket' = "connecting"
  /\ conn' = [NoConn EXCEPT !.asked = t.cursor]

\* The cleanup of the effect.
HangUp == socket' = "off" /\ conn' = NoConn

\* session has become another object: the effect is cleaned up and run again.
SessionChanges(s) ==
  /\ session' = s
  /\ IF mounted /\ s # "none" THEN Dial(tab) ELSE HangUp

\* The refs of a page that has just been mounted.
FreshPage(t) == [t EXCEPT !.seen = <<>>, !.recent = <<>>, !.cursor = t.stored]

Mount ==
  /\ ~mounted
  /\ mounted' = TRUE
  /\ tab' = FreshPage(tab)
  /\ IF session # "none" THEN Dial(tab') ELSE UNCHANGED <<socket, conn>>
  /\ UNCHANGED <<published, session, recovering, lossy, faults, expiries>>

\* From the sign-in page, which is not private.
SignIn ==
  /\ ~mounted
  /\ session = "none"
  /\ SessionChanges("fresh")
  /\ UNCHANGED <<published, mounted, tab, recovering, lossy, faults, expiries>>

SignOut ==
  /\ session # "none"
  /\ mounted
  /\ SessionChanges("none")
  /\ UNCHANGED <<published, mounted, tab, recovering, lossy, faults, expiries>>

\* To the sign-in page, or to a page that is not there.  A recovery under way goes
\* on with the refs of the page that is left: its own cursor, and the ids that
\* page had seen.
Leave ==
  /\ mounted
  /\ \/ session = "none" /\ UNCHANGED faults
     \/ session # "none" /\ faults < MaxFaults /\ faults' = faults + 1
  /\ mounted' = FALSE
  /\ HangUp
  /\ recovering' = {IF r.left THEN r ELSE [r EXCEPT !.left = TRUE, !.seen = tab.seen] :
                      r \in recovering}
  /\ UNCHANGED <<published, session, tab, lossy, expiries>>

\* The page is loaded anew: local storage is all that is left.
Reload ==
  /\ mounted
  /\ faults < MaxFaults
  /\ faults' = faults + 1
  /\ tab' = FreshPage(tab)
  /\ recovering' = {}
  /\ IF session # "none" THEN Dial(tab') ELSE UNCHANGED <<socket, conn>>
  /\ UNCHANGED <<published, session, mounted, lossy, expiries>>

\* The timer of RECONNECT_DELAY_MS.
Reconnect ==
  /\ socket = "waiting"
  /\ Dial(tab)
  /\ UNCHANGED <<published, session, mounted, tab, recovering, lossy, faults, expiries>>

\* onopen
Opened ==
  /\ socket = "connecting"
  /\ conn.state # "none"
  /\ socket' = "open"
  /\ UNCHANGED <<published, session, mounted, conn, tab, recovering, lossy, faults, expiries>>

\* Mutant: what was missed is not asked for over HTTP.
CloseUnopened_NoRecovery ==
  /\ socket = "connecting"
  /\ socket' = "waiting"
  /\ conn' = NoConn
  /\ UNCHANGED <<published, session, mounted, tab, recovering, lossy, expiries>>

\* onclose of a socket that was not opened: what was missed is asked for over HTTP,
\* if there is a cursor to ask from.
CloseUnopened ==
  /\ socket = "connecting"
  /\ socket' = "waiting"
  /\ conn' = NoConn
  /\ recovering' = recovering \cup
       {[since |-> c, ok |-> session = "fresh", left |-> FALSE, seen |-> <<>>] :
          c \in {tab.cursor} \ {0}}
  /\ UNCHANGED <<published, session, mounted, tab, lossy, expiries>>

\* The upgrade is refused: the access token in the URL has expired.
Refused == session = "expired" /\ conn.state = "none" /\ CloseUnopened /\ UNCHANGED faults

Lost == faults < MaxFaults /\ faults' = faults + 1 /\ CloseUnopened

\* onclose of an open socket.
Broken ==
  /\ socket = "open"
  /\ faults < MaxFaults
  /\ faults' = faults + 1
  /\ socket' = "waiting"
  /\ conn' = NoConn
  /\ UNCHANGED <<published, session, mounted, tab, recovering, lossy, expiries>>

\* onmessage: the backlog first, then what the hub has sent this client.
Receive ==
  /\ socket = "open"
  /\ \/ /\ conn.backlog # <<>>
        /\ tab' = Handle(tab, Head(conn.backlog))
        /\ conn' = [conn EXCEPT !.backlog = Tail(@)]
     \/ /\ conn.state = "live" /\ conn.backlog = <<>>
        /\ conn.next <= published
        /\ tab' = Handle(tab, conn.next)
        /\ conn' = [conn EXCEPT !.next = @ + 1]
  /\ UNCHANGED <<published, session, mounted, socket, recovering, lossy, faults, expiries>>

-----------------------------------------------------------------------------
(* recoverViaHttp, through the HTTP client that refreshes tokens.          *)

RecoveryAnswered(r) ==
  /\ r.ok
  /\ recovering' = recovering \ {r}
  /\ tab' = IF r.left
            THEN LET t == HandleAll([tab EXCEPT !.seen = r.seen], Newer(r.since))
                 IN [tab EXCEPT !.stored = t.stored, !.handled = t.handled]
            ELSE HandleAll(tab, Newer(r.since))
  /\ UNCHANGED <<published, session, mounted, socket, conn, lossy, faults, expiries>>

\* 401: the tokens are refreshed and the request is sent again, or the refresh
\* fails and ends the session.
RecoveryDenied(r) ==
  /\ ~r.ok
  /\ \/ /\ session # "none"
        /\ SessionChanges("fresh")
        /\ recovering' = (recovering \ {r}) \cup {[r EXCEPT !.ok = TRUE]}
     \/ /\ SessionChanges("none")
        /\ recovering' = recovering \ {r}
  /\ UNCHANGED <<published, mounted, tab, lossy, faults, expiries>>

\* Any other error is logged.
RecoveryFails(r) ==
  /\ faults < MaxFaults
  /\ faults' = faults + 1
  /\ recovering' = recovering \ {r}
  /\ UNCHANGED <<published, session, mounted, socket, conn, tab, lossy, expiries>>

\* A request of another component has refreshed the tokens.
RefreshElsewhere ==
  /\ session = "expired"
  /\ SessionChanges("fresh")
  /\ UNCHANGED <<published, mounted, tab, recovering, lossy, faults, expiries>>

\* The access token expires before or after the requests under way are looked at.
Expire ==
  /\ session = "fresh"
  /\ expiries < MaxExpiries
  /\ expiries' = expiries + 1
  /\ session' = "expired"
  /\ \/ UNCHANGED recovering
     \/ recovering' = {[r EXCEPT !.ok = FALSE] : r \in recovering}
  /\ UNCHANGED <<published, mounted, socket, conn, tab, lossy, faults>>

-----------------------------------------------------------------------------
(* The server.                                                             *)

Publish ==
  /\ published < MaxEvents
  /\ published' = published + 1
  /\ UNCHANGED <<session, mounted, socket, conn, tab, recovering, lossy, faults, expiries>>

\* handle upgrades and registers the client: live events are those the hub
\* receives from here on, the last of the log perhaps among them.
Accept ==
  /\ socket = "connecting"
  /\ conn.state = "none"
  /\ session # "expired"
  /\ \E n \in {published, published + 1} \ {0} :
       conn' = [conn EXCEPT !.state = "joined", !.next = n]
  /\ UNCHANGED <<published, session, mounted, socket, tab, recovering, lossy, faults, expiries>>

\* replayBacklog, if ?since= was given, before the write loop is started.  The
\* log may refuse, and its answer is cut at the limit.
Replay ==
  /\ conn.state = "joined"
  /\ \/ /\ conn.asked > 0
        /\ conn' = [conn EXCEPT !.state = "live", !.backlog = Newer(conn.asked)]
        /\ lossy' = (lossy \/ published - conn.asked > ReplayLimit)
     \/ /\ conn' = [conn EXCEPT !.state = "live"]
        /\ lossy' = (lossy \/ conn.asked > 0)
  /\ UNCHANGED <<published, session, mounted, socket, tab, recovering, faults, expiries>>

-----------------------------------------------------------------------------
Recovery ==
  \E r \in recovering : RecoveryAnswered(r) \/ RecoveryDenied(r) \/ RecoveryFails(r)

Next ==
  \/ Mount \/ SignIn \/ SignOut \/ Leave \/ Reload
  \/ Reconnect \/ Opened \/ Refused \/ Lost \/ Broken \/ Receive
  \/ Recovery \/ RefreshElsewhere \/ Expire
  \/ Publish \/ Accept \/ Replay

Spec == Init /\ [][Next]_noticesVars

\* Timers fire, the server answers, and messages arrive.  Nothing makes users
\* move, tokens expire, events be published, or other requests refresh tokens.
Fairness ==
  /\ WF_noticesVars(Reconnect)
  /\ WF_noticesVars(Opened)
  /\ WF_noticesVars(Refused)
  /\ WF_noticesVars(Receive)
  /\ WF_noticesVars(Accept)
  /\ WF_noticesVars(Replay)
  /\ WF_noticesVars(\E r \in recovering : RecoveryAnswered(r) \/ RecoveryDenied(r))

FairSpec == Spec /\ Fairness

-----------------------------------------------------------------------------
(* Properties.                                                             *)

\* An event that arrives by two ways (live, replayed, recovered) is announced
\* once by a page, unless SeenCap others came in between.
AnnouncedOnce ==
  \A i, j \in DOMAIN tab.recent : tab.recent[i] = tab.recent[j] => i = j

\* As long as the log replays what it is asked for, the events taken by the
\* browser have no gap, across reconnections, reloads, recoveries and pages: from
\* the first to the last one handled, and on to what a live connection sends next.
NothingIsSkipped ==
  ~lossy /\ tab.handled # {} =>
    /\ \A i, j \in tab.handled : i..j \subseteq tab.handled
    /\ {tab.cursor, tab.stored} \subseteq tab.handled \cup {0}
    /\ socket = "open" /\ conn.state = "live" /\ conn.backlog = <<>> /\ tab.cursor > 0 =>
         tab.cursor..(conn.next - 1) \subseteq tab.handled

SignedIn == mounted /\ session # "none"

\* Once a browser has a cursor, what is published while its user is signed in is
\* announced, whatever is lost on the way and although its tokens expire
\* (FairSpec), unless the log did not replay it.
EventsArrive ==
  \A e \in 1..MaxEvents :
    SignedIn /\ tab.cursor \in 1..(e - 1) /\ e <= published
      ~> e \in tab.handled \/ lossy \/ ~SignedIn

\* "WebSocket disconnects every minute. [...] the client reconnects automatically"
\* (README.md): a signed-in page gets its socket back (FairSpec).
ReconnectsAutomatically == SignedIn ~> socket = "open" \/ ~SignedIn
=============================================================================
