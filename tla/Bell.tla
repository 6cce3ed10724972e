--------------------------------- MODULE Bell ---------------------------------
(***************************************************************************)
(* The badge on the bell: useNotificationsUnreadCount and                  *)
(* useMarkNotificationsSeen (frontend/src/modules/notifications/hooks),    *)
(* the button of HorizontalNav, the bump of handleEvent, and what the      *)
(* server does for them (notifications/service.go, CountSharedAfter).      *)
(*                                                                         *)
(* The nav is part of the private layout: another layout, or the page for  *)
(* a URL that is not found, takes its place.  The query and its requests   *)
(* outlive it.                                                             *)
(*                                                                         *)
(* One user in one page.  A row of videos is the order in which its        *)
(* created_at was taken; a time is the number of rows stamped before it.   *)
(***************************************************************************)
EXTENDS Naturals, FiniteSets

CONSTANTS
  Mine,       \* the rows this user shares; somebody else shares the others
  UnreadMax,  \* UNREAD_MAX and MaxUnread
  MaxRows,    \* bound on the rows
  MaxMarks,   \* bound on the calls of mark-seen
  MaxFaults   \* bound on the calls that fail

ASSUME BellAssumption ==
  /\ Mine \subseteq Nat
  /\ UnreadMax \in Nat \ {0}
  /\ MaxRows \in Nat /\ MaxMarks \in Nat /\ MaxFaults \in Nat

VARIABLES
  stamped,    \* the rows whose created_at has been taken are 1..stamped
  committed,  \* those in the table
  told,       \* those whose event has reached this page
  marker,     \* users.last_notifications_seen_at
  marks,      \* marks[i]: the i-th call of mark-seen
  signedIn,
  mounted,    \* HorizontalNav is mounted
  open,       \* notifOpen
  badge,      \* the cached answer: the rows the server counted, and the bumps since
  stale,      \* it is invalidated, or older than its staleTime
  fetch,      \* the call of unread-count that fills it
  clearedAt,  \* history: the latest mark the page was told of
  rewound,    \* history: an earlier mark was written after a later one
  unheeded,   \* history: a mark was answered when no nav observed the query, and a
              \* call that had read the older marker went on
  faults

serverVars == <<stamped, committed, marker>>
queryVars == <<badge, stale, fetch>>
historyVars == <<clearedAt, rewound, unheeded>>
bellVars == <<serverVars, told, marks, signedIn, mounted, open, queryVars, historyVars, faults>>

NoBadge == [known |-> FALSE, rows |-> {}, bumps |-> 0]
NoFetch == [stage |-> "none", marker |-> 0, rows |-> {}]
Marks == 1..MaxMarks

TypeOK ==
  /\ stamped \in 0..MaxRows
  /\ committed \subseteq 1..stamped
  /\ told \subseteq committed
  /\ marker \in 0..stamped
  /\ marks \in [Marks -> [stage : {"new", "sent", "stamped", "written", "ended"},
                          at : 0..stamped]]
  /\ badge \in [known : BOOLEAN, rows : SUBSET committed, bumps : Nat]
  /\ fetch \in [stage : {"none", "sent", "loaded", "counted"}, marker : 0..stamped,
                rows : SUBSET committed]
  /\ clearedAt \in 0..stamped
  /\ {signedIn, mounted, open, stale, rewound, unheeded} \subseteq BOOLEAN

Init ==
  /\ stamped = 0 /\ committed = {} /\ told = {}
  /\ marker = 0
  /\ marks = [i \in Marks |-> [stage |-> "new", at |-> 0]]
  /\ signedIn = FALSE /\ mounted = FALSE /\ open = FALSE
  /\ badge = NoBadge /\ stale = FALSE /\ fetch = NoFetch
  /\ clearedAt = 0 /\ rewound = FALSE /\ unheeded = FALSE
  /\ faults = 0

Capped(n) == IF n < UnreadMax THEN n ELSE UnreadMax

\* The number on the bell.
Unread == Capped(Cardinality(badge.rows) + badge.bumps)

\* CountSharedAfter
SharedAfter(at) == {r \in committed : r > at} \ Mine

-----------------------------------------------------------------------------
(* The server.                                                             *)

StampRow ==
  /\ stamped < MaxRows
  /\ stamped' = stamped + 1
  /\ UNCHANGED <<committed, told, marker, marks, signedIn, mounted, open, queryVars, historyVars, faults>>

Commit(r) ==
  /\ r \in 1..stamped \ committed
  /\ committed' = committed \cup {r}
  /\ UNCHANGED <<stamped, told, marker, marks, signedIn, mounted, open, queryVars, historyVars, faults>>

\* UnreadCount: the user is loaded, then the rows are counted.
LoadUser ==
  /\ fetch.stage = "sent"
  /\ fetch' = [fetch EXCEPT !.stage = "loaded", !.marker = marker]
  /\ UNCHANGED <<serverVars, told, marks, signedIn, mounted, open, badge, stale, historyVars, faults>>

CountRows ==
  /\ fetch.stage = "loaded"
  /\ fetch' = [fetch EXCEPT !.stage = "counted", !.rows = SharedAfter(fetch.marker)]
  /\ UNCHANGED <<serverVars, told, marks, signedIn, mounted, open, badge, stale, historyVars, faults>>

\* MarkSeen: the time is taken, then written.
StampMark(i) ==
  /\ marks[i].stage = "sent"
  /\ marks' = [marks EXCEPT ![i] = [stage |-> "stamped", at |-> stamped]]
  /\ UNCHANGED <<serverVars, told, signedIn, mounted, open, queryVars, historyVars, faults>>

WriteMark(i) ==
  /\ marks[i].stage = "stamped"
  /\ marks' = [marks EXCEPT ![i].stage = "written"]
  /\ marker' = marks[i].at
  /\ rewound' = (rewound \/ marks[i].at < marker)
  /\ UNCHANGED <<stamped, committed, told, signedIn, mounted, open, queryVars, clearedAt, unheeded, faults>>

-----------------------------------------------------------------------------
(* The query.                                                              *)

\* The query has an observer that is enabled.
Active == mounted /\ signedIn

StartFetch == fetch' = [NoFetch EXCEPT !.stage = "sent"]

\* A fetch under way is joined.
FetchIfStale ==
  IF (stale \/ ~badge.known) /\ fetch.stage = "none" THEN StartFetch ELSE UNCHANGED fetch

\* Mutant: a fetch under way is joined by the one that invalidation asks for.
RefetchInvalid_Joins ==
  IF Active /\ fetch.stage = "none" THEN StartFetch ELSE UNCHANGED fetch

\* What invalidateQueries does about a query that has data: if it is active, a
\* fetch under way is dropped for a new one; if it is not, that fetch goes on.
RefetchInvalid == IF Active THEN StartFetch ELSE UNCHANGED fetch

FetchAnswered ==
  /\ fetch.stage = "counted"
  /\ badge' = [known |-> TRUE, rows |-> fetch.rows, bumps |-> 0]
  /\ stale' = FALSE
  /\ fetch' = NoFetch
  /\ UNCHANGED <<serverVars, told, marks, signedIn, mounted, open, historyVars, faults>>

\* A failed call is sent once more, if the nav is still there; then the query is in
\* error, and stale.
FetchFails ==
  /\ fetch.stage # "none"
  /\ faults < MaxFaults
  /\ faults' = faults + 1
  /\ \/ mounted /\ StartFetch /\ UNCHANGED stale
     \/ fetch' = NoFetch /\ stale' = TRUE
  /\ UNCHANGED <<serverVars, told, marks, signedIn, mounted, open, badge, historyVars>>

\* staleTime
Age ==
  /\ badge.known
  /\ ~stale
  /\ stale' = TRUE
  /\ UNCHANGED <<serverVars, told, marks, signedIn, mounted, open, badge, fetch, historyVars, faults>>

\* A query nobody observes is forgotten in the end.
Collect ==
  /\ ~mounted
  /\ badge.known
  /\ fetch.stage = "none"
  /\ badge' = NoBadge /\ stale' = FALSE
  /\ UNCHANGED <<serverVars, told, marks, signedIn, mounted, open, fetch, historyVars, faults>>

\* Mutant: refetchOnWindowFocus is left at the client's default.
Focus_Ignored == FALSE /\ UNCHANGED bellVars

\* refetchOnWindowFocus
Focus ==
  /\ Active
  /\ FetchIfStale
  /\ UNCHANGED <<serverVars, told, marks, signedIn, mounted, open, badge, stale, historyVars, faults>>

-----------------------------------------------------------------------------
(* The page.                                                               *)

\* handleEvent of an event that is new to the page.  setQueryData counts as an
\* update; it does not stop a fetch.
Announce(r) ==
  /\ r \in committed \ told
  /\ told' = told \cup {r}
  /\ IF r \in Mine THEN UNCHANGED <<badge, stale>>
     ELSE /\ badge' = [badge EXCEPT !.known = TRUE, !.bumps = @ + 1]
          /\ stale' = FALSE
  /\ UNCHANGED <<serverVars, marks, signedIn, mounted, open, fetch, historyVars, faults>>

\* The button: opening marks everything seen, if there is anything to see.
BellClick ==
  /\ Active
  /\ open' = ~open
  /\ IF ~open /\ Unread > 0
     THEN \E i \in Marks :
            /\ \A j \in Marks : marks[j].stage = "new" <=> j >= i
            /\ marks' = [marks EXCEPT ![i].stage = "sent"]
     ELSE UNCHANGED marks
  /\ UNCHANGED <<serverVars, told, signedIn, mounted, queryVars, historyVars, faults>>

\* onClose of the popover, which is shown to a signed-in user.
Close ==
  /\ open /\ signedIn
  /\ open' = FALSE
  /\ UNCHANGED <<serverVars, told, marks, signedIn, mounted, queryVars, historyVars, faults>>

\* onSuccess of the mutation, whatever is shown and whoever is signed in by then.
MarkAnswered(i) ==
  /\ marks[i].stage = "written"
  /\ marks' = [marks EXCEPT ![i] = [stage |-> "ended", at |-> 0]]
  /\ badge' = [known |-> TRUE, rows |-> {}, bumps |-> 0]
  /\ stale' = TRUE
  /\ RefetchInvalid
  /\ clearedAt' = IF marks[i].at > clearedAt THEN marks[i].at ELSE clearedAt
  /\ unheeded' = (unheeded \/ (~Active /\ fetch.stage \in {"loaded", "counted"}))
  /\ UNCHANGED <<serverVars, told, signedIn, mounted, open, rewound, faults>>

\* Before or after the marker is written.
MarkFails(i) ==
  /\ marks[i].stage \in {"sent", "stamped", "written"}
  /\ faults < MaxFaults
  /\ faults' = faults + 1
  /\ marks' = [marks EXCEPT ![i] = [stage |-> "ended", at |-> 0]]
  /\ UNCHANGED <<serverVars, told, signedIn, mounted, open, queryVars, historyVars>>

\* setSession, on the page of the form or wherever the user is when it is
\* answered.  isAuthed enables the query of a nav that is there.
SignIn ==
  /\ ~signedIn
  /\ signedIn' = TRUE
  /\ IF mounted THEN FetchIfStale ELSE UNCHANGED fetch
  /\ UNCHANGED <<serverVars, told, marks, mounted, open, badge, stale, historyVars, faults>>

\* The button of the nav, or a refresh that fails, anywhere.
SignOut ==
  /\ signedIn
  /\ signedIn' = FALSE
  /\ UNCHANGED <<serverVars, told, marks, mounted, open, queryVars, historyVars, faults>>

\* The private layout is entered.
Mount ==
  /\ ~mounted
  /\ mounted' = TRUE
  /\ IF signedIn THEN FetchIfStale ELSE UNCHANGED fetch
  /\ UNCHANGED <<serverVars, told, marks, signedIn, open, badge, stale, historyVars, faults>>

\* It is left, for the forms or for a URL that is not found.  A fetch goes on.
Unmount ==
  /\ mounted
  /\ mounted' = FALSE
  /\ open' = FALSE
  /\ UNCHANGED <<serverVars, told, marks, signedIn, queryVars, historyVars, faults>>

-----------------------------------------------------------------------------
MarkStep(i) == StampMark(i) \/ WriteMark(i) \/ MarkAnswered(i) \/ MarkFails(i)

Next ==
  \/ StampRow \/ (\E r \in 1..stamped : Commit(r) \/ Announce(r))
  \/ LoadUser \/ CountRows \/ FetchAnswered \/ FetchFails \/ Age \/ Collect \/ Focus
  \/ BellClick \/ Close \/ (\E i \in Marks : MarkStep(i))
  \/ SignIn \/ SignOut \/ Mount \/ Unmount

Spec == Init /\ [][Next]_bellVars

\* Time passes, and what has been sent is answered.  Nothing makes users act, or
\* events arrive.
Fairness ==
  /\ WF_bellVars(\E r \in 1..stamped : Commit(r))
  /\ WF_bellVars(LoadUser) /\ WF_bellVars(CountRows) /\ WF_bellVars(FetchAnswered)
  /\ WF_bellVars(Age)
  /\ \A i \in Marks :
       WF_bellVars(StampMark(i)) /\ WF_bellVars(WriteMark(i)) /\ WF_bellVars(MarkAnswered(i))

FairSpec == Spec /\ Fairness

-----------------------------------------------------------------------------
(* Properties.                                                             *)

\* What the user has marked as seen is not counted again: a badge fetched before
\* the mark never replaces the zero that followed it.  Two marks written in the
\* other order may undo it (rewound), and so may a mark that is answered when no nav
\* of a signed-in user is shown, while a call that is older than it is under way
\* (unheeded): invalidateQueries leaves an inactive query alone.
SeenStaysSeen ==
  ~rewound /\ ~unheeded => \A r \in badge.rows : r > clearedAt

\* The user stays signed in, on the pages that have the nav.
StaysInTheApp == <>[]Active

\* A signed-in user who keeps coming back to the window sees, in the end, the
\* server's number: bumps that counted a row twice, events that were lost, and what
\* an unheeded mark brought back do not last (FairSpec).
BadgeSettles ==
  StaysInTheApp /\ SF_bellVars(Focus) =>
    <>[](badge.known /\ Unread = Capped(Cardinality(SharedAfter(marker))))
=============================================================================
