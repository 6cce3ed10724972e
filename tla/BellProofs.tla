----------------------------- MODULE BellProofs -----------------------------
(***************************************************************************)
(* What the user has seen stays seen, for any number of videos, calls of   *)
(* mark-seen and failures.                                                 *)
(***************************************************************************)
EXTENDS Bell, TLAPS

\* As long as marks are written in the order of their times, the marker is never
\* behind a mark that was written, nor behind one the page was told of.
MarkerIsLatest ==
  ~rewound =>
    /\ clearedAt <= marker
    /\ \A i \in Marks : marks[i].stage = "written" => marks[i].at <= marker

\* A count under way was begun after the last mark the page was told of.
FetchIsCurrent ==
  /\ fetch.stage = "counted" => \A r \in fetch.rows : r > fetch.marker
  /\ ~rewound /\ ~unheeded /\ fetch.stage \in {"loaded", "counted"} =>
       clearedAt <= fetch.marker

Inv == TypeOK /\ MarkerIsLatest /\ FetchIsCurrent /\ SeenStaysSeen

-----------------------------------------------------------------------------
LEMMA InitInv == Init => Inv
  <1> SUFFICES ASSUME Init PROVE Inv
    OBVIOUS
  <1>1. /\ badge \in [known : BOOLEAN, rows : SUBSET committed, bumps : Nat]
        /\ fetch \in [stage : {"none", "sent", "loaded", "counted"}, marker : 0..stamped,
                     rows : SUBSET committed]
        /\ fetch.stage = "none" /\ badge.rows = {}
    BY DEF Init, NoBadge, NoFetch
  <1>2. \A i \in Marks : marks[i].stage = "new"
    BY DEF Init
  <1>3. marks \in [Marks -> [stage : {"new", "sent", "stamped", "written", "ended"},
                            at : 0..stamped]]
    BY DEF Init
  <1>4. TypeOK
    <2>1. stamped \in 0..MaxRows /\ committed \subseteq 1..stamped /\ told \subseteq committed
          /\ marker \in 0..stamped /\ clearedAt \in 0..stamped
      BY BellAssumption DEF Init
    <2>2. {signedIn, mounted, open, stale, rewound, unheeded} \subseteq BOOLEAN
      BY DEF Init
    <2> QED BY <1>1, <1>3, <2>1, <2>2 DEF TypeOK
  <1> QED BY <1>1, <1>2, <1>4 DEF Init, Inv, MarkerIsLatest, FetchIsCurrent, SeenStaysSeen

\* The marks by themselves.
LEMMA MarkTypes ==
  ASSUME TypeOK, NEW i \in Marks
  PROVE  /\ marks[i] \in [stage : {"new", "sent", "stamped", "written", "ended"}, at : 0..stamped]
         /\ marks[i].at \in Nat /\ marks[i].at <= stamped
  BY DEF TypeOK

-----------------------------------------------------------------------------
(* Types.                                                                  *)

LEMMA FetchTypes ==
  ASSUME TypeOK, RefetchInvalid \/ FetchIfStale \/ StartFetch
  PROVE  fetch' \in [stage : {"none", "sent", "loaded", "counted"}, marker : 0..stamped,
                     rows : SUBSET committed]
  BY DEF TypeOK, RefetchInvalid, FetchIfStale, StartFetch, NoFetch

LEMMA NoFetchType ==
  ASSUME TypeOK
  PROVE  NoFetch \in [stage : {"none", "sent", "loaded", "counted"}, marker : 0..stamped,
                      rows : SUBSET committed]
  BY DEF TypeOK, NoFetch

LEMMA NextTypes == TypeOK /\ [Next]_bellVars => TypeOK'
  <1> SUFFICES ASSUME TypeOK, [Next]_bellVars PROVE TypeOK'
    OBVIOUS
  <1> USE DEF serverVars, queryVars, historyVars
  <1>1. CASE StampRow
    <2>1. stamped \in Nat /\ stamped' = stamped + 1 /\ stamped + 1 \in 0..MaxRows
      BY <1>1, BellAssumption DEF StampRow, TypeOK
    <2>2. 0..stamped \subseteq 0..stamped' /\ 1..stamped \subseteq 1..stamped'
      BY <2>1
    <2> QED BY <1>1, <2>1, <2>2 DEF StampRow, TypeOK
  <1>2. ASSUME NEW r \in 1..stamped, Commit(r) PROVE TypeOK'
    BY <1>2 DEF Commit, TypeOK
  <1>3. ASSUME NEW r \in 1..stamped, Announce(r) PROVE TypeOK'
    <2>1. badge' \in [known : BOOLEAN, rows : SUBSET committed, bumps : Nat]
          /\ stale' \in BOOLEAN
      <3>1. CASE r \in Mine
        BY <1>3, <3>1 DEF Announce, TypeOK
      <3>2. CASE r \notin Mine
        <4>1. badge' = [badge EXCEPT !.known = TRUE, !.bumps = @ + 1] /\ stale' = FALSE
          BY <1>3, <3>2 DEF Announce
        <4>2. badge \in [known : BOOLEAN, rows : SUBSET committed, bumps : Nat]
          BY DEF TypeOK
        <4>3. badge.bumps + 1 \in Nat /\ badge.rows \in SUBSET committed
          BY <4>2
        <4>4. badge' = [known |-> TRUE, rows |-> badge.rows, bumps |-> badge.bumps + 1]
          BY <4>1, <4>2
        <4> DEFINE n == badge.bumps + 1
        <4>5. [known |-> TRUE, rows |-> badge.rows, bumps |-> n]
                \in [known : BOOLEAN, rows : SUBSET committed, bumps : Nat]
          <5>1. n \in Nat
            BY <4>3
          <5> HIDE DEF n
          <5> QED BY <4>3, <5>1
        <4> QED BY <4>1, <4>4, <4>5
      <3> QED BY <3>1, <3>2
    <2> QED BY <1>3, <2>1 DEF Announce, TypeOK
  <1>4. CASE LoadUser
    BY <1>4 DEF LoadUser, TypeOK
  <1>5. CASE CountRows
    BY <1>5 DEF CountRows, TypeOK, SharedAfter
  <1>6. CASE FetchAnswered
    <2>1. badge' \in [known : BOOLEAN, rows : SUBSET committed, bumps : Nat]
      BY <1>6 DEF FetchAnswered, TypeOK
    <2> QED BY <1>6, <2>1, NoFetchType DEF FetchAnswered, TypeOK
  <1>7. CASE FetchFails
    <2>1. fetch' \in [stage : {"none", "sent", "loaded", "counted"}, marker : 0..stamped,
                      rows : SUBSET committed]
      BY <1>7, FetchTypes, NoFetchType DEF FetchFails
    <2> QED BY <1>7, <2>1 DEF FetchFails, TypeOK
  <1>8. CASE Age
    BY <1>8 DEF Age, TypeOK
  <1>9. CASE Focus
    BY <1>9, FetchTypes DEF Focus, TypeOK
  <1>10. CASE BellClick
    BY <1>10 DEF BellClick, TypeOK
  <1>11. CASE Close
    BY <1>11 DEF Close, TypeOK
  <1>12. ASSUME NEW i \in Marks, StampMark(i) PROVE TypeOK'
    BY <1>12 DEF StampMark, TypeOK
  <1>13. ASSUME NEW i \in Marks, WriteMark(i) PROVE TypeOK'
    BY <1>13, MarkTypes DEF WriteMark, TypeOK
  <1>14. ASSUME NEW i \in Marks, MarkAnswered(i) PROVE TypeOK'
    BY <1>14, MarkTypes, FetchTypes DEF MarkAnswered, TypeOK
  <1>15. ASSUME NEW i \in Marks, MarkFails(i) PROVE TypeOK'
    BY <1>15 DEF MarkFails, TypeOK
  <1>16. CASE SignIn \/ Mount
    <2>1. FetchIfStale \/ UNCHANGED fetch
      BY <1>16 DEF SignIn, Mount
    <2>2. fetch' \in [stage : {"none", "sent", "loaded", "counted"}, marker : 0..stamped,
                      rows : SUBSET committed]
      BY <2>1, FetchTypes DEF TypeOK
    <2> QED BY <1>16, <2>2 DEF SignIn, Mount, TypeOK
  <1>17. CASE SignOut \/ Unmount
    BY <1>17 DEF SignOut, Unmount, TypeOK
  <1>19. CASE Collect
    BY <1>19 DEF Collect, TypeOK, NoBadge
  <1>18. CASE UNCHANGED bellVars
    BY <1>18 DEF bellVars, TypeOK
  <1> QED
    BY <1>1, <1>2, <1>3, <1>4, <1>5, <1>6, <1>7, <1>8, <1>9, <1>10, <1>11, <1>12, <1>13,
       <1>14, <1>15, <1>16, <1>17, <1>18, <1>19 DEF Next, MarkStep

-----------------------------------------------------------------------------
(* What is seen.                                                           *)

\* A fetch that begins anew, or goes on with nothing changed, is current.
LEMMA FetchStaysCurrent ==
  ASSUME Inv, StartFetch \/ UNCHANGED fetch, UNCHANGED historyVars
  PROVE  FetchIsCurrent'
  BY DEF Inv, FetchIsCurrent, StartFetch, NoFetch, historyVars

\* The invariant survives a step that leaves marker, marks and history alone and
\* adds no row to the badge.
LEMMA QuietStep ==
  ASSUME Inv, StartFetch \/ UNCHANGED fetch, UNCHANGED <<marker, marks, historyVars>>,
         badge'.rows = badge.rows
  PROVE  (MarkerIsLatest /\ FetchIsCurrent /\ SeenStaysSeen)'
  BY FetchStaysCurrent DEF Inv, MarkerIsLatest, SeenStaysSeen, historyVars

LEMMA NextInv == Inv /\ [Next]_bellVars => Inv'
  <1> SUFFICES ASSUME Inv, [Next]_bellVars
               PROVE  (MarkerIsLatest /\ FetchIsCurrent /\ SeenStaysSeen)'
    BY NextTypes DEF Inv
  <1> DEFINE Goal == (MarkerIsLatest /\ FetchIsCurrent /\ SeenStaysSeen)'
  <1> USE DEF serverVars, queryVars
  <1>1. CASE StampRow
    BY <1>1, QuietStep DEF StampRow
  <1>2. ASSUME NEW r \in 1..stamped, Commit(r) \/ Announce(r) PROVE Goal
    <2>1. badge'.rows = badge.rows
      BY <1>2 DEF Commit, Announce, Inv, TypeOK
    <2> QED BY <1>2, <2>1, QuietStep DEF Commit, Announce
  <1>3. CASE LoadUser
    <2>1. FetchIsCurrent'
      BY <1>3 DEF LoadUser, Inv, TypeOK, FetchIsCurrent, MarkerIsLatest, historyVars
    <2> QED BY <1>3, <2>1 DEF LoadUser, Inv, MarkerIsLatest, SeenStaysSeen, historyVars
  <1>4. CASE CountRows
    <2>1. FetchIsCurrent'
      BY <1>4 DEF CountRows, Inv, TypeOK, FetchIsCurrent, SharedAfter, historyVars
    <2> QED BY <1>4, <2>1 DEF CountRows, Inv, MarkerIsLatest, SeenStaysSeen, historyVars
  <1>5. CASE FetchAnswered
    <2>1. fetch.stage = "counted" /\ badge'.rows = fetch.rows /\ fetch'.stage = "none"
          /\ UNCHANGED <<marker, marks, historyVars>>
      BY <1>5 DEF FetchAnswered, NoFetch
    <2>2. SeenStaysSeen'
      <3> SUFFICES ASSUME ~rewound, ~unheeded, NEW r \in fetch.rows PROVE r > clearedAt
        BY <2>1 DEF SeenStaysSeen, historyVars
      <3>1. r > fetch.marker /\ clearedAt <= fetch.marker
        BY <2>1 DEF Inv, FetchIsCurrent
      <3>2. r \in Nat /\ fetch.marker \in Nat /\ clearedAt \in Nat
        BY DEF Inv, TypeOK
      <3> QED BY <3>1, <3>2
    <2> QED BY <2>1, <2>2 DEF Inv, MarkerIsLatest, FetchIsCurrent, historyVars
  <1>6. CASE FetchFails
    <2>1. StartFetch \/ fetch' = NoFetch
      BY <1>6 DEF FetchFails
    <2>2. FetchIsCurrent'
      BY <2>1 DEF FetchIsCurrent, StartFetch, NoFetch
    <2> QED BY <1>6, <2>2 DEF FetchFails, Inv, MarkerIsLatest, SeenStaysSeen, historyVars
  <1>7. CASE Age \/ BellClick \/ Close \/ SignOut \/ Unmount
    <2>1. CASE BellClick
      <3>1. \A i \in Marks : marks'[i].stage = "written" => marks'[i] = marks[i]
        BY <2>1 DEF BellClick, Inv, TypeOK
      <3>2. MarkerIsLatest'
        BY <2>1, <3>1 DEF BellClick, Inv, MarkerIsLatest, historyVars
      <3> QED BY <2>1, <3>2, FetchStaysCurrent DEF BellClick, Inv, SeenStaysSeen, historyVars
    <2> QED BY <1>7, <2>1, QuietStep DEF Age, Close, SignOut, Unmount
  <1>8. CASE Focus \/ SignIn \/ Mount
    BY <1>8, QuietStep DEF Focus, SignIn, Mount, FetchIfStale
  <1>9. ASSUME NEW i \in Marks, StampMark(i) \/ MarkFails(i) PROVE Goal
    <2>1. \A j \in Marks : marks'[j].stage = "written" => marks'[j] = marks[j]
      BY <1>9, MarkTypes DEF StampMark, MarkFails, Inv, TypeOK
    <2>2. MarkerIsLatest'
      BY <1>9, <2>1 DEF StampMark, MarkFails, Inv, MarkerIsLatest, historyVars
    <2> QED BY <1>9, <2>2, FetchStaysCurrent
            DEF StampMark, MarkFails, Inv, SeenStaysSeen, historyVars
  <1>10. ASSUME NEW i \in Marks, WriteMark(i) PROVE Goal
    <2>1. MarkerIsLatest'
      <3> SUFFICES ASSUME ~rewound'
                   PROVE  /\ clearedAt' <= marker'
                          /\ \A j \in Marks : marks'[j].stage = "written" => marks'[j].at <= marker'
        BY DEF MarkerIsLatest
      <3>1. ~rewound /\ marker' = marks[i].at /\ ~(marks[i].at < marker) /\ clearedAt' = clearedAt
            /\ marks' = [marks EXCEPT ![i].stage = "written"]
        BY <1>10 DEF WriteMark
      <3>2. marker <= marker' /\ marker \in Nat /\ marker' \in Nat /\ clearedAt \in Nat
        BY <3>1, MarkTypes DEF Inv, TypeOK
      <3>3. clearedAt <= marker
        BY <3>1 DEF Inv, MarkerIsLatest
      <3>4. ASSUME NEW j \in Marks, marks'[j].stage = "written" PROVE marks'[j].at <= marker'
        <4>1. CASE j = i
          BY <3>1, <3>2, <4>1, MarkTypes DEF Inv, TypeOK
        <4>2. CASE j # i
          <5>1. marks'[j] = marks[j]
            BY <3>1, <4>2 DEF Inv, TypeOK
          <5>2. marks[j].at <= marker /\ marks[j].at \in Nat
            BY <3>1, <3>4, <5>1, MarkTypes DEF Inv, MarkerIsLatest
          <5> QED BY <3>2, <5>1, <5>2
        <4> QED BY <4>1, <4>2
      <3> QED BY <3>1, <3>2, <3>3, <3>4
    <2>2. FetchIsCurrent' /\ SeenStaysSeen'
      BY <1>10 DEF WriteMark, Inv, FetchIsCurrent, SeenStaysSeen
    <2> QED BY <2>1, <2>2
  <1>11. ASSUME NEW i \in Marks, MarkAnswered(i) PROVE Goal
    <2>1. /\ marks[i].stage = "written" /\ badge'.rows = {}
          /\ marks' = [marks EXCEPT ![i] = [stage |-> "ended", at |-> 0]]
          /\ clearedAt' = IF marks[i].at > clearedAt THEN marks[i].at ELSE clearedAt
          /\ UNCHANGED <<marker, rewound>>
      BY <1>11 DEF MarkAnswered
    <2>2. MarkerIsLatest'
      <3>1. \A j \in Marks : marks'[j].stage = "written" => marks'[j] = marks[j]
        BY <2>1 DEF Inv, TypeOK
      <3>2. ~rewound => clearedAt' <= marker
        BY <2>1, MarkTypes DEF Inv, MarkerIsLatest
      <3> QED BY <2>1, <3>1, <3>2 DEF Inv, MarkerIsLatest
    <2>3. FetchIsCurrent'
      <3>1. CASE Active
        BY <1>11, <3>1 DEF MarkAnswered, RefetchInvalid, StartFetch, NoFetch, FetchIsCurrent
      <3>2. CASE ~Active
        <4>1. /\ fetch' = fetch
              /\ unheeded' = (unheeded \/ fetch.stage \in {"loaded", "counted"})
          BY <1>11, <3>2 DEF MarkAnswered, RefetchInvalid
        <4> QED BY <4>1 DEF Inv, FetchIsCurrent
      <3> QED BY <3>1, <3>2
    <2> QED BY <2>1, <2>2, <2>3 DEF SeenStaysSeen
  <1>12. CASE Collect
    <2>1. badge'.rows = {} /\ UNCHANGED <<marker, marks, fetch, historyVars>>
      BY <1>12 DEF Collect, NoBadge
    <2> QED BY <2>1, FetchStaysCurrent DEF Inv, MarkerIsLatest, SeenStaysSeen, historyVars
  <1>13. CASE UNCHANGED bellVars
    BY <1>13, QuietStep DEF bellVars
  <1> QED
    BY <1>1, <1>2, <1>3, <1>4, <1>5, <1>6, <1>7, <1>8, <1>9, <1>10, <1>11, <1>12, <1>13
    DEF Next, MarkStep

LEMMA InvHolds == Spec => []Inv
  BY InitInv, NextInv, PTL DEF Spec

\* Types are kept: rows are counted and announced only after they are committed,
\* and no time is later than now.
THEOREM TypeCorrect == Spec => []TypeOK
  <1>1. Inv => TypeOK
    BY DEF Inv
  <1> QED BY <1>1, InvHolds, PTL

\* A badge fetched before a mark never replaces the zero that followed the mark, but
\* for the marks written in the other order and those answered with no nav shown.
THEOREM SeenIsSeen == Spec => []SeenStaysSeen
  <1>1. Inv => SeenStaysSeen
    BY DEF Inv
  <1> QED BY <1>1, InvHolds, PTL
=============================================================================
