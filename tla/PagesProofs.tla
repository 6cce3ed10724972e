----------------------------- MODULE PagesProofs -----------------------------
(***************************************************************************)
(* The list of videos is refreshed, for any number of videos and however   *)
(* users move between pages while requests are under way.                  *)
(***************************************************************************)
EXTENDS Pages, TLAPS

\* An answer on its way holds what the page was told of, unless the list was
\* invalidated meanwhile and the fetch went on.
AnswerIsCurrent == fetch.stage = "read" /\ ~fetch.overtaken => due <= fetch.n

Inv == TypeOK /\ AnswerIsCurrent /\ ListIsRefreshed

Fetches == [stage : {"none", "sent", "read"}, n : 0..rows, overtaken : BOOLEAN]
Lists == [known : BOOLEAN, n : 0..rows]
Shares == [stage : {"none", "sent", "stored"}, row : 0..rows]
Goings == [to : Paths \cup {"none"}, checked : BOOLEAN]

-----------------------------------------------------------------------------
\* What no request has is of its type.
LEMMA Nothing ==
  ASSUME rows \in Nat
  PROVE  /\ NoFetch \in Fetches /\ NoList \in Lists /\ NoShare \in Shares
         /\ [NoFetch EXCEPT !.stage = "sent"] \in Fetches
         /\ [NoShare EXCEPT !.stage = "sent"] \in Shares
         /\ Nowhere \in Goings
         /\ ~NoList.known /\ NoFetch.stage = "none"
         /\ [NoFetch EXCEPT !.stage = "sent"].stage = "sent"
  <1>1. 0 \in 0..rows
    OBVIOUS
  <1>2. NoFetch \in Fetches /\ NoList \in Lists /\ NoShare \in Shares /\ Nowhere \in Goings
    BY <1>1 DEF NoFetch, NoList, NoShare, Fetches, Lists, Shares, Nowhere, Goings
  <1>3. [NoFetch EXCEPT !.stage = "sent"] \in Fetches
    BY <1>2 DEF Fetches
  <1>4. [NoShare EXCEPT !.stage = "sent"] \in Shares
    BY <1>2 DEF Shares
  <1>5. [NoFetch EXCEPT !.stage = "sent"].stage = "sent"
    BY <1>2 DEF Fetches
  <1> QED BY <1>2, <1>3, <1>4, <1>5 DEF NoList, NoFetch

LEMMA TypesOf ==
  TypeOK <=>
    /\ {path, last} \subseteq Paths \cup {"none"} /\ going \in Goings
    /\ entering \subseteq Entries
    /\ rows \in 0..MaxRows /\ due \in 0..rows
    /\ share \in Shares /\ list \in Lists /\ fetch \in Fetches
    /\ {signedIn, stale, lost} \subseteq BOOLEAN
  BY DEF TypeOK, Goings, Shares, Lists, Fetches

LEMMA TypesAfter ==
  ASSUME {path', last'} \subseteq Paths \cup {"none"}, going' \in Goings',
         entering' \subseteq Entries, rows' \in 0..MaxRows, due' \in 0..rows',
         share' \in Shares', list' \in Lists', fetch' \in Fetches',
         {signedIn', stale', lost'} \subseteq BOOLEAN
  PROVE  TypeOK'
  BY DEF TypeOK, Goings, Shares, Lists, Fetches

LEMMA InitInv == Init => Inv
  <1> SUFFICES ASSUME Init PROVE Inv
    OBVIOUS
  <1>1. rows = 0 /\ due = 0 /\ rows \in 0..MaxRows /\ due \in 0..rows
    BY PagesAssumption DEF Init
  <1>2. going \in Goings
    BY DEF Init, Goings
  <1>3. list \in Lists /\ fetch \in Fetches /\ share \in Shares
    BY <1>1, Nothing DEF Init
  <1>4. {signedIn, stale, lost} \subseteq BOOLEAN /\ {path, last} \subseteq Paths \cup {"none"}
        /\ entering \subseteq Entries
    BY DEF Init
  <1>5. TypeOK
    BY <1>1, <1>2, <1>3, <1>4, TypesOf
  <1>6. ~list.known /\ fetch.stage = "none"
    BY <1>1, Nothing DEF Init
  <1> QED BY <1>5, <1>6 DEF Inv, AnswerIsCurrent, ListIsRefreshed

-----------------------------------------------------------------------------
\* Steps of the router and of the forms: the list is left alone.
LEMMA ElsewhereStep ==
  ASSUME Inv, UNCHANGED <<rows, due, listVars>>,
         {path', last'} \subseteq Paths \cup {"none"}, going' \in Goings,
         entering' \subseteq Entries, share' \in Shares, signedIn' \in BOOLEAN
  PROVE  Inv'
  <1>1. Fetches' = Fetches /\ Lists' = Lists /\ Shares' = Shares /\ Goings' = Goings
    BY DEF Fetches, Lists, Shares, Goings
  <1>2. TypeOK'
    <2>1. rows' \in 0..MaxRows /\ due' \in 0..rows' /\ list' \in Lists' /\ fetch' \in Fetches'
          /\ {signedIn', stale', lost'} \subseteq BOOLEAN
      BY <1>1, TypesOf DEF Inv, listVars
    <2> QED BY <1>1, <2>1, TypesAfter
  <1> QED BY <1>2 DEF Inv, AnswerIsCurrent, ListIsRefreshed, listVars

\* Steps of the list: users stay where they are, or are sent somewhere.
LEMMA ListStep ==
  ASSUME Inv, UNCHANGED <<path, last, signedIn, entering, rows>>,
         going' \in Goings, share' \in Shares, due' \in 0..rows,
         list' \in Lists, fetch' \in Fetches, {stale', lost'} \subseteq BOOLEAN
  PROVE  TypeOK'
  <1>1. Fetches' = Fetches /\ Lists' = Lists /\ Shares' = Shares /\ Goings' = Goings
    BY DEF Fetches, Lists, Shares, Goings
  <1>2. {path, last} \subseteq Paths \cup {"none"} /\ entering \subseteq Entries
        /\ rows \in 0..MaxRows /\ signedIn \in BOOLEAN
    BY TypesOf DEF Inv
  <1> QED BY <1>1, <1>2, TypesAfter

\* Going somewhere is of its type.
LEMMA GoToType ==
  ASSUME NEW p \in Paths, GoTo(p)
  PROVE  going' \in Goings
  BY DEF GoTo, Goings

\* After an invalidation a fetch under way is marked or begins anew.
LEMMA Invalidated ==
  ASSUME Inv, NEW n \in 0..rows, Invalidate(n)
  PROVE  /\ due' \in 0..rows /\ stale' = TRUE /\ fetch' \in Fetches
         /\ fetch'.stage = "read" => fetch'.overtaken
  <1>1. due \in 0..rows /\ rows \in Nat /\ fetch \in Fetches
    BY PagesAssumption, TypesOf DEF Inv
  <1>2. due' \in 0..rows /\ stale' = TRUE
    BY <1>1 DEF Invalidate
  <1>3. CASE VideosMounted /\ (list.known \/ fetch.stage = "none")
    BY <1>1, <1>2, <1>3, Nothing DEF Invalidate, StartFetch
  <1>4. CASE ~(VideosMounted /\ (list.known \/ fetch.stage = "none"))
    <2>1. fetch' = [fetch EXCEPT !.overtaken = fetch.stage # "none"]
      BY <1>4 DEF Invalidate
    <2>2. fetch' = [stage |-> fetch.stage, n |-> fetch.n, overtaken |-> fetch.stage # "none"]
      BY <1>1, <2>1 DEF Fetches
    <2>3. fetch.stage \in {"none", "sent", "read"} /\ fetch.n \in 0..rows
      BY <1>1 DEF Fetches
    <2>4. (fetch.stage # "none") \in BOOLEAN
      OBVIOUS
    <2>5. fetch' \in Fetches
      BY <2>2, <2>3, <2>4 DEF Fetches
    <2>6. fetch'.stage = "read" => fetch'.overtaken
      BY <2>2
    <2> QED BY <1>2, <2>5, <2>6
  <1> QED BY <1>3, <1>4

\* The rows grow: what was of its type stays of it.
LEMMA MoreRows ==
  ASSUME Inv, rows < MaxRows, rows' = rows + 1, share' \in [stage : {"none", "sent", "stored"},
         row : 0..rows'], UNCHANGED <<routeVars, signedIn, entering, due, listVars>>
  PROVE  Inv'
  <1>1. rows \in Nat /\ rows' \in 0..MaxRows /\ 0..rows \subseteq 0..rows'
    BY PagesAssumption, TypesOf DEF Inv
  <1>2. Fetches \subseteq Fetches' /\ Lists \subseteq Lists' /\ Goings' = Goings
    BY <1>1 DEF Fetches, Lists, Goings
  <1>3. TypeOK'
    <2>1. /\ {path', last'} \subseteq Paths \cup {"none"} /\ entering' \subseteq Entries
          /\ {signedIn', stale', lost'} \subseteq BOOLEAN
          /\ going' \in Goings' /\ list' \in Lists' /\ fetch' \in Fetches' /\ due' \in 0..rows'
      BY <1>1, <1>2, TypesOf DEF Inv, routeVars, listVars
    <2>2. share' \in Shares'
      BY DEF Shares
    <2> QED BY <1>1, <2>1, <2>2, TypesAfter
  <1> QED BY <1>3 DEF Inv, AnswerIsCurrent, ListIsRefreshed, listVars

-----------------------------------------------------------------------------
LEMMA NextInv == Inv /\ [Next]_pagesVars => Inv'
  <1> SUFFICES ASSUME Inv, [Next]_pagesVars PROVE Inv'
    OBVIOUS
  <1>0. /\ {path, last} \subseteq Paths \cup {"none"} /\ going \in Goings
        /\ entering \subseteq Entries /\ rows \in Nat /\ due \in 0..rows
        /\ share \in Shares /\ list \in Lists /\ fetch \in Fetches
        /\ {signedIn, stale, lost} \subseteq BOOLEAN
    BY PagesAssumption, TypesOf DEF Inv
  <1> USE DEF routeVars, formVars
  <1>1. CASE ReadList
    <2>1. /\ fetch' = [fetch EXCEPT !.stage = "read", !.n = rows]
          /\ UNCHANGED <<path, last, going, signedIn, entering, share, rows, due, list, stale, lost>>
      BY <1>1 DEF ReadList
    <2>2. fetch' \in Fetches /\ fetch'.n = rows
      <3>1. rows \in 0..rows
        BY <1>0
      <3>2. fetch \in [stage : {"none", "sent", "read"}, n : 0..rows, overtaken : BOOLEAN]
        BY <1>0 DEF Fetches
      <3> QED BY <2>1, <3>1, <3>2 DEF Fetches
    <2>3. TypeOK'
      BY <1>0, <2>1, <2>2, ListStep
    <2> QED BY <1>0, <2>1, <2>2, <2>3 DEF Inv, AnswerIsCurrent, ListIsRefreshed
  <1>2. CASE ListAnswered
    <2>1. /\ fetch.stage = "read" /\ list' = [known |-> TRUE, n |-> fetch.n]
          /\ stale' = FALSE /\ lost' = fetch.overtaken /\ fetch' = NoFetch
          /\ UNCHANGED <<path, last, going, signedIn, entering, share, rows, due>>
      BY <1>2 DEF ListAnswered
    <2>2. fetch.n \in 0..rows /\ fetch.overtaken \in BOOLEAN
      BY <1>0 DEF Fetches
    <2>3. list' \in Lists
      BY <2>1, <2>2 DEF Lists
    <2>4. {stale', lost'} \subseteq BOOLEAN
      BY <2>1, <2>2
    <2>5. TypeOK'
      BY <1>0, <2>1, <2>3, <2>4, Nothing, ListStep
    <2>6. ListIsRefreshed'
      BY <2>1 DEF Inv, AnswerIsCurrent, ListIsRefreshed
    <2> QED BY <1>0, <2>1, <2>5, <2>6, Nothing DEF Inv, AnswerIsCurrent
  <1>3. CASE ListFails
    <2>1. /\ fetch' = NoFetch /\ stale' = TRUE
          /\ UNCHANGED <<path, last, going, signedIn, entering, share, rows, due, list, lost>>
      BY <1>3 DEF ListFails
    <2>2. {stale', lost'} \subseteq BOOLEAN
      BY <1>0, <2>1
    <2>3. TypeOK'
      BY <1>0, <2>1, <2>2, Nothing, ListStep
    <2> QED BY <1>0, <2>1, <2>3, Nothing DEF Inv, AnswerIsCurrent, ListIsRefreshed
  <1>4. CASE Age
    <2>1. /\ \/ stale' = TRUE /\ UNCHANGED list
             \/ list' = NoList /\ UNCHANGED stale
          /\ UNCHANGED <<path, last, going, signedIn, entering, share, rows, due, fetch, lost>>
      BY <1>4 DEF Age
    <2>2. list' \in Lists /\ {stale', lost'} \subseteq BOOLEAN
      BY <1>0, <2>1, Nothing
    <2>3. TypeOK'
      BY <1>0, <2>1, <2>2, ListStep
    <2> QED BY <1>0, <2>1, <2>3, Nothing DEF Inv, AnswerIsCurrent, ListIsRefreshed
  <1>5. CASE BeforeLoad
    <2>1. going' \in Goings
      <3>1. "/signin" \in Paths /\ "/" \in Paths
        BY DEF Paths, Entries
      <3>2. [going EXCEPT !.checked = TRUE] \in Goings
        BY <1>0 DEF Goings
      <3> QED BY <1>5, <3>1, <3>2, GoToType DEF BeforeLoad
    <2> QED BY <1>0, <1>5, <2>1, ElsewhereStep DEF BeforeLoad
  <1>6. CASE Arrive
    <2>1. /\ path' = going.to /\ going.to \in Paths \cup {"none"}
          /\ last' \in {path, last}
          /\ UNCHANGED <<signedIn, entering, share, rows, due, list, stale, lost>>
      BY <1>0, <1>6 DEF Arrive, Goings
    <2>2. going' \in Goings
      <3>1. "/" \in Paths
        BY DEF Paths
      <3> QED BY <1>0, <1>6, <3>1, GoToType, Nothing DEF Arrive
    <2>3. fetch' = fetch \/ fetch' = [NoFetch EXCEPT !.stage = "sent"]
      BY <1>6 DEF Arrive, MountVideos, StartFetch
    <2>4. fetch' \in Fetches
      BY <1>0, <2>3, Nothing
    <2>5. TypeOK'
      <3>1. Fetches' = Fetches /\ Lists' = Lists /\ Shares' = Shares /\ Goings' = Goings
        BY <2>1 DEF Fetches, Lists, Shares, Goings
      <3>2. rows' \in 0..MaxRows
        BY <2>1, TypesOf DEF Inv
      <3> QED BY <1>0, <2>1, <2>2, <2>4, <3>1, <3>2, TypesAfter
    <2> QED BY <1>0, <2>1, <2>3, <2>5, Nothing DEF Inv, AnswerIsCurrent, ListIsRefreshed
  <1>7. CASE FollowLink
    <2>1. Links \subseteq Paths
      BY DEF Links, NavLinks, SidebarItems, SignInFormLinks, SignUpFormLinks, NotFoundLinks,
             Paths, Entries
    <2>2. going' \in Goings
      BY <1>0, <1>7, <2>1, GoToType DEF FollowLink
    <2> QED BY <1>0, <1>7, <2>2, ElsewhereStep DEF FollowLink
  <1>8. CASE Load
    <2>1. /\ path' = "none" /\ last' = "none" /\ entering' = {} /\ share' = NoShare
          /\ due' = 0 /\ list' = NoList /\ stale' = FALSE /\ fetch' = NoFetch /\ lost' = FALSE
          /\ UNCHANGED <<signedIn, rows>>
      BY <1>8 DEF Load
    <2>2. going' \in Goings
      BY <1>8, GoToType DEF Load
    <2>3. TypeOK'
      <3>1. Fetches' = Fetches /\ Lists' = Lists /\ Shares' = Shares /\ Goings' = Goings
        BY <2>1 DEF Fetches, Lists, Shares, Goings
      <3>2. rows' \in 0..MaxRows
        BY <2>1, TypesOf DEF Inv
      <3>3. NoFetch \in Fetches /\ NoList \in Lists /\ NoShare \in Shares
        BY <1>0, Nothing
      <3>4. {path', last'} \subseteq Paths \cup {"none"} /\ entering' \subseteq Entries
        BY <2>1
      <3>5. due' \in 0..rows'
        BY <1>0, <2>1
      <3>6. {signedIn', stale', lost'} \subseteq BOOLEAN
        BY <1>0, <2>1
      <3>7. share' \in Shares' /\ list' \in Lists' /\ fetch' \in Fetches' /\ going' \in Goings'
        BY <2>1, <2>2, <3>1, <3>3
      <3> QED BY <3>2, <3>4, <3>5, <3>6, <3>7, TypesAfter
    <2> QED BY <1>0, <2>1, <2>3, Nothing DEF Inv, AnswerIsCurrent, ListIsRefreshed
  <1>9. CASE SubmitEntry
    BY <1>0, <1>9, ElsewhereStep DEF SubmitEntry, SubmitSignIn, SubmitSignUp, Submit, Entries
  <1>10. CASE SignedIn \/ SignedUp
    <2>1. going' \in Goings
      <3>1. "/" \in Paths
        BY DEF Paths
      <3> QED BY <1>10, <3>1, GoToType DEF SignedIn, SignedUp, Enter
    <2> QED BY <1>0, <1>10, <2>1, ElsewhereStep DEF SignedIn, SignedUp, Enter
  <1>11. CASE SignInFails \/ SignUpFails
    BY <1>0, <1>11, ElsewhereStep DEF SignInFails, SignUpFails, Refuse
  <1>12. CASE SignOut
    <2>1. going' \in Goings
      <3>1. "/" \in Paths
        BY DEF Paths
      <3> QED BY <1>0, <1>12, <3>1, GoToType DEF SignOut
    <2> QED BY <1>0, <1>12, <2>1, ElsewhereStep DEF SignOut
  <1>13. CASE SubmitShare
    BY <1>0, <1>13, Nothing, ElsewhereStep DEF SubmitShare
  <1>14. CASE ShareStored
    <2>1. share' \in [stage : {"none", "sent", "stored"}, row : 0..rows']
      BY <1>0, <1>14 DEF ShareStored
    <2> QED BY <1>14, <2>1, MoreRows DEF ShareStored
  <1>15. CASE ShareAnswered
    <2>1. /\ share.row \in 0..rows /\ Invalidate(share.row) /\ share' = NoShare
          /\ UNCHANGED <<path, last, signedIn, entering, rows, list, lost>>
      BY <1>0, <1>15 DEF ShareAnswered, Shares
    <2>2. /\ due' \in 0..rows /\ stale' = TRUE /\ fetch' \in Fetches
          /\ fetch'.stage = "read" => fetch'.overtaken
      BY <2>1, Invalidated
    <2>3. going' \in Goings
      <3>1. "/" \in Paths
        BY DEF Paths
      <3> QED BY <1>15, <3>1, GoToType DEF ShareAnswered
    <2>4. {stale', lost'} \subseteq BOOLEAN
      BY <1>0, <2>1, <2>2
    <2>5. TypeOK'
      BY <1>0, <2>1, <2>2, <2>3, <2>4, Nothing, ListStep
    <2> QED BY <2>2, <2>5 DEF Inv, AnswerIsCurrent, ListIsRefreshed
  <1>16. CASE ShareFails
    BY <1>0, <1>16, Nothing, ElsewhereStep DEF ShareFails
  <1>17. CASE OthersShare
    <2>1. share' \in [stage : {"none", "sent", "stored"}, row : 0..rows']
      BY <1>0, <1>17 DEF OthersShare, Shares
    <2> QED BY <1>17, <2>1, MoreRows DEF OthersShare
  <1>18. ASSUME NEW n \in 1..rows, Told(n) PROVE Inv'
    <2>1. /\ due' \in 0..rows /\ stale' = TRUE /\ fetch' \in Fetches
          /\ fetch'.stage = "read" => fetch'.overtaken
      <3>1. n \in 0..rows
        BY <1>0
      <3> QED BY <1>18, <3>1, Invalidated DEF Told
    <2>2. {stale', lost'} \subseteq BOOLEAN
      BY <1>0, <1>18, <2>1 DEF Told
    <2>3. TypeOK'
      BY <1>0, <1>18, <2>1, <2>2, ListStep DEF Told
    <2> QED BY <2>1, <2>3 DEF Inv, AnswerIsCurrent, ListIsRefreshed
  <1>19. CASE UNCHANGED pagesVars
    BY <1>0, <1>19, ElsewhereStep DEF pagesVars
  <1> QED
    BY <1>1, <1>2, <1>3, <1>4, <1>5, <1>6, <1>7, <1>8, <1>9, <1>10, <1>11, <1>12, <1>13,
       <1>14, <1>15, <1>16, <1>17, <1>18, <1>19 DEF Next

LEMMA InvHolds == Spec => []Inv
  BY InitInv, NextInv, PTL DEF Spec

\* Types are kept: what the page is told of, and what it shows, exists.
THEOREM TypeCorrect == Spec => []TypeOK
  <1>1. Inv => TypeOK
    BY DEF Inv
  <1> QED BY <1>1, InvHolds, PTL

\* A list that passes for fresh holds every video the page was told of.
THEOREM Refreshed == Spec => []ListIsRefreshed
  <1>1. Inv => ListIsRefreshed
    BY DEF Inv
  <1> QED BY <1>1, InvHolds, PTL
=============================================================================
