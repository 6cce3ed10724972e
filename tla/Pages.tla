-------------------------------- MODULE Pages --------------------------------
(***************************************************************************)
(* The pages of the browser (frontend/src): the routes and their guards,   *)
(* the sign-in, sign-up and share forms, whose requests outlive the page   *)
(* that sent them, and the query of the list of videos.                    *)
(*                                                                         *)
(* One tab.  Videos are counted in the order they are committed, and an    *)
(* answer of the server holds all there are when it is read: Videos says   *)
(* what its cache makes of that.  How a session ends is in Session, and    *)
(* how events arrive in Notices.                                           *)
(***************************************************************************)
EXTENDS Naturals

CONSTANT MaxRows  \* bound on the videos

ASSUME PagesAssumption == MaxRows \in Nat

VARIABLES
  path,      \* the page shown, or "none" while the first one is loaded
  going,     \* where the router is going, and whether beforeLoad let it
  last,      \* the page before, in the browser's history
  signedIn,  \* isAuthenticated of the auth store
  entering,  \* the entry pages whose request is under way
  share,     \* the request of the share page, and the row it makes
  rows,      \* the videos
  due,       \* history: the newest video this page was told of
  list,      \* the cached answer of useVideos
  stale,     \* it is invalidated, or older than staleTime
  fetch,     \* the request that fills it
  lost       \* history: the answer in the cache was under way when the list was
             \* invalidated

routeVars == <<path, going, last>>
formVars == <<signedIn, entering, share>>
listVars == <<list, stale, fetch, lost>>
pagesVars == <<routeVars, formVars, rows, due, listVars>>

Entries == {"/signin", "/signup"}
Paths == Entries \cup {"/", "/share", "/404"}

Nowhere == [to |-> "none", checked |-> FALSE]
NoShare == [stage |-> "none", row |-> 0]
NoList == [known |-> FALSE, n |-> 0]
NoFetch == [stage |-> "none", n |-> 0, overtaken |-> FALSE]

TypeOK ==
  /\ {path, last} \subseteq Paths \cup {"none"}
  /\ going \in [to : Paths \cup {"none"}, checked : BOOLEAN]
  /\ entering \subseteq Entries
  /\ rows \in 0..MaxRows
  /\ due \in 0..rows
  /\ share \in [stage : {"none", "sent", "stored"}, row : 0..rows]
  /\ list \in [known : BOOLEAN, n : 0..rows]
  /\ fetch \in [stage : {"none", "sent", "read"}, n : 0..rows, overtaken : BOOLEAN]
  /\ {signedIn, stale, lost} \subseteq BOOLEAN

\* A page is loaded, with the session that local storage has.
Init ==
  /\ path = "none" /\ last = "none"
  /\ going \in [to : Paths, checked : {FALSE}]
  /\ signedIn \in BOOLEAN
  /\ entering = {} /\ share = NoShare
  /\ rows = 0 /\ due = 0
  /\ list = NoList /\ stale = FALSE /\ fetch = NoFetch /\ lost = FALSE

-----------------------------------------------------------------------------
(* The list of videos, under videoKeys.                                    *)

VideosMounted == path = "/"

StartFetch == fetch' = [NoFetch EXCEPT !.stage = "sent"]

\* useVideos is mounted: a fetch under way is joined.
MountVideos ==
  IF (stale \/ ~list.known) /\ fetch.stage = "none" THEN StartFetch ELSE UNCHANGED fetch

\* Mutant: a fetch under way is joined instead of dropped.
Invalidate_Joins(n) ==
  /\ due' = IF n > due THEN n ELSE due
  /\ stale' = TRUE
  /\ IF VideosMounted /\ fetch.stage = "none" THEN StartFetch ELSE UNCHANGED fetch

\* invalidateQueries(videoKeys.all), because of video n.  Where the list is shown
\* it is fetched anew; a fetch under way is dropped for that, but for the very
\* first.  Elsewhere it goes on, and its answer will pass for a valid one.
Invalidate(n) ==
  /\ due' = IF n > due THEN n ELSE due
  /\ stale' = TRUE
  /\ IF VideosMounted /\ (list.known \/ fetch.stage = "none") THEN StartFetch
     ELSE fetch' = [fetch EXCEPT !.overtaken = fetch.stage # "none"]

ReadList ==
  /\ fetch.stage = "sent"
  /\ fetch' = [fetch EXCEPT !.stage = "read", !.n = rows]
  /\ UNCHANGED <<routeVars, formVars, rows, due, list, stale, lost>>

ListAnswered ==
  /\ fetch.stage = "read"
  /\ list' = [known |-> TRUE, n |-> fetch.n]
  /\ stale' = FALSE
  /\ lost' = fetch.overtaken
  /\ fetch' = NoFetch
  /\ UNCHANGED <<routeVars, formVars, rows, due>>

\* The request and its one retry.
ListFails ==
  /\ fetch.stage # "none"
  /\ fetch' = NoFetch
  /\ stale' = TRUE
  /\ UNCHANGED <<routeVars, formVars, rows, due, list, lost>>

\* The client's staleTime, and, where the list is not shown, its gcTime.
Age ==
  /\ list.known
  /\ \/ stale' = TRUE /\ UNCHANGED list
     \/ ~VideosMounted /\ fetch.stage = "none" /\ list' = NoList /\ UNCHANGED stale
  /\ UNCHANGED <<routeVars, formVars, rows, due, fetch, lost>>

-----------------------------------------------------------------------------
(* The router.                                                             *)

\* The layouts a page is nested in.
Layouts(p) ==
  CASE p = "/" -> {"_private"}
    [] p = "/share" -> {"_private", "_auth"}
    [] p \in Entries -> {"_public"}
    [] OTHER -> {}

\* navigate: what was under way is superseded.
GoTo(p) == going' = [to |-> p, checked |-> FALSE]

\* beforeLoad of _auth: requireAuth.
RequireAuth(p) == "_auth" \in Layouts(p) /\ ~signedIn

\* beforeLoad of _public: redirectIfAuthenticated.
RedirectIfAuthenticated(p) == "_public" \in Layouts(p) /\ signedIn

BeforeLoad ==
  /\ going # Nowhere /\ ~going.checked
  /\ CASE RequireAuth(going.to) -> GoTo("/signin")
       [] RedirectIfAuthenticated(going.to) -> GoTo("/")
       [] OTHER -> going' = [going EXCEPT !.checked = TRUE]
  /\ UNCHANGED <<path, last, formVars, rows, due, listVars>>

\* Mutant: AuthLayout leaves it to the guard.
AuthLayout_GuardOnly(p, s) == FALSE

\* AuthLayout navigates to "/" when it is rendered for nobody.
AuthLayout(p, s) == "_auth" \in Layouts(p) /\ ~s

\* The page that AuthLayout navigates away from is replaced in the history.
Arrive ==
  /\ going.checked
  /\ path' = going.to
  /\ last' = IF AuthLayout(path, signedIn) THEN last ELSE path
  /\ IF AuthLayout(going.to, signedIn) THEN GoTo("/") ELSE going' = Nowhere
  /\ IF going.to = "/" /\ ~VideosMounted THEN MountVideos ELSE UNCHANGED fetch
  /\ UNCHANGED <<formVars, rows, due, list, stale, lost>>

\* The links of each component.
NavLinks == {"/"} \cup (IF signedIn THEN {"/share"} ELSE {"/signin"})
SidebarItems == {"/", "/share"}
SignInFormLinks == {"/signup"}
SignUpFormLinks == {"/signin"}
NotFoundLinks == {"/"}

Links ==
  CASE "_private" \in Layouts(path) -> NavLinks \cup SidebarItems
    [] path = "/signin" -> SignInFormLinks
    [] path = "/signup" -> SignUpFormLinks
    [] path = "/404" -> NotFoundLinks
    [] OTHER -> {}

FollowLink ==
  /\ \E p \in Links \cup ({last} \ {"none"}) : GoTo(p)
  /\ UNCHANGED <<path, last, formVars, rows, due, listVars>>

\* The tab is reloaded, or an address is typed in: only the session stays.
Load ==
  /\ path # "none"
  /\ path' = "none" /\ last' = "none"
  /\ \E p \in Paths : GoTo(p)
  /\ entering' = {} /\ share' = NoShare
  /\ due' = 0
  /\ list' = NoList /\ stale' = FALSE /\ fetch' = NoFetch /\ lost' = FALSE
  /\ UNCHANGED <<signedIn, rows>>

-----------------------------------------------------------------------------
(* The entry forms.                                                        *)

\* Values that pass the form's schema are sent; the button is disabled meanwhile.
Submit(p) ==
  /\ path = p
  /\ p \notin entering
  /\ entering' = entering \cup {p}
  /\ UNCHANGED <<routeVars, signedIn, share, rows, due, listVars>>

SubmitSignIn == Submit("/signin")
SubmitSignUp == Submit("/signup")
SubmitEntry == SubmitSignIn \/ SubmitSignUp

\* onSubmit goes on, wherever the user is by now: the session is set, and then
\* the router goes home.
Enter(p) ==
  /\ p \in entering
  /\ entering' = entering \ {p}
  /\ signedIn' = TRUE
  /\ GoTo("/")
  /\ UNCHANGED <<path, last, share, rows, due, listVars>>

SignedIn == Enter("/signin")
SignedUp == Enter("/signup")

\* 401, 409 or another error: a toast.
Refuse(p) ==
  /\ p \in entering
  /\ entering' = entering \ {p}
  /\ UNCHANGED <<routeVars, signedIn, share, rows, due, listVars>>

SignInFails == Refuse("/signin")
SignUpFails == Refuse("/signup")

\* The button of the nav, or tokens that cannot be refreshed.
SignOut ==
  /\ signedIn
  /\ signedIn' = FALSE
  /\ IF AuthLayout(path, FALSE) THEN GoTo("/") ELSE UNCHANGED going
  /\ UNCHANGED <<path, last, entering, share, rows, due, listVars>>

-----------------------------------------------------------------------------
(* The share form, and what the server tells of.                           *)

SubmitShare ==
  /\ path = "/share" /\ signedIn
  /\ share = NoShare
  /\ share' = [NoShare EXCEPT !.stage = "sent"]
  /\ UNCHANGED <<routeVars, signedIn, entering, rows, due, listVars>>

ShareStored ==
  /\ share.stage = "sent"
  /\ rows < MaxRows
  /\ rows' = rows + 1
  /\ share' = [stage |-> "stored", row |-> rows + 1]
  /\ UNCHANGED <<routeVars, signedIn, entering, due, listVars>>

\* onSuccess of useShareVideo, then onSubmit of the page, mounted or not.
ShareAnswered ==
  /\ share.stage = "stored"
  /\ share' = NoShare
  /\ Invalidate(share.row)
  /\ GoTo("/")
  /\ UNCHANGED <<path, last, signedIn, entering, rows, list, lost>>

\* 400, 409 or another error, before or after the video is stored: a toast.
ShareFails ==
  /\ share # NoShare
  /\ share' = NoShare
  /\ UNCHANGED <<routeVars, signedIn, entering, rows, due, listVars>>

OthersShare ==
  /\ rows < MaxRows
  /\ rows' = rows + 1
  /\ UNCHANGED <<routeVars, formVars, due, listVars>>

\* handleEvent of a video that somebody else has shared.
Told(n) ==
  /\ n > due
  /\ Invalidate(n)
  /\ UNCHANGED <<routeVars, formVars, rows, list, lost>>

-----------------------------------------------------------------------------
Next ==
  \/ ReadList \/ ListAnswered \/ ListFails \/ Age
  \/ BeforeLoad \/ Arrive \/ FollowLink \/ Load
  \/ SubmitEntry \/ SignedIn \/ SignedUp \/ SignInFails \/ SignUpFails \/ SignOut
  \/ SubmitShare \/ ShareStored \/ ShareAnswered \/ ShareFails
  \/ OthersShare \/ \E n \in 1..rows : Told(n)

Spec == Init /\ [][Next]_pagesVars

\* The router gets on.
FairSpec == Spec /\ WF_pagesVars(BeforeLoad) /\ WF_pagesVars(Arrive)

-----------------------------------------------------------------------------
(* Properties.                                                             *)

\* A list that is not stale holds every video the page was told of, by its own
\* share or by an event, whatever was being fetched and wherever the user was,
\* unless the invalidation met a fetch that it does not drop.
ListIsRefreshed == list.known /\ ~stale /\ ~lost => due <= list.n

\* Nobody stays on a page that is not for them: a user who signs in is taken off
\* the entry pages, and one whose session ends off the share page, unless they go
\* on following links and sending forms before the router is there (FairSpec).
NobodyIsStranded ==
  <>[][~(FollowLink \/ SubmitEntry)]_pagesVars =>
    /\ signedIn /\ path \in Entries ~> ~signedIn \/ path \notin Entries
    /\ ~signedIn /\ path = "/share" ~> signedIn \/ path # "/share"
=============================================================================
