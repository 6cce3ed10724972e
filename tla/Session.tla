------------------------------- MODULE Session -------------------------------
(***************************************************************************)
(* Sessions: the token pairs that backend/internal/modules/auth issues,    *)
(* and the browser's copies of them (frontend/src/modules/auth/stores,     *)
(* auth-storage.utils.ts) under the refreshing HTTP client                 *)
(* (frontend/src/shared/constants/http-client.ts).                         *)
(*                                                                         *)
(* A browser has several tabs.  Each has its own store, read from local    *)
(* storage when the page is loaded and never again, and its own            *)
(* refreshPromise; local storage is shared.  A pair of tokens is its       *)
(* number in issued; a session is a user and the pair it holds.  Refresh   *)
(* tokens are not revoked: every unexpired one can be exchanged.           *)
(***************************************************************************)
EXTENDS Integers, Sequences, FiniteSets

CONSTANTS
  Users, NoUser,
  Tabs,
  Requests, TabOf,  \* authenticated requests, and the tab each is sent from
  MaxPairs          \* bound on the token pairs issued

ASSUME SessionAssumption ==
  /\ NoUser \notin Users
  /\ TabOf \in [Requests -> Tabs]
  /\ MaxPairs \in Nat

VARIABLES
  accounts,     \* the users table
  issued,       \* issued[n] is the user of token pair n
  deadAccess,   \* the access tokens of the pairs up to this one have expired
  deadRefresh,  \* the refresh tokens of the pairs up to this one have expired
  stored,       \* the session in local storage
  session,      \* session[t] in the auth store of tab t
  refreshing,   \* refreshing[t]: the pair being exchanged by refreshPromise, or 0
  stage,        \* stage[r]
  token,        \* token[r]: the pair whose access token r carries
  asked,        \* history: asked[r], the pair r carried first
  sender,       \* history: sender[r] was signed in when r was sent
  crossed,      \* history: a user has signed in, in a tab where the refresh of an
                \* earlier session was under way
  excused       \* history: requests that were lost, or under way when the session
                \* of their tab ended

serverVars == <<accounts, issued, deadAccess, deadRefresh>>
browserVars == <<stored, session, refreshing>>
requestVars == <<stage, token, asked, sender>>
sessionVars == <<serverVars, browserVars, requestVars, crossed, excused>>

NoSession == [user |-> NoUser, pair |-> 0]
SignedIn(t) == session[t] # NoSession
RequestsOf(t) == {r \in Requests : TabOf[r] = t}
UnderWay(t) == {r \in RequestsOf(t) : stage[r] \in {"sent", "waiting", "resent"}}

Init ==
  /\ accounts = {}
  /\ issued = <<>>
  /\ deadAccess = 0
  /\ deadRefresh = 0
  /\ stored = NoSession
  /\ session = [t \in Tabs |-> NoSession]
  /\ refreshing = [t \in Tabs |-> 0]
  /\ stage = [r \in Requests |-> "new"]
  /\ token = [r \in Requests |-> 0]
  /\ asked = [r \in Requests |-> 0]
  /\ sender = [r \in Requests |-> NoUser]
  /\ crossed = FALSE
  /\ excused = {}

-----------------------------------------------------------------------------
(* The server.                                                             *)

\* TokenIssuer.Issue: the next pair, for user u.
Issue(u) ==
  /\ Len(issued) < MaxPairs
  /\ issued' = Append(issued, u)

NextPair == Len(issued) + 1

\* VerifyAccess and VerifyRefresh.
AccessValid(n) == n \in deadAccess + 1..Len(issued)
RefreshValid(n) == n \in deadRefresh + 1..Len(issued)

\* Tokens expire in the order they were issued.
ExpireAccess ==
  /\ deadAccess < Len(issued)
  /\ deadAccess' = deadAccess + 1
  /\ UNCHANGED <<accounts, issued, deadRefresh, browserVars, requestVars, crossed, excused>>

ExpireRefresh ==
  /\ deadRefresh < Len(issued)
  /\ deadRefresh' = deadRefresh + 1
  /\ UNCHANGED <<accounts, issued, deadAccess, browserVars, requestVars, crossed, excused>>

-----------------------------------------------------------------------------
(* The auth store: each operation writes the store and local storage.      *)

\* signIn
Enter(t, s) ==
  /\ session' = [session EXCEPT ![t] = s]
  /\ stored' = s

\* signOut
Exit(t) ==
  /\ session' = [session EXCEPT ![t] = NoSession]
  /\ stored' = NoSession

\* Mutant: updateTokens takes the session from local storage.
UpdateTokens_FromStorage(t, n) ==
  IF stored # NoSession THEN Enter(t, [stored EXCEPT !.pair = n])
  ELSE UNCHANGED <<session, stored>>

\* Mutant: updateTokens writes local storage before it looks for a session.
UpdateTokens_NoGuard(t, n) ==
  /\ stored' = [session[t] EXCEPT !.pair = n]
  /\ session' = IF SignedIn(t) THEN [session EXCEPT ![t].pair = n] ELSE session

\* updateTokens: the new pair goes into the session there is, if there is one.
UpdateTokens(t, n) ==
  IF SignedIn(t) THEN Enter(t, [session[t] EXCEPT !.pair = n])
  ELSE UNCHANGED <<session, stored>>

-----------------------------------------------------------------------------
(* The pages.  The sign-in and sign-up pages redirect a user who is signed *)
(* in.                                                                     *)

SignedInAs(t, u) ==
  /\ ~SignedIn(t)
  /\ Issue(u)
  /\ Enter(t, [user |-> u, pair |-> NextPair])
  /\ crossed' = (crossed \/ refreshing[t] # 0)
  /\ UNCHANGED <<deadAccess, deadRefresh, refreshing, requestVars, excused>>

\* Service.SignUp looks the email up and inserts; of two that race, the second
\* fails on the unique index.  A refusal of either kind changes no session.
SignUp(t, u) ==
  /\ u \notin accounts
  /\ accounts' = accounts \cup {u}
  /\ SignedInAs(t, u)

SignIn(t, u) ==
  /\ u \in accounts
  /\ SignedInAs(t, u)
  /\ UNCHANGED accounts

\* Wrong credentials are answered 401, which the response interceptor takes for
\* an expired session: there is no refresh token, so it signs the tab out.
SignInRefused(t) ==
  /\ ~SignedIn(t)
  /\ Exit(t)
  /\ UNCHANGED <<serverVars, refreshing, requestVars, crossed, excused>>

SignOut(t) ==
  /\ SignedIn(t)
  /\ Exit(t)
  /\ excused' = excused \cup UnderWay(t)
  /\ UNCHANGED <<serverVars, refreshing, requestVars, crossed>>

\* Loading the page again reads local storage and forgets what was under way.
Reload(t) ==
  /\ session' = [session EXCEPT ![t] = stored]
  /\ refreshing' = [refreshing EXCEPT ![t] = 0]
  /\ stage' = [r \in Requests |-> IF r \in UnderWay(t) THEN "dropped" ELSE stage[r]]
  /\ UNCHANGED <<serverVars, stored, token, asked, sender, crossed, excused>>

-----------------------------------------------------------------------------
(* The HTTP client.                                                        *)

\* The request interceptor puts the access token in the header.
Send(r) ==
  LET s == session[TabOf[r]] IN
  /\ stage[r] = "new"
  /\ s # NoSession
  /\ stage' = [stage EXCEPT ![r] = "sent"]
  /\ token' = [token EXCEPT ![r] = s.pair]
  /\ asked' = [asked EXCEPT ![r] = s.pair]
  /\ sender' = [sender EXCEPT ![r] = s.user]
  /\ UNCHANGED <<serverVars, browserVars, crossed, excused>>

\* The Authenticator lets it through.
Succeed(r) ==
  /\ stage[r] \in {"sent", "resent"}
  /\ AccessValid(token[r])
  /\ stage' = [stage EXCEPT ![r] = "ok"]
  /\ UNCHANGED <<serverVars, browserVars, token, asked, sender, crossed, excused>>

\* No answer: the interceptor passes the error on.
Lose(r) ==
  /\ stage[r] \in {"sent", "resent"}
  /\ stage' = [stage EXCEPT ![r] = "failed"]
  /\ excused' = excused \cup {r}
  /\ UNCHANGED <<serverVars, browserVars, token, asked, sender, crossed>>

\* Mutant: a request that finds a refresh under way does not wait for it.
AwaitRefresh_GiveUpIfBusy(r) ==
  LET t == TabOf[r] IN
  /\ stage[r] = "sent"
  /\ ~AccessValid(token[r])
  /\ SignedIn(t)
  /\ stage' = [stage EXCEPT ![r] = IF refreshing[t] = 0 THEN "waiting" ELSE "failed"]
  /\ refreshing' = [refreshing EXCEPT ![t] = IF @ = 0 THEN session[t].pair ELSE @]
  /\ UNCHANGED <<serverVars, stored, session, token, asked, sender, crossed, excused>>

\* The first 401 of a request: it waits for the refresh under way, or starts
\* one with the refresh token the store holds by now.
AwaitRefresh(r) ==
  LET t == TabOf[r] IN
  /\ stage[r] = "sent"
  /\ ~AccessValid(token[r])
  /\ SignedIn(t)
  /\ stage' = [stage EXCEPT ![r] = "waiting"]
  /\ refreshing' = [refreshing EXCEPT ![t] = IF @ = 0 THEN session[t].pair ELSE @]
  /\ UNCHANGED <<serverVars, stored, session, token, asked, sender, crossed, excused>>

\* The first 401 of a request when the store holds no session any more.
GiveUp(r) ==
  /\ stage[r] = "sent"
  /\ ~AccessValid(token[r])
  /\ ~SignedIn(TabOf[r])
  /\ Exit(TabOf[r])
  /\ stage' = [stage EXCEPT ![r] = "failed"]
  /\ UNCHANGED <<serverVars, refreshing, token, asked, sender, crossed, excused>>

\* A second 401 is passed on.
DeniedAgain(r) ==
  /\ stage[r] = "resent"
  /\ ~AccessValid(token[r])
  /\ stage' = [stage EXCEPT ![r] = "failed"]
  /\ UNCHANGED <<serverVars, browserVars, token, asked, sender, crossed, excused>>

Waiting(t) == {r \in RequestsOf(t) : stage[r] = "waiting"}

\* POST /auth/refresh is answered with a new pair for the user of the old one;
\* every waiting request is sent again with its access token.
Refreshed(t) ==
  /\ RefreshValid(refreshing[t])
  /\ Issue(issued[refreshing[t]])
  /\ UpdateTokens(t, NextPair)
  /\ refreshing' = [refreshing EXCEPT ![t] = 0]
  /\ stage' = [r \in Requests |-> IF r \in Waiting(t) THEN "resent" ELSE stage[r]]
  /\ token' = [r \in Requests |-> IF r \in Waiting(t) THEN NextPair ELSE token[r]]
  /\ UNCHANGED <<accounts, deadAccess, deadRefresh, asked, sender, crossed, excused>>

\* Mutant: a failed refresh leaves the requests that wait for it waiting.
RefreshFails_Silent(t) ==
  /\ refreshing[t] # 0
  /\ excused' = excused \cup UnderWay(t)
  /\ Exit(t)
  /\ refreshing' = [refreshing EXCEPT ![t] = 0]
  /\ UNCHANGED <<serverVars, stage, token, asked, sender, crossed>>

\* The refresh token is refused, or the call is lost: the tab is signed out and
\* every waiting request fails.
RefreshFails(t) ==
  /\ refreshing[t] # 0
  /\ excused' = excused \cup UnderWay(t)
  /\ Exit(t)
  /\ refreshing' = [refreshing EXCEPT ![t] = 0]
  /\ stage' = [r \in Requests |-> IF r \in Waiting(t) THEN "failed" ELSE stage[r]]
  /\ UNCHANGED <<serverVars, token, asked, sender, crossed>>

-----------------------------------------------------------------------------
Answer(r) == Succeed(r) \/ Lose(r) \/ AwaitRefresh(r) \/ GiveUp(r) \/ DeniedAgain(r)

RefreshEnds(t) == Refreshed(t) \/ RefreshFails(t)

Next ==
  \/ ExpireAccess
  \/ ExpireRefresh
  \/ \E t \in Tabs :
       \/ \E u \in Users : SignUp(t, u) \/ SignIn(t, u)
       \/ SignInRefused(t) \/ SignOut(t) \/ Reload(t) \/ RefreshEnds(t)
  \/ \E r \in Requests : Send(r) \/ Answer(r)

Spec == Init /\ [][Next]_sessionVars

\* Every call over the network is answered, or fails.
FairSpec ==
  /\ Spec
  /\ \A r \in Requests : WF_sessionVars(Answer(r))
  /\ \A t \in Tabs : WF_sessionVars(RefreshEnds(t))

-----------------------------------------------------------------------------
(* Properties.                                                             *)

OfItsUser(s) ==
  s # NoSession => s.pair \in 1..Len(issued) /\ issued[s.pair] = s.user

\* User and tokens belong together: in every tab, in local storage, and in a
\* request that was sent again with other tokens.  updateTokens keeps the user
\* of whatever session there is, so this fails where somebody has signed in
\* while the refresh of an earlier session was still under way; and a request
\* that was under way when its sender left may be repeated for the next user.
SessionsAreWhole ==
  ~crossed =>
    /\ OfItsUser(stored)
    /\ \A t \in Tabs : OfItsUser(session[t])
    /\ \A r \in Requests :
         stage[r] \in {"resent", "ok"} /\ r \notin excused
           => issued[token[r]] = sender[r]

\* Local storage holds the session of some tab: once every tab has signed out
\* nothing is left there, in whatever order refreshes come back.
StoredIsHeld == stored # NoSession => \E t \in Tabs : session[t] = stored

\* "The axios interceptor uses the refresh token automatically": however many
\* requests meet an expired access token at once, none of them fails unless its
\* user left, a call was lost, a refresh token had expired, or the new access
\* token expired as well.
RefreshIsTransparent ==
  \A r \in Requests :
    stage[r] = "failed" =>
      r \in excused \/ (token[r] # asked[r] /\ token[r] <= deadAccess)

\* Every request ends: none waits for ever for a refresh.
RequestsEnd ==
  \A r \in Requests :
    stage[r] \in {"sent", "waiting", "resent"} ~> stage[r] \in {"ok", "failed", "dropped"}
=============================================================================
