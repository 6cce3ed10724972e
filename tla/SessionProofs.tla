---------------------------- MODULE SessionProofs ----------------------------
(***************************************************************************)
(* Sessions in the browser, for any number of users, tabs, requests and    *)
(* token pairs: user and tokens belong together, local storage holds what  *)
(* some tab holds, and the refresh of expired tokens is transparent.       *)
(*                                                                         *)
(* What carries the three is that a request under way, unless it was       *)
(* excused, belongs to the user signed in in its tab, and that a refresh   *)
(* under way there is for this user.                                       *)
(***************************************************************************)
EXTENDS Session, TLAPS

Pairs == 1..Len(issued)

Stages == {"new", "sent", "waiting", "resent", "ok", "failed", "dropped"}

Types ==
  /\ issued \in Seq(Users)
  /\ deadAccess \in 0..Len(issued)
  /\ deadRefresh \in 0..Len(issued)
  /\ stored \in [user : Users, pair : Pairs] \cup {NoSession}
  /\ session \in [Tabs -> [user : Users, pair : Pairs] \cup {NoSession}]
  /\ refreshing \in [Tabs -> Pairs \cup {0}]
  /\ stage \in [Requests -> Stages]
  /\ token \in [Requests -> Pairs \cup {0}]
  /\ asked \in [Requests -> Pairs \cup {0}]
  /\ sender \in [Requests -> Users \cup {NoUser}]
  /\ crossed \in BOOLEAN
  /\ excused \subseteq Requests

IsUnderWay(r) == stage[r] \in {"sent", "waiting", "resent"}

\* A request under way that nothing excuses was sent by the user signed in in
\* its tab.
OfItsTab(r) ==
  IsUnderWay(r) /\ r \notin excused
    => SignedIn(TabOf[r]) /\ session[TabOf[r]].user = sender[r]

\* The refresh under way in a tab is for the user signed in there.
ForItsUser(t) ==
  ~crossed /\ refreshing[t] # 0 /\ SignedIn(t) => issued[refreshing[t]] = session[t].user

\* A request carries the tokens of the user who sent it.
Carries(r) ==
  stage[r] # "new" =>
    /\ token[r] # 0
    /\ ~crossed /\ r \notin excused => issued[token[r]] = sender[r]

\* A request sent again has another token; one that failed is accounted for.
Retried(r) ==
  /\ stage[r] = "resent" => token[r] # asked[r]
  /\ stage[r] = "failed" => r \in excused \/ (token[r] # asked[r] /\ token[r] <= deadAccess)

Inv ==
  /\ Types
  /\ ~crossed => OfItsUser(stored) /\ \A t \in Tabs : OfItsUser(session[t])
  /\ \A t \in Tabs : ForItsUser(t)
  /\ \A r \in Requests : OfItsTab(r) /\ Carries(r) /\ Retried(r)
  /\ StoredIsHeld

-----------------------------------------------------------------------------
(* The initial state, and types.                                           *)

LEMMA InitInv == Init => Inv
  <1> SUFFICES ASSUME Init PROVE Inv
    OBVIOUS
  <1>1. issued \in Seq(Users) /\ deadAccess \in 0..Len(issued) /\ deadRefresh \in 0..Len(issued)
    BY DEF Init
  <1>2. Types
    BY <1>1 DEF Init, Types, Stages
  <1>3. OfItsUser(stored) /\ \A t \in Tabs : OfItsUser(session[t])
    BY DEF Init, OfItsUser
  <1>4. \A t \in Tabs : ForItsUser(t)
    BY DEF Init, ForItsUser
  <1>5. \A r \in Requests : OfItsTab(r) /\ Carries(r) /\ Retried(r)
    BY DEF Init, OfItsTab, IsUnderWay, Carries, Retried
  <1>6. StoredIsHeld
    BY DEF Init, StoredIsHeld
  <1> QED BY <1>2, <1>3, <1>4, <1>5, <1>6 DEF Inv

\* A pair issued comes after all the others, which stay what they are.
LEMMA Issued ==
  ASSUME Types, NEW u \in Users, Issue(u)
  PROVE  /\ issued' \in Seq(Users)
         /\ Len(issued) \in Nat /\ Len(issued') = Len(issued) + 1
         /\ Pairs' = Pairs \cup {NextPair}
         /\ NextPair \notin Pairs /\ NextPair # 0
         /\ issued'[NextPair] = u
         /\ \A n \in Pairs : issued'[n] = issued[n]
         /\ 0..Len(issued) \subseteq 0..Len(issued')
  <1> DEFINE n == Len(issued)
  <1>1. /\ n \in Nat /\ issued' \in Seq(Users) /\ Len(issued') = n + 1
        /\ issued'[n + 1] = u /\ \A i \in 1..n : issued'[i] = issued[i]
    BY DEF Issue, Types
  <1> HIDE DEF n
  <1>2. 1..(n + 1) = 1..n \cup {n + 1} /\ n + 1 \notin 1..n /\ n + 1 # 0
    BY <1>1
  <1>3. 0..n \subseteq 0..(n + 1)
    BY <1>1
  <1> QED BY <1>1, <1>2, <1>3 DEF Pairs, NextPair, n

\* Enter and Exit write a session, or none.
LEMMA SessionTyped ==
  ASSUME Types, NEW t \in Tabs, Pairs \subseteq Pairs',
         NEW s \in [user : Users, pair : Pairs'] \cup {NoSession},
         Enter(t, s)
  PROVE  /\ stored' \in [user : Users, pair : Pairs'] \cup {NoSession}
         /\ session' \in [Tabs -> [user : Users, pair : Pairs'] \cup {NoSession}]
         /\ session'[t] = s /\ \A d \in Tabs \ {t} : session'[d] = session[d]
  <1> DEFINE S == [user : Users, pair : Pairs'] \cup {NoSession}
  <1>1. session \in [Tabs -> S]
    BY DEF Types
  <1>2. session' = [session EXCEPT ![t] = s] /\ stored' = s /\ s \in S
    BY DEF Enter
  <1> HIDE DEF S
  <1>3. session' \in [Tabs -> S] /\ session'[t] = s /\ \A d \in Tabs \ {t} : session'[d] = session[d]
    BY <1>1, <1>2
  <1> QED BY <1>2, <1>3 DEF S

LEMMA ExitEnters == \A t : Exit(t) => Enter(t, NoSession)
  BY DEF Exit, Enter

\* What a step keeps of the types when it leaves the issued pairs alone.
LEMMA TypesFrame ==
  ASSUME Types, issued' = issued,
         deadAccess' \in 0..Len(issued), deadRefresh' \in 0..Len(issued),
         stored' \in [user : Users, pair : Pairs] \cup {NoSession},
         session' \in [Tabs -> [user : Users, pair : Pairs] \cup {NoSession}],
         refreshing' \in [Tabs -> Pairs \cup {0}],
         stage' \in [Requests -> Stages],
         token' \in [Requests -> Pairs \cup {0}],
         asked' \in [Requests -> Pairs \cup {0}],
         sender' \in [Requests -> Users \cup {NoUser}],
         crossed' \in BOOLEAN,
         excused' \subseteq Requests
  PROVE  Types'
  BY DEF Types, Pairs

\* The session of a signed-in tab, with new tokens.
Renewed(t, n) == [user |-> session[t].user, pair |-> n]

LEMMA TokensUpdated ==
  ASSUME Types, NEW t \in Tabs, NEW n \in Pairs', UpdateTokens(t, n)
  PROVE  \/ /\ SignedIn(t)
            /\ Enter(t, Renewed(t, n))
            /\ Renewed(t, n) \in [user : Users, pair : Pairs']
            /\ session[t].user \in Users
         \/ ~SignedIn(t) /\ UNCHANGED <<session, stored>>
  <1>1. CASE SignedIn(t)
    <2>1. session[t] \in [user : Users, pair : Pairs]
      BY <1>1 DEF Types, SignedIn
    <2>2. [session[t] EXCEPT !.pair = n] = Renewed(t, n) /\ session[t].user \in Users
      BY <2>1 DEF Renewed
    <2>3. Renewed(t, n) \in [user : Users, pair : Pairs']
      BY <2>2 DEF Renewed
    <2> QED BY <1>1, <2>2, <2>3 DEF UpdateTokens
  <1>2. CASE ~SignedIn(t)
    BY <1>2 DEF UpdateTokens
  <1> QED BY <1>1, <1>2

\* The pair that is exchanged is one that was issued.
LEMMA Exchanged ==
  ASSUME Types, NEW t \in Tabs, Refreshed(t)
  PROVE  refreshing[t] \in Pairs /\ issued[refreshing[t]] \in Users
  <1>1. issued \in Seq(Users) /\ deadRefresh \in 0..Len(issued) /\ Len(issued) \in Nat
    BY DEF Types
  <1>2. refreshing[t] \in deadRefresh + 1..Len(issued)
    BY DEF Refreshed, RefreshValid
  <1>3. deadRefresh + 1..Len(issued) \subseteq 1..Len(issued)
    BY <1>1
  <1> QED BY <1>1, <1>2, <1>3 DEF Pairs

LEMMA TypesNext == Types /\ [Next]_sessionVars => Types'
  <1> SUFFICES ASSUME Types, [Next]_sessionVars PROVE Types'
    OBVIOUS
  <1>t. /\ issued \in Seq(Users) /\ Len(issued) \in Nat
        /\ deadAccess \in 0..Len(issued) /\ deadRefresh \in 0..Len(issued)
        /\ stored \in [user : Users, pair : Pairs] \cup {NoSession}
        /\ session \in [Tabs -> [user : Users, pair : Pairs] \cup {NoSession}]
        /\ refreshing \in [Tabs -> Pairs \cup {0}]
        /\ stage \in [Requests -> Stages]
        /\ token \in [Requests -> Pairs \cup {0}]
        /\ asked \in [Requests -> Pairs \cup {0}]
        /\ sender \in [Requests -> Users \cup {NoUser}]
        /\ crossed \in BOOLEAN
        /\ excused \subseteq Requests
    BY DEF Types
  <1>s. {"sent", "waiting", "resent", "ok", "failed", "dropped"} \subseteq Stages
    BY DEF Stages
  <1>u. \A t : UnderWay(t) \subseteq Requests /\ Waiting(t) \subseteq Requests
    BY DEF UnderWay, Waiting, RequestsOf
  <1>r. \A r \in Requests : TabOf[r] \in Tabs
    BY SessionAssumption
  <1>1. CASE ExpireAccess
    <2>1. deadAccess' \in 0..Len(issued)
      BY <1>1, <1>t DEF ExpireAccess
    <2> QED BY <1>1, <1>t, <2>1, TypesFrame DEF ExpireAccess, browserVars, requestVars
  <1>2. CASE ExpireRefresh
    <2>1. deadRefresh' \in 0..Len(issued)
      BY <1>2, <1>t DEF ExpireRefresh
    <2> QED BY <1>2, <1>t, <2>1, TypesFrame DEF ExpireRefresh, browserVars, requestVars
  <1>3. ASSUME NEW t \in Tabs, NEW u \in Users, SignedInAs(t, u) PROVE Types'
    <2> DEFINE s == [user |-> u, pair |-> NextPair]
    <2>1. /\ Issue(u) /\ Enter(t, s) /\ crossed' \in BOOLEAN
          /\ UNCHANGED <<deadAccess, deadRefresh, refreshing, requestVars, excused>>
      BY <1>3 DEF SignedInAs
    <2>2. /\ issued' \in Seq(Users) /\ Pairs \subseteq Pairs'
          /\ 0..Len(issued) \subseteq 0..Len(issued') /\ NextPair \in Pairs'
      BY <2>1, Issued
    <2>3. s \in [user : Users, pair : Pairs'] \cup {NoSession}
      BY <2>2
    <2>4. /\ stored' \in [user : Users, pair : Pairs'] \cup {NoSession}
          /\ session' \in [Tabs -> [user : Users, pair : Pairs'] \cup {NoSession}]
      BY <2>1, <2>2, <2>3, SessionTyped
    <2>5. /\ deadAccess' \in 0..Len(issued') /\ deadRefresh' \in 0..Len(issued')
      BY <1>t, <2>1, <2>2
    <2>6. /\ refreshing' \in [Tabs -> Pairs' \cup {0}]
          /\ token' \in [Requests -> Pairs' \cup {0}]
          /\ asked' \in [Requests -> Pairs' \cup {0}]
      BY <1>t, <2>1, <2>2 DEF requestVars
    <2>7. /\ stage' \in [Requests -> Stages]
          /\ sender' \in [Requests -> Users \cup {NoUser}]
          /\ excused' \subseteq Requests
      BY <1>t, <2>1 DEF requestVars
    <2> QED BY <2>1, <2>2, <2>4, <2>5, <2>6, <2>7 DEF Types
  <1>4. ASSUME NEW t \in Tabs, Exit(t)
        PROVE  /\ stored' \in [user : Users, pair : Pairs] \cup {NoSession}
               /\ session' \in [Tabs -> [user : Users, pair : Pairs] \cup {NoSession}]
    BY <1>4, <1>t DEF Exit
  <1>5. ASSUME NEW t \in Tabs, SignInRefused(t) \/ SignOut(t) PROVE Types'
    BY <1>5, <1>4, <1>t, <1>u, TypesFrame DEF SignInRefused, SignOut, serverVars, requestVars
  <1>6. ASSUME NEW t \in Tabs, Reload(t) PROVE Types'
    <2>1. session' \in [Tabs -> [user : Users, pair : Pairs] \cup {NoSession}]
      BY <1>6, <1>t DEF Reload
    <2>2. refreshing' \in [Tabs -> Pairs \cup {0}] /\ stage' \in [Requests -> Stages]
      BY <1>6, <1>t, <1>s DEF Reload
    <2> QED BY <1>6, <1>t, <2>1, <2>2, TypesFrame DEF Reload, serverVars
  <1>7. ASSUME NEW t \in Tabs, Refreshed(t) PROVE Types'
    <2>2. issued[refreshing[t]] \in Users
      BY <1>7, Exchanged
    <2>3. /\ issued' \in Seq(Users) /\ Pairs \subseteq Pairs'
          /\ 0..Len(issued) \subseteq 0..Len(issued') /\ NextPair \in Pairs'
      BY <1>7, <2>2, Issued DEF Refreshed
    <2>4. /\ stored' \in [user : Users, pair : Pairs'] \cup {NoSession}
          /\ session' \in [Tabs -> [user : Users, pair : Pairs'] \cup {NoSession}]
      <3>1. UpdateTokens(t, NextPair)
        BY <1>7 DEF Refreshed
      <3>2. CASE UNCHANGED <<session, stored>>
        BY <1>t, <2>3, <3>2
      <3>3. CASE /\ Enter(t, Renewed(t, NextPair))
                 /\ Renewed(t, NextPair) \in [user : Users, pair : Pairs']
        BY <2>3, <3>3, SessionTyped
      <3> QED BY <2>3, <3>1, <3>2, <3>3, TokensUpdated
    <2>5. deadAccess' \in 0..Len(issued') /\ deadRefresh' \in 0..Len(issued')
      BY <1>7, <1>t, <2>3 DEF Refreshed
    <2>6. refreshing' \in [Tabs -> Pairs' \cup {0}]
      BY <1>7, <1>t, <2>3 DEF Refreshed
    <2>7. token' \in [Requests -> Pairs' \cup {0}] /\ asked' \in [Requests -> Pairs' \cup {0}]
      BY <1>7, <1>t, <2>3 DEF Refreshed
    <2>8. /\ stage' \in [Requests -> Stages]
          /\ sender' \in [Requests -> Users \cup {NoUser}]
          /\ crossed' \in BOOLEAN /\ excused' \subseteq Requests
      BY <1>7, <1>t, <1>s DEF Refreshed
    <2> QED BY <2>3, <2>4, <2>5, <2>6, <2>7, <2>8 DEF Types
  <1>8. ASSUME NEW t \in Tabs, RefreshFails(t) PROVE Types'
    <2>1. refreshing' \in [Tabs -> Pairs \cup {0}] /\ stage' \in [Requests -> Stages]
      BY <1>8, <1>t, <1>s DEF RefreshFails
    <2> QED BY <1>8, <1>4, <1>t, <1>u, <2>1, TypesFrame DEF RefreshFails, serverVars
  <1>9. ASSUME NEW r \in Requests, Send(r) PROVE Types'
    <2> DEFINE s == session[TabOf[r]]
    <2>1. s \in [user : Users, pair : Pairs]
      BY <1>9, <1>r, <1>t DEF Send
    <2>2. s.user \in Users /\ s.pair \in Pairs
      BY <2>1
    <2>3. /\ stage' \in [Requests -> Stages]
          /\ token' \in [Requests -> Pairs \cup {0}]
          /\ asked' \in [Requests -> Pairs \cup {0}]
          /\ sender' \in [Requests -> Users \cup {NoUser}]
      BY <1>9, <1>t, <1>s, <2>2 DEF Send
    <2> QED BY <1>9, <1>t, <2>3, TypesFrame DEF Send, serverVars, browserVars
  <1>10. ASSUME NEW r \in Requests, Succeed(r) \/ Lose(r) \/ DeniedAgain(r) PROVE Types'
    <2>1. stage' \in [Requests -> Stages] /\ excused' \subseteq Requests
      BY <1>10, <1>t, <1>s DEF Succeed, Lose, DeniedAgain
    <2> QED BY <1>10, <1>t, <2>1, TypesFrame
            DEF Succeed, Lose, DeniedAgain, serverVars, browserVars
  <1>11. ASSUME NEW r \in Requests, AwaitRefresh(r) PROVE Types'
    <2>1. session[TabOf[r]].pair \in Pairs
      BY <1>11, <1>r, <1>t DEF AwaitRefresh, SignedIn
    <2>2. refreshing' \in [Tabs -> Pairs \cup {0}] /\ stage' \in [Requests -> Stages]
      BY <1>11, <1>r, <1>t, <1>s, <2>1 DEF AwaitRefresh
    <2> QED BY <1>11, <1>t, <2>2, TypesFrame DEF AwaitRefresh, serverVars
  <1>12. ASSUME NEW r \in Requests, GiveUp(r) PROVE Types'
    <2>1. stage' \in [Requests -> Stages]
      BY <1>12, <1>t, <1>s DEF GiveUp
    <2> QED BY <1>12, <1>4, <1>r, <1>t, <2>1, TypesFrame DEF GiveUp, serverVars
  <1>13. CASE UNCHANGED sessionVars
    BY <1>13, <1>t, TypesFrame DEF sessionVars, serverVars, browserVars, requestVars
  <1> QED
    BY <1>1, <1>2, <1>3, <1>5, <1>6, <1>7, <1>8, <1>9, <1>10, <1>11, <1>12, <1>13
    DEF Next, SignUp, SignIn, RefreshEnds, Answer

-----------------------------------------------------------------------------
(* What a step does to one tab, and to local storage.                      *)

\* History only grows, and a pair stays the pair of its user.
LEMMA HistoryGrows ==
  ASSUME Types, [Next]_sessionVars
  PROVE  /\ Pairs \subseteq Pairs' /\ \A n \in Pairs : issued'[n] = issued[n]
         /\ crossed => crossed'
         /\ excused \subseteq excused'
         /\ deadAccess' \in Nat /\ deadAccess <= deadAccess'
  <1>t. /\ issued \in Seq(Users) /\ deadAccess \in 0..Len(issued) /\ Len(issued) \in Nat
        /\ refreshing \in [Tabs -> Pairs \cup {0}]
    BY DEF Types
  <1>1. ASSUME NEW t \in Tabs, NEW u \in Users, SignedInAs(t, u)
        PROVE  /\ Pairs \subseteq Pairs' /\ \A n \in Pairs : issued'[n] = issued[n]
               /\ deadAccess' = deadAccess
               /\ crossed => crossed'
               /\ excused' = excused
    BY <1>1, Issued DEF SignedInAs
  <1>2. ASSUME NEW t \in Tabs, Refreshed(t)
        PROVE  /\ Pairs \subseteq Pairs' /\ \A n \in Pairs : issued'[n] = issued[n]
               /\ deadAccess' = deadAccess
               /\ crossed' = crossed
               /\ excused' = excused
    <2>1. issued[refreshing[t]] \in Users
      BY <1>2, Exchanged
    <2> QED BY <1>2, <2>1, Issued DEF Refreshed
  <1>3. CASE ExpireAccess
    <2>1. deadAccess' = deadAccess + 1
      BY <1>3 DEF ExpireAccess
    <2>2. deadAccess' \in Nat /\ deadAccess <= deadAccess'
      BY <1>t, <2>1
    <2>3. UNCHANGED <<issued, crossed, excused>>
      BY <1>3 DEF ExpireAccess
    <2> QED BY <2>2, <2>3 DEF Pairs
  <1>4. CASE /\ UNCHANGED <<issued, deadAccess>> /\ crossed' = crossed
             /\ excused \subseteq excused'
    BY <1>t, <1>4 DEF Pairs
  <1>5. ASSUME NEW t \in Tabs, SignInRefused(t) \/ SignOut(t) \/ Reload(t) \/ RefreshFails(t)
        PROVE  /\ UNCHANGED <<issued, deadAccess>> /\ crossed' = crossed
               /\ excused \subseteq excused'
    BY <1>5 DEF SignInRefused, SignOut, Reload, RefreshFails, serverVars
  <1>6. ASSUME NEW r \in Requests, Send(r) \/ Answer(r)
        PROVE  /\ UNCHANGED <<issued, deadAccess>> /\ crossed' = crossed
               /\ excused \subseteq excused'
    BY <1>6 DEF Send, Answer, Succeed, Lose, AwaitRefresh, GiveUp, DeniedAgain, serverVars
  <1>7. CASE ExpireRefresh \/ UNCHANGED sessionVars
    BY <1>4, <1>7 DEF ExpireRefresh, sessionVars, serverVars
  <1>8. deadAccess \in Nat
    BY <1>t
  <1> QED BY <1>1, <1>2, <1>3, <1>4, <1>5, <1>6, <1>7, <1>8 DEF Next, SignUp, SignIn, RefreshEnds

\* A user signs in in tab d: the tab was signed out.
Enters(d) ==
  \E u \in Users :
    /\ ~SignedIn(d)
    /\ session'[d] = [user |-> u, pair |-> NextPair]
    /\ NextPair \in Pairs' /\ issued'[NextPair] = u
    /\ crossed' \/ refreshing[d] = 0
    /\ refreshing' = refreshing

\* The session of d ends; what was under way is excused.
Leaves(d) ==
  /\ session'[d] = NoSession
  /\ UnderWay(d) \subseteq excused'

\* d is loaded again.
Reloads(d) ==
  /\ session'[d] = stored
  /\ refreshing'[d] = 0
  /\ \A r \in UnderWay(d) : stage'[r] = "dropped"

\* The session of d gets the tokens its refresh was answered with.
Renews(d) ==
  /\ SignedIn(d)
  /\ session'[d] = Renewed(d, NextPair)
  /\ refreshing[d] \in Pairs /\ refreshing'[d] = 0
  /\ NextPair \in Pairs' /\ issued'[NextPair] = issued[refreshing[d]]
  /\ crossed' = crossed

\* A refresh starts in d, for the session there.
Starts(d) ==
  /\ SignedIn(d) /\ session'[d] = session[d]
  /\ refreshing'[d] = session[d].pair
  /\ crossed' = crossed

Stays(d) ==
  /\ session'[d] = session[d]
  /\ refreshing'[d] \in {refreshing[d], 0}

TabStep(d) ==
  \/ Enters(d) \/ Reloads(d) \/ Renews(d) \/ Starts(d) \/ Stays(d)
  \/ Leaves(d) /\ refreshing'[d] \in {refreshing[d], 0}

LEMMA TabSteps ==
  ASSUME Types, [Next]_sessionVars, NEW d \in Tabs
  PROVE  TabStep(d)
  <1>t. /\ issued \in Seq(Users)
        /\ session \in [Tabs -> [user : Users, pair : Pairs] \cup {NoSession}]
        /\ refreshing \in [Tabs -> Pairs \cup {0}]
        /\ stage \in [Requests -> Stages]
    BY DEF Types
  <1>r. \A r \in Requests : TabOf[r] \in Tabs
    BY SessionAssumption
  <1>1. ASSUME NEW t \in Tabs, NEW u \in Users, SignedInAs(t, u) PROVE TabStep(d)
    <2>1. /\ Issue(u) /\ ~SignedIn(t) /\ UNCHANGED refreshing
          /\ session' = [session EXCEPT ![t] = [user |-> u, pair |-> NextPair]]
          /\ crossed' = (crossed \/ refreshing[t] # 0)
      BY <1>1 DEF SignedInAs, Enter
    <2>2. NextPair \in Pairs' /\ issued'[NextPair] = u
      BY <2>1, Issued
    <2>3. CASE d = t
      BY <1>t, <2>1, <2>2, <2>3 DEF TabStep, Enters
    <2>4. CASE d # t
      BY <1>t, <2>1, <2>4 DEF TabStep, Stays
    <2> QED BY <2>3, <2>4
  <1>2. ASSUME NEW t \in Tabs, SignInRefused(t) PROVE TabStep(d)
    BY <1>2, <1>t DEF SignInRefused, Exit, SignedIn, TabStep, Stays
  <1>3. ASSUME NEW t \in Tabs, SignOut(t) PROVE TabStep(d)
    BY <1>3, <1>t DEF SignOut, Exit, TabStep, Stays, Leaves
  <1>4. ASSUME NEW t \in Tabs, Reload(t) PROVE TabStep(d)
    <2>1. CASE d = t
      <3>1. \A r \in UnderWay(d) : r \in Requests
        BY DEF UnderWay, RequestsOf
      <3> QED BY <1>4, <1>t, <2>1, <3>1 DEF Reload, TabStep, Reloads
    <2>2. CASE d # t
      BY <1>4, <1>t, <2>2 DEF Reload, TabStep, Stays
    <2> QED BY <2>1, <2>2
  <1>5. ASSUME NEW t \in Tabs, Refreshed(t) PROVE TabStep(d)
    <2>1. refreshing[t] \in Pairs /\ issued[refreshing[t]] \in Users
      BY <1>5, Exchanged
    <2>3. NextPair \in Pairs' /\ issued'[NextPair] = issued[refreshing[t]]
      BY <1>5, <2>1, Issued DEF Refreshed
    <2>4. /\ refreshing'[t] = 0 /\ crossed' = crossed
          /\ \A e \in Tabs \ {t} : refreshing'[e] = refreshing[e]
      BY <1>5, <1>t DEF Refreshed
    <2>5. \/ SignedIn(t) /\ Enter(t, Renewed(t, NextPair))
          \/ UNCHANGED <<session, stored>>
      BY <1>5, <2>3, TokensUpdated DEF Refreshed
    <2>6. CASE UNCHANGED <<session, stored>>
      BY <2>4, <2>6 DEF TabStep, Stays
    <2>7. CASE SignedIn(t) /\ Enter(t, Renewed(t, NextPair))
      <3>1. CASE d = t
        BY <1>t, <2>1, <2>3, <2>4, <2>7, <3>1 DEF Enter, TabStep, Renews
      <3>2. CASE d # t
        BY <1>t, <2>4, <2>7, <3>2 DEF Enter, TabStep, Stays
      <3> QED BY <3>1, <3>2
    <2> QED BY <2>5, <2>6, <2>7
  <1>6. ASSUME NEW t \in Tabs, RefreshFails(t) PROVE TabStep(d)
    BY <1>6, <1>t DEF RefreshFails, Exit, TabStep, Leaves, Stays
  <1>7. ASSUME NEW r \in Requests, AwaitRefresh(r) PROVE TabStep(d)
    BY <1>7, <1>r, <1>t DEF AwaitRefresh, TabStep, Starts, Stays
  <1>8. ASSUME NEW r \in Requests, GiveUp(r) PROVE TabStep(d)
    BY <1>8, <1>r, <1>t DEF GiveUp, Exit, SignedIn, TabStep, Stays
  <1>9. CASE UNCHANGED <<session, refreshing>>
    BY <1>9 DEF TabStep, Stays
  <1>10. CASE ExpireAccess \/ ExpireRefresh \/ UNCHANGED sessionVars
    BY <1>9, <1>10 DEF ExpireAccess, ExpireRefresh, sessionVars, browserVars
  <1>11. ASSUME NEW r \in Requests, Send(r) \/ Succeed(r) \/ Lose(r) \/ DeniedAgain(r)
         PROVE  TabStep(d)
    BY <1>9, <1>11 DEF Send, Succeed, Lose, DeniedAgain, browserVars
  <1> QED
    BY <1>1, <1>2, <1>3, <1>4, <1>5, <1>6, <1>7, <1>8, <1>10, <1>11
    DEF Next, SignUp, SignIn, RefreshEnds, Answer

\* Local storage changes together with the tab that writes it.
StorageStep ==
  \/ stored' = NoSession
  \/ \E t \in Tabs : stored' = session'[t]
  \/ stored' = stored /\ \A t \in Tabs : session'[t] = session[t]

LEMMA StorageSteps ==
  ASSUME Types, [Next]_sessionVars
  PROVE  StorageStep
  <1>t. session \in [Tabs -> [user : Users, pair : Pairs] \cup {NoSession}]
    BY DEF Types
  <1>r. \A r \in Requests : TabOf[r] \in Tabs
    BY SessionAssumption
  <1>1. ASSUME NEW t \in Tabs, NEW s, Enter(t, s) PROVE StorageStep
    BY <1>1, <1>t DEF Enter, StorageStep
  <1>2. ASSUME NEW t \in Tabs, Exit(t) PROVE StorageStep
    BY <1>2 DEF Exit, StorageStep
  <1>3. CASE UNCHANGED <<session, stored>>
    BY <1>3 DEF StorageStep
  <1>4. ASSUME NEW t \in Tabs, Reload(t) PROVE StorageStep
    BY <1>4, <1>t DEF Reload, StorageStep
  <1>5. ASSUME NEW t \in Tabs, Refreshed(t) PROVE StorageStep
    BY <1>1, <1>3, <1>5 DEF Refreshed, UpdateTokens
  <1>6. CASE ExpireAccess \/ ExpireRefresh \/ UNCHANGED sessionVars
    BY <1>3, <1>6 DEF ExpireAccess, ExpireRefresh, sessionVars, browserVars
  <1>7. ASSUME NEW r \in Requests,
               Send(r) \/ Succeed(r) \/ Lose(r) \/ DeniedAgain(r) \/ AwaitRefresh(r)
        PROVE  StorageStep
    BY <1>3, <1>7 DEF Send, Succeed, Lose, DeniedAgain, AwaitRefresh, browserVars
  <1>8. ASSUME NEW t \in Tabs, SignInRefused(t) \/ SignOut(t) \/ RefreshFails(t)
        PROVE  StorageStep
    BY <1>2, <1>8 DEF SignInRefused, SignOut, RefreshFails
  <1>9. ASSUME NEW t \in Tabs, NEW u \in Users, SignedInAs(t, u) PROVE StorageStep
    BY <1>1, <1>9 DEF SignedInAs
  <1>10. ASSUME NEW r \in Requests, GiveUp(r) PROVE StorageStep
    BY <1>2, <1>10, <1>r DEF GiveUp
  <1> QED
    BY <1>4, <1>5, <1>6, <1>7, <1>8, <1>9, <1>10
    DEF Next, SignUp, SignIn, RefreshEnds, Answer

-----------------------------------------------------------------------------
(* What a step does to one request.                                        *)

Sends(q) ==
  /\ SignedIn(TabOf[q])
  /\ session'[TabOf[q]] = session[TabOf[q]]
  /\ stage'[q] = "sent"
  /\ token'[q] = session[TabOf[q]].pair
  /\ sender'[q] = session[TabOf[q]].user
  /\ crossed' = crossed

\* The refresh of its tab is answered and q is sent again.
Repeats(q) ==
  /\ stage[q] = "waiting" /\ stage'[q] = "resent"
  /\ token'[q] = NextPair
  /\ refreshing[TabOf[q]] # 0
  /\ NextPair \in Pairs' /\ NextPair \notin Pairs \cup {0}
  /\ issued'[NextPair] = issued[refreshing[TabOf[q]]]
  /\ UNCHANGED <<asked, sender, crossed, excused>>

\* A failure is a lost call, the end of a session, or a second refusal.
Fails(q) ==
  /\ IsUnderWay(q) /\ stage'[q] = "failed"
  /\ \/ q \in excused'
     \/ ~SignedIn(TabOf[q])
     \/ stage[q] = "resent" /\ token[q] <= deadAccess

Moves(q) ==
  /\ token'[q] = token[q] /\ asked'[q] = asked[q] /\ sender'[q] = sender[q]
  /\ \/ stage'[q] = stage[q]
     \/ IsUnderWay(q) /\ stage'[q] \in {"waiting", "ok", "dropped"}
     \/ Fails(q)

RequestStep(q) == Sends(q) \/ Repeats(q) \/ Moves(q)

LEMMA RequestSteps ==
  ASSUME Types, [Next]_sessionVars, NEW q \in Requests
  PROVE  RequestStep(q)
  <1>t. /\ issued \in Seq(Users) /\ Len(issued) \in Nat /\ deadAccess \in 0..Len(issued)
        /\ refreshing \in [Tabs -> Pairs \cup {0}]
        /\ stage \in [Requests -> Stages]
        /\ token \in [Requests -> Pairs \cup {0}]
        /\ asked \in [Requests -> Pairs \cup {0}]
        /\ sender \in [Requests -> Users \cup {NoUser}]
    BY DEF Types
  <1>r. \A r \in Requests : TabOf[r] \in Tabs
    BY SessionAssumption
  <1>w. \A t : \A r \in UnderWay(t) : r \in Requests /\ TabOf[r] = t /\ IsUnderWay(r)
    BY DEF UnderWay, RequestsOf, IsUnderWay
  <1>v. \A t : Waiting(t) \subseteq UnderWay(t) /\ \A r \in Waiting(t) : stage[r] = "waiting"
    BY DEF Waiting, UnderWay
  <1>1. CASE UNCHANGED requestVars
    BY <1>1 DEF requestVars, RequestStep, Moves
  <1>2. CASE ExpireAccess \/ ExpireRefresh \/ UNCHANGED sessionVars
    BY <1>1, <1>2 DEF ExpireAccess, ExpireRefresh, sessionVars
  <1>3. ASSUME NEW t \in Tabs,
               \/ \E u \in Users : SignedInAs(t, u)
               \/ SignInRefused(t) \/ SignOut(t)
        PROVE  RequestStep(q)
    BY <1>1, <1>3 DEF SignedInAs, SignInRefused, SignOut
  <1>4. ASSUME NEW t \in Tabs, Reload(t) PROVE RequestStep(q)
    BY <1>4, <1>w DEF Reload, RequestStep, Moves
  <1>5. ASSUME NEW t \in Tabs, Refreshed(t) PROVE RequestStep(q)
    <2>1. CASE q \in Waiting(t)
      <3>1. TabOf[q] = t /\ stage[q] = "waiting" /\ refreshing[t] # 0
        BY <1>5, <1>v, <1>w, <2>1, Exchanged DEF Pairs
      <3>2. /\ NextPair \in Pairs' /\ NextPair \notin Pairs \cup {0}
            /\ issued'[NextPair] = issued[refreshing[t]]
        BY <1>5, Exchanged, Issued DEF Refreshed
      <3>3. stage'[q] = "resent" /\ token'[q] = NextPair
            /\ UNCHANGED <<asked, sender, crossed, excused>>
        BY <1>5, <2>1 DEF Refreshed
      <3> QED BY <3>1, <3>2, <3>3 DEF RequestStep, Repeats
    <2>2. CASE q \notin Waiting(t)
      BY <1>5, <2>2 DEF Refreshed, RequestStep, Moves
    <2> QED BY <2>1, <2>2
  <1>6. ASSUME NEW t \in Tabs, RefreshFails(t) PROVE RequestStep(q)
    <2>1. CASE q \in Waiting(t)
      <3>1. q \in excused' /\ IsUnderWay(q)
        BY <1>6, <1>v, <1>w, <2>1 DEF RefreshFails
      <3>2. stage'[q] = "failed" /\ UNCHANGED <<token, asked, sender>>
        BY <1>6, <2>1 DEF RefreshFails
      <3> QED BY <3>1, <3>2 DEF RequestStep, Moves, Fails
    <2>2. CASE q \notin Waiting(t)
      BY <1>6, <2>2 DEF RefreshFails, RequestStep, Moves
    <2> QED BY <2>1, <2>2
  <1>7. ASSUME NEW r \in Requests, Send(r) PROVE RequestStep(q)
    <2>1. CASE q = r
      BY <1>7, <1>t, <2>1 DEF Send, browserVars, SignedIn, RequestStep, Sends
    <2>2. CASE q # r
      BY <1>7, <1>t, <2>2 DEF Send, RequestStep, Moves
    <2> QED BY <2>1, <2>2
  <1>8. ASSUME NEW r \in Requests, Answer(r) PROVE RequestStep(q)
    <2>0. UNCHANGED <<token, asked, sender>> /\ IsUnderWay(r)
      BY <1>8 DEF Answer, Succeed, Lose, AwaitRefresh, GiveUp, DeniedAgain, IsUnderWay
    <2>1. CASE q # r
      <3>1. stage'[q] = stage[q]
        BY <1>8, <1>t, <2>1 DEF Answer, Succeed, Lose, AwaitRefresh, GiveUp, DeniedAgain
      <3> QED BY <2>0, <3>1 DEF RequestStep, Moves
    <2>2. CASE q = r
      <3>1. CASE Succeed(r) \/ AwaitRefresh(r)
        BY <1>t, <2>0, <2>2, <3>1 DEF Succeed, AwaitRefresh, RequestStep, Moves
      <3>2. CASE Lose(r)
        BY <1>t, <2>0, <2>2, <3>2 DEF Lose, RequestStep, Moves, Fails
      <3>3. CASE GiveUp(r)
        BY <1>t, <2>0, <2>2, <3>3 DEF GiveUp, RequestStep, Moves, Fails
      <3>4. CASE DeniedAgain(r)
        <4>1. token[r] \notin deadAccess + 1..Len(issued) /\ token[r] \in 0..Len(issued)
          BY <1>t, <3>4 DEF DeniedAgain, AccessValid, Pairs
        <4>2. token[r] <= deadAccess
          BY <1>t, <4>1
        <4> QED BY <1>t, <2>0, <2>2, <3>4, <4>2 DEF DeniedAgain, RequestStep, Moves, Fails
      <3> QED BY <1>8, <3>1, <3>2, <3>3, <3>4 DEF Answer
    <2> QED BY <2>1, <2>2
  <1> QED
    BY <1>2, <1>3, <1>4, <1>5, <1>6, <1>7, <1>8
    DEF Next, SignUp, SignIn, RefreshEnds

-----------------------------------------------------------------------------
(* The invariant.                                                          *)

LEMMA NextInv == Inv /\ [Next]_sessionVars => Inv'
  <1> SUFFICES ASSUME Inv, [Next]_sessionVars PROVE Inv'
    OBVIOUS
  <1>0. Types /\ Types'
    BY TypesNext DEF Inv
  <1>h. /\ Pairs \subseteq Pairs' /\ \A n \in Pairs : issued'[n] = issued[n]
        /\ crossed => crossed'
        /\ excused \subseteq excused'
        /\ deadAccess' \in Nat /\ deadAccess <= deadAccess'
    BY <1>0, HistoryGrows
  <1>r. \A r \in Requests : TabOf[r] \in Tabs
    BY SessionAssumption
  <1>s. \A d \in Tabs : SignedIn(d) =>
          session[d].user \in Users /\ session[d].pair \in Pairs /\ session[d].pair # 0
    BY <1>0 DEF Types, SignedIn, Pairs
  <1>n. \A u \in Users, n \in Nat : [user |-> u, pair |-> n] # NoSession
    BY SessionAssumption DEF NoSession
  <1>1. ASSUME ~crossed', NEW d \in Tabs PROVE OfItsUser(session[d])'
    <2>0. ~crossed /\ OfItsUser(session[d]) /\ OfItsUser(stored)
      BY <1>1, <1>h DEF Inv
    <2>1. CASE session'[d] = session[d] \/ session'[d] = stored \/ session'[d] = NoSession
      BY <2>0, <2>1, <1>h DEF OfItsUser, Pairs
    <2>2. CASE Enters(d)
      BY <2>2 DEF Enters, OfItsUser, Pairs
    <2>3. CASE Renews(d)
      <3>1. issued[refreshing[d]] = session[d].user
        BY <2>0, <2>3 DEF Renews, Inv, ForItsUser, Pairs
      <3> QED BY <2>3, <3>1 DEF Renews, Renewed, OfItsUser, Pairs
    <2> QED BY <1>0, <2>1, <2>2, <2>3, TabSteps DEF TabStep, Leaves, Reloads, Starts, Stays
  <1>2. ASSUME ~crossed' PROVE OfItsUser(stored)'
    <2>1. OfItsUser(stored)
      BY <1>2, <1>h DEF Inv
    <2>2. CASE stored' = stored \/ stored' = NoSession
      BY <2>1, <2>2, <1>h DEF OfItsUser, Pairs
    <2>3. CASE \E t \in Tabs : stored' = session'[t]
      BY <1>1, <1>2, <2>3 DEF OfItsUser
    <2> QED BY <1>0, <2>2, <2>3, StorageSteps DEF StorageStep
  <1>3. ASSUME NEW d \in Tabs PROVE ForItsUser(d)'
    <2> SUFFICES ASSUME ~crossed', refreshing'[d] # 0, session'[d] # NoSession
                 PROVE  issued'[refreshing'[d]] = session'[d].user
      BY DEF ForItsUser, SignedIn
    <2>0. ~crossed /\ OfItsUser(session[d]) /\ ForItsUser(d) /\ refreshing[d] \in Pairs \cup {0}
      BY <1>0, <1>h DEF Inv, Types
    <2>1. CASE Starts(d)
      BY <2>0, <2>1, <1>h, <1>s DEF Starts, OfItsUser, SignedIn
    <2>2. CASE Stays(d)
      BY <2>0, <2>2, <1>h DEF Stays, ForItsUser, SignedIn
    <2>3. ~Enters(d) /\ ~Leaves(d) /\ ~Reloads(d) /\ ~Renews(d)
      BY DEF Enters, Leaves, Reloads, Renews
    <2> QED BY <1>0, <2>1, <2>2, <2>3, TabSteps DEF TabStep
  <1>4. ASSUME NEW q \in Requests PROVE OfItsTab(q)'
    <2> DEFINE d == TabOf[q]
    <2> SUFFICES ASSUME IsUnderWay(q)', q \notin excused'
                 PROVE  session'[d] # NoSession /\ session'[d].user = sender'[q]
      BY DEF OfItsTab, SignedIn
    <2>0. d \in Tabs /\ OfItsTab(q) /\ q \notin excused
      BY <1>h, <1>r DEF Inv
    <2>1. CASE Sends(q)
      BY <2>1 DEF Sends, SignedIn
    <2>2. CASE Repeats(q) \/ Moves(q)
      <3>1. IsUnderWay(q) /\ sender'[q] = sender[q]
        BY <2>2 DEF Repeats, Moves, Fails, IsUnderWay
      <3>2. SignedIn(d) /\ session[d].user = sender[q] /\ q \in UnderWay(d)
        BY <2>0, <3>1 DEF OfItsTab, IsUnderWay, UnderWay, RequestsOf
      <3>3. CASE Renews(d)
        <4>1. session'[d].user = session[d].user /\ session'[d].pair # 0
          BY <1>0, <3>3 DEF Renews, Renewed, Pairs
        <4> QED BY <3>1, <3>2, <4>1 DEF NoSession
      <3>4. CASE Starts(d) \/ Stays(d)
        BY <3>1, <3>2, <3>4 DEF Starts, Stays, SignedIn
      <3>5. ~Enters(d) /\ ~Leaves(d)
        BY <3>2 DEF Enters, Leaves
      <3>6. ~Reloads(d)
        BY <3>2 DEF Reloads, IsUnderWay
      <3> QED BY <1>0, <2>0, <3>3, <3>4, <3>5, <3>6, TabSteps DEF TabStep
    <2> QED BY <1>0, <2>1, <2>2, RequestSteps DEF RequestStep
  <1>5. ASSUME NEW q \in Requests PROVE Carries(q)'
    <2> DEFINE d == TabOf[q]
    <2>0. /\ d \in Tabs /\ OfItsTab(q) /\ Carries(q) /\ ForItsUser(d)
          /\ token[q] \in Pairs \cup {0}
      BY <1>0, <1>r DEF Inv, Types
    <2>1. CASE Sends(q)
      <3>1. token'[q] \in Pairs /\ token'[q] # 0
        BY <1>s, <2>0, <2>1 DEF Sends
      <3>2. ASSUME ~crossed' PROVE issued'[token'[q]] = sender'[q]
        <4>1. OfItsUser(session[d])
          BY <1>h, <2>0, <3>2 DEF Inv
        <4> QED BY <1>h, <2>1, <3>1, <4>1 DEF Sends, OfItsUser, SignedIn
      <3> QED BY <3>1, <3>2 DEF Carries
    <2>2. CASE Repeats(q)
      <3>1. token'[q] # 0
        BY <2>2 DEF Repeats
      <3>2. ASSUME ~crossed', q \notin excused' PROVE issued'[token'[q]] = sender'[q]
        <4>1. SignedIn(d) /\ session[d].user = sender[q]
          BY <2>0, <2>2, <3>2 DEF Repeats, OfItsTab, IsUnderWay
        <4>2. issued[refreshing[d]] = session[d].user
          BY <2>0, <2>2, <3>2, <4>1 DEF Repeats, ForItsUser
        <4> QED BY <2>2, <4>1, <4>2 DEF Repeats
      <3> QED BY <3>1, <3>2 DEF Carries
    <2>3. CASE Moves(q)
      <3>1. token'[q] = token[q] /\ sender'[q] = sender[q]
            /\ (stage'[q] # "new" => stage[q] # "new")
        BY <2>3 DEF Moves, Fails, IsUnderWay
      <3> QED BY <1>h, <2>0, <3>1 DEF Carries
    <2> QED BY <1>0, <2>1, <2>2, <2>3, RequestSteps DEF RequestStep
  <1>6. ASSUME NEW q \in Requests PROVE Retried(q)'
    <2>0. /\ OfItsTab(q) /\ Retried(q) /\ asked[q] \in Pairs \cup {0} /\ token[q] \in Nat
          /\ deadAccess \in Nat
      BY <1>0 DEF Inv, Types, Pairs
    <2>1. CASE Sends(q)
      BY <2>1 DEF Sends, Retried
    <2>2. CASE Repeats(q)
      BY <2>0, <2>2 DEF Repeats, Retried
    <2>3. CASE Moves(q)
      <3>1. token'[q] = token[q] /\ asked'[q] = asked[q]
        BY <2>3 DEF Moves
      <3>2. token[q] <= deadAccess => token[q] <= deadAccess'
        BY <1>h, <2>0
      <3>3. CASE stage'[q] = stage[q]
        BY <1>h, <2>0, <3>1, <3>2, <3>3 DEF Retried
      <3>4. CASE stage'[q] \in {"waiting", "ok", "dropped"}
        BY <3>4 DEF Retried
      <3>5. CASE Fails(q)
        <4>1. ~SignedIn(TabOf[q]) => q \in excused'
          BY <1>h, <2>0, <3>5 DEF Fails, OfItsTab
        <4>2. stage[q] = "resent" => token[q] # asked[q]
          BY <2>0 DEF Retried
        <4> QED BY <3>1, <3>2, <3>5, <4>1, <4>2 DEF Fails, Retried
      <3> QED BY <2>3, <3>3, <3>4, <3>5 DEF Moves
    <2> QED BY <1>0, <2>1, <2>2, <2>3, RequestSteps DEF RequestStep
  <1>7. StoredIsHeld'
    BY <1>0, StorageSteps DEF Inv, StoredIsHeld, StorageStep
  <1> QED BY <1>0, <1>1, <1>2, <1>3, <1>4, <1>5, <1>6, <1>7 DEF Inv

LEMMA InvHolds == Spec => []Inv
  BY InitInv, NextInv, PTL DEF Spec

\* Type correctness: a session, a refresh or a request holds a pair that was
\* issued, and a session of nobody holds none.
THEOREM TypeCorrect == Spec => []Types
  <1>1. Inv => Types
    BY DEF Inv
  <1> QED BY <1>1, InvHolds, PTL

\* User and tokens belong together, in every tab, in local storage and in a
\* request repeated by the interceptor, unless somebody has signed in while the
\* refresh of an earlier session of the same tab was under way.
THEOREM WholeSessions == Spec => []SessionsAreWhole
  <1>1. Inv => SessionsAreWhole
    BY DEF Inv, SessionsAreWhole, Carries
  <1> QED BY <1>1, InvHolds, PTL

\* Local storage never outlives the sessions: some tab holds what is stored.
THEOREM StoredHeld == Spec => []StoredIsHeld
  <1>1. Inv => StoredIsHeld
    BY DEF Inv
  <1> QED BY <1>1, InvHolds, PTL

\* However many requests of a tab meet an expired token at once, none fails that
\* could have been answered.
THEOREM RefreshTransparent == Spec => []RefreshIsTransparent
  <1>1. Inv => RefreshIsTransparent
    BY DEF Inv, RefreshIsTransparent, Retried
  <1> QED BY <1>1, InvHolds, PTL
=============================================================================
