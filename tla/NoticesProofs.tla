---------------------------- MODULE NoticesProofs ----------------------------
(***************************************************************************)
(* The notifications in the browser.  First the socket: for any number of  *)
(* events and faults, and any capacity and limit, an event is taken for    *)
(* new once, and none is skipped.  Then the list: it has no holes, for any *)
(* size of page, whatever sizes the cached pages have and however many     *)
(* videos are shared while the pages are read.                             *)
(***************************************************************************)
EXTENDS Notices, Feed, Integers, WellFoundedInduction, TLAPS

(***************************************************************************)
(* Part 1: the socket.                                                     *)
(***************************************************************************)

Tabs ==
  [seen : Seq(Nat), cursor : Nat, stored : Nat, recent : Seq(Nat), handled : SUBSET Nat]

Conns == [state : {"none", "joined", "live"}, asked : Nat, backlog : Seq(Nat), next : Nat]
Calls == [since : Nat, ok : BOOLEAN, left : BOOLEAN, seen : Seq(Nat)]

Types ==
  /\ published \in Nat
  /\ session \in {"none", "fresh", "expired"} /\ mounted \in BOOLEAN
  /\ socket \in {"off", "connecting", "open", "waiting"}
  /\ conn \in Conns
  /\ tab \in Tabs
  /\ recovering \subseteq Calls
  /\ lossy \in BOOLEAN

\* What a page remembers it has handled, and what it has handled was published.
Known(t, n) ==
  /\ t \in Tabs
  /\ ToSet(t.seen) \subseteq t.handled
  /\ t.handled \subseteq 1..n
  /\ {t.cursor, t.stored} \subseteq t.handled \cup {0}
  /\ t.handled # {} => t.cursor # 0 /\ t.stored # 0

Distinct(s) == \A i, j \in DOMAIN s : s[i] = s[j] => i = j

\* The seen set is the end of what the page took for new.
Matches(t) ==
  /\ Distinct(t.recent)
  /\ t.seen = LastOf(t.recent, SeenCap)
  /\ Len(t.recent) <= SeenCap + 1

\* The events handled have no gap.
Gapless(S) == \A i, j \in S : i..j \subseteq S

\* A recovery asks from an event that was handled.
Recoveries ==
  \A r \in recovering : r.since \in tab.handled /\ ToSet(r.seen) \subseteq tab.handled

\* There is a socket only while its user looks at a private page.
Sockets ==
  /\ socket \in {"off", "waiting"} => conn = NoConn
  /\ ~mounted \/ session = "none" => socket = "off"

\* The server's end of a connection: it was dialled with an event that had been
\* handled, if any, and sends live events from there on at the earliest.
Dialled ==
  /\ conn.asked \in tab.handled \cup {0}
  /\ conn.state # "live" => conn.backlog = <<>>
  /\ conn.state # "none" => conn.asked <= conn.next /\ conn.next \in 1..published + 1
  /\ ToSet(conn.backlog) \subseteq 1..published

\* The backlog b continues what was handled, up to the live events at least.
Continues(b) ==
  /\ \A i \in 1..Len(b) - 1 : b[i + 1] = b[i] + 1
  /\ conn.next <= b[Len(b)] + 1
  /\ conn.asked < b[1]
  /\ conn.asked..b[1] - 1 \subseteq tab.handled

\* A connection that was dialled with no event sends the first one there is to
\* handle; another one closes the gap up to the live events with its backlog.
Sends ==
  /\ conn.asked = 0 /\ socket \in {"connecting", "open"} /\ conn.state # "live" =>
       tab.handled = {}
  /\ conn.asked = 0 /\ conn.state = "live" =>
       /\ conn.backlog = <<>>
       /\ tab.handled = {} \/ conn.next - 1 \in tab.handled
  /\ conn.asked # 0 /\ conn.state = "live" /\ conn.backlog = <<>> =>
       conn.asked..conn.next - 1 \subseteq tab.handled
  /\ conn.backlog # <<>> => Continues(conn.backlog)

Complete == Gapless(tab.handled) /\ Sends

Inv ==
  /\ Types
  /\ Known(tab, published) /\ Matches(tab)
  /\ Recoveries /\ Sockets /\ Dialled
  /\ ~lossy => Complete

-----------------------------------------------------------------------------
(* Induction, and the loop of recoverViaHttp.                              *)

LEMMA Induction ==
  ASSUME NEW S \in SUBSET Nat, 0 \in S, \A n \in S : n + 1 \in S
  PROVE  S = Nat
  <1> DEFINE R == OpToRel(<, Nat)
  <1> SUFFICES ASSUME Nat \ S # {} PROVE FALSE
    OBVIOUS
  <1>1. IsWellFoundedOn(R, Nat)
    BY NatLessThanWellFounded
  <1>2. R = {ss \in Nat \X Nat : ss[1] < ss[2]}
    BY DEF OpToRel
  <1> HIDE DEF R
  <1>3. PICK x \in Nat \ S : \A y \in Nat \ S : ~ (<<y, x>> \in R)
    BY <1>1, WFMin
  <1>4. x # 0 /\ x - 1 \in Nat /\ x - 1 < x
    BY <1>3
  <1>5. <<x - 1, x>> \in R
    BY <1>2, <1>4
  <1>6. x - 1 \in S
    BY <1>3, <1>4, <1>5
  <1> QED BY <1>4, <1>6

\* f is what the page remembers before the first, after the first, ... event.
IsRun(f, t, events, n) ==
  f = [i \in 0..n |-> IF i = 0 THEN t ELSE Handle(f[i - 1], events[i])]

LEMMA RunExists ==
  ASSUME NEW t, NEW events, NEW n \in Nat
  PROVE  \E f : IsRun(f, t, events, n)
  <1> DEFINE S == {m \in Nat : \E f : IsRun(f, t, events, m)}
  <1>1. 0 \in S
    <2> DEFINE f == [i \in 0..0 |-> t]
    <2>1. IsRun(f, t, events, 0)
      BY DEF IsRun
    <2> QED BY <2>1
  <1>2. ASSUME NEW m \in S PROVE m + 1 \in S
    <2>1. PICK f : IsRun(f, t, events, m)
      OBVIOUS
    <2> DEFINE g == [i \in 0..(m + 1) |-> IF i = m + 1 THEN Handle(f[m], events[m + 1]) ELSE f[i]]
    <2>2. m \in Nat
      OBVIOUS
    <2>3. \A i \in 0..m : f[i] = IF i = 0 THEN t ELSE Handle(f[i - 1], events[i])
      BY <2>1 DEF IsRun
    <2>4. \A i \in 0..m : g[i] = f[i]
      BY <2>2
    <2>5. g[m + 1] = Handle(f[m], events[m + 1])
      BY <2>2
    <2>6. DOMAIN g = 0..(m + 1) /\ g = [i \in DOMAIN g |-> g[i]]
      OBVIOUS
    <2> HIDE DEF g
    <2>7. ASSUME NEW i \in 0..(m + 1)
          PROVE  g[i] = IF i = 0 THEN t ELSE Handle(g[i - 1], events[i])
      <3>1. CASE i = 0
        <4>1. i \in 0..m
          BY <2>2, <3>1
        <4> QED BY <2>3, <2>4, <3>1, <4>1
      <3>2. CASE i = m + 1
        <4>1. i - 1 = m /\ m \in 0..m /\ i # 0
          BY <2>2, <3>2
        <4> QED BY <2>4, <2>5, <3>2, <4>1
      <3>3. CASE i # 0 /\ i # m + 1
        <4>1. i \in 0..m /\ i - 1 \in 0..m
          BY <2>2, <3>3
        <4> QED BY <2>3, <2>4, <3>3, <4>1
      <3> QED BY <3>1, <3>2, <3>3
    <2>8. IsRun(g, t, events, m + 1)
      BY <2>6, <2>7 DEF IsRun
    <2> QED BY <2>2, <2>8
  <1> HIDE DEF S
  <1>3. S = Nat
    <2>1. S \in SUBSET Nat
      BY DEF S
    <2> QED BY <1>1, <1>2, <2>1, Induction
  <1> QED BY <1>3 DEF S

LEMMA HandleAllRuns ==
  ASSUME NEW t, NEW events, Len(events) \in Nat
  PROVE  \E f : IsRun(f, t, events, Len(events)) /\ HandleAll(t, events) = f[Len(events)]
  <1> DEFINE f == CHOOSE after : after = [i \in 0..Len(events) |->
                    IF i = 0 THEN t ELSE Handle(after[i - 1], events[i])]
  <1>0. PICK h : IsRun(h, t, events, Len(events))
    BY RunExists
  <1>1. h = [i \in 0..Len(events) |-> IF i = 0 THEN t ELSE Handle(h[i - 1], events[i])]
    BY <1>0 DEF IsRun
  <1>2. f = [i \in 0..Len(events) |-> IF i = 0 THEN t ELSE Handle(f[i - 1], events[i])]
    BY <1>1
  <1>3. HandleAll(t, events) = f[Len(events)]
    BY DEF HandleAll
  <1> HIDE DEF f
  <1> QED BY <1>2, <1>3 DEF IsRun

-----------------------------------------------------------------------------
(* handleEvent.                                                            *)

LEMMA CapIsPositive == SeenCap \in Nat \ {0} /\ ReplayLimit \in Nat \ {0}
  BY NoticesAssumption

LEMMA Appended ==
  ASSUME NEW S, NEW s \in Seq(S), NEW e \in S
  PROVE  /\ Append(s, e) \in Seq(S) /\ Len(Append(s, e)) = Len(s) + 1
         /\ Append(s, e)[Len(s) + 1] = e
         /\ \A i \in 1..Len(s) : Append(s, e)[i] = s[i]
         /\ ToSet(Append(s, e)) = ToSet(s) \cup {e}
  <1>1. /\ Len(s) \in Nat /\ Append(s, e) \in Seq(S)
        /\ Len(Append(s, e)) = Len(s) + 1
        /\ Append(s, e)[Len(s) + 1] = e
        /\ DOMAIN s = 1..Len(s) /\ DOMAIN Append(s, e) = 1..Len(s) + 1
    OBVIOUS
  <1>2. \A i \in 1..Len(s) : Append(s, e)[i] = s[i]
    OBVIOUS
  <1>3. 1..Len(s) + 1 = 1..Len(s) \cup {Len(s) + 1}
    BY <1>1
  <1> DEFINE a == Append(s, e)
             n == Len(s)
  <1>4. {a[i] : i \in 1..n \cup {n + 1}} = {s[i] : i \in 1..n} \cup {e}
    <2>1. a[n + 1] = e /\ \A i \in 1..n : a[i] = s[i]
      BY <1>1, <1>2
    <2> HIDE DEF a, n
    <2> QED BY <2>1
  <1>5. ToSet(a) = ToSet(s) \cup {e}
    BY <1>1, <1>3, <1>4 DEF ToSet
  <1> QED BY <1>1, <1>2, <1>5

\* What is left of a sequence that is cut at the front.
LEMMA CutFront ==
  ASSUME NEW s \in Seq(Nat), NEW n \in Nat \ {0}
  PROVE  /\ LastOf(s, n) \in Seq(Nat)
         /\ ToSet(LastOf(s, n)) \subseteq ToSet(s)
         /\ Distinct(s) => Distinct(LastOf(s, n))
  <1>1. CASE Len(s) <= n
    <2>1. LastOf(s, n) = s
      BY <1>1 DEF LastOf
    <2> QED BY <2>1
  <1>2. CASE Len(s) > n
    <2> DEFINE u == Tail(s)
               k == Len(s)
    <2>1. LastOf(s, n) = u
      BY <1>2 DEF LastOf
    <2>2. /\ k \in Nat /\ k > 0 /\ u \in Seq(Nat) /\ DOMAIN s = 1..k /\ DOMAIN u = 1..k - 1
          /\ \A i \in 1..k - 1 : u[i] = s[i + 1]
      BY <1>2
    <2> HIDE DEF u, k
    <2>3. \A i \in 1..k - 1 : i + 1 \in 1..k
      BY <2>2
    <2>4. {u[i] : i \in 1..k - 1} \subseteq {s[i] : i \in 1..k}
      BY <2>2, <2>3
    <2>5. ASSUME Distinct(s), NEW i \in 1..k - 1, NEW j \in 1..k - 1, u[i] = u[j]
          PROVE  i = j
      <3>1. s[i + 1] = s[j + 1]
        BY <2>2, <2>5
      <3>2. i + 1 = j + 1
        BY <2>2, <2>3, <2>5, <3>1 DEF Distinct
      <3> QED BY <2>2, <3>2
    <2> QED BY <2>1, <2>2, <2>4, <2>5 DEF ToSet, Distinct
  <1>3. Len(s) \in Nat
    OBVIOUS
  <1> QED BY <1>1, <1>2, <1>3

\* An event that is not among the seen ones is added at the end of both.
LEMMA Remembered ==
  ASSUME NEW t \in Tabs, Matches(t), NEW e \in Nat, e \notin ToSet(t.seen)
  PROVE  LET r == LastOf(Append(t.recent, e), SeenCap + 1) IN
           /\ r = Append(t.seen, e)
           /\ Distinct(r)
           /\ Len(r) <= SeenCap + 1
  <1> DEFINE s == t.seen
             h == t.recent
             n == SeenCap
             k == Len(h)
  <1>0. h \in Seq(Nat) /\ s \in Seq(Nat) /\ n \in Nat \ {0} /\ k \in Nat /\ k <= n + 1
    BY CapIsPositive DEF Tabs, Matches
  <1>h. Distinct(h) /\ s = LastOf(h, n)
    BY DEF Matches
  <1> HIDE DEF s, h, n
  <1>1. Distinct(s) /\ s = LastOf(h, n)
    BY <1>0, <1>h, CutFront
  <1>2. LastOf(Append(h, e), n + 1) = Append(s, e) /\ Len(Append(s, e)) <= n + 1
    <2>1. Len(Append(h, e)) = k + 1
      BY <1>0
    <2>2. CASE k <= n
      <3>1. s = h
        BY <1>0, <1>1, <2>2 DEF LastOf
      <3>2. ~(k + 1 > n + 1) /\ k + 1 <= n + 1
        BY <1>0, <2>2
      <3> QED BY <2>1, <3>1, <3>2 DEF LastOf
    <2>3. CASE k = n + 1
      <3>1. s = Tail(h) /\ k > 0 /\ k + 1 > n + 1
        BY <1>0, <1>1, <2>3 DEF LastOf
      <3>2. Tail(Append(h, e)) = Append(Tail(h), e)
        BY <1>0, <3>1
      <3>3. Len(Append(Tail(h), e)) = k
        BY <1>0, <3>1
      <3> QED BY <1>0, <2>1, <2>3, <3>1, <3>2, <3>3 DEF LastOf
    <2> QED BY <1>0, <2>2, <2>3
  <1>3. Distinct(Append(s, e))
    <2> DEFINE a == Append(s, e)
               m == Len(s)
    <2>1. /\ a[m + 1] = e /\ \A i \in 1..m : a[i] = s[i]
          /\ DOMAIN a = 1..m + 1 /\ DOMAIN s = 1..m /\ m \in Nat
      BY <1>0, Appended
    <2>2. \A i \in 1..m : s[i] # e
      BY <2>1 DEF ToSet, s
    <2> HIDE DEF a, m
    <2>3. \A i \in 1..m + 1 : i \in 1..m \/ i = m + 1
      BY <2>1
    <2> QED BY <1>1, <2>1, <2>2, <2>3 DEF Distinct
  <1> QED BY <1>2, <1>3 DEF s, h, n

\* One event: it is handled, now or before.
LEMMA Handled ==
  ASSUME NEW p \in Nat, NEW t, Known(t, p), NEW e \in 1..p
  PROVE  /\ Known(Handle(t, e), p)
         /\ Handle(t, e).handled = t.handled \cup {e}
         /\ Matches(t) => Matches(Handle(t, e))
  <1> DEFINE s == LastOf(Append(t.seen, e), SeenCap)
             r == LastOf(Append(t.recent, e), SeenCap + 1)
             h == t.handled \cup {e}
             new == [seen |-> s, cursor |-> e, stored |-> e, recent |-> r, handled |-> h]
  <1>0. t \in Tabs /\ e \in Nat /\ e # 0
    BY DEF Known
  <1>1. CASE e \in ToSet(t.seen)
    <2>1. Handle(t, e) = t /\ e \in t.handled
      BY <1>1 DEF Handle, Known
    <2> QED BY <2>1
  <1>2. CASE e \notin ToSet(t.seen)
    <2>1. Handle(t, e) = new
      BY <1>0, <1>2 DEF Handle, Tabs
    <2>2. /\ t.seen \in Seq(Nat) /\ t.recent \in Seq(Nat) /\ t.handled \in SUBSET Nat
          /\ SeenCap \in Nat \ {0} /\ SeenCap + 1 \in Nat \ {0}
      BY <1>0, CapIsPositive DEF Tabs
    <2>3. /\ Append(t.seen, e) \in Seq(Nat) /\ Append(t.recent, e) \in Seq(Nat)
          /\ ToSet(Append(t.seen, e)) = ToSet(t.seen) \cup {e}
      BY <1>0, <2>2, Appended
    <2>4. /\ s \in Seq(Nat) /\ r \in Seq(Nat) /\ h \in SUBSET Nat
          /\ ToSet(s) \subseteq h
      <3>1. s \in Seq(Nat) /\ ToSet(s) \subseteq ToSet(t.seen) \cup {e}
        BY <2>2, <2>3, CutFront
      <3>2. r \in Seq(Nat)
        BY <2>2, <2>3, CutFront
      <3> QED BY <1>0, <2>2, <3>1, <3>2 DEF Known
    <2>5. Matches(t) => Distinct(r) /\ Len(r) <= SeenCap + 1 /\ s = LastOf(r, SeenCap)
      BY <1>0, <1>2, Remembered
    <2>6. h \subseteq 1..p
      BY DEF Known
    <2> HIDE DEF s, r, h
    <2>7. Known(new, p)
      BY <1>0, <2>4, <2>6 DEF Known, Tabs, h
    <2>8. Matches(t) => Matches(new)
      BY <2>5 DEF Matches
    <2> QED BY <2>1, <2>7, <2>8 DEF h
  <1> QED BY <1>1, <1>2

\* All events of an answer.
LEMMA AllHandled ==
  ASSUME NEW p \in Nat, NEW t, Known(t, p),
         NEW events \in Seq(Nat), ToSet(events) \subseteq 1..p
  PROVE  /\ Known(HandleAll(t, events), p)
         /\ HandleAll(t, events).handled = t.handled \cup ToSet(events)
         /\ Matches(t) => Matches(HandleAll(t, events))
  <1> DEFINE n == Len(events)
  <1>0. n \in Nat /\ DOMAIN events = 1..n
    OBVIOUS
  <1>1. PICK f : IsRun(f, t, events, n) /\ HandleAll(t, events) = f[n]
    BY <1>0, HandleAllRuns
  <1>2. \A i \in 0..n : f[i] = IF i = 0 THEN t ELSE Handle(f[i - 1], events[i])
    BY <1>1 DEF IsRun
  <1>3. \A i \in 1..n : events[i] \in 1..p
    BY <1>0 DEF ToSet
  <1> HIDE DEF n
  <1> DEFINE First(i) == {events[j] : j \in 1..i}
             Good(i) == /\ Known(f[i], p)
                        /\ f[i].handled = t.handled \cup First(i)
                        /\ Matches(t) => Matches(f[i])
             S == {i \in Nat : i <= n => Good(i)}
  <1>4. 0 \in S
    <2>1. f[0] = t
      BY <1>0, <1>2
    <2>2. First(0) = {}
      OBVIOUS
    <2> HIDE DEF First
    <2> QED BY <2>1, <2>2
  <1>5. ASSUME NEW i \in S PROVE i + 1 \in S
    <2>0. i \in Nat /\ (i <= n => Good(i))
      OBVIOUS
    <2> HIDE DEF S
    <2> SUFFICES ASSUME i + 1 <= n PROVE Good(i + 1)
      BY <2>0 DEF S
    <2>t. i \in Nat
      BY <2>0
    <2>1. i + 1 \in 0..n /\ i + 1 \in 1..n /\ i + 1 # 0 /\ i <= n
      BY <1>0, <2>t
    <2>2. f[i + 1] = Handle(f[i], events[i + 1]) /\ events[i + 1] \in 1..p
      <3> DEFINE j == i + 1
      <3>1. j \in 0..n /\ j \in 1..n /\ j # 0 /\ j - 1 = i
        BY <1>0, <2>t, <2>1
      <3> HIDE DEF j
      <3>2. f[j] = Handle(f[j - 1], events[j])
        BY <1>2, <3>1
      <3>3. f[j] = Handle(f[i], events[j]) /\ events[j] \in 1..p
        BY <1>3, <3>1, <3>2
      <3> QED BY <3>3 DEF j
    <2>3. First(i + 1) = First(i) \cup {events[i + 1]}
      <3>1. 1..(i + 1) = 1..i \cup {i + 1}
        BY <2>0
      <3> QED BY <3>1
    <2> HIDE DEF First
    <2>4. Good(i)
      BY <2>0, <2>1
    <2>5. /\ Known(f[i + 1], p)
          /\ f[i + 1].handled = f[i].handled \cup {events[i + 1]}
          /\ Matches(f[i]) => Matches(f[i + 1])
      <3> DEFINE u == f[i]
                 e == events[i + 1]
      <3>1. Known(u, p) /\ e \in 1..p /\ f[i + 1] = Handle(u, e)
        BY <2>2, <2>4
      <3> HIDE DEF u, e
      <3>2. /\ Known(Handle(u, e), p) /\ Handle(u, e).handled = u.handled \cup {e}
            /\ Matches(u) => Matches(Handle(u, e))
        BY <3>1, Handled
      <3>3. /\ Known(f[i + 1], p) /\ f[i + 1].handled = u.handled \cup {e}
            /\ Matches(u) => Matches(f[i + 1])
        BY <3>1, <3>2
      <3> QED BY <3>3 DEF u, e
    <2> QED BY <2>3, <2>4, <2>5
  <1>6. S = Nat
    <2>1. S \in SUBSET Nat
      OBVIOUS
    <2> HIDE DEF S
    <2> QED BY <1>4, <1>5, <2>1, Induction
  <1>7. Good(n)
    <2>1. n \in S /\ n <= n
      BY <1>0, <1>6
    <2> QED BY <2>1
  <1>8. First(n) = ToSet(events)
    BY <1>0 DEF ToSet
  <1> HIDE DEF First
  <1> QED BY <1>1, <1>7, <1>8

-----------------------------------------------------------------------------
(* The page.                                                               *)

\* An answer of the log: the events after e, without a gap.
LEMMA NewerEvents ==
  ASSUME published \in Nat, NEW e \in 0..published
  PROVE  LET m == Len(Newer(e)) IN
           /\ Newer(e) \in Seq(Nat) /\ m \in Nat /\ e + m <= published
           /\ \A i \in 1..m : Newer(e)[i] = e + i
           /\ ToSet(Newer(e)) = e + 1..e + m
           /\ published - e <= ReplayLimit => e + m = published
  <1> DEFINE m == IF published - e < ReplayLimit THEN published - e ELSE ReplayLimit
  <1>1. /\ m \in Nat /\ e \in Nat /\ e + m <= published
        /\ published - e <= ReplayLimit => e + m = published
    BY CapIsPositive
  <1>2. Newer(e) = [i \in 1..m |-> e + i]
    BY DEF Newer
  <1> HIDE DEF m
  <1>3. Newer(e) \in Seq(Nat) /\ Len(Newer(e)) = m /\ DOMAIN Newer(e) = 1..m
    <2>1. \A i \in 1..m : e + i \in Nat
      BY <1>1
    <2> QED BY <1>1, <1>2, <2>1
  <1>4. {e + i : i \in 1..m} = e + 1..e + m
    <2>1. ASSUME NEW x \in e + 1..e + m PROVE \E i \in 1..m : x = e + i
      <3>1. x - e \in 1..m /\ x = e + (x - e)
        BY <1>1
      <3> QED BY <3>1
    <2>2. \A i \in 1..m : e + i \in e + 1..e + m
      BY <1>1
    <2> QED BY <2>1, <2>2
  <1>5. ToSet(Newer(e)) = e + 1..e + m
    BY <1>2, <1>3, <1>4 DEF ToSet
  <1> QED BY <1>1, <1>2, <1>3, <1>5

\* A page that has just been loaded knows what was stored.
LEMMA PageLoaded ==
  ASSUME NEW p \in Nat, NEW t, Known(t, p)
  PROVE  /\ Known(FreshPage(t), p) /\ Matches(FreshPage(t))
         /\ FreshPage(t).handled = t.handled /\ FreshPage(t).cursor = t.stored
  <1> DEFINE new == FreshPage(t)
  <1>0. t \in Tabs /\ t.stored \in Nat /\ <<>> \in Seq(Nat)
    BY DEF Known, Tabs
  <1>1. /\ new \in Tabs
        /\ new.seen = <<>> /\ new.recent = <<>> /\ new.handled = t.handled
        /\ new.cursor = t.stored /\ new.stored = t.stored
    BY <1>0 DEF FreshPage, Tabs
  <1> HIDE DEF new
  <1>2. Known(new, p)
    BY <1>1 DEF Known, ToSet
  <1>3. Matches(new)
    BY <1>1, CapIsPositive DEF Matches, Distinct, LastOf
  <1> QED BY <1>1, <1>2, <1>3 DEF new

\* recoverViaHttp, for the page that is shown or one that was left.
LEMMA Recovered ==
  ASSUME Types, Known(tab, published), Matches(tab), Recoveries,
         NEW r \in recovering, RecoveryAnswered(r)
  PROVE  /\ Known(tab', published) /\ Matches(tab')
         /\ tab'.handled = tab.handled \cup ToSet(Newer(r.since))
         /\ r.since \in tab.handled
  <1> DEFINE events == Newer(r.since)
  <1>0. published \in Nat /\ r.since \in tab.handled /\ ToSet(r.seen) \subseteq tab.handled
        /\ r.seen \in Seq(Nat)
    BY DEF Types, Calls, Recoveries
  <1>1. r.since \in 1..published
    BY <1>0 DEF Known
  <1>2. events \in Seq(Nat) /\ ToSet(events) \subseteq 1..published
    <2>1. r.since \in 0..published /\ r.since \in Nat
      BY <1>0, <1>1
    <2>2. /\ events \in Seq(Nat) /\ Len(events) \in Nat
          /\ r.since + Len(events) <= published
          /\ ToSet(events) = r.since + 1..r.since + Len(events)
      BY <1>0, <2>1, NewerEvents
    <2> HIDE DEF events
    <2> QED BY <1>0, <2>1, <2>2
  <1> HIDE DEF events
  <1>3. CASE ~r.left
    <2>1. tab' = HandleAll(tab, events)
      BY <1>3 DEF RecoveryAnswered, events
    <2> QED BY <1>0, <1>2, <2>1, AllHandled DEF events
  <1>4. CASE r.left
    <2> DEFINE t0 == [tab EXCEPT !.seen = r.seen]
               t1 == HandleAll(t0, events)
    <2>1. Known(t0, published) /\ t0.handled = tab.handled
      BY <1>0 DEF Known, Tabs
    <2>2. tab' = [tab EXCEPT !.stored = t1.stored, !.handled = t1.handled]
      BY <1>4 DEF RecoveryAnswered, events
    <2> HIDE DEF t0
    <2>3. Known(t1, published) /\ t1.handled = tab.handled \cup ToSet(events)
      BY <1>0, <1>2, <2>1, AllHandled
    <2> HIDE DEF t1
    <2>4. tab \in Tabs /\ t1 \in Tabs
      BY <2>3 DEF Known
    <2>5. /\ tab' \in Tabs /\ tab'.seen = tab.seen /\ tab'.cursor = tab.cursor
          /\ tab'.stored = t1.stored /\ tab'.recent = tab.recent /\ tab'.handled = t1.handled
      BY <2>2, <2>4 DEF Tabs
    <2>6. Known(tab', published)
      BY <1>0, <2>3, <2>5 DEF Known
    <2>7. Matches(tab')
      BY <2>5 DEF Matches
    <2> QED BY <1>0, <2>3, <2>5, <2>6, <2>7 DEF events
  <1> QED BY <1>3, <1>4

\* A set without a gap, and the events that follow one of its own.
LEMMA GaplessGrows ==
  ASSUME NEW S \in SUBSET Nat, Gapless(S), NEW a \in S, NEW b \in Nat
  PROVE  Gapless(S \cup (a + 1..b))
  <1> SUFFICES ASSUME NEW i \in S \cup (a + 1..b), NEW j \in S \cup (a + 1..b), NEW x \in i..j
               PROVE  x \in S \cup (a + 1..b)
    BY DEF Gapless
  <1>0. a \in Nat /\ i \in Nat /\ j \in Nat /\ x \in Nat /\ i <= x /\ x <= j
    OBVIOUS
  <1>1. CASE x <= a
    <2>1. i \in S /\ x \in i..a
      BY <1>0, <1>1
    <2> QED BY <2>1 DEF Gapless
  <1>2. CASE a < x /\ x <= b
    BY <1>0, <1>2
  <1>3. CASE a < x /\ b < x
    <2>1. j \in S /\ x \in a..j
      BY <1>0, <1>3
    <2> QED BY <2>1 DEF Gapless
  <1> QED BY <1>0, <1>1, <1>2, <1>3

LEMMA GaplessNext ==
  ASSUME NEW S \in SUBSET Nat, Gapless(S), NEW e \in Nat, S = {} \/ e \in S \/ e - 1 \in S
  PROVE  Gapless(S \cup {e})
  <1>1. CASE S = {}
    BY <1>1 DEF Gapless
  <1>2. CASE e \in S
    <2>1. S \cup {e} = S
      BY <1>2
    <2> QED BY <2>1
  <1>3. CASE e - 1 \in S
    <2>1. (e - 1) + 1..e = {e}
      BY <1>3
    <2> QED BY <1>3, <2>1, GaplessGrows
  <1> QED BY <1>1, <1>2, <1>3

-----------------------------------------------------------------------------
(* The connection.                                                         *)

LEMMA ConnTypes ==
  ASSUME Types
  PROVE  /\ NoConn \in Conns
         /\ Dial(tab) => conn' \in Conns
         /\ tab' \in Tabs => (Dial(tab') => conn' \in Conns)
  <1>1. <<>> \in Seq(Nat)
    OBVIOUS
  <1>2. NoConn \in Conns
    BY <1>1 DEF NoConn, Conns
  <1>3. ASSUME NEW c \in Nat PROVE [NoConn EXCEPT !.asked = c] \in Conns
    BY <1>2 DEF Conns
  <1>4. Dial(tab) => conn' \in Conns
    <2>1. tab.cursor \in Nat
      BY DEF Tabs, Types
    <2> QED BY <1>3, <2>1 DEF Dial
  <1>5. tab' \in Tabs => (Dial(tab') => conn' \in Conns)
    <2>1. tab' \in Tabs => tab'.cursor \in Nat
      BY DEF Tabs
    <2> QED BY <1>3, <2>1 DEF Dial
  <1> QED BY <1>2, <1>4, <1>5

LEMMA NotConnected ==
  ASSUME conn' = NoConn, socket' \in {"off", "waiting"}
  PROVE  Dialled' /\ Sends'
  <1>1. /\ conn'.state = "none" /\ conn'.asked = 0 /\ conn'.backlog = <<>>
        /\ ToSet(<<>>) = {}
    BY DEF NoConn, ToSet
  <1> QED BY <1>1 DEF Dialled, Sends

LEMMA Dials ==
  ASSUME Known(tab, published)', Dial(tab')
  PROVE  Dialled' /\ Sends'
  <1>1. /\ conn'.state = "none" /\ conn'.asked = tab'.cursor /\ conn'.backlog = <<>>
        /\ ToSet(<<>>) = {}
    BY DEF Dial, NoConn, ToSet
  <1>2. tab'.cursor \in tab'.handled \cup {0} /\ (tab'.cursor = 0 => tab'.handled = {})
    BY DEF Known
  <1> QED BY <1>1, <1>2 DEF Dialled, Sends

\* A new session: the socket is dialled again, or there is none.
LEMMA SessionChanged ==
  ASSUME Inv, NEW s \in {"none", "fresh", "expired"}, SessionChanges(s),
         tab' = tab, published' = published, mounted' = mounted
  PROVE  Sockets' /\ Dialled' /\ Sends'
  <1>1. CASE mounted /\ s # "none"
    <2>1. Dial(tab') /\ Known(tab, published)' /\ socket' = "connecting" /\ session' = s
      BY <1>1 DEF SessionChanges, Dial, Inv
    <2>2. Sockets'
      BY <1>1, <2>1 DEF Sockets
    <2> QED BY <2>1, <2>2, Dials
  <1>2. CASE ~(mounted /\ s # "none")
    <2>1. conn' = NoConn /\ socket' = "off" /\ session' = s
      BY <1>2 DEF SessionChanges, HangUp
    <2>2. Sockets'
      BY <1>2, <2>1 DEF Sockets
    <2> QED BY <2>1, <2>2, NotConnected
  <1> QED BY <1>1, <1>2

\* The page and the log as they were: what is left to show of such a step.
LEMMA PageStays ==
  ASSUME Inv, Types', tab' = tab, published' = published, lossy' = lossy,
         Recoveries', Sockets', Dialled', Sends'
  PROVE  Inv'
  BY DEF Inv, Complete

\* The connection stays, too.
LEMMA ConnectionStays ==
  ASSUME Dialled, tab' = tab, published' = published, conn' = conn,
         socket' = socket \/ (socket = "connecting" /\ socket' = "open")
  PROVE  Dialled' /\ (Sends => Sends')
  BY DEF Dialled, Sends, Continues

-----------------------------------------------------------------------------
(* Steps that leave the page and the log alone.                            *)

LEMMA SessionSteps ==
  ASSUME Inv, SignIn \/ SignOut \/ RefreshElsewhere
          \/ \E r \in recovering : RecoveryDenied(r)
  PROVE  Inv'
  <1>1. /\ tab' = tab /\ published' = published /\ lossy' = lossy /\ mounted' = mounted
        /\ \E s \in {"none", "fresh"} : SessionChanges(s)
    BY DEF SignIn, SignOut, RefreshElsewhere, RecoveryDenied
  <1>2. PICK s \in {"none", "fresh"} : SessionChanges(s)
    BY <1>1
  <1>3. Sockets' /\ Dialled' /\ Sends'
    BY <1>1, <1>2, SessionChanged
  <1>4. recovering' \subseteq Calls /\ Recoveries'
    <2>1. recovering \subseteq Calls /\ Recoveries
      BY DEF Inv, Types
    <2>2. CASE recovering' = recovering
      BY <1>1, <2>1, <2>2 DEF Recoveries
    <2>3. ASSUME NEW r \in recovering, RecoveryDenied(r)
          PROVE  recovering' \subseteq Calls /\ Recoveries'
      <3> DEFINE again == [r EXCEPT !.ok = TRUE]
      <3>1. recovering' \subseteq recovering \cup {again}
        BY <2>3 DEF RecoveryDenied
      <3>2. again \in Calls /\ again.since = r.since /\ again.seen = r.seen
        BY <2>1 DEF Calls
      <3> HIDE DEF again
      <3> QED BY <1>1, <2>1, <3>1, <3>2 DEF Recoveries
    <2> QED BY <2>2, <2>3 DEF SignIn, SignOut, RefreshElsewhere
  <1>5. Types'
    <2>1. conn' \in Conns /\ socket' \in {"off", "connecting"}
      BY <1>2, ConnTypes DEF SessionChanges, HangUp, Dial, Inv
    <2> QED BY <1>1, <1>2, <1>4, <2>1 DEF SessionChanges, Types, Inv
  <1> QED BY <1>1, <1>3, <1>4, <1>5, PageStays

LEMMA SocketSteps ==
  ASSUME Inv, Reconnect \/ Refused \/ Lost \/ Broken
  PROVE  Inv'
  <1>0. Types /\ Sockets /\ Recoveries /\ Known(tab, published)
    BY DEF Inv
  <1>1. /\ tab' = tab /\ published' = published /\ lossy' = lossy
        /\ mounted' = mounted /\ session' = session /\ socket # "off"
    BY DEF Reconnect, Refused, Lost, CloseUnopened, Broken
  <1>2. recovering' \subseteq Calls /\ Recoveries'
    <2>1. CASE recovering' = recovering
      BY <1>0, <1>1, <2>1 DEF Types, Recoveries
    <2>2. CASE CloseUnopened
      <3> DEFINE call(c) == [since |-> c, ok |-> session = "fresh", left |-> FALSE, seen |-> <<>>]
      <3>1. recovering' = recovering \cup {call(c) : c \in {tab.cursor} \ {0}}
        BY <2>2 DEF CloseUnopened
      <3>2. ASSUME NEW c \in {tab.cursor} \ {0}
            PROVE  call(c) \in Calls /\ call(c).since \in tab.handled /\ ToSet(call(c).seen) = {}
        <4>1. c \in Nat /\ c \in tab.handled
          BY <1>0 DEF Known, Tabs
        <4>2. (session = "fresh") \in BOOLEAN /\ <<>> \in Seq(Nat) /\ ToSet(<<>>) = {}
          BY DEF ToSet
        <4> QED BY <4>1, <4>2 DEF Calls
      <3> HIDE DEF call
      <3> QED BY <1>0, <1>1, <3>1, <3>2 DEF Types, Recoveries
    <2> QED BY <2>1, <2>2 DEF Reconnect, Refused, Lost, Broken
  <1>3. CASE socket' = "waiting" /\ conn' = NoConn
    <2>1. Types' /\ Sockets'
      BY <1>0, <1>1, <1>2, <1>3, ConnTypes DEF Types, Sockets
    <2> QED BY <1>1, <1>2, <1>3, <2>1, NotConnected, PageStays
  <1>4. CASE Reconnect
    <2>1. Dial(tab') /\ Dial(tab) /\ socket' = "connecting" /\ Known(tab, published)'
      BY <1>0, <1>1, <1>4 DEF Reconnect, Dial
    <2>2. Types' /\ Sockets'
      BY <1>0, <1>1, <1>2, <2>1, ConnTypes DEF Types, Sockets
    <2> QED BY <1>1, <1>2, <2>1, <2>2, Dials, PageStays
  <1> QED BY <1>3, <1>4 DEF Refused, Lost, CloseUnopened, Broken

\* The page is left: the socket is closed, and the calls under way keep what the
\* page has seen.
LEMMA LeaveStep ==
  ASSUME Inv, Leave
  PROVE  Inv'
  <1>0. Types /\ Recoveries /\ Known(tab, published)
    BY DEF Inv
  <1>1. /\ UNCHANGED <<published, session, tab, lossy>>
        /\ mounted' = FALSE /\ socket' = "off" /\ conn' = NoConn
    BY DEF Leave, HangUp
  <1> DEFINE left(r) == IF r.left THEN r ELSE [r EXCEPT !.left = TRUE, !.seen = tab.seen]
  <1>2. recovering' = {left(r) : r \in recovering}
    BY DEF Leave
  <1>3. ASSUME NEW r \in recovering
        PROVE  left(r) \in Calls /\ left(r).since \in tab.handled
               /\ ToSet(left(r).seen) \subseteq tab.handled
    <2>1. r \in Calls /\ r.since \in tab.handled /\ ToSet(r.seen) \subseteq tab.handled
      BY <1>0 DEF Types, Recoveries
    <2>2. tab.seen \in Seq(Nat) /\ ToSet(tab.seen) \subseteq tab.handled
      BY <1>0 DEF Known, Tabs
    <2> QED BY <2>1, <2>2 DEF Calls
  <1> HIDE DEF left
  <1>4. recovering' \subseteq Calls /\ Recoveries'
    BY <1>1, <1>2, <1>3 DEF Recoveries
  <1>5. Types' /\ Sockets'
    BY <1>0, <1>1, <1>4, ConnTypes DEF Types, Sockets
  <1> QED BY <1>1, <1>4, <1>5, NotConnected, PageStays

LEMMA QuietSteps ==
  ASSUME Inv, Opened \/ Expire \/ UNCHANGED noticesVars
          \/ \E r \in recovering : RecoveryFails(r)
  PROVE  Inv'
  <1>0. Types /\ Sockets /\ Recoveries /\ Known(tab, published) /\ Dialled /\ (~lossy => Sends)
    BY DEF Inv, Complete
  <1>1. /\ tab' = tab /\ published' = published /\ lossy' = lossy /\ conn' = conn
        /\ socket' = socket \/ (socket = "connecting" /\ socket' = "open")
    BY DEF Opened, Expire, RecoveryFails, noticesVars
  <1>2. \/ session' = session /\ mounted' = mounted
        \/ session = "fresh" /\ session' = "expired" /\ mounted' = mounted
    BY DEF Opened, Expire, RecoveryFails, noticesVars
  <1>3. Sockets'
    BY <1>0, <1>1, <1>2 DEF Sockets
  <1>4. recovering' \subseteq Calls /\ Recoveries'
    <2>1. CASE recovering' \subseteq recovering
      BY <1>0, <1>1, <2>1 DEF Types, Recoveries
    <2>2. CASE Expire /\ recovering' # recovering
      <3> DEFINE late(r) == [r EXCEPT !.ok = FALSE]
      <3>1. recovering' = {late(r) : r \in recovering}
        BY <2>2 DEF Expire
      <3>2. ASSUME NEW r \in recovering
            PROVE  late(r) \in Calls /\ late(r).since = r.since /\ late(r).seen = r.seen
        BY <1>0 DEF Types, Calls
      <3> HIDE DEF late
      <3> QED BY <1>0, <1>1, <3>1, <3>2 DEF Recoveries
    <2> QED BY <2>1, <2>2 DEF Opened, RecoveryFails, noticesVars
  <1>5. Types'
    BY <1>0, <1>1, <1>2, <1>4 DEF Types
  <1>6. Dialled' /\ (Sends => Sends')
    BY <1>0, <1>1, ConnectionStays
  <1> QED BY <1>0, <1>1, <1>3, <1>4, <1>5, <1>6 DEF Inv, Complete

-----------------------------------------------------------------------------
(* The server's steps.                                                     *)

LEMMA AcceptStep ==
  ASSUME Inv, Accept
  PROVE  Inv'
  <1>0. Types /\ Sockets /\ Recoveries /\ Known(tab, published) /\ Dialled /\ (~lossy => Sends)
    BY DEF Inv, Complete
  <1>1. PICK n \in {published, published + 1} \ {0} :
          conn' = [conn EXCEPT !.state = "joined", !.next = n]
    BY DEF Accept
  <1>2. /\ conn.state = "none" /\ socket = "connecting"
        /\ UNCHANGED <<published, session, mounted, socket, tab, recovering, lossy>>
    BY DEF Accept
  <1>3. conn \in Conns /\ published \in Nat /\ n \in Nat /\ n \in 1..published + 1
        /\ published <= n
    BY <1>0 DEF Types
  <1>4. /\ conn' \in Conns /\ conn'.state = "joined" /\ conn'.next = n
        /\ conn'.asked = conn.asked /\ conn'.backlog = conn.backlog
    BY <1>1, <1>3 DEF Conns
  <1>5. Types' /\ Sockets' /\ Recoveries'
    BY <1>0, <1>2, <1>4 DEF Types, Sockets, Recoveries
  <1>6. Dialled'
    <2>1. conn.asked <= published /\ conn.asked \in Nat
      BY <1>0, <1>3 DEF Dialled, Known, Conns
    <2>2. conn.asked <= n
      BY <1>3, <2>1
    <2> QED BY <1>0, <1>2, <1>3, <1>4, <2>2 DEF Dialled
  <1>7. Sends => Sends'
    BY <1>0, <1>2, <1>4 DEF Sends, Dialled
  <1> QED BY <1>0, <1>2, <1>5, <1>6, <1>7 DEF Inv, Complete

\* replayBacklog: unless the log refuses or cuts its answer, the backlog ends
\* with the last event published.
LEMMA ReplayStep ==
  ASSUME Inv, Replay
  PROVE  Inv'
  <1>0. Types /\ Sockets /\ Recoveries /\ Known(tab, published) /\ Dialled /\ (~lossy => Sends)
    BY DEF Inv, Complete
  <1>1. /\ conn.state = "joined" /\ conn.backlog = <<>>
        /\ UNCHANGED <<published, session, mounted, socket, tab, recovering>>
        /\ conn \in Conns /\ published \in Nat /\ lossy \in BOOLEAN
        /\ conn.asked \in tab.handled \cup {0} /\ tab.handled \subseteq 1..published
        /\ conn.asked \in 0..published
    BY <1>0 DEF Replay, Dialled, Types, Known
  <1>2. conn.asked <= conn.next /\ conn.next \in 1..published + 1
    BY <1>0, <1>1 DEF Dialled
  <1>s. socket \in {"connecting", "open"}
    BY <1>0, <1>1 DEF Sockets, Types, NoConn
  <1>r. Recoveries' /\ Sockets'
    BY <1>0, <1>1, <1>s DEF Recoveries, Sockets
  <1>3. CASE /\ conn.asked > 0
             /\ conn' = [conn EXCEPT !.state = "live", !.backlog = Newer(conn.asked)]
             /\ lossy' = (lossy \/ published - conn.asked > ReplayLimit)
    <2> DEFINE a == conn.asked
               b == Newer(a)
               m == Len(b)
    <2>1. /\ b \in Seq(Nat) /\ m \in Nat /\ a \in Nat /\ a + m <= published
          /\ \A i \in 1..m : b[i] = a + i
          /\ ToSet(b) = a + 1..a + m
          /\ published - a <= ReplayLimit => a + m = published
      <3>1. a \in 0..published /\ published \in Nat /\ a \in Nat
        BY <1>1
      <3> HIDE DEF a
      <3> QED BY <3>1, NewerEvents
    <2> HIDE DEF a, b
    <2>2. /\ conn' \in Conns /\ conn'.state = "live" /\ conn'.backlog = b
          /\ conn'.asked = a /\ conn'.next = conn.next
      BY <1>1, <1>3, <2>1 DEF Conns, a, b
    <2>3. Types'
      BY <1>0, <1>1, <1>3, <2>2 DEF Types
    <2>4. Dialled'
      <3>1. a + 1..a + m \subseteq 1..published
        BY <1>1, <2>1
      <3> QED BY <1>1, <1>2, <2>1, <2>2, <3>1 DEF Dialled, a
    <2>5. ASSUME ~lossy' PROVE ~lossy /\ Sends'
      <3>1. ~lossy /\ a + m = published /\ a \in tab.handled /\ a # 0
        <4> DEFINE cut == published - conn.asked > ReplayLimit
        <4>1. ~lossy /\ ~cut
          <5>1. lossy' = (lossy \/ cut)
            BY <1>3
          <5> HIDE DEF cut
          <5> QED BY <1>1, <2>5, <5>1, Zenon
        <4>2. a \in tab.handled /\ a # 0 /\ published - a <= ReplayLimit
          BY <1>1, <1>3, <4>1, CapIsPositive DEF a
        <4> QED BY <2>1, <4>1, <4>2
      <3>2. CASE m = 0
        <4>1. b = <<>> /\ a = published /\ conn.next - 1 <= a
          BY <1>1, <1>2, <2>1, <3>1, <3>2
        <4>2. a..conn.next - 1 \subseteq {a}
          BY <1>2, <2>1, <4>1
        <4> QED BY <1>1, <2>2, <3>1, <4>1, <4>2 DEF Sends
      <3>3. CASE m # 0
        <4>1. b # <<>> /\ b[1] = a + 1 /\ b[m] = published
          BY <2>1, <3>1, <3>3
        <4>2. ASSUME NEW i \in 1..m - 1 PROVE b[i + 1] = b[i] + 1
          <5>1. i \in 1..m /\ i + 1 \in 1..m
            BY <2>1
          <5>2. b[i] = a + i /\ b[i + 1] = a + (i + 1)
            BY <2>1, <5>1
          <5> QED BY <2>1, <5>2
        <4>3. a < b[1] /\ a..b[1] - 1 = {a} /\ conn.next <= b[m] + 1
          BY <1>1, <1>2, <2>1, <4>1
        <4>4. Continues(conn.backlog)'
          <5>1. a..b[1] - 1 \subseteq tab.handled
            BY <3>1, <4>3
          <5>2. b[Len(b)] = b[m]
            OBVIOUS
          <5> HIDE DEF m
          <5>3. \A i \in 1..Len(b) - 1 : b[i + 1] = b[i] + 1
            BY <4>2 DEF m
          <5> QED BY <1>1, <2>2, <4>3, <5>1, <5>2, <5>3 DEF Continues
        <4> QED BY <2>2, <3>1, <4>1, <4>4 DEF Sends
      <3> QED BY <3>2, <3>3
    <2> QED BY <1>0, <1>1, <1>r, <2>3, <2>4, <2>5 DEF Inv, Complete
  <1>4. CASE conn' = [conn EXCEPT !.state = "live"] /\ lossy' = (lossy \/ conn.asked > 0)
    <2>1. /\ conn' \in Conns /\ conn'.state = "live" /\ conn'.backlog = <<>>
          /\ conn'.asked = conn.asked /\ conn'.next = conn.next
      BY <1>1, <1>4 DEF Conns
    <2>2. Types' /\ Dialled'
      BY <1>0, <1>1, <1>2, <1>4, <2>1 DEF Types, Dialled
    <2>3. ASSUME ~lossy' PROVE ~lossy /\ Sends'
      <3>1. ~lossy /\ conn.asked = 0
        <4> DEFINE asks == conn.asked > 0
        <4>1. ~lossy /\ ~asks
          <5>1. lossy' = (lossy \/ asks)
            BY <1>4
          <5> HIDE DEF asks
          <5> QED BY <1>1, <2>3, <5>1, Zenon
        <4> QED BY <1>1, <4>1
      <3>2. tab.handled = {}
        BY <1>0, <1>1, <1>s, <3>1 DEF Sends
      <3> QED BY <1>1, <2>1, <3>1, <3>2 DEF Sends
    <2> QED BY <1>0, <1>1, <1>r, <2>2, <2>3 DEF Inv, Complete
  <1> QED BY <1>3, <1>4 DEF Replay

LEMMA PublishStep ==
  ASSUME Inv, Publish
  PROVE  Inv'
  <1>0. Types /\ Sockets /\ Recoveries /\ Known(tab, published) /\ Dialled
    BY DEF Inv
  <1>1. /\ published' = published + 1 /\ published \in Nat
        /\ UNCHANGED <<session, mounted, socket, conn, tab, recovering, lossy>>
    BY <1>0 DEF Publish, Types
  <1>2. 1..published \subseteq 1..published + 1 /\ published + 1 \in Nat
        /\ 1..published + 1 \subseteq 1..(published + 1) + 1
    BY <1>1
  <1>3. Types' /\ Sockets' /\ Recoveries'
    BY <1>0, <1>1, <1>2 DEF Types, Sockets, Recoveries
  <1>4. Known(tab, published)' /\ Matches(tab)'
    BY <1>0, <1>1, <1>2 DEF Known, Inv, Matches
  <1>5. Dialled'
    BY <1>0, <1>1, <1>2 DEF Dialled
  <1>6. Complete => Complete'
    BY <1>1 DEF Complete, Sends, Continues
  <1> QED BY <1>1, <1>3, <1>4, <1>5, <1>6 DEF Inv

-----------------------------------------------------------------------------
(* The page's steps.                                                       *)

LEMMA LoadSteps ==
  ASSUME Inv, Mount \/ Reload
  PROVE  Inv'
  <1>0. Types /\ Sockets /\ Recoveries /\ Known(tab, published) /\ (~lossy => Complete)
    BY DEF Inv
  <1>1. /\ tab' = FreshPage(tab)
        /\ UNCHANGED <<published, session, lossy>> /\ mounted'
        /\ recovering' \subseteq recovering
        /\ IF session # "none" THEN Dial(tab') ELSE UNCHANGED <<socket, conn>>
        /\ session = "none" => socket = "off" /\ conn = NoConn
    BY <1>0 DEF Mount, Reload, Sockets
  <1>2. published \in Nat /\ published' = published /\ mounted' = TRUE
    BY <1>1 DEF Mount, Reload, Inv, Types
  <1>3. Known(tab', published) /\ Matches(tab') /\ tab'.handled = tab.handled
    BY <1>0, <1>1, <1>2, PageLoaded
  <1>4. Known(tab, published)' /\ Matches(tab)' /\ tab' \in Tabs
    <2>1. tab' \in Tabs
      BY <1>3 DEF Known
    <2> QED BY <1>2, <1>3, <2>1 DEF Known, Matches
  <1>5. Dialled' /\ Sends' /\ conn' \in Conns /\ Sockets'
        /\ socket' \in {"off", "connecting"}
    <2>1. CASE session # "none"
      <3>1. Dial(tab') /\ socket' = "connecting" /\ session' # "none"
        BY <1>1, <2>1 DEF Dial
      <3> QED BY <1>0, <1>2, <1>4, <3>1, Dials, ConnTypes DEF Sockets
    <2>2. CASE session = "none"
      <3>1. conn' = NoConn /\ socket' = "off"
        BY <1>1, <2>2
      <3> QED BY <1>0, <3>1, NotConnected, ConnTypes DEF Sockets
    <2> QED BY <2>1, <2>2
  <1>6. Types' /\ Recoveries'
    BY <1>0, <1>1, <1>2, <1>3, <1>4, <1>5 DEF Types, Recoveries
  <1>7. Complete => Complete'
    BY <1>3, <1>5 DEF Complete
  <1> QED BY <1>0, <1>1, <1>4, <1>5, <1>6, <1>7 DEF Inv

\* onmessage: the event is on its way from the server, and the next one there is.
LEMMA Received ==
  ASSUME Types, Known(tab, published), Recoveries, Dialled, Sockets, Matches(tab),
         NEW e \in 1..published, tab' = Handle(tab, e),
         conn' \in Conns, UNCHANGED <<published, session, mounted, socket, recovering, lossy>>,
         socket = "open"
  PROVE  /\ Types' /\ Known(tab, published)' /\ Recoveries' /\ Sockets' /\ Matches(tab)'
         /\ tab'.handled = tab.handled \cup {e}
  <1>0. published \in Nat
    BY DEF Types
  <1>1. Known(tab', published) /\ Matches(tab') /\ tab'.handled = tab.handled \cup {e}
    BY <1>0, Handled
  <1>2. tab' \in Tabs
    BY <1>1 DEF Known
  <1>3. Known(tab, published)' /\ Matches(tab)'
    BY <1>1, <1>2 DEF Known, Matches
  <1>4. Types' /\ Sockets'
    BY <1>2 DEF Types, Sockets
  <1>5. Recoveries'
    BY <1>1 DEF Recoveries
  <1> QED BY <1>1, <1>3, <1>4, <1>5

LEMMA ReceiveBacklog ==
  ASSUME Inv, Receive, conn.backlog # <<>>, tab' = Handle(tab, Head(conn.backlog)),
         conn' = [conn EXCEPT !.backlog = Tail(@)]
  PROVE  Inv'
  <1> DEFINE b == conn.backlog
             e == Head(b)
             m == Len(b)
             a == conn.asked
             H == tab.handled
  <1>0. /\ Types /\ Sockets /\ Recoveries /\ Known(tab, published) /\ Dialled /\ Matches(tab)
        /\ (~lossy => Complete) /\ conn \in Conns
    BY DEF Inv, Types
  <1>1. socket = "open" /\ UNCHANGED <<published, session, mounted, socket, recovering, lossy>>
    BY DEF Receive
  <1>2. /\ b \in Seq(Nat) /\ m \in Nat \ {0} /\ e = b[1] /\ DOMAIN b = 1..m
        /\ Tail(b) \in Seq(Nat) /\ Len(Tail(b)) = m - 1
        /\ \A i \in 1..m - 1 : Tail(b)[i] = b[i + 1]
    BY <1>0 DEF Conns
  <1>3. \A i \in 1..m : b[i] \in 1..published
    BY <1>0, <1>2 DEF Dialled, ToSet
  <1>4. e \in 1..published /\ e \in Nat
    BY <1>2, <1>3
  <1>5. /\ conn' \in Conns /\ conn'.backlog = Tail(b) /\ conn'.asked = a
        /\ conn'.next = conn.next /\ conn'.state = conn.state /\ conn.state = "live"
    BY <1>0, <1>2 DEF Conns, Dialled
  <1>n. a \in Nat /\ conn.next \in Nat /\ H \in SUBSET Nat
    BY <1>0 DEF Conns, Known, Tabs
  <1>6. /\ Types' /\ Known(tab, published)' /\ Recoveries' /\ Sockets' /\ Matches(tab)'
        /\ tab'.handled = H \cup {e}
    BY <1>0, <1>1, <1>4, <1>5, Received
  <1> HIDE DEF b, e, m, a, H
  <1>7. Dialled'
    <2>1. \A i \in 1..m - 1 : i + 1 \in 1..m
      BY <1>2
    <2>2. ToSet(Tail(b)) \subseteq 1..published
      BY <1>2, <1>3, <2>1 DEF ToSet
    <2> QED BY <1>0, <1>1, <1>5, <1>6, <2>2 DEF Dialled, a, H
  <1>8. ASSUME Complete PROVE Complete'
    <2>0. Gapless(H) /\ Continues(b)
      BY <1>8 DEF Complete, Sends, b, H
    <2>1. /\ \A i \in 1..m - 1 : b[i + 1] = b[i] + 1
          /\ conn.next <= b[m] + 1
          /\ a < e /\ a..e - 1 \subseteq H
      BY <1>2, <2>0 DEF Continues, m, a, H
    <2>2. e - 1 \in H /\ e - 1 \in a..e - 1
      BY <1>4, <1>n, <2>1
    <2>3. Gapless(tab'.handled)
      BY <1>4, <1>6, <1>n, <2>0, <2>2, GaplessNext
    <2>a. a # 0
      BY <1>5, <1>8 DEF Complete, Sends, a, b
    <2>e. a..e \subseteq H \cup {e}
      BY <1>4, <1>n, <2>1
    <2>4. CASE m = 1
      <3>1. Tail(b) = <<>> /\ a..conn.next - 1 \subseteq a..e
        <4>1. Tail(b) \in Seq(Nat) /\ Len(Tail(b)) = 0
          BY <1>2, <2>4
        <4>2. Tail(b) = <<>>
          BY <4>1
        <4>3. conn.next - 1 <= e
          BY <1>2, <1>4, <1>n, <2>1, <2>4
        <4> QED BY <1>4, <1>n, <4>2, <4>3
      <3>2. a..conn.next - 1 \subseteq H \cup {e}
        BY <2>e, <3>1
      <3> QED BY <1>1, <1>5, <1>6, <2>3, <2>a, <3>1, <3>2 DEF Complete, Sends
    <2>5. CASE m # 1
      <3> DEFINE u == Tail(b)
                 k == m - 1
      <3>1. /\ k \in Nat \ {0} /\ u \in Seq(Nat) /\ Len(u) = k
            /\ \A i \in 1..k : u[i] = b[i + 1] /\ u[i] \in Nat
        BY <1>2, <2>5
      <3>2. u[1] = e + 1 /\ u[k] = b[m] /\ u # <<>>
        <4>1. 1 \in 1..k /\ k \in 1..k /\ k + 1 = m /\ 1 \in 1..m - 1
          BY <1>2, <3>1
        <4> HIDE DEF u
        <4>2. u[k] = b[k + 1] /\ u[1] = b[1 + 1] /\ u # <<>>
          BY <3>1, <4>1
        <4>3. b[1 + 1] = b[1] + 1
          BY <2>1, <4>1
        <4> HIDE DEF k
        <4> QED BY <1>2, <4>1, <4>2, <4>3
      <3>3. ASSUME NEW i \in 1..k - 1 PROVE u[i + 1] = u[i] + 1
        <4>0. k \in Nat /\ k = m - 1
          BY <3>1
        <4> HIDE DEF u, k
        <4>1. i \in 1..k /\ i + 1 \in 1..k
          BY <4>0
        <4>2. u[i] = b[i + 1] /\ u[i + 1] = b[(i + 1) + 1] /\ i + 1 \in 1..m - 1
          BY <3>1, <4>0, <4>1
        <4> QED BY <2>1, <4>1, <4>2
      <3> HIDE DEF u
      <3>4. a < u[1] /\ a..u[1] - 1 = a..e /\ conn.next <= u[k] + 1
        BY <1>4, <1>n, <2>1, <3>2
      <3>5. a..u[1] - 1 \subseteq H \cup {e}
        BY <2>e, <3>4
      <3>6. conn'.backlog = u
        BY <1>5 DEF u
      <3>7. Continues(conn.backlog)'
        BY <1>5, <1>6, <3>1, <3>3, <3>4, <3>5, <3>6 DEF Continues
      <3> QED BY <1>1, <1>5, <2>3, <2>a, <3>2, <3>6, <3>7 DEF Complete, Sends
    <2> QED BY <2>4, <2>5
  <1> QED BY <1>0, <1>1, <1>6, <1>7, <1>8 DEF Inv

LEMMA ReceiveLive ==
  ASSUME Inv, Receive, conn.state = "live", conn.backlog = <<>>, conn.next <= published,
         tab' = Handle(tab, conn.next), conn' = [conn EXCEPT !.next = @ + 1]
  PROVE  Inv'
  <1> DEFINE e == conn.next
             a == conn.asked
             H == tab.handled
  <1>0. /\ Types /\ Sockets /\ Recoveries /\ Known(tab, published) /\ Dialled /\ Matches(tab)
        /\ (~lossy => Complete) /\ conn \in Conns
    BY DEF Inv, Types
  <1>1. socket = "open" /\ UNCHANGED <<published, session, mounted, socket, recovering, lossy>>
    BY DEF Receive
  <1>2. /\ a \in Nat /\ e \in Nat /\ a <= e /\ H \in SUBSET Nat /\ published \in Nat
        /\ a \in H \cup {0}
    BY <1>0 DEF Conns, Known, Tabs, Types, Dialled
  <1>3. e \in 1..published
    BY <1>0, <1>2 DEF Dialled
  <1>4. /\ conn' \in Conns /\ conn'.backlog = <<>> /\ conn'.asked = a
        /\ conn'.next = e + 1 /\ conn'.state = "live"
    BY <1>0 DEF Conns
  <1>5. /\ Types' /\ Known(tab, published)' /\ Recoveries' /\ Sockets' /\ Matches(tab)'
        /\ tab'.handled = H \cup {e}
    BY <1>0, <1>1, <1>3, <1>4, Received
  <1> HIDE DEF e, a, H
  <1>6. Dialled'
    <2>1. e + 1 \in 1..published + 1 /\ a <= e + 1 /\ ToSet(<<>>) = {}
      BY <1>2, <1>3 DEF ToSet
    <2> QED BY <1>1, <1>2, <1>4, <1>5, <2>1 DEF Dialled
  <1>7. ASSUME Complete PROVE Complete'
    <2>1. /\ Gapless(H)
          /\ a = 0 => H = {} \/ e - 1 \in H
          /\ a # 0 => a..e - 1 \subseteq H
      BY <1>7 DEF Complete, Sends, a, e, H
    <2>2. H = {} \/ e \in H \/ e - 1 \in H
      <3>1. CASE a # 0 /\ a # e
        <4>1. e - 1 \in a..e - 1
          BY <1>2, <3>1
        <4> QED BY <2>1, <3>1, <4>1
      <3> QED BY <1>2, <2>1, <3>1
    <2>3. Gapless(tab'.handled)
      BY <1>2, <1>5, <2>1, <2>2, GaplessNext
    <2>4. a # 0 => a..(e + 1) - 1 \subseteq H \cup {e}
      <3>1. ASSUME a # 0, NEW x \in a..(e + 1) - 1 PROVE x \in H \cup {e}
        <4>1. x = e \/ x \in a..e - 1
          BY <1>2
        <4> QED BY <2>1, <3>1, <4>1
      <3> QED BY <3>1
    <2>5. (e + 1) - 1 \in H \cup {e}
      BY <1>2
    <2> QED BY <1>1, <1>4, <1>5, <2>3, <2>4, <2>5 DEF Complete, Sends
  <1> QED BY <1>0, <1>1, <1>5, <1>6, <1>7 DEF Inv

\* What a recovery adds follows what it was asked from.
LEMMA RecoveryStep ==
  ASSUME Inv, NEW r \in recovering, RecoveryAnswered(r)
  PROVE  Inv'
  <1> DEFINE events == Newer(r.since)
             H == tab.handled
             E == ToSet(events)
  <1>0. /\ Types /\ Sockets /\ Recoveries /\ Known(tab, published) /\ Dialled /\ Matches(tab)
        /\ (~lossy => Complete)
    BY DEF Inv
  <1>1. UNCHANGED <<published, session, mounted, socket, conn, lossy>>
        /\ recovering' \subseteq recovering
    BY DEF RecoveryAnswered
  <1>2. /\ Known(tab', published) /\ Matches(tab')
        /\ tab'.handled = H \cup E /\ r.since \in H
    BY <1>0, Recovered
  <1>3. published \in Nat /\ H \in SUBSET Nat /\ H \subseteq 1..published /\ tab' \in Tabs
    BY <1>0, <1>2 DEF Types, Known, Tabs
  <1>4. PICK m \in Nat : E = r.since + 1..r.since + m /\ r.since + m \in Nat
    <2>1. r.since \in 0..published /\ r.since \in Nat
      BY <1>2, <1>3
    <2> DEFINE m == Len(events)
    <2>2. m \in Nat /\ E = r.since + 1..r.since + m
      BY <1>3, <2>1, NewerEvents
    <2> HIDE DEF m
    <2>3. r.since + m \in Nat
      BY <2>1, <2>2
    <2> QED BY <2>2, <2>3
  <1> HIDE DEF events, H, E
  <1>5. Known(tab, published)' /\ Matches(tab)'
    BY <1>1, <1>2, <1>3 DEF Known, Matches
  <1>6. Types' /\ Sockets'
    BY <1>0, <1>1, <1>3 DEF Types, Sockets
  <1>7. Recoveries' /\ Dialled'
    BY <1>0, <1>1, <1>2 DEF Recoveries, Dialled, H
  <1>8. ASSUME Complete PROVE Complete'
    <2>1. Gapless(H \cup E)
      <3>1. Gapless(H)
        BY <1>8 DEF Complete, H
      <3> QED BY <1>2, <1>3, <1>4, <3>1, GaplessGrows
    <2>2. H # {} /\ H \subseteq tab'.handled
      BY <1>2
    <2>3. Sends => Sends'
      BY <1>1, <2>2 DEF Sends, Continues, H
    <2> QED BY <1>2, <1>8, <2>1, <2>3 DEF Complete
  <1> QED BY <1>0, <1>1, <1>5, <1>6, <1>7, <1>8 DEF Inv

-----------------------------------------------------------------------------
(* The theorems.                                                           *)

LEMMA InitInv == Init => Inv
  <1> SUFFICES ASSUME Init PROVE Inv
    OBVIOUS
  <1>1. <<>> \in Seq(Nat) /\ ToSet(<<>>) = {} /\ NoConn \in Conns
    <2>1. <<>> \in Seq(Nat) /\ ToSet(<<>>) = {}
      BY DEF ToSet
    <2> QED BY <2>1 DEF NoConn, Conns
  <1>2. /\ tab.seen = <<>> /\ tab.cursor = 0 /\ tab.stored = 0 /\ tab.recent = <<>>
        /\ tab.handled = {} /\ tab \in Tabs
    BY <1>1 DEF Init, Tabs
  <1>3. Types
    BY <1>1, <1>2 DEF Init, Types
  <1>4. Known(tab, published)
    BY <1>1, <1>2 DEF Known
  <1>5. Matches(tab)
    BY <1>2, CapIsPositive DEF Matches, Distinct, LastOf
  <1>6. /\ conn = NoConn /\ conn.state = "none" /\ conn.asked = 0 /\ conn.backlog = <<>>
        /\ socket = "off" /\ recovering = {}
    BY DEF Init, NoConn
  <1>7. Recoveries /\ Sockets /\ Dialled /\ Sends /\ Gapless(tab.handled)
    BY <1>1, <1>2, <1>6 DEF Recoveries, Sockets, Dialled, Sends, Gapless
  <1> QED BY <1>3, <1>4, <1>5, <1>7 DEF Inv, Complete

LEMMA NextInv == Inv /\ [Next]_noticesVars => Inv'
  <1> SUFFICES ASSUME Inv, [Next]_noticesVars PROVE Inv'
    OBVIOUS
  <1>1. CASE Mount \/ Reload
    BY <1>1, LoadSteps
  <1>2. CASE SignIn \/ SignOut \/ RefreshElsewhere \/ \E r \in recovering : RecoveryDenied(r)
    BY <1>2, SessionSteps
  <1>3. CASE Reconnect \/ Refused \/ Lost \/ Broken
    BY <1>3, SocketSteps
  <1>4. CASE Leave \/ Opened \/ Expire \/ UNCHANGED noticesVars
              \/ \E r \in recovering : RecoveryFails(r)
    BY <1>4, LeaveStep, QuietSteps
  <1>5. CASE \E r \in recovering : RecoveryAnswered(r)
    BY <1>5, RecoveryStep
  <1>6. CASE Receive
    BY <1>6, ReceiveBacklog, ReceiveLive DEF Receive
  <1>7. CASE Publish
    BY <1>7, PublishStep
  <1>8. CASE Accept
    BY <1>8, AcceptStep
  <1>9. CASE Replay
    BY <1>9, ReplayStep
  <1> QED BY <1>1, <1>2, <1>3, <1>4, <1>5, <1>6, <1>7, <1>8, <1>9 DEF Next, Recovery

LEMMA InvHolds == Spec => []Inv
  BY InitInv, NextInv, PTL DEF Spec

\* handleEvent takes an event for new once, whichever ways it comes (live, replayed,
\* recovered), unless SEEN_EVENT_CAP others came in between.
THEOREM OnceOnly == Spec => []AnnouncedOnce
  <1>1. Inv => AnnouncedOnce
    BY DEF Inv, Matches, Distinct, AnnouncedOnce
  <1> QED BY <1>1, InvHolds, PTL

\* The cursor of useNotificationsSocket, ?since= and recoverViaHttp leave no gap in
\* what the browser handles, as long as the log replays what it is asked for.
THEOREM NoGaps == Spec => []NothingIsSkipped
  <1>1. Inv => NothingIsSkipped
    <2> SUFFICES ASSUME Inv, ~lossy, tab.handled # {} PROVE NothingIsSkipped
      BY DEF NothingIsSkipped
    <2>0. /\ Gapless(tab.handled) /\ Sends /\ Dialled /\ Known(tab, published)
          /\ conn \in Conns /\ tab \in Tabs
      BY DEF Inv, Complete, Types
    <2> DEFINE H == tab.handled
               c == tab.cursor
               n == conn.next
               a == conn.asked
    <2>1. H \in SUBSET Nat /\ c \in Nat /\ n \in Nat /\ a \in Nat /\ c \in H \cup {0}
      BY <2>0 DEF Conns, Tabs, Known
    <2>2. ASSUME conn.state = "live", conn.backlog = <<>>, c > 0
          PROVE  c..n - 1 \subseteq H
      <3>1. c \in H /\ a <= n
        BY <2>0, <2>1, <2>2 DEF Dialled
      <3>2. a # 0 => a \in H /\ a..n - 1 \subseteq H
        BY <2>0, <2>2 DEF Dialled, Sends
      <3>3. a = 0 => n - 1 \in H
        BY <2>0, <2>2 DEF Sends
      <3> HIDE DEF H, c, n, a
      <3>4. PICK z \in H : n - 1 <= z
        <4>1. CASE a = 0
          BY <2>1, <3>3, <4>1
        <4>2. CASE a # 0 /\ a = n
          BY <2>1, <3>2, <4>2
        <4>3. CASE a # 0 /\ a # n
          <5>1. n - 1 \in a..n - 1
            BY <2>1, <3>1, <4>3
          <5> QED BY <2>1, <3>2, <4>3, <5>1
        <4> QED BY <4>1, <4>2, <4>3
      <3>5. c..z \subseteq H
        BY <2>0, <3>1, <3>4 DEF Gapless, H
      <3>6. c..n - 1 \subseteq c..z
        BY <2>1, <3>4
      <3> QED BY <3>5, <3>6
    <2>3. \A i, j \in H : i..j \subseteq H
      BY <2>0 DEF Gapless
    <2>4. {tab.cursor, tab.stored} \subseteq H \cup {0}
      BY <2>0 DEF Known
    <2> QED BY <2>2, <2>3, <2>4 DEF NothingIsSkipped
  <1> QED BY <1>1, InvHolds, PTL

(***************************************************************************)
(* Part 2: the list.                                                       *)
(***************************************************************************)

PageType == [off : Nat, size : Nat, n : Nat, total : Nat]

\* A page read when there were at most r videos; it is empty only past the end.
Sound(p, r) == p \in PageType /\ p.total <= p.n /\ p.n <= r /\ (p.size = 0 => p.n <= p.off)

\* Page q was read after p, and begins where p ends.
Follows(q, p) == q.off = p.off + p.size /\ p.n <= q.n

\* Nothing is missing between the newest video of the first page and the oldest
\* of the last.
Covered(ps) ==
  ps # <<>> => Oldest(ps[Len(ps)])..Newest(ps[1]) \subseteq Shown(ps)

Chained(ps, r) ==
  /\ ps \in Seq(PageType)
  /\ \A i \in 1..Len(ps) : Sound(ps[i], r)
  /\ \A i \in 1..Len(ps) - 1 : Follows(ps[i + 1], ps[i])
  /\ Covered(ps)

FetchType ==
  [stage : {"none", "asked", "counted"}, next : BOOLEAN, pages : Seq(PageType),
   goal : Nat, total : Nat]

\* A fetch goes on from a chain that has a next page.
FetchOK ==
  /\ fetch \in FetchType
  /\ fetch.total <= rows
  /\ Chained(fetch.pages, rows)
  /\ fetch.pages # <<>> => HasNext(fetch.pages)

FeedInv == rows \in Nat /\ Chained(pages, rows) /\ FetchOK

-----------------------------------------------------------------------------
LEMMA EmptyIsChained == \A r \in Nat : Chained(<<>>, r)
  BY DEF Chained, Covered

LEMMA NothingIsOK == ASSUME rows \in Nat PROVE NoFetch \in FetchType /\ NoFetch.pages = <<>> /\ NoFetch.total = 0
  BY DEF NoFetch, FetchType

\* More videos leave a chain what it is.
LEMMA MoreRows ==
  ASSUME NEW r \in Nat, NEW q \in Nat, r <= q, NEW ps, Chained(ps, r)
  PROVE  Chained(ps, q)
  <1>1. ASSUME NEW p, Sound(p, r) PROVE Sound(p, q)
    BY <1>1 DEF Sound, PageType
  <1> QED BY <1>1 DEF Chained

\* The next page follows the items loaded.
LEMMA LoadedIsEnd ==
  ASSUME NEW r \in Nat, NEW ps, Chained(ps, r)
  PROVE  /\ Loaded(ps) \in Nat
         /\ HasNext(ps) => Loaded(ps) > 0
  <1>1. CASE ps = <<>>
    BY <1>1 DEF Loaded, HasNext
  <1>2. CASE ps # <<>>
    <2>1. Len(ps) \in 1..Len(ps)
      BY <1>2 DEF Chained
    <2>2. Sound(ps[Len(ps)], r)
      BY <2>1 DEF Chained
    <2> QED BY <1>2, <2>2 DEF Loaded, HasNext, Sound, PageType
  <1> QED BY <1>1, <1>2

\* A page that the server or its cache answers with is sound.
LEMMA PageIsSound ==
  ASSUME NEW off \in Nat, NEW limit \in Nat \ {0}, NEW n \in Nat, NEW total \in 0..n,
         NEW r \in Nat, n <= r
  PROVE  /\ Sound(PageAt(off, limit, n, total), r)
         /\ PageAt(off, limit, n, total).off = off
         /\ PageAt(off, limit, n, total).n = n
  <1>1. CASE n > off
    BY <1>1 DEF PageAt, Sound, PageType
  <1>2. CASE ~(n > off)
    BY <1>2 DEF PageAt, Sound, PageType
  <1> QED BY <1>1, <1>2

\* Between a page and one that follows it there is no hole.
LEMMA NoHole ==
  ASSUME NEW p \in PageType, NEW q \in PageType, Follows(q, p)
  PROVE  Newest(q) >= Oldest(p) - 1
  <1>1. p.off \in Nat /\ p.size \in Nat /\ p.n \in Nat /\ q.n \in Nat
    BY DEF PageType
  <1>2. q.off = p.off + p.size /\ p.n <= q.n
    BY DEF Follows
  <1>3. p.n - (p.off + p.size) <= q.n - (p.off + p.size)
    BY <1>1, <1>2
  <1>4. Newest(q) = q.n - (p.off + p.size)
    BY <1>2 DEF Newest
  <1>5. Oldest(p) = p.n - p.off - p.size + 1
    BY DEF Oldest, Newest
  <1>6. Oldest(p) - 1 = p.n - (p.off + p.size)
    BY <1>1, <1>5
  <1> QED BY <1>1, <1>3, <1>4, <1>6

\* A page that begins at the end of a chain, and is no older, continues it.
LEMMA ChainGrows ==
  ASSUME NEW r \in Nat, NEW ps, Chained(ps, r), NEW p, Sound(p, r),
         p.off = Loaded(ps), ps # <<>> => ps[Len(ps)].n <= p.n
  PROVE  Chained(Append(ps, p), r)
  <1> DEFINE qs == Append(ps, p)
  <1>0. p \in PageType /\ ps \in Seq(PageType)
    BY DEF Sound, Chained
  <1>1. /\ qs \in Seq(PageType) /\ Len(ps) \in Nat /\ Len(qs) = Len(ps) + 1
        /\ qs[Len(qs)] = p /\ \A i \in 1..Len(ps) : qs[i] = ps[i]
    BY <1>0
  <1> HIDE DEF qs
  <1>2. \A i \in 1..Len(qs) : Sound(qs[i], r)
    BY <1>1 DEF Chained
  <1>3. ASSUME NEW i \in 1..Len(qs) - 1 PROVE Follows(qs[i + 1], qs[i])
    <2>1. CASE i = Len(ps)
      <3>1. ps # <<>> /\ qs[i] = ps[Len(ps)] /\ qs[i + 1] = p
        BY <1>1, <1>3, <2>1
      <3> QED BY <3>1 DEF Follows, Loaded
    <2>2. CASE i # Len(ps)
      <3>1. i \in 1..Len(ps) - 1 /\ qs[i] = ps[i] /\ qs[i + 1] = ps[i + 1]
        BY <1>1, <1>3, <2>2
      <3> QED BY <3>1 DEF Chained
    <2> QED BY <2>1, <2>2
  <1>4. DOMAIN qs = 1..Len(qs) /\ DOMAIN ps = 1..Len(ps)
    BY <1>0, <1>1
  <1>5. \A i \in 1..Len(qs) : Oldest(qs[i])..Newest(qs[i]) \subseteq Shown(qs)
    BY <1>4 DEF Shown
  <1>6. Shown(ps) \subseteq Shown(qs)
    <2>1. ASSUME NEW x \in Shown(ps) PROVE x \in Shown(qs)
      <3>1. PICK i \in 1..Len(ps) : x \in Oldest(ps[i])..Newest(ps[i])
        BY <1>4 DEF Shown
      <3>2. i \in 1..Len(qs) /\ qs[i] = ps[i]
        BY <1>1
      <3> QED BY <1>5, <3>1, <3>2
    <2> QED BY <2>1
  <1>7. Oldest(p)..Newest(p) \subseteq Shown(qs)
    <2>1. Len(qs) \in 1..Len(qs)
      BY <1>1
    <2> QED BY <1>1, <1>5, <2>1
  <1>8. Oldest(p)..Newest(qs[1]) \subseteq Shown(qs)
    <2>1. CASE ps = <<>>
      <3>1. qs[1] = p
        BY <1>1, <2>1
      <3> QED BY <1>7, <3>1
    <2>2. CASE ps # <<>>
      <3> DEFINE l == ps[Len(ps)]
                 f == ps[1]
      <3>1. qs[1] = f /\ l \in PageType /\ f \in PageType
        BY <1>0, <1>1, <2>2
      <3>2. p.off = l.off + l.size /\ l.n <= p.n
        BY <2>2 DEF Loaded
      <3>3. Follows(p, l)
        BY <3>2 DEF Follows
      <3>4. Oldest(l)..Newest(f) \subseteq Shown(qs)
        BY <1>6, <2>2 DEF Chained, Covered
      <3> HIDE DEF l, f
      <3>5. Newest(p) >= Oldest(l) - 1
        BY <1>0, <3>1, <3>3, NoHole
      <3>6. Oldest(p) \in Int /\ Newest(p) \in Int
        BY <1>0 DEF Newest, Oldest, PageType
      <3>7. Oldest(l) \in Int /\ Newest(f) \in Int
        BY <3>1 DEF Newest, Oldest, PageType
      <3>8. Oldest(p)..Newest(f) \subseteq (Oldest(p)..Newest(p)) \cup (Oldest(l)..Newest(f))
        BY <3>5, <3>6, <3>7
      <3> QED BY <1>7, <3>1, <3>4, <3>8
    <2> QED BY <2>1, <2>2
  <1> QED BY <1>1, <1>2, <1>3, <1>8 DEF Chained, Covered, qs

-----------------------------------------------------------------------------
LEMMA FeedInitInv == FeedInit => FeedInv
  <1> SUFFICES ASSUME FeedInit PROVE FeedInv
    OBVIOUS
  <1>1. rows \in Nat /\ pages = <<>> /\ fetch = NoFetch
    BY FeedAssumption DEF FeedInit
  <1>2. FetchOK
    BY <1>1, NothingIsOK, EmptyIsChained DEF FetchOK
  <1> QED BY <1>1, <1>2, EmptyIsChained DEF FeedInv

\* A page that continues what a fetch has keeps the chains.
LEMMA ArriveInv ==
  ASSUME FeedInv, NEW p, Sound(p, rows), p.off = Loaded(fetch.pages),
         fetch.pages # <<>> => fetch.pages[Len(fetch.pages)].n <= p.n,
         Arrive(p), UNCHANGED rows
  PROVE  FeedInv'
  <1> DEFINE ps == Append(fetch.pages, p)
  <1>0. rows \in Nat /\ fetch \in FetchType
    BY DEF FeedInv, FetchOK
  <1>1. Chained(ps, rows)
    BY <1>0, ChainGrows DEF FeedInv, FetchOK
  <1> HIDE DEF ps
  <1>2. CASE Len(ps) >= fetch.goal \/ ~HasNext(ps)
    <2>1. pages' = ps /\ fetch' = NoFetch
      BY <1>2 DEF Arrive, ps
    <2> QED BY <1>0, <1>1, <2>1, NothingIsOK, EmptyIsChained DEF FeedInv, FetchOK
  <1>3. CASE ~(Len(ps) >= fetch.goal \/ ~HasNext(ps))
    <2>1. fetch' = [fetch EXCEPT !.stage = "asked", !.pages = ps, !.total = 0] /\ pages' = pages
      BY <1>3 DEF Arrive, ps
    <2>2. ps \in Seq(PageType)
      BY <1>1 DEF Chained
    <2>3. fetch' \in FetchType /\ fetch'.pages = ps /\ fetch'.total = 0
      BY <1>0, <2>1, <2>2 DEF FetchType
    <2> QED BY <1>0, <1>1, <1>3, <2>1, <2>3 DEF FeedInv, FetchOK
  <1> QED BY <1>2, <1>3

\* So do the steps that leave the pages, and begin a fetch with none.
LEMMA AnewInv ==
  ASSUME FeedInv, UNCHANGED <<rows, pages>>, fetch' = fetch \/ fetch' = NoFetch \/ FetchAll
  PROVE  FeedInv'
  <1>0. rows \in Nat /\ pages \in Seq(PageType)
    BY DEF FeedInv, Chained
  <1>1. CASE fetch' = fetch
    BY <1>1 DEF FeedInv, FetchOK
  <1>2. CASE fetch' = NoFetch
    BY <1>0, <1>2, NothingIsOK, EmptyIsChained DEF FeedInv, FetchOK
  <1>3. CASE FetchAll
    <2>1. PICK g \in Nat : fetch' = [NoFetch EXCEPT !.stage = "asked", !.goal = g]
      <3>1. Len(pages) \in Nat
        BY <1>0
      <3>2. (IF pages = <<>> THEN 1 ELSE Len(pages)) \in Nat
        BY <3>1
      <3> QED BY <1>3, <3>2, Zenon DEF FetchAll
    <2>2. fetch' \in FetchType /\ fetch'.pages = <<>> /\ fetch'.total = 0
      BY <1>0, <2>1, NothingIsOK DEF FetchType
    <2> QED BY <1>0, <2>2, EmptyIsChained DEF FeedInv, FetchOK
  <1> QED BY <1>1, <1>2, <1>3

LEMMA FeedNextInv == FeedInv /\ [FeedNext]_feedVars => FeedInv'
  <1> SUFFICES ASSUME FeedInv, [FeedNext]_feedVars PROVE FeedInv'
    OBVIOUS
  <1>0. /\ rows \in Nat /\ fetch \in FetchType /\ Chained(pages, rows)
        /\ Chained(fetch.pages, rows) /\ Loaded(fetch.pages) \in Nat
        /\ HasNext(fetch.pages) => Loaded(fetch.pages) > 0
    BY LoadedIsEnd DEF FeedInv, FetchOK
  <1>1. CASE CountRows
    <2>1. fetch' = [fetch EXCEPT !.stage = "counted", !.total = rows] /\ UNCHANGED <<rows, pages>>
      BY <1>1 DEF CountRows
    <2>2. fetch' \in FetchType /\ fetch'.total = rows /\ fetch'.pages = fetch.pages
      BY <1>0, <2>1 DEF FetchType
    <2> QED BY <1>0, <2>1, <2>2 DEF FeedInv, FetchOK
  <1>2. CASE FindRows
    <2> DEFINE p == PageAt(Loaded(fetch.pages), PageSize, rows, fetch.total)
    <2>1. fetch.total \in 0..rows
      BY <1>0 DEF FeedInv, FetchOK, FetchType
    <2>2. Sound(p, rows) /\ p.off = Loaded(fetch.pages) /\ p.n = rows
      BY <1>0, <2>1, PageIsSound, FeedAssumption
    <2>3. fetch.pages # <<>> => fetch.pages[Len(fetch.pages)].n <= rows
      BY <1>0 DEF Chained, Sound
    <2> HIDE DEF p
    <2>4. Arrive(p) /\ UNCHANGED rows
      BY <1>2 DEF FindRows, p
    <2> QED BY <2>2, <2>3, <2>4, ArriveInv
  <1>3. CASE CacheHit
    <2>1. Loaded(fetch.pages) = 0 /\ fetch.pages = <<>> /\ UNCHANGED rows
      BY <1>0, <1>3 DEF CacheHit, FeedInv, FetchOK
    <2>2. PICK n \in 0..rows, limit \in CacheSizes : \E total \in 0..n :
            Arrive(PageAt(0, limit, n, total))
      BY <1>3 DEF CacheHit
    <2>3. PICK total \in 0..n : Arrive(PageAt(0, limit, n, total))
      BY <2>2
    <2> DEFINE p == PageAt(0, limit, n, total)
    <2>4. n \in Nat /\ n <= rows /\ limit \in Nat \ {0}
      BY <1>0, FeedAssumption
    <2>5. Sound(p, rows) /\ p.off = 0
      BY <1>0, <2>4, PageIsSound
    <2> HIDE DEF p
    <2>6. Arrive(p)
      BY <2>3 DEF p
    <2> QED BY <2>1, <2>5, <2>6, ArriveInv
  <1>4. CASE FetchNextPage
    <2>1. /\ HasNext(pages) /\ UNCHANGED <<rows, pages>>
          /\ fetch' = [NoFetch EXCEPT !.stage = "asked", !.next = TRUE, !.pages = pages,
                                      !.goal = Len(pages) + 1]
      BY <1>4 DEF FetchNextPage
    <2>2. pages \in Seq(PageType) /\ Len(pages) + 1 \in Nat
      BY <1>0 DEF Chained
    <2>3. fetch' \in FetchType /\ fetch'.pages = pages /\ fetch'.total = 0
      BY <1>0, <2>1, <2>2, NothingIsOK DEF FetchType
    <2> QED BY <1>0, <2>1, <2>3 DEF FeedInv, FetchOK
  <1>5. CASE Share
    <2>1. rows' = rows + 1 /\ UNCHANGED <<pages, fetch>>
      BY <1>5 DEF Share
    <2>2. Chained(pages, rows') /\ Chained(fetch.pages, rows')
      BY <1>0, <2>1, MoreRows
    <2>3. fetch.total <= rows'
      BY <1>0, <2>1 DEF FeedInv, FetchOK, FetchType
    <2> QED BY <1>0, <2>1, <2>2, <2>3 DEF FeedInv, FetchOK
  <1>6. CASE FetchFails \/ Invalidate \/ Age \/ Open \/ Close \/ UNCHANGED feedVars
    <2>1. UNCHANGED <<rows, pages>> /\ (fetch' = fetch \/ fetch' = NoFetch \/ FetchAll)
      BY <1>6 DEF FetchFails, Invalidate, Age, Open, Close, FetchIfStale, feedVars
    <2> QED BY <2>1, AnewInv
  <1> QED BY <1>1, <1>2, <1>3, <1>4, <1>5, <1>6 DEF FeedNext, Answer

LEMMA FeedInvHolds == FeedSpec => []FeedInv
  BY FeedInitInv, FeedNextInv, PTL DEF FeedSpec

\* What is cached and what is being read are chains of pages, each of which
\* begins where the one before it ends and is no older.
THEOREM PagesAreChained == FeedSpec => [](Chained(pages, rows) /\ Chained(fetch.pages, rows))
  <1>1. FeedInv => Chained(pages, rows) /\ Chained(fetch.pages, rows)
    BY DEF FeedInv, FetchOK
  <1> QED BY <1>1, FeedInvHolds, PTL

\* No video is skipped between two pages, and a list with no next page shows
\* everything down to the first video that its last count knew of.
THEOREM Contiguous == FeedSpec => []FeedIsContiguous
  <1>1. FeedInv => FeedIsContiguous
    <2> SUFFICES ASSUME FeedInv PROVE FeedIsContiguous
      OBVIOUS
    <2>0. pages \in Seq(PageType) /\ Chained(pages, rows)
      BY DEF FeedInv, Chained
    <2>1. ASSUME NEW i \in 1..Len(pages) - 1
          PROVE  Newest(pages[i + 1]) >= Oldest(pages[i]) - 1
      <3>1. Follows(pages[i + 1], pages[i]) /\ pages[i] \in PageType /\ pages[i + 1] \in PageType
        BY <2>0 DEF Chained
      <3> QED BY <3>1, NoHole
    <2>2. ASSUME pages # <<>>, ~HasNext(pages)
          PROVE  (1 + pages[Len(pages)].n - pages[Len(pages)].total)..Newest(pages[1])
                   \subseteq Shown(pages)
      <3> DEFINE l == pages[Len(pages)]
      <3>1. l \in PageType /\ pages[1] \in PageType
        BY <2>0, <2>2
      <3>2. l.off + l.size >= l.total
        BY <2>2, <3>1 DEF HasNext, Loaded, PageType
      <3>3. Oldest(l)..Newest(pages[1]) \subseteq Shown(pages)
        BY <2>0, <2>2 DEF Chained, Covered
      <3> HIDE DEF l
      <3>4. Oldest(l) <= 1 + l.n - l.total /\ {Oldest(l), Newest(pages[1]), 1 + l.n - l.total} \subseteq Int
        BY <3>1, <3>2 DEF Oldest, Newest, PageType
      <3>5. (1 + l.n - l.total)..Newest(pages[1]) \subseteq Oldest(l)..Newest(pages[1])
        BY <3>4
      <3> QED BY <3>3, <3>5 DEF l
    <2> QED BY <2>1, <2>2 DEF FeedIsContiguous
  <1> QED BY <1>1, FeedInvHolds, PTL
=============================================================================
