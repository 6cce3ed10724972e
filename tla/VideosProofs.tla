---------------------------- MODULE VideosProofs ----------------------------
(***************************************************************************)
(* Safety of sharing and listing, for any number of concurrent calls, any  *)
(* YouTube ids and limits.                                                 *)
(***************************************************************************)
EXTENDS Videos, TLAPS

HasRow(s) == \E i \in Rows : rows[i] = s

\* Where each sharer stands, read off the table and the announcements.
Sharing ==
  /\ \A i, j \in Rows : WantedId[rows[i]] = WantedId[rows[j]] => i = j
  /\ \A s \in Sharers : share[s] \in {"inserted", "invalidated", "created"} => HasRow(s)
  /\ \A j \in DOMAIN jobs : share[jobs[j]] = "created"
  /\ \A s \in Sharers : share[s] = "created" => \E j \in DOMAIN jobs : jobs[j] = s
  /\ \A i, j \in DOMAIN jobs : jobs[i] = jobs[j] => i = j

\* A total never exceeds the rows its page was, or will be, cut from.
Totals ==
  /\ cache.total <= cache.seen
  /\ \A l \in Listers :
       /\ list[l] = "find" => page[l].total <= Len(rows)
       /\ list[l] \in {"set", "answered"} => page[l].total <= page[l].seen

\* Page p lacks only videos whose Share has yet to delete the cached page, or
\* failed to.
LacksOnlyPending(p) ==
  \A i \in Rows : i > p.seen => share[rows[i]] = "inserted" \/ rows[i] \in undeleted

Fills ==
  /\ cache # NoPage /\ ~cache.late => LacksOnlyPending(cache)
  /\ \A l \in Listers :
       list[l] = "set" => /\ page[l].readAt <= cleared
                          /\ page[l].readAt = cleared => LacksOnlyPending(page[l])

LimitsKept ==
  /\ \A l \in Listers : list[l] # "idle" => limit[l] \in Limits
  /\ \A l \in Listers : list[l] = "set" => page[l].limit = PageLimit(limit[l])
  /\ cache # NoPage => cache.limit \in 1..CachedLimit

-----------------------------------------------------------------------------
LEMMA NoPageIsPage == NoPage \in Page
  BY DEF NoPage, Page

LEMMA LimitIsNat == Types => \A l \in Listers : limit[l] \in Nat
  <1> SUFFICES ASSUME Types, NEW l \in Listers PROVE limit[l] \in Nat
    OBVIOUS
  <1>1. limit[l] \in Limits \cup {0}
    BY DEF Types
  <1>2. Limits \subseteq Nat
    BY VideosAssumption
  <1>3. CASE limit[l] \in Limits
    BY <1>2, <1>3
  <1>4. CASE limit[l] = 0
    BY <1>4
  <1> QED BY <1>1, <1>3, <1>4

\* The size of a page is that of a cacheable page if the limit asked for is one.
LEMMA PageLimits ==
  \A n \in Nat : PageLimit(n) \in Nat /\ (n <= CachedLimit => PageLimit(n) \in 1..CachedLimit)
  BY VideosAssumption DEF PageLimit

LEMMA LenIsNat == Types => Len(rows) \in Nat
  <1>1. ASSUME rows \in Seq(Sharers) PROVE Len(rows) \in Nat
    BY <1>1
  <1> QED BY <1>1 DEF Types

LEMMA TypesInit == Init => Types
  <1> SUFFICES ASSUME Init PROVE Types
    OBVIOUS
  <1>1. rows \in Seq(Sharers) /\ jobs \in Seq(Sharers)
    BY DEF Init
  <1>2. share \in [Sharers -> Stages]
    BY DEF Init, Stages
  <1>3. page \in [Listers -> Page] /\ cache \in Page
    BY NoPageIsPage DEF Init
  <1>4. limit \in [Listers -> Limits \cup {0}]
    BY DEF Init
  <1>5. list \in [Listers -> {"idle", "get", "count", "find", "set", "answered"}]
    BY DEF Init
  <1> QED BY <1>1, <1>2, <1>3, <1>4, <1>5 DEF Init, Types

LEMMA TypesNext == Types /\ [Next]_videosVars => Types'
  <1> SUFFICES ASSUME Types, [Next]_videosVars PROVE Types'
    OBVIOUS
  <1>1. ASSUME NEW s \in Sharers, ShareStep(s) PROVE Types'
    <2>1. CASE Check(s)
      BY <2>1 DEF Check, Types, Stages, listVars
    <2>2. CASE Insert(s)
      <3>1. rows' \in Seq(Sharers)
        <4>1. Append(rows, s) \in Seq(Sharers)
          BY DEF Types
        <4> QED BY <2>2, <4>1 DEF Insert, Types
      <3>2. share' \in [Sharers -> Stages]
        BY <2>2 DEF Insert, Types, Stages
      <3>3. UNCHANGED <<jobs, cache, cleared, undeleted, list, limit, page>>
        BY <2>2 DEF Insert, listVars
      <3> QED BY <3>1, <3>2, <3>3 DEF Types
    <2>3. CASE ShareFails(s)
      BY <2>3 DEF ShareFails, Types, Stages, listVars
    <2>4. CASE Invalidate(s)
      BY <2>4, NoPageIsPage DEF Invalidate, Types, Stages, listVars
    <2>5. CASE Announce(s)
      <3>1. jobs' \in Seq(Sharers)
        BY <2>5 DEF Announce, Types
      <3>2. share' \in [Sharers -> Stages]
        BY <2>5 DEF Announce, Types, Stages
      <3>3. UNCHANGED <<rows, cache, cleared, undeleted, list, limit, page>>
        BY <2>5 DEF Announce, listVars
      <3> QED BY <3>1, <3>2, <3>3 DEF Types
    <2> QED BY <1>1, <2>1, <2>2, <2>3, <2>4, <2>5 DEF ShareStep
  <1>2. ASSUME NEW l \in Listers, ListStep(l) PROVE Types'
    <2>1. ASSUME NEW n \in Limits, AskList(l, n) PROVE Types'
      BY <2>1 DEF AskList, Types, shareVars
    <2>2. CASE CacheHit(l)
      BY <2>2 DEF CacheHit, Types, shareVars
    <2>3. CASE CacheMiss(l)
      BY <2>3 DEF CacheMiss, Types, shareVars
    <2>4. CASE CountRows(l)
      <3>1. Len(rows) \in Nat
        BY LenIsNat
      <3>2. [page[l] EXCEPT !.total = Len(rows)] \in Page
        BY <3>1 DEF Types, Page
      <3>3. page' \in [Listers -> Page]
        BY <2>4, <3>2 DEF CountRows, Types
      <3> QED BY <2>4, <3>3 DEF CountRows, Types, shareVars
    <2>5. CASE FindRows(l)
      <3>1. PageLimit(limit[l]) \in Nat /\ Len(rows) \in Nat
        BY LimitIsNat, LenIsNat, PageLimits
      <3>2. [page[l] EXCEPT !.seen = Len(rows), !.limit = PageLimit(limit[l]),
                            !.readAt = cleared, !.late = FALSE] \in Page
        BY <3>1 DEF Types, Page
      <3>3. page' \in [Listers -> Page]
        BY <2>5, <3>2 DEF FindRows, Types
      <3> QED BY <2>5, <3>3 DEF FindRows, Types, shareVars
    <2>6. CASE Return(l)
      BY <2>6, NoPageIsPage DEF Return, Types, shareVars
    <2>7. CASE StorePage(l)
      <3>1. cache' \in Page
        BY <2>7 DEF StorePage, Types, Page
      <3> QED BY <2>7, <3>1 DEF StorePage, Types, shareVars
    <2> QED BY <1>2, <2>1, <2>2, <2>3, <2>4, <2>5, <2>6, <2>7
        DEF ListStep, ListFails, ReturnList
  <1>3. CASE Expire
    BY <1>3, NoPageIsPage DEF Expire, Types, shareVars, listVars
  <1>4. CASE UNCHANGED videosVars
    BY <1>4 DEF videosVars, Types
  <1> QED BY <1>1, <1>2, <1>3, <1>4 DEF Next

LEMMA TypesHold == Spec => []Types
  BY TypesInit, TypesNext, PTL DEF Spec
-----------------------------------------------------------------------------
LEMMA RowsAre ==
  Types => /\ Len(rows) \in Nat
           /\ Rows = 1..Len(rows)
           /\ DOMAIN jobs = 1..Len(jobs)
           /\ \A i \in Rows : rows[i] \in Sharers
           /\ \A j \in DOMAIN jobs : jobs[j] \in Sharers
  <1> SUFFICES ASSUME rows \in Seq(Sharers), jobs \in Seq(Sharers)
      PROVE  /\ Len(rows) \in Nat
             /\ 1..Len(rows) = 1..Len(rows)
             /\ DOMAIN jobs = 1..Len(jobs)
             /\ \A i \in 1..Len(rows) : rows[i] \in Sharers
             /\ \A j \in DOMAIN jobs : jobs[j] \in Sharers
    BY DEF Types, Rows
  <1> QED OBVIOUS

\* A row appended to the table leaves the others where they are.
LEMMA AppendRow ==
  ASSUME Types, NEW s \in Sharers, rows' = Append(rows, s)
  PROVE  /\ Len(rows') = Len(rows) + 1
         /\ Rows' = Rows \cup {Len(rows) + 1}
         /\ Len(rows) + 1 \notin Rows
         /\ rows'[Len(rows) + 1] = s
         /\ \A i \in Rows : rows'[i] = rows[i]
  <1>1. rows \in Seq(Sharers)
    BY DEF Types
  <1>2. Len(rows) \in Nat
    BY LenIsNat
  <1>3. Len(rows') = Len(rows) + 1 /\ rows'[Len(rows) + 1] = s
    BY <1>1
  <1>4. \A i \in 1..Len(rows) : rows'[i] = rows[i]
    BY <1>1
  <1>5. 1..(Len(rows) + 1) = (1..Len(rows)) \cup {Len(rows) + 1}
    BY <1>2
  <1>6. Len(rows) + 1 \notin 1..Len(rows)
    BY <1>2
  <1> QED BY <1>3, <1>4, <1>5, <1>6 DEF Rows

LEMMA AppendJob ==
  ASSUME Types, NEW s \in Sharers, jobs' = Append(jobs, s)
  PROVE  /\ DOMAIN jobs' = DOMAIN jobs \cup {Len(jobs) + 1}
         /\ Len(jobs) + 1 \notin DOMAIN jobs
         /\ jobs'[Len(jobs) + 1] = s
         /\ \A j \in DOMAIN jobs : jobs'[j] = jobs[j]
  <1>1. jobs \in Seq(Sharers)
    BY DEF Types
  <1>2. Len(jobs) \in Nat /\ DOMAIN jobs = 1..Len(jobs)
    BY <1>1
  <1>3. Append(jobs, s) \in Seq(Sharers) /\ Len(Append(jobs, s)) = Len(jobs) + 1
    BY <1>1
  <1>4. DOMAIN jobs' = 1..(Len(jobs) + 1)
    BY <1>3
  <1>5. jobs'[Len(jobs) + 1] = s
    BY <1>1
  <1>6. \A j \in 1..Len(jobs) : jobs'[j] = jobs[j]
    BY <1>1
  <1>7. 1..(Len(jobs) + 1) = (1..Len(jobs)) \cup {Len(jobs) + 1} /\ Len(jobs) + 1 \notin 1..Len(jobs)
    BY <1>2
  <1> QED BY <1>2, <1>4, <1>5, <1>6, <1>7

-----------------------------------------------------------------------------
(* Sharing: rows, announcements and answers agree.                         *)

LEMMA SharingInit == Init => Sharing
  <1> SUFFICES ASSUME Init PROVE Sharing
    OBVIOUS
  <1>1. rows = <<>> /\ jobs = <<>> /\ \A s \in Sharers : share[s] = "start"
    BY DEF Init
  <1>2. Rows = {} /\ DOMAIN jobs = {}
    BY <1>1 DEF Rows
  <1> QED BY <1>1, <1>2 DEF Sharing

LEMMA SharingNext == Types /\ Sharing /\ [Next]_videosVars => Sharing'
  <1> SUFFICES ASSUME Types, Sharing, [Next]_videosVars PROVE Sharing'
    OBVIOUS
  <1>0. /\ \A i \in Rows : rows[i] \in Sharers
        /\ \A j \in DOMAIN jobs : jobs[j] \in Sharers
    BY RowsAre
  <1>s. share \in [Sharers -> Stages]
    BY DEF Types
  <1>1. ASSUME UNCHANGED <<rows, share, jobs>> PROVE Sharing'
    BY <1>1 DEF Sharing, HasRow, Rows
  \* A step of s before it has a row, or from "inserted" on to "invalidated".
  <1>2. ASSUME NEW s \in Sharers, NEW stage \in Stages,
               UNCHANGED <<rows, jobs>>,
               share' = [share EXCEPT ![s] = stage],
               share[s] # "created",
               stage # "created",
               stage \in {"inserted", "invalidated"} => share[s] = "inserted"
        PROVE  Sharing'
    <2>1. Rows' = Rows /\ \A x : HasRow(x)' <=> HasRow(x)
      BY <1>2 DEF Rows, HasRow
    <2>2. \A x \in Sharers : share'[x] \in {"inserted", "invalidated", "created"} => HasRow(x)
      BY <1>2, <1>s DEF Sharing
    <2>3. \A j \in DOMAIN jobs : share'[jobs[j]] = "created"
      BY <1>0, <1>2, <1>s DEF Sharing
    <2>4. \A x \in Sharers : share'[x] = "created" => \E j \in DOMAIN jobs : jobs[j] = x
      BY <1>2, <1>s DEF Sharing
    <2> QED BY <1>2, <2>1, <2>2, <2>3, <2>4 DEF Sharing
  <1>3. ASSUME NEW s \in Sharers, ShareStep(s) PROVE Sharing'
    <2>1. CASE Check(s)
      BY <2>1, <1>2 DEF Check, Stages
    <2>2. CASE Insert(s)
      <3>1. CASE Exists(WantedId[s])
        BY <2>2, <3>1, <1>2 DEF Insert, Stages
      <3>2. CASE ~Exists(WantedId[s])
        <4>1. /\ share[s] = "checked"
              /\ share' = [share EXCEPT ![s] = "inserted"]
              /\ rows' = Append(rows, s)
              /\ jobs' = jobs
          BY <2>2, <3>2 DEF Insert
        <4>2. /\ Rows' = Rows \cup {Len(rows) + 1}
              /\ rows'[Len(rows) + 1] = s
              /\ \A i \in Rows : rows'[i] = rows[i]
          BY <4>1, AppendRow
        <4>3. \A i, j \in Rows' : WantedId[rows'[i]] = WantedId[rows'[j]] => i = j
          BY <3>2, <4>2 DEF Sharing, Exists
        <4>4. \A x \in Sharers : share'[x] \in {"inserted", "invalidated", "created"}
                                 => \E i \in Rows' : rows'[i] = x
          <5> SUFFICES ASSUME NEW x \in Sharers,
                              share'[x] \in {"inserted", "invalidated", "created"}
              PROVE  \E i \in Rows' : rows'[i] = x
            OBVIOUS
          <5>1. CASE x = s
            BY <5>1, <4>2
          <5>2. CASE x # s
            <6>1. share'[x] = share[x]
              BY <5>2, <4>1, <1>s
            <6>2. PICK i \in Rows : rows[i] = x
              BY <6>1 DEF Sharing, HasRow
            <6> QED BY <6>2, <4>2
          <5> QED BY <5>1, <5>2
        <4>5. \A j \in DOMAIN jobs : share'[jobs[j]] = "created"
          BY <1>0, <4>1, <1>s DEF Sharing
        <4>6. \A x \in Sharers : share'[x] = "created" => \E j \in DOMAIN jobs : jobs[j] = x
          BY <4>1, <1>s DEF Sharing
        <4> QED BY <4>1, <4>3, <4>4, <4>5, <4>6 DEF Sharing, HasRow
      <3> QED BY <3>1, <3>2
    <2>3. CASE ShareFails(s)
      BY <2>3, <1>2 DEF ShareFails, Stages
    <2>4. CASE Invalidate(s)
      BY <2>4, <1>2 DEF Invalidate, Stages
    <2>5. CASE Announce(s)
      <3>1. /\ share[s] = "invalidated"
            /\ share' = [share EXCEPT ![s] = "created"]
            /\ jobs' = Append(jobs, s)
            /\ rows' = rows
        BY <2>5 DEF Announce
      <3>2. /\ DOMAIN jobs' = DOMAIN jobs \cup {Len(jobs) + 1}
            /\ jobs'[Len(jobs) + 1] = s
            /\ \A j \in DOMAIN jobs : jobs'[j] = jobs[j]
        BY <3>1, AppendJob
      <3>3. \A x \in Sharers : share'[x] \in {"inserted", "invalidated", "created"} => HasRow(x)
        BY <3>1, <1>s DEF Sharing
      <3>4. Rows' = Rows /\ \A x : HasRow(x)' <=> HasRow(x)
        BY <3>1 DEF Rows, HasRow
      <3>5. \A j \in DOMAIN jobs : jobs[j] # s
        BY <3>1 DEF Sharing
      <3>6. \A j \in DOMAIN jobs' : share'[jobs'[j]] = "created"
        BY <1>0, <3>1, <3>2, <1>s DEF Sharing
      <3>7. \A x \in Sharers : share'[x] = "created" => \E j \in DOMAIN jobs' : jobs'[j] = x
        BY <3>1, <3>2, <1>s DEF Sharing
      <3>8. \A i, j \in DOMAIN jobs' : jobs'[i] = jobs'[j] => i = j
        BY <3>2, <3>5 DEF Sharing
      <3> QED BY <3>1, <3>3, <3>4, <3>6, <3>7, <3>8 DEF Sharing
    <2> QED BY <1>3, <2>1, <2>2, <2>3, <2>4, <2>5 DEF ShareStep
  <1>4. ASSUME NEW l \in Listers, ListStep(l) PROVE Sharing'
    BY <1>1, <1>4 DEF ListStep, AskList, CacheHit, CacheMiss, CountRows, FindRows,
       ListFails, StorePage, ReturnList, Return, shareVars
  <1>5. CASE Expire
    BY <1>1, <1>5 DEF Expire, shareVars
  <1>6. CASE UNCHANGED videosVars
    BY <1>1, <1>6 DEF videosVars
  <1> QED BY <1>3, <1>4, <1>5, <1>6 DEF Next

LEMMA SharingSuffices == Types /\ Sharing => OneVideoOneAnnouncement
  <1> SUFFICES ASSUME Types, Sharing PROVE OneVideoOneAnnouncement
    OBVIOUS
  <1>0. \A j \in DOMAIN jobs : jobs[j] \in Sharers
    BY RowsAre
  <1>1. \A j \in DOMAIN jobs : \E i \in Rows : rows[i] = jobs[j]
    BY <1>0 DEF Sharing, HasRow
  <1>2. \A i, j \in DOMAIN jobs : WantedId[jobs[i]] = WantedId[jobs[j]] => i = j
    <2> SUFFICES ASSUME NEW i \in DOMAIN jobs, NEW j \in DOMAIN jobs,
                        WantedId[jobs[i]] = WantedId[jobs[j]]
        PROVE i = j
      OBVIOUS
    <2>1. PICK m \in Rows : rows[m] = jobs[i]
      BY <1>1
    <2>2. PICK n \in Rows : rows[n] = jobs[j]
      BY <1>1
    <2>3. m = n
      BY <2>1, <2>2 DEF Sharing
    <2>4. jobs[i] = jobs[j]
      BY <2>1, <2>2, <2>3
    <2> QED BY <2>4 DEF Sharing
  <1>3. \A s \in Sharers : share[s] = "created" <=> \E j \in DOMAIN jobs : jobs[j] = s
    BY DEF Sharing
  <1> QED BY <1>1, <1>2, <1>3 DEF Sharing, OneVideoOneAnnouncement

\* However calls of Share interleave, and whichever of their steps fail, a
\* YouTube id gets one row and one announcement.
THEOREM SharedOnce == Spec => []OneVideoOneAnnouncement
  <1>1. Types /\ Sharing => OneVideoOneAnnouncement
    BY SharingSuffices
  <1> QED BY <1>1, TypesHold, SharingInit, SharingNext, PTL DEF Spec

-----------------------------------------------------------------------------
(* Totals: the count is never ahead of the rows.                           *)

LEMMA TotalsInit == Init => Totals
  BY DEF Init, Totals, NoPage

LEMMA RowsOnlyGrow == Types /\ [Next]_videosVars => Len(rows) <= Len(rows')
  <1> SUFFICES ASSUME Types, [Next]_videosVars PROVE Len(rows) <= Len(rows')
    OBVIOUS
  <1>1. Len(rows) \in Nat
    BY LenIsNat
  <1>2. CASE rows' = rows
    BY <1>1, <1>2
  <1>3. ASSUME NEW s \in Sharers, Insert(s) PROVE rows' = rows \/ rows' = Append(rows, s)
    BY <1>3 DEF Insert
  <1>4. ASSUME NEW s \in Sharers, rows' = Append(rows, s) PROVE Len(rows) <= Len(rows')
    <2>1. Len(rows') = Len(rows) + 1
      BY <1>4, AppendRow
    <2> QED BY <1>1, <2>1
  <1>5. rows' = rows \/ \E s \in Sharers : rows' = Append(rows, s)
    BY <1>3 DEF Next, videosVars, ShareStep, Check, ShareFails, Invalidate, Announce,
       ListStep, AskList, CacheHit, CacheMiss, CountRows, FindRows, ListFails, StorePage,
       ReturnList, Return, Expire, shareVars
  <1> QED BY <1>2, <1>4, <1>5

LEMMA TotalsNext == Types /\ Totals /\ [Next]_videosVars => Totals'
  <1> SUFFICES ASSUME Types, Totals, [Next]_videosVars PROVE Totals'
    OBVIOUS
  <1>1. Len(rows) \in Nat /\ Len(rows') \in Nat /\ Len(rows) <= Len(rows')
    BY RowsOnlyGrow, LenIsNat, TypesNext
  <1>2. /\ list \in [Listers -> {"idle", "get", "count", "find", "set", "answered"}]
        /\ page \in [Listers -> Page]
        /\ cache \in Page
    BY DEF Types
  <1>3. \A l \in Listers : page[l].total \in Nat
    BY <1>2 DEF Page
  \* Steps that leave the lists alone, and the cache too or empty.
  <1>4. ASSUME UNCHANGED <<list, page>>, cache' \in {cache, NoPage} PROVE Totals'
    <2>1. cache'.total <= cache'.seen
      BY <1>4 DEF Totals, NoPage
    <2>2. \A l \in Listers : list[l] = "find" => page[l].total <= Len(rows')
      BY <1>1, <1>3 DEF Totals
    <2> QED BY <1>4, <2>1, <2>2 DEF Totals
  \* Steps of one lister.
  <1>5. ASSUME NEW l \in Listers,
               UNCHANGED rows,
               \A m \in Listers \ {l} : list'[m] = list[m] /\ page'[m] = page[m],
               cache'.total <= cache'.seen,
               list'[l] = "find" => page'[l].total <= Len(rows),
               list'[l] \in {"set", "answered"} => page'[l].total <= page'[l].seen
        PROVE  Totals'
    BY <1>5 DEF Totals
  <1>6. ASSUME NEW s \in Sharers, ShareStep(s) PROVE Totals'
    BY <1>4, <1>6 DEF ShareStep, Check, Insert, ShareFails, Invalidate, Announce, listVars
  <1>7. ASSUME NEW l \in Listers, ListStep(l) PROVE Totals'
    <2>0. rows' = rows
      BY <1>7 DEF ListStep, AskList, CacheHit, CacheMiss, CountRows, FindRows, ListFails,
         StorePage, ReturnList, Return, shareVars
    <2>1. ASSUME NEW n \in Limits, AskList(l, n) PROVE Totals'
      BY <2>0, <2>1, <1>2, <1>5 DEF AskList, Totals
    <2>2. CASE CacheHit(l)
      BY <2>0, <2>2, <1>2, <1>5 DEF CacheHit, Totals
    <2>3. CASE CacheMiss(l)
      BY <2>0, <2>3, <1>2, <1>5 DEF CacheMiss, Totals
    <2>4. CASE CountRows(l)
      <3>1. page' = [page EXCEPT ![l].total = Len(rows)] /\ cache' = cache
        BY <2>4 DEF CountRows
      <3>2. list' = [list EXCEPT ![l] = "find"]
        BY <2>4 DEF CountRows
      <3>3. page'[l].total = Len(rows) /\ list'[l] = "find"
        BY <3>1, <3>2, <1>2 DEF Page
      <3>4. page'[l].total <= Len(rows)
        BY <3>3, <1>1
      <3> QED BY <2>0, <3>1, <3>2, <3>3, <3>4, <1>2, <1>5 DEF Totals
    <2>5. CASE FindRows(l)
      <3>1. /\ list[l] = "find"
            /\ list' = [list EXCEPT ![l] = "set"]
            /\ page' = [page EXCEPT ![l].seen = Len(rows), ![l].limit = PageLimit(limit[l]),
                                    ![l].readAt = cleared, ![l].late = FALSE]
            /\ cache' = cache
        BY <2>5 DEF FindRows
      <3>2. page'[l].total = page[l].total /\ page'[l].seen = Len(rows) /\ list'[l] = "set"
        BY <3>1, <1>2 DEF Page
      <3>3. page'[l].total <= page'[l].seen
        BY <3>1, <3>2 DEF Totals
      <3> QED BY <2>0, <3>1, <3>2, <3>3, <1>2, <1>5 DEF Totals
    <2>6. CASE Return(l)
      BY <2>0, <2>6, <1>2, <1>5 DEF Return, Totals
    <2>7. CASE StorePage(l)
      <3>1. list' = [list EXCEPT ![l] = "answered"] /\ list[l] = "set" /\ page' = page
        BY <2>7 DEF StorePage
      <3>2. cache' = cache \/ cache' = [page[l] EXCEPT !.late = (@ \/ page[l].readAt # cleared)]
        BY <2>7 DEF StorePage
      <3>3. page[l].total <= page[l].seen
        BY <3>1 DEF Totals
      <3>4. cache'.total <= cache'.seen
        BY <3>2, <3>3, <1>2 DEF Totals, Page
      <3> QED BY <2>0, <3>1, <3>3, <3>4, <1>2, <1>5
    <2> QED BY <1>7, <2>1, <2>2, <2>3, <2>4, <2>5, <2>6, <2>7
        DEF ListStep, ListFails, ReturnList
  <1>8. CASE Expire
    BY <1>4, <1>8 DEF Expire, listVars
  <1>9. CASE UNCHANGED videosVars
    BY <1>4, <1>9 DEF videosVars
  <1> QED BY <1>6, <1>7, <1>8, <1>9 DEF Next

LEMMA TotalsSuffice == Types /\ Totals => TotalIsCovered
  <1> SUFFICES ASSUME Types, Totals,
                      NEW p \in {cache} \cup {page[l] : l \in {m \in Listers : list[m] \in {"set", "answered"}}},
                      Size(p) < p.limit
      PROVE  p.total <= Size(p)
    BY DEF TotalIsCovered
  <1>1. p.total <= p.seen
    BY DEF Totals
  <1>2. p \in Page
    BY DEF Types
  <1>3. p.seen \in Nat /\ p.limit \in Nat
    BY <1>2 DEF Page
  <1>4. Size(p) = p.seen
    BY <1>3 DEF Size
  <1> QED BY <1>1, <1>4

\* A page that is not full shows all the rows its total counts.
THEOREM TotalsAreCovered == Spec => []TotalIsCovered
  <1>1. Types /\ Totals => TotalIsCovered
    BY TotalsSuffice
  <1> QED BY <1>1, TypesHold, TotalsInit, TotalsNext, PTL DEF Spec

-----------------------------------------------------------------------------
(* Limits: type correctness with what the cache may hold.                  *)

LEMMA LimitsInit == Init => LimitsKept
  BY DEF Init, LimitsKept

LEMMA LimitsNext == Types /\ LimitsKept /\ [Next]_videosVars => LimitsKept'
  <1> SUFFICES ASSUME Types, LimitsKept, [Next]_videosVars PROVE LimitsKept'
    OBVIOUS
  <1>1. /\ list \in [Listers -> {"idle", "get", "count", "find", "set", "answered"}]
        /\ page \in [Listers -> Page]
        /\ limit \in [Listers -> Limits \cup {0}]
        /\ cache \in Page
    BY DEF Types
  <1>2. ASSUME UNCHANGED <<list, limit, page>>, cache' \in {cache, NoPage} PROVE LimitsKept'
    BY <1>2 DEF LimitsKept
  <1>3. ASSUME NEW s \in Sharers, ShareStep(s) PROVE LimitsKept'
    BY <1>2, <1>3 DEF ShareStep, Check, Insert, ShareFails, Invalidate, Announce, listVars
  <1>4. ASSUME NEW l \in Listers, ListStep(l) PROVE LimitsKept'
    <2>1. ASSUME NEW n \in Limits, AskList(l, n) PROVE LimitsKept'
      BY <2>1, <1>1 DEF AskList, LimitsKept
    <2>2. CASE CacheHit(l)
      BY <2>2, <1>1 DEF CacheHit, LimitsKept
    <2>3. CASE CacheMiss(l)
      BY <2>3, <1>1 DEF CacheMiss, LimitsKept
    <2>4. CASE CountRows(l)
      BY <2>4, <1>1 DEF CountRows, LimitsKept
    <2>5. CASE FindRows(l)
      BY <2>5, <1>1 DEF FindRows, LimitsKept, Page
    <2>6. CASE Return(l)
      BY <2>6, <1>1 DEF Return, LimitsKept
    <2>7. CASE StorePage(l)
      <3>1. /\ list[l] = "set"
            /\ list' = [list EXCEPT ![l] = "answered"]
            /\ UNCHANGED <<limit, page>>
        BY <2>7 DEF StorePage, shareVars
      <3>2. CASE cache' = cache
        BY <3>1, <3>2, <1>1 DEF LimitsKept
      <3>3. CASE /\ limit[l] <= CachedLimit
                 /\ cache' = [page[l] EXCEPT !.late = (@ \/ page[l].readAt # cleared)]
        <4>1. cache'.limit = page[l].limit
          BY <3>3, <1>1 DEF Page
        <4>2. page[l].limit = PageLimit(limit[l]) /\ limit[l] \in Nat
          BY <3>1, LimitIsNat DEF LimitsKept
        <4>3. page[l].limit \in 1..CachedLimit
          BY <3>3, <4>2, PageLimits
        <4>4. /\ \A m \in Listers : list'[m] # "idle" => limit'[m] \in Limits
              /\ \A m \in Listers : list'[m] = "set" => page'[m].limit = PageLimit(limit'[m])
          BY <3>1, <1>1 DEF LimitsKept
        <4> QED BY <4>1, <4>3, <4>4 DEF LimitsKept
      <3> QED BY <2>7, <3>2, <3>3 DEF StorePage, Cacheable
    <2> QED BY <1>4, <2>1, <2>2, <2>3, <2>4, <2>5, <2>6, <2>7
        DEF ListStep, ListFails, ReturnList
  <1>5. CASE Expire
    BY <1>2, <1>5 DEF Expire, listVars
  <1>6. CASE UNCHANGED videosVars
    BY <1>2, <1>6 DEF videosVars
  <1> QED BY <1>3, <1>4, <1>5, <1>6 DEF Next

\* Type correctness; the cache never holds a page of a limit above CachedLimit.
THEOREM TypeCorrect == Spec => []TypeOK
  <1>1. Types /\ LimitsKept => TypeOK
    BY DEF LimitsKept, TypeOK
  <1> QED BY <1>1, TypesHold, LimitsInit, LimitsNext, PTL DEF Spec

-----------------------------------------------------------------------------
(* Fills: deletion after the insert is enough.  The pages at risk are the  *)
(* cached one and those read and not yet written; for the latter, that no  *)
(* deletion happened since is what matters, so the invariant speaks of     *)
(* both.                                                                   *)

LEMMA FillsInit == Init => Fills
  BY DEF Init, Fills

\* A step that only moves sharers other than out of "inserted", or records a
\* failed deletion, leaves a page as good as it was.
LEMMA LacksMonotone ==
  ASSUME Types, NEW p, LacksOnlyPending(p), UNCHANGED rows,
         \A s \in Sharers : share[s] = "inserted" => share'[s] = "inserted" \/ s \in undeleted',
         undeleted \subseteq undeleted'
  PROVE  \A i \in Rows' : i > p.seen => share'[rows'[i]] = "inserted" \/ rows'[i] \in undeleted'
  <1>1. Rows' = Rows
    BY DEF Rows
  <1>2. \A i \in Rows : rows[i] \in Sharers
    BY RowsAre
  <1> QED BY <1>1, <1>2 DEF LacksOnlyPending

LEMMA FillsNext == Types /\ Fills /\ [Next]_videosVars => Fills'
  <1> SUFFICES ASSUME Types, Fills, [Next]_videosVars PROVE Fills'
    OBVIOUS
  <1>1. /\ list \in [Listers -> {"idle", "get", "count", "find", "set", "answered"}]
        /\ page \in [Listers -> Page]
        /\ share \in [Sharers -> Stages]
        /\ cache \in Page
        /\ cleared \in Nat
    BY DEF Types
  <1>2. \A i \in Rows : rows[i] \in Sharers
    BY RowsAre
  <1>3. \A l \in Listers : page[l].readAt \in Nat
    BY <1>1 DEF Page
  \* The sharers' steps that delete nothing.
  <1>4. ASSUME UNCHANGED <<cleared, list, page>>, cache' \in {cache, NoPage},
               \A p \in Page : LacksOnlyPending(p) =>
                 \A i \in Rows' : i > p.seen => share'[rows'[i]] = "inserted" \/ rows'[i] \in undeleted'
        PROVE  Fills'
    <2>1. cache # NoPage /\ ~cache.late =>
            \A i \in Rows' : i > cache.seen => share'[rows'[i]] = "inserted" \/ rows'[i] \in undeleted'
      BY <1>4, <1>1 DEF Fills
    <2>2. cache' # NoPage /\ ~cache'.late =>
            \A i \in Rows' : i > cache'.seen => share'[rows'[i]] = "inserted" \/ rows'[i] \in undeleted'
      BY <1>4, <2>1
    <2>3. \A l \in Listers : list[l] = "set" =>
            /\ page[l].readAt <= cleared
            /\ page[l].readAt = cleared =>
                 \A i \in Rows' : i > page[l].seen => share'[rows'[i]] = "inserted" \/ rows'[i] \in undeleted'
      BY <1>4, <1>1 DEF Fills
    <2> QED BY <1>4, <2>2, <2>3 DEF Fills, LacksOnlyPending
  <1>5. ASSUME NEW s \in Sharers, ShareStep(s) PROVE Fills'
    <2>1. ASSUME UNCHANGED <<rows, cache, cleared, list, page>>,
                 undeleted \subseteq undeleted',
                 \A x \in Sharers : share[x] = "inserted" => share'[x] = "inserted" \/ x \in undeleted'
          PROVE  Fills'
      BY <1>4, <2>1, LacksMonotone
    <2>2. CASE Check(s)
      BY <2>1, <2>2, <1>1 DEF Check, listVars
    <2>3. CASE Insert(s)
      <3>1. CASE rows' = rows
        BY <2>1, <2>3, <3>1, <1>1 DEF Insert, listVars
      <3>2. CASE rows' = Append(rows, s) /\ share' = [share EXCEPT ![s] = "inserted"]
        <4>1. /\ Rows' = Rows \cup {Len(rows) + 1}
              /\ rows'[Len(rows) + 1] = s
              /\ \A i \in Rows : rows'[i] = rows[i]
          BY <3>2, AppendRow
        <4>2. \A x \in Sharers : share[x] = "inserted" => share'[x] = "inserted"
          BY <3>2, <1>1
        <4>3. share'[s] = "inserted" /\ undeleted' = undeleted
          BY <2>3, <3>2, <1>1 DEF Insert
        <4>4. \A p \in Page : LacksOnlyPending(p) =>
                \A i \in Rows' : i > p.seen => share'[rows'[i]] = "inserted" \/ rows'[i] \in undeleted'
          BY <4>1, <4>2, <4>3, <1>2 DEF LacksOnlyPending
        <4> QED BY <2>3, <4>4, <1>4 DEF Insert, listVars
      <3> QED BY <2>3, <3>1, <3>2 DEF Insert
    <2>4. CASE ShareFails(s)
      BY <2>1, <2>4, <1>1 DEF ShareFails, listVars
    <2>5. CASE Invalidate(s)
      <3>1. CASE cache' = NoPage /\ cleared' = cleared + 1
        <4>1. list' = list /\ page' = page
          BY <2>5 DEF Invalidate, listVars
        <4>2. ASSUME NEW l \in Listers, list[l] = "set"
              PROVE  page[l].readAt <= cleared' /\ page[l].readAt # cleared'
          <5>1. page[l].readAt <= cleared
            BY <4>2 DEF Fills
          <5> QED BY <5>1, <3>1, <1>1, <1>3
        <4> QED BY <3>1, <4>1, <4>2 DEF Fills
      <3>2. CASE cache' = cache /\ cleared' = cleared /\ undeleted' = undeleted \cup {s}
        BY <2>1, <2>5, <3>2, <1>1 DEF Invalidate, listVars
      <3> QED BY <2>5, <3>1, <3>2 DEF Invalidate
    <2>6. CASE Announce(s)
      BY <2>1, <2>6, <1>1 DEF Announce, listVars
    <2> QED BY <1>5, <2>2, <2>3, <2>4, <2>5, <2>6 DEF ShareStep
  \* The listers' steps: the sharing side is unchanged.
  <1>6. ASSUME NEW l \in Listers, ListStep(l) PROVE Fills'
    <2>0. UNCHANGED <<rows, share, undeleted, cleared>>
      BY <1>6 DEF ListStep, AskList, CacheHit, CacheMiss, CountRows, FindRows, ListFails,
         StorePage, ReturnList, Return, shareVars
    <2>r. Rows' = Rows
      BY <2>0 DEF Rows
    <2>1. ASSUME cache' = cache,
                 \A m \in Listers \ {l} : list'[m] = list[m] /\ page'[m] = page[m],
                 list'[l] # "set"
          PROVE  Fills'
      BY <2>0, <2>r, <2>1 DEF Fills, LacksOnlyPending
    <2>2. ASSUME NEW n \in Limits, AskList(l, n) PROVE Fills'
      BY <2>1, <2>2, <1>1 DEF AskList
    <2>3. CASE CacheHit(l)
      BY <2>1, <2>3, <1>1 DEF CacheHit
    <2>4. CASE CacheMiss(l)
      BY <2>1, <2>4, <1>1 DEF CacheMiss
    <2>5. CASE CountRows(l)
      BY <2>1, <2>5, <1>1 DEF CountRows
    <2>6. CASE FindRows(l)
      <3>1. /\ cache' = cache
            /\ \A m \in Listers \ {l} : list'[m] = list[m] /\ page'[m] = page[m]
        BY <2>6, <1>1 DEF FindRows
      <3>2. page'[l].seen = Len(rows) /\ page'[l].readAt = cleared
        BY <2>6, <1>1 DEF FindRows, Page
      <3>3. Len(rows) \in Nat /\ \A i \in Rows : ~(i > Len(rows))
        BY LenIsNat DEF Rows
      <3>4. \A i \in Rows : ~(i > page'[l].seen)
        BY <3>2, <3>3
      <3>5. page'[l].readAt <= cleared
        BY <3>2, <1>1
      <3> QED BY <2>0, <2>r, <3>1, <3>4, <3>5 DEF Fills, LacksOnlyPending
    <2>7. CASE Return(l)
      BY <2>1, <2>7, <1>1 DEF Return
    <2>8. CASE StorePage(l)
      <3>1. /\ list[l] = "set"
            /\ list' = [list EXCEPT ![l] = "answered"]
            /\ page' = page
        BY <2>8 DEF StorePage
      <3>2. CASE cache' = cache
        BY <2>1, <3>1, <3>2, <1>1
      <3>3. CASE cache' = [page[l] EXCEPT !.late = (@ \/ page[l].readAt # cleared)]
        <4>1. cache'.seen = page[l].seen
          BY <3>3, <1>1 DEF Page
        <4>2. ~cache'.late => page[l].readAt = cleared
          BY <3>3, <1>1 DEF Page
        <4>3. ~cache'.late => LacksOnlyPending(page[l])
          BY <4>2, <3>1 DEF Fills
        <4>4. ~cache'.late =>
                \A i \in Rows : i > cache'.seen => share[rows[i]] = "inserted" \/ rows[i] \in undeleted
          BY <4>1, <4>3 DEF LacksOnlyPending
        <4>5. \A m \in Listers : list'[m] = "set" => list[m] = "set"
          BY <3>1, <1>1
        <4> QED BY <2>0, <2>r, <3>1, <4>4, <4>5 DEF Fills, LacksOnlyPending
      <3> QED BY <2>8, <3>2, <3>3 DEF StorePage
    <2> QED BY <1>6, <2>2, <2>3, <2>4, <2>5, <2>6, <2>7, <2>8
        DEF ListStep, ListFails, ReturnList
  <1>7. CASE Expire
    <2>1. UNCHANGED <<rows, share, undeleted>>
      BY <1>7 DEF Expire, shareVars
    <2>2. Rows' = Rows
      BY <2>1 DEF Rows
    <2> QED BY <1>7, <2>1, <2>2 DEF Expire, listVars, Fills, LacksOnlyPending
  <1>8. CASE UNCHANGED videosVars
    <2>1. Rows' = Rows
      BY <1>8 DEF Rows, videosVars
    <2> QED BY <1>8, <2>1 DEF videosVars, Fills, LacksOnlyPending
  <1> QED BY <1>5, <1>6, <1>7, <1>8 DEF Next

\* Deleting the cached page after the insert leaves one race only: a page read
\* before the deletion and written after it.
THEOREM DeletionSuffices == Spec => []InvalidationSuffices
  <1>1. Fills => InvalidationSuffices
    BY DEF Fills, LacksOnlyPending, InvalidationSuffices
  <1> QED BY <1>1, TypesHold, FillsInit, FillsNext, PTL DEF Spec
=============================================================================
