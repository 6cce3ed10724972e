------------------------------- MODULE Videos -------------------------------
(***************************************************************************)
(* Sharing and listing videos: backend/internal/modules/videos, with the   *)
(* cached first page of backend/internal/cache.                            *)
(*                                                                         *)
(* Each sharer is a goroutine in Service.Share, each lister one in         *)
(* Service.List with offset 0; every call to the database or the cache is  *)
(* a step of its own, so any number of others can fall between two of one  *)
(* goroutine.  The videos table is the sequence of the sharers whose       *)
(* insert committed, in that order; rows are never changed or deleted.  A  *)
(* page read when the table held seen rows is cut, limit long, from those. *)
(* (created_at, by which it is sorted, is stamped just before the insert   *)
(* and may order two concurrent ones otherwise; which rows the page was    *)
(* cut from does not depend on it.)                                        *)
(***************************************************************************)
EXTENDS Integers, Sequences, FiniteSets

CONSTANTS
  Sharers,      \* calls of Share
  WantedId,     \* WantedId[s] is the YouTube id s shares
  Listers,      \* goroutines calling List
  Limits,       \* the limits they ask for; 0 is none, and stands for any below 1
  DefaultLimit, \* the limit of repo.List for those, and for any above
  MaxLimit,     \* this one: 20 and 100
  CachedLimit,  \* the largest limit served from the cache: 20
  CacheFails    \* whether cache operations may fail

ASSUME VideosAssumption ==
  /\ Limits \subseteq Nat
  /\ CachedLimit \in Nat /\ MaxLimit \in Nat
  /\ DefaultLimit \in 1..CachedLimit
  /\ CacheFails \in BOOLEAN
  /\ DOMAIN WantedId = Sharers

VARIABLES
  rows,      \* the videos table
  share,     \* share[s]: where Share stands
  jobs,      \* announcements handed to the worker, by sharer
  cache,     \* the page under listCacheKey, or NoPage
  cleared,   \* history: number of deletions of the cached page
  undeleted, \* history: sharers whose cache.Delete failed
  list,      \* list[l]: where List stands
  limit,     \* limit[l]: its limit argument
  page       \* page[l]: the response it is building, or returned

videosVars == <<rows, share, jobs, cache, cleared, undeleted, list, limit, page>>
shareVars == <<rows, share, jobs, undeleted>>
listVars == <<list, limit, page>>

Page == [total : Nat, seen : Nat, limit : Nat, readAt : Nat, late : BOOLEAN]
NoPage == [total |-> 0, seen |-> 0, limit |-> 0, readAt |-> 0, late |-> FALSE]

\* The number of items on page p: the newest p.limit of its p.seen rows.
Size(p) == IF p.seen < p.limit THEN p.seen ELSE p.limit

\* "internal" is every error answered with status 500, "collision" the one that
\* comes from the unique index on youtube_id.
Stages == {"start", "checked", "inserted", "invalidated",
           "created", "conflict", "internal", "collision"}

Types ==
  /\ rows \in Seq(Sharers)
  /\ share \in [Sharers -> Stages]
  /\ jobs \in Seq(Sharers)
  /\ cache \in Page
  /\ cleared \in Nat
  /\ undeleted \in SUBSET Sharers
  /\ list \in [Listers -> {"idle", "get", "count", "find", "set", "answered"}]
  /\ limit \in [Listers -> Limits \cup {0}]
  /\ page \in [Listers -> Page]

Init ==
  /\ rows = <<>>
  /\ share = [s \in Sharers |-> "start"]
  /\ jobs = <<>>
  /\ cache = NoPage
  /\ cleared = 0
  /\ undeleted = {}
  /\ list = [l \in Listers |-> "idle"]
  /\ limit = [l \in Listers |-> 0]
  /\ page = [l \in Listers |-> NoPage]

Rows == 1..Len(rows)
Exists(id) == \E i \in Rows : WantedId[rows[i]] = id

-----------------------------------------------------------------------------
(* Share.                                                                  *)

\* FindByYouTubeID, then the sharer is loaded.
Check(s) ==
  /\ share[s] = "start"
  /\ share' = [share EXCEPT ![s] = IF Exists(WantedId[s]) THEN "conflict" ELSE "checked"]
  /\ UNCHANGED <<rows, jobs, cache, cleared, undeleted, listVars>>

\* The insert; the unique index admits one row per YouTube id.
Insert_NoIndex(s) ==
  /\ share[s] = "checked"
  /\ rows' = Append(rows, s)
  /\ share' = [share EXCEPT ![s] = "inserted"]
  /\ UNCHANGED <<jobs, cache, cleared, undeleted, listVars>>

Insert(s) ==
  /\ share[s] = "checked"
  /\ IF Exists(WantedId[s])
     THEN /\ share' = [share EXCEPT ![s] = "collision"]
          /\ UNCHANGED rows
     ELSE /\ share' = [share EXCEPT ![s] = "inserted"]
          /\ rows' = Append(rows, s)
  /\ UNCHANGED <<jobs, cache, cleared, undeleted, listVars>>

\* A database error in the lookup, the load of the sharer or the insert.
ShareFails(s) ==
  /\ share[s] \in {"start", "checked"}
  /\ share' = [share EXCEPT ![s] = "internal"]
  /\ UNCHANGED <<rows, jobs, cache, cleared, undeleted, listVars>>

\* cache.Delete; a failure is only logged.
Invalidate_Skipped(s) ==
  /\ share[s] = "inserted"
  /\ share' = [share EXCEPT ![s] = "invalidated"]
  /\ UNCHANGED <<rows, jobs, cache, cleared, undeleted, listVars>>

Invalidate(s) ==
  /\ share[s] = "inserted"
  /\ share' = [share EXCEPT ![s] = "invalidated"]
  /\ \/ /\ cache' = NoPage
        /\ cleared' = cleared + 1
        /\ UNCHANGED undeleted
     \/ /\ CacheFails
        /\ undeleted' = undeleted \cup {s}
        /\ UNCHANGED <<cache, cleared>>
  /\ UNCHANGED <<rows, jobs, listVars>>

\* worker.Submit, then 201.
Announce(s) ==
  /\ share[s] = "invalidated"
  /\ share' = [share EXCEPT ![s] = "created"]
  /\ jobs' = Append(jobs, s)
  /\ UNCHANGED <<rows, cache, cleared, undeleted, listVars>>

-----------------------------------------------------------------------------
(* List.                                                                   *)

Cacheable(l) == limit[l] <= CachedLimit

AskList(l, n) ==
  /\ list[l] = "idle"
  /\ list' = [list EXCEPT ![l] = "get"]
  /\ limit' = [limit EXCEPT ![l] = n]
  /\ UNCHANGED <<shareVars, cache, cleared, page>>

CacheHit(l) ==
  /\ list[l] = "get"
  /\ Cacheable(l)
  /\ cache # NoPage
  /\ page' = [page EXCEPT ![l] = cache]
  /\ list' = [list EXCEPT ![l] = "answered"]
  /\ UNCHANGED <<shareVars, cache, cleared, limit>>

\* A miss, an error of the cache, or a limit that is not cached.
CacheMiss(l) ==
  /\ list[l] = "get"
  /\ ~Cacheable(l) \/ cache = NoPage \/ CacheFails
  /\ list' = [list EXCEPT ![l] = "count"]
  /\ UNCHANGED <<shareVars, cache, cleared, limit, page>>

\* repo.List: two statements, not in one transaction.
PageLimit(n) == IF n = 0 \/ n > MaxLimit THEN DefaultLimit ELSE n

CountRows(l) ==
  /\ list[l] = "count"
  /\ list' = [list EXCEPT ![l] = "find"]
  /\ page' = [page EXCEPT ![l].total = Len(rows)]
  /\ UNCHANGED <<shareVars, cache, cleared, limit>>

FindRows(l) ==
  /\ list[l] = "find"
  /\ list' = [list EXCEPT ![l] = "set"]
  /\ page' = [page EXCEPT ![l].seen = Len(rows), ![l].limit = PageLimit(limit[l]),
                          ![l].readAt = cleared, ![l].late = FALSE]
  /\ UNCHANGED <<shareVars, cache, cleared, limit>>

\* The call ends; its variables go with it.
Return(l) ==
  /\ list' = [list EXCEPT ![l] = "idle"]
  /\ limit' = [limit EXCEPT ![l] = 0]
  /\ page' = [page EXCEPT ![l] = NoPage]
  /\ UNCHANGED <<shareVars, cache, cleared>>

\* A database error in either statement.
ListFails(l) == list[l] \in {"count", "find"} /\ Return(l)

\* cache.Set, then the response.  late records (history) that the cached page
\* was deleted between the read of this one and its write.
StorePage_AnyLimit(l) ==
  /\ list[l] = "set"
  /\ list' = [list EXCEPT ![l] = "answered"]
  /\ cache' = [page[l] EXCEPT !.late = (@ \/ page[l].readAt # cleared)]
  /\ UNCHANGED <<shareVars, cleared, limit, page>>

StorePage_CountsLast(l) ==
  /\ list[l] = "set"
  /\ list' = [list EXCEPT ![l] = "answered"]
  /\ cache' = [page[l] EXCEPT !.late = (@ \/ page[l].readAt # cleared), !.total = Len(rows)]
  /\ UNCHANGED <<shareVars, cleared, limit, page>>

StorePage(l) ==
  /\ list[l] = "set"
  /\ list' = [list EXCEPT ![l] = "answered"]
  /\ \/ /\ Cacheable(l)
        /\ cache' = [page[l] EXCEPT !.late = (@ \/ page[l].readAt # cleared)]
     \/ /\ ~Cacheable(l) \/ CacheFails
        /\ UNCHANGED cache
  /\ UNCHANGED <<shareVars, cleared, limit, page>>

ReturnList(l) == list[l] = "answered" /\ Return(l)

\* listCacheTTL passes.
Expire_Never == FALSE /\ UNCHANGED videosVars

Expire ==
  /\ cache # NoPage
  /\ cache' = NoPage
  /\ UNCHANGED <<shareVars, cleared, listVars>>

-----------------------------------------------------------------------------
ShareStep(s) == Check(s) \/ Insert(s) \/ ShareFails(s) \/ Invalidate(s) \/ Announce(s)

ListStep(l) ==
  \/ \E n \in Limits : AskList(l, n)
  \/ CacheHit(l) \/ CacheMiss(l) \/ CountRows(l) \/ FindRows(l) \/ ListFails(l)
  \/ StorePage(l) \/ ReturnList(l)

Next ==
  \/ \E s \in Sharers : ShareStep(s)
  \/ \E l \in Listers : ListStep(l)
  \/ Expire

Spec == Init /\ [][Next]_videosVars

\* An entry expires, and a call once made runs to its end.  Nobody has to call.
FairSpec ==
  /\ Spec
  /\ WF_videosVars(Expire)
  /\ \A s \in Sharers : WF_videosVars(share[s] # "start" /\ ShareStep(s))
  /\ \A l \in Listers : WF_videosVars(list[l] # "idle" /\ ListStep(l))

-----------------------------------------------------------------------------
(* Properties.                                                             *)

\* Type correctness, and the cache holds only pages of the cacheable limits.
TypeOK ==
  /\ Types
  /\ cache # NoPage => cache.limit \in 1..CachedLimit

\* However calls of Share for one YouTube id interleave, it gets one row, and
\* it is announced once, by the call that created the row, after it was created.
OneVideoOneAnnouncement ==
  /\ \A i, j \in Rows : WantedId[rows[i]] = WantedId[rows[j]] => i = j
  /\ \A i, j \in DOMAIN jobs : WantedId[jobs[i]] = WantedId[jobs[j]] => i = j
  /\ \A j \in DOMAIN jobs : \E i \in Rows : rows[i] = jobs[j]
  /\ \A s \in Sharers : share[s] = "created" <=> \E j \in DOMAIN jobs : jobs[j] = s

\* Deleting the cached page after the insert is enough, save for one race: a
\* cached page that was not overtaken by a deletion between its read and its
\* write lacks only videos whose Share has yet to delete it, or failed to.
InvalidationSuffices ==
  cache # NoPage /\ ~cache.late =>
    \A i \in Rows : i > cache.seen => share[rows[i]] = "inserted" \/ rows[i] \in undeleted

\* A page that is not full shows everything its total counts, although the
\* count and the rows are read by two statements: a client that pages until it
\* has loaded total items does not ask for more for ever.
TotalIsCovered ==
  \A p \in {cache} \cup {page[l] : l \in {m \in Listers : list[m] \in {"set", "answered"}}} :
    Size(p) < p.limit => p.total <= Size(p)

Stale == cache # NoPage /\ cache.seen < Len(rows)

\* A stale page does not survive: once sharing stops, the cached page is and
\* stays current (FairSpec).
EventuallyFresh == <>[]~Stale
=============================================================================
