--------------------------------- MODULE Feed ---------------------------------
(***************************************************************************)
(* The list of notifications: useNotificationsFeed and                     *)
(* NotificationsPopover (frontend/src/modules/notifications), an infinite  *)
(* query over GET /videos with offsets.                                    *)
(*                                                                         *)
(* A video is its place in the order of created_at, which is taken to be   *)
(* the order in which they are committed.  The first page may come from    *)
(* the server's cache, which the list of videos fills too (see Videos): it *)
(* may be old, and of the other size.                                      *)
(***************************************************************************)
EXTENDS Integers, Sequences

CONSTANTS
  PageSize,    \* PAGE_SIZE
  CacheSizes,  \* the limits of the requests whose page is cached
  FirstRows,   \* the videos there are at first
  MaxRows      \* bound on the videos

ASSUME FeedAssumption ==
  /\ PageSize \in Nat \ {0}
  /\ CacheSizes \subseteq Nat \ {0}
  /\ FirstRows \in Nat /\ MaxRows \in Nat

VARIABLES
  rows,   \* the number of videos
  open,   \* the popover is open: the query is enabled
  pages,  \* the cached pages
  stale,  \* they are invalidated, or older than staleTime
  fetch   \* the fetch under way: what it has so far, and how many pages it wants

feedVars == <<rows, open, pages, stale, fetch>>

\* A page: its offset, its length, the videos there were when it was read, and
\* the total that was counted before.
PageAt(off, limit, n, total) ==
  LET left == IF n > off THEN n - off ELSE 0
  IN [off |-> off, size |-> IF left < limit THEN left ELSE limit, n |-> n, total |-> total]

NoFetch == [stage |-> "none", next |-> FALSE, pages |-> <<>>, goal |-> 0, total |-> 0]

FeedInit ==
  /\ rows = FirstRows
  /\ open = FALSE
  /\ pages = <<>>
  /\ stale = FALSE
  /\ fetch = NoFetch

-----------------------------------------------------------------------------
(* useNotificationsFeed.                                                   *)

\* The items loaded: a page begins where the one before it ends.
Loaded(ps) == IF ps = <<>> THEN 0 ELSE ps[Len(ps)].off + ps[Len(ps)].size

\* getNextPageParam is not undefined.
HasNext(ps) == ps # <<>> /\ Loaded(ps) < ps[Len(ps)].total

-----------------------------------------------------------------------------
(* The infinite query.                                                     *)

\* All the pages there are, from the first.
FetchAll ==
  fetch' = [NoFetch EXCEPT !.stage = "asked", !.goal = IF pages = <<>> THEN 1 ELSE Len(pages)]

\* A fetch under way is joined.
FetchIfStale ==
  IF (stale \/ pages = <<>>) /\ fetch.stage = "none" THEN FetchAll ELSE UNCHANGED fetch

\* Mutant: only the first of several pages is read again.
Arrive_KeepsTheRest(p) ==
  /\ pages' = IF fetch.next THEN Append(pages, p) ELSE <<p>> \o SubSeq(pages, 2, Len(pages))
  /\ stale' = FALSE
  /\ fetch' = NoFetch

\* Page p arrives.  When it is the last one wanted, or there is no next, the
\* result replaces what was cached; else the next page is asked for.
Arrive(p) ==
  LET ps == Append(fetch.pages, p)
  IN IF Len(ps) >= fetch.goal \/ ~HasNext(ps)
     THEN /\ pages' = ps
          /\ stale' = FALSE
          /\ fetch' = NoFetch
     ELSE /\ fetch' = [fetch EXCEPT !.stage = "asked", !.pages = ps, !.total = 0]
          /\ UNCHANGED <<pages, stale>>

\* The two statements of repo.List.
CountRows ==
  /\ fetch.stage = "asked"
  /\ fetch' = [fetch EXCEPT !.stage = "counted", !.total = rows]
  /\ UNCHANGED <<rows, open, pages, stale>>

FindRows ==
  /\ fetch.stage = "counted"
  /\ Arrive(PageAt(Loaded(fetch.pages), PageSize, rows, fetch.total))
  /\ UNCHANGED <<rows, open>>

\* The first page, as it was cached when there were n videos.
CacheHit ==
  /\ fetch.stage = "asked"
  /\ Loaded(fetch.pages) = 0
  /\ \E n \in 0..rows, limit \in CacheSizes : \E total \in 0..n :
       Arrive(PageAt(0, limit, n, total))
  /\ UNCHANGED <<rows, open>>

\* A call that fails twice.
FetchFails ==
  /\ fetch.stage # "none"
  /\ fetch' = NoFetch
  /\ stale' = TRUE
  /\ UNCHANGED <<rows, open, pages>>

\* Mutant: not while the pages are stale.
FetchNextPage_WhenFresh ==
  /\ open
  /\ HasNext(pages)
  /\ ~fetch.next /\ ~stale
  /\ fetch' = [NoFetch EXCEPT !.stage = "asked", !.next = TRUE, !.pages = pages,
                              !.goal = Len(pages) + 1]
  /\ UNCHANGED <<rows, open, pages, stale>>

\* The sentinel comes into view: a refetch under way is dropped.
FetchNextPage ==
  /\ open
  /\ HasNext(pages)
  /\ ~fetch.next
  /\ fetch' = [NoFetch EXCEPT !.stage = "asked", !.next = TRUE, !.pages = pages,
                              !.goal = Len(pages) + 1]
  /\ UNCHANGED <<rows, open, pages, stale>>

\* The event of a new video: whatever is being fetched is dropped for a fetch of
\* all the pages, if there are some and the query is enabled.
Invalidate ==
  /\ stale' = TRUE
  /\ IF open /\ (pages # <<>> \/ fetch.stage = "none") THEN FetchAll ELSE UNCHANGED fetch
  /\ UNCHANGED <<rows, open, pages>>

Age ==
  /\ pages # <<>>
  /\ ~stale
  /\ stale' = TRUE
  /\ UNCHANGED <<rows, open, pages, fetch>>

-----------------------------------------------------------------------------
Share ==
  /\ rows < MaxRows
  /\ rows' = rows + 1
  /\ UNCHANGED <<open, pages, stale, fetch>>

Open ==
  /\ ~open
  /\ open' = TRUE
  /\ FetchIfStale
  /\ UNCHANGED <<rows, pages, stale>>

\* The bell again, a click elsewhere, or Escape.
Close ==
  /\ open
  /\ open' = FALSE
  /\ UNCHANGED <<rows, pages, stale, fetch>>

Answer == CountRows \/ FindRows \/ CacheHit

FeedNext ==
  \/ Answer \/ FetchFails \/ FetchNextPage
  \/ Invalidate \/ Age \/ Share \/ Open \/ Close

FeedSpec == FeedInit /\ [][FeedNext]_feedVars

\* The server answers, and a sentinel that is in view is reported.
FeedFairSpec == FeedSpec /\ WF_feedVars(Answer) /\ WF_feedVars(FetchNextPage)

-----------------------------------------------------------------------------
(* Properties.                                                             *)

\* The newest and the oldest video on page p.
Newest(p) == p.n - p.off
Oldest(p) == Newest(p) - p.size + 1

Shown(ps) == UNION {Oldest(ps[i])..Newest(ps[i]) : i \in DOMAIN ps}

\* No video is skipped between two pages, although videos are shared while they
\* are read and old pages are mixed with new ones; and with no next page the list
\* shows everything from the newest of its first page to the first video, but for
\* as many as were shared between the count and the read of its last page.
FeedIsContiguous ==
  /\ \A i \in 1..Len(pages) - 1 : Newest(pages[i + 1]) >= Oldest(pages[i]) - 1
  /\ pages # <<>> /\ ~HasNext(pages) =>
       LET last == pages[Len(pages)]
       IN (1 + last.n - last.total)..Newest(pages[1]) \subseteq Shown(pages)

\* A user who keeps the end of an open list in view gets to where there is no next
\* page, unless calls fail or the list is invalidated over and over (FeedFairSpec).
FeedEnds ==
  <>[]open /\ <>[][~(FetchFails \/ Invalidate)]_feedVars
    => <>[]~HasNext(pages)
=============================================================================
