# Verification of ytshare

TLA+ modules, TLC configurations and TLAPS proofs about the YouTube Share
application in `src/`: a Go backend (chi, gorm/PostgreSQL, Redis, gorilla
websocket) and a React frontend. A signed-in user shares a YouTube link; every
other signed-in user gets a notification over a websocket, and a bell counts
what a user has not seen.

## 1. The system

Paths are relative to `src/`; `go/` abbreviates `backend/internal/` and `fe/`
abbreviates `frontend/src/`.

| Component | Code | State it keeps | Operations | What makes it correct |
|---|---|---|---|---|
| Notification hub | `go/modules/notifications/hub.go` | registry of clients by user, client count, four channels, one owner goroutine | Register, Unregister, Broadcast / SendToUser, Close, and the owner's select loop | send channels are closed once and never sent on afterwards; a client is cut off, never skipped; the count is exact; Close, Register and Unregister return |
| Websocket connection | `go/modules/notifications/client.go`, `handler.go` (`handle`, `replayBacklog`) | the connection, the send channel, the reader and writer goroutines | upgrade, register, replay, read loop, write loop, ping | one writer at a time, wire order, no goroutine or connection is leaked |
| Redis stream transport | `go/modules/notifications/stream.go`, `publisher.go` | the stream (trimmed), the last id of each replica's subscriber | Publish (XADD), Run (XREAD), Replay (XRANGE) | every replica sees every event; a resuming client misses nothing |
| Worker pool | `go/jobs/worker.go` | the job queue, the pool, the wait group | Submit, Stop, run | accepted jobs run once; Stop drains |
| Process lifecycle | `backend/cmd/server/main.go`, `go/server/server.go` | server context, in-flight handlers, goroutines of Build | start, signal, Shutdown with a deadline, deferred clean-up | nothing is submitted to a stopped worker; accepted notifications are published |
| Videos | `go/modules/videos/{service,repository,handler}.go`, `migrations` | the videos table, the cached first page | Share, List | one row per YouTube id; duplicate shares are conflicts; the cached page is fresh |
| Cache | `go/cache/cache.go` | key to value with an expiry | Get, Set, Delete | a stored value is returned until it expires or is deleted |
| Unread counter | `go/modules/notifications/service.go`, `videos/repository.go` (`CountSharedAfter`), `users/repository.go` | `last_notifications_seen_at`, `created_at` | UnreadCount, MarkSeen | everything shared by others and not yet seen is counted |
| Accounts and tokens | `go/modules/auth/*`, `go/modules/users/*`, `go/middleware/auth.go` | the users table; signed tokens | SignUp, SignIn, Refresh, Authenticator | one account per email; access and refresh tokens are not interchangeable |
| Browser session | `fe/modules/auth/stores`, `fe/modules/auth/utils`, `fe/shared/constants/http-client.ts` | tokens and user in memory and local storage, one shared refresh promise | signIn, updateTokens, signOut, request and response interceptors | one refresh per burst of 401s; user and tokens belong together |
| Browser notification socket | `fe/modules/notifications/hooks` | socket, last event id, seen set, unread badge, retry timer | connect, handleEvent, recoverViaHttp, close, mark seen | a toast per event, reconnection without loss |
| Browser queries | `fe/modules/videos/hooks`, `useNotificationsFeed`, bell | the query cache | list, share, invalidate | what is shown converges to the server |
| Schema migrations | `go/database/migrate.go`, `backend/cmd/migrate/main.go` | schema version and dirty flag | up, down, force, version, status, create | a dirty schema is not migrated further |
| YouTube links | `go/modules/videos/youtube.go` | none | ExtractYouTubeID, WatchURL, ThumbnailURL | all link forms of one video give one id |
| Configuration, logging, CORS, HTTP errors | `go/config`, `go/logger`, `go/httpx`, `middleware/{cors,logger}.go` | none at run time | load, log, write | no state to model |
| Routes, guards and forms | `fe/routes`, `fe/modules/auth/{pages,components}`, `fe/modules/videos/{pages,components}`, `fe/shared/components` | the page shown, a navigation and form requests under way | follow a link, `beforeLoad`, sign in, sign up, share, sign out | nobody stays on a page that is not for them; an answer that comes late does what it should |
| Rendering, styling, translations | cards, toasts, skeletons, texts | none beyond the above | rendering | no protocol |

### How they interact

* `POST /videos` runs `videos.Service.Share` in its own goroutine: look up,
  insert, delete the cached page, then `Worker.Submit`. A worker goroutine
  calls `Publisher.Publish`: with Redis an XADD, without it `Hub.Broadcast`.
* With Redis, each replica's `Subscriber.Run` goroutine reads the stream and
  calls `Hub.Broadcast` or `Hub.SendToUser`.
* `GET /notifications/ws` runs `Handler.handle`: upgrade, `Hub.Register`,
  replay of the backlog, then the goroutines `readLoop` and `writeLoop`.
* The hub's owner goroutine is the only one that delivers to, and (save one
  case in Register) closes, the send channels; `writeLoop` drains them.
* A signal cancels the server context: the hub is closed, the subscriber ends,
  `http.Server.Shutdown` waits up to 15 s for handlers, then `main` stops the
  worker and closes Redis.
* In the browser, the socket hook and the HTTP client share the tokens of the
  auth store; a 401 starts one refresh that all waiting requests share.
* An event that is new to the page shows a toast, adds one to the badge and
  invalidates the list of videos and the feed; opening the bell marks
  everything as seen; an answered share invalidates the list and goes home.

### Where it is hard

The hazards are listed with their lines in `PROJECT.json`. The common causes are:
goroutines that meet only through channels (hub, connection, worker, shutdown);
a cached page written back after it was invalidated; a uniqueness check that is
a read followed by a write; a stream position that is only fixed by the first
message; bounded buffers at every hop (send 32, unregister 16, dispatch 256,
stream 10 000, replay 100/500, worker 256) with a different overflow policy at
each; the browser's asynchronous refresh racing sign-out and sign-in; and
answers that find the page, the session or the cached query they were sent for
replaced by another.

## 2. The modules

In the order in which the project was built:

| Module | Models | Extends or instantiates | Proofs |
|---|---|---|---|
| `Fanout` | what a hub promises, with no goroutines or buffers | | |
| `Hub` | `hub.go` | refines `Fanout` | `ConnectionProofs` (part 1) |
| `Connection` | `client.go`, `handler.go` over the hub | extends `Hub` | `ConnectionProofs` (part 2) |
| `Worker` | `worker.go` | | `LifecycleProofs` (part 1) |
| `Lifecycle` | `main.go`, `server.go` around the pool | extends `Worker` | `LifecycleProofs` (part 2) |
| `Videos` | Share and List with the cache | | `VideosProofs` |
| `Stream` | Redis stream, publisher, subscribers, resuming connections | its hubs refine `Fanout` | `StreamProofs` |
| `Session` | tokens, auth store, refreshing HTTP client | | `SessionProofs` |
| `Notices` | the browser's notification socket, its seen set and cursor, recovery over HTTP | | `NoticesProofs` (part 1) |
| `Bell` | the unread badge against the server's counter, and mark-seen | | `BellProofs` |
| `Feed` | the infinite list of notifications over offset pages | | `NoticesProofs` (part 2) |
| `Pages` | routes, guards and forms, and the query of the list of videos | | `PagesProofs` |

`Fanout` is the abstract specification that ties the parts together: `Hub`
implements it (checked and proved), and `Stream` uses it in place of the hub of
each replica and shows that a replica's subscriber feeds it correctly
(`HubsFanOut`, also checked and proved), so a statement about events that crosses Redis does not need
the hub's goroutines in the same state space. In the same way `Notices` takes
the log as a sequence that replays exactly or refuses, which is what `Stream`
shows of it (`ResumeIsExact`, whose exception is a replay that fails), and `Bell`, `Feed` and `Pages` take an event as something
that may arrive at any time, late, or never.

## 3. The modules and the code

Each definition is mapped to its lines in `PROJECT.json`. Conventions: a
goroutine is one element of a CONSTANT set and a program counter; one action is
what a goroutine does between two points where another one can be noticed
(a channel operation, a call to Redis or PostgreSQL, a write to the network);
variables marked `history` are read by properties only. Operators with a
comment "Mutant:" are plausible wrong versions of the definition after them;
each property is shown to fail when the definition is replaced by one of them.

**Hub.** The four channels are: `stop` (`stopped`), `register` (unbuffered, so a
rendezvous: the caller is in `pc[c] = "registering"` and `RunRegister` or
`RegisterStopped` ends it), `unregister` (`unregQ`, bounded), `dispatch` (the
part of `log` after `handled`). `Run*` are the cases of the owner's select;
`Close` is idempotent. A send channel is `open`, `closed` or `panicked`. One
action `RunDispatch` is the loop over the targets of one message, with the
non-blocking send and the drop of each slow client, because nothing else touches the
registry. The client's receive is an action without fairness.

**Connection** adds to every client the handler goroutine (`stage`: it becomes
`readLoop`), `writeLoop` (`writer`, `hand`), the network connection (`conn`),
the peer and what it was written (`wire`). The library's rules are explicit:
no write succeeds after a failed one or after Close, a write may be buffered
for a peer that has already gone. Each step of the composition is a step of the
hub or leaves it alone (a lemma of the proofs, by the way it is put together), so
every safety theorem of `Hub` holds with connections around it. What they owe the
hub, and it them, is `HubKnowsTheServed`: a connection in service is registered,
one that has ended has asked to be removed, once, and does not stay behind.

**Worker.** `accepted` is every job ever sent into the queue and `taken` how
many were received; `Submit` is a call and a blocking send, a send on the
closed queue panics. `Stop` closes the queue, and returns when all workers have
left. **Lifecycle** adds `main`: `server.Run` leaves through the signal
(Shutdown, which waits for the handlers or gives up after its 15 s: `forced`)
or through a listener failure, then runs the deferred `worker.Stop` and
`redis.Close`, then the process ends with whatever goroutines are left. What a
forced end loses is `LossesAreUnanswered`: announcements of shares that were never
answered, and no others.

**Videos.** Share is FindByYouTubeID, Create, cache.Delete, Submit and List is
cache.Get, the count, the rows, cache.Set, each a step that can fail in its
own way. The table is the sequence of committed inserts; a page is described by
how many rows the table had when it was read, its limit and its total, from
which its items follow. The unique index is in `Insert`; `PageLimit` is what the
repository makes of a limit that is missing or too large.

**Stream.** An entry is its position; trimming keeps at least the last `MaxLen`.
XREAD is `Ask` (where `"$"` is resolved), then `Deliver`, `Timeout` or an error.
A connection registers, then its backlog is read, then it goes live: the
entries its hub handles in between are buffered for it. The read of the backlog
may fail (`ReplayFails`): Redis cannot be read, or the id is not a stream id. The
connection then goes live without it, and is marked `unread`.

**Session.** A pair of tokens is its number in the order of issue; expiry is a
threshold on that number for access and another for refresh tokens (the order
of the two is not assumed). Each browser tab has its own store and its own
`refreshPromise`; local storage is shared and read only on loading the page.
The continuations of a resolved refresh run before any other event, hence
`Refreshed` is one step for all waiting requests. Requests to sign in or up are
one step with their answer, and one that is refused changes only what the
response interceptor changes.

**Notices.** One tab of one user. The effect of `useNotificationsSocket` is
`mounted` with a `session`; `socket` is the state of `wsRef` and `conn` that of
the server's end, so a connection that the one has lost and the other not yet
is a state of its own. `tab` is what the page remembers (the seen set in its
order of eviction, the cursor) and what local storage does (`stored`). Each
`recoverViaHttp` is an element of `recovering`, and keeps the cursor it was
called with and the seen set of the page it belongs to, which may have been left
since. A page may be left signed in or out. A replay may be refused (`lossy`).
That a recovery is answered, and a replay not refused, is the protocol as the
browser's code takes it, not what happens today: with the UUIDs it keeps as
cursors both are refused (the first finding below). `AnnouncedOnce`,
`NothingIsSkipped` and `EventsArrive` are therefore statements about the browser's
half, and the latter two on the premise that nothing was refused.

**Bell.** A row of `videos` is stamped, committed and announced in three steps;
the server reads the marker and then counts; mark-seen takes its time, writes it
and is answered. The badge is the cached answer of the query and the events
added to it since. React Query's rules are the guards of the steps that start a
fetch: one under way is joined; the invalidation in mark-seen's `onSuccess` drops
it and starts another if the query is `Active`, that is, the nav is `mounted` and
somebody signed in; otherwise it goes on. The layout with the nav may be left for
the forms or a URL that is not found, at any time, and signing in and entering it
are two steps.

**Feed.** A page is its offset, its length, the number of rows when it was read
and the total that was counted before; its videos follow from these. A fetch
reads the pages one by one, all of them or the next one, and replaces the cached
ones at the end. The first page may come from the server's cache, as old and as
long as it likes.

**Pages.** A navigation is `going` (unchecked, then let through or redirected by
`beforeLoad`) and `Arrive`; another one supersedes it at either point. A
request of a form goes on when its page is left. The list of videos is an answer
that holds the first `n` of them; `Invalidate` distinguishes the page where the
list is mounted, where a fetch under way is dropped and repeated, from the
others, where it goes on and its answer passes for a fresh one.

## 4. The runs

| Run | Instance | Shows |
|---|---|---|
| `hub` | two connections of one user, a second user, all capacities 1, two events | channel ownership, exact registry, contiguous delivery, refinement of `Fanout`; no caller, message or open channel waits for ever |
| `connection` | one connection, send buffer 2, an unregister channel of 2, three events, backlog up to 2 | what is on the wire is what the hub pushed, behind the replay and ahead of the close frame; the hub knows whom it serves and forgets who has gone; nothing is leaked |
| `lifecycle` | three requests, two workers, queue of 1 | jobs run once and Stop drains; who can meet a closed queue or a closed Redis, what is announced at exit and what a forced end loses; that a signalled process ends and nobody is stuck |
| `videos` | two shares of one link, two lists, no limit, a cacheable, an uncacheable and a too large one, failing cache | one row and one announcement, what a cached page may lack, totals, freshness in the end |
| `stream` | one replica, one resuming connection, three entries, `MaxLen` 2, replay limit 1, queue 1, failing reads and replays | resuming leaves no gap unless its replay failed, routing, contiguity, the replica's hub is a `Fanout`, the subscriber gets on |
| `session` | two tabs, two users, two requests, three token pairs | user and tokens belong together, nothing is left in local storage, a refresh is transparent, requests end |
| `notices` | three events, a seen set of 1, replays of 2, two faults (a page left signed in is one), one expiry | an event is announced once, none is skipped, and each arrives |
| `bell` | two rows, one of them the user's own, badge capped at 2, two marks, two failures, the nav left and entered | what was marked seen is not counted again; the badge settles on the server's number |
| `feed` | pages of 2, cached ones of 2 or 3, from three to eight videos | no video is skipped between pages; the end of the list is reached |
| `pages` | all pages and both forms, two videos | the list is refreshed; nobody stays on a page that is not for them |

The bounds are small on purpose and chosen so that each limit is reached:
queues and buffers of 1 overflow with the second entry; two clients of one user
are the least that tells a drop of one from a drop of both; two shares and a
list are the least for a lost invalidation; three entries with `MaxLen` 2 and a
limit of 1 make both trimming and truncation happen; three token pairs allow a
sign-in, a second sign-in and a refresh that crosses it; a seen set of 1 evicts
with the second event, so that three events tell a duplicate that must be
recognised from one that need not be; two marks are the least that can be
written in the wrong order, two rows are one of the user's own and one of
somebody else's, which the server's answer and a bump count twice (the cap of 2),
and two failures are one for each of two calls that race; four kinds of limit
are one for each branch of the repository and of the cache; an unregister channel
of 2 would hold a second request of one connection; eight videos are up to four pages of two, so that a first page
of another size, a page that grew and an unread end meet. What more clients,
larger buffers or more events could add to the safety properties of `Hub`,
`Connection`, `Worker`, `Lifecycle`, `Videos`, `Stream`, `Session`, `Bell`,
`Feed` and `Pages` is covered by the theorems, which hold for every value of the
constants.

`MaxEvents`, `MaxJobs`, `MaxBacklog`, `MaxPairs`, `MaxRows`, `MaxMarks`,
`MaxFaults` and `MaxExpiries` are the bounds of the models that the code does
not have (`MaxBacklog` is `wsReplayLimit`), and so is `SinceKinds`, the kind of id
that connections resume with: stream ids in `stream`, ids of events in
`stream_event_id`; when `MaxPairs` is used up refreshes
can only fail. Deadlock is not checked, because all these systems may stop: a
stopped hub, an ended process, a bounded number of events, shares or requests.

### Runs that refute what a comment or the documentation says

* `stream_event_id`: the browser resumes with the id of the last event, a UUID
  (`useNotificationsSocket.tsx:20`, `stream.go:96`), while the stream is read by
  stream ids, so the replay on reconnection always fails. `ResumeIsExact` shows
  that the protocol is right for stream ids, and `notices` that the browser's
  part of it is.
* `notices_expired`: "the client reconnects automatically" (`README.md:323`). The
  socket is dialled with the access token of the session; when it has expired,
  only an answer 401 to some HTTP request refreshes it, and the one request the
  hook makes itself, `recoverViaHttp`, is skipped by a page that has no cursor.
  Such a page is refused every 2 s until another component makes a request.
  `EventsArrive` shows that a page with a cursor does get through.

### Observations without a run

Backend:

* `hub.go:71`: the comment says Unregister is non-blocking; with a full
  unregister channel the caller waits for the owner. Harmless:
  `NothingWaitsForever` holds.
* `videos/service.go:143`: a list that read before a share and writes after it
  puts the old page back for up to the 30 s of its expiry, while `README.md:27`
  says that the list is invalidated on share. `InvalidationSuffices` says that
  this is the only way (besides a failed deletion), `EventuallyFresh` that it
  passes.
* `stream.go:147`: until its first entry a subscriber asks from `"$"` anew after
  every 5 s time-out and misses what was added between two requests, while
  `stream.go:126` says that every replica sees every event.
* `server.go:52`: the goroutine that closes the hub on a signal is awaited by
  nobody, so open sockets may see the process end instead of a close frame.
* `videos/service.go:121`: one cache key serves every limit up to 20, so a page
  cached for a small limit answers a larger one.
* `videos/service.go:89` and `auth/service.go:48`: the loser of two concurrent
  shares of one video, or sign-ups of one email, meets the unique index and is
  answered 500 instead of 409.
* `notifications/service.go:48`: two calls of mark-seen may be written in the
  other order and move the marker back, and a video that is stamped before the
  marker and committed after it is never counted. `SeenStaysSeen` excepts the
  former (`rewound`).
* `notifications/handler.go` `since`: the list it returns is not filtered by
  recipient. No event is addressed to a single user in the present code.

* `stream.go:104`, `handler.go:129`: when the backlog of a connection cannot be
  read it goes live without it, for a stream id as well, and the next live event
  moves the browser's cursor past what was missed. The comment at `handler.go:127`
  ("the client reconciles via its own dedup") does not help: dropping duplicates
  fills no gap. `ResumeIsExact` excepts, for these connections (`unread`), exactly
  what their hub handled before they joined.

Frontend:

* `http-client.ts:55`: if another user signs in while the refresh of the
  previous session is under way, `updateTokens` puts the old user's new tokens
  into the new user's session. `SessionsAreWhole` excepts exactly these runs
  (`crossed`) and shows that nothing else separates user and tokens.
* `http-client.ts:43`: a refused sign-in is a 401 without a refresh token and
  clears local storage, which signs the user out of other tabs at their next
  load.
* `useNotificationsSocket.tsx`: a recovery that was under way when its page was
  left announces with the old seen set and moves the stored cursor back, so
  events may be announced again by the next page. `NothingIsSkipped` holds all
  the same, since the cursor only moves to what has been handled.
* `useNotificationsSocket.tsx:74`: the badge is bumped for an event that a
  refetch has counted already, and the comment that "invalidations below
  reconcile" does not apply to it, because `UNREAD_QUERY_KEY` is not among what
  is invalidated there: the badge is too high until the window is focused after
  `staleTime`. `BadgeSettles` therefore has focus as a premise.
* `useNotificationsUnreadCount.ts`: the query is not keyed by user, so the badge
  of one user may be shown to the next one for up to 30 s.
* `useNotificationsUnreadCount.ts:32`: `invalidateQueries` refetches an active
  query only. A mark that is answered when no nav is shown, or nobody is signed
  in (the page for a URL that is not found, reached by Back; the forms), drops no
  fetch, and one under way that had read the older marker then puts its answer in
  place of the zero and passes for fresh. `SeenStaysSeen` excepts these runs
  (`unheeded`) and no others of this kind; `BadgeSettles` shows that they pass.
* `useVideos.ts`: an invalidation that meets the very first load, or a fetch
  under way while the list is not mounted, is lost: the answer passes for a
  fresh one although it lacks the new video, while `README.md:258` says that the
  list refreshes automatically. `ListIsRefreshed` says that these are the only
  ways (`lost`).
* `SignInPage.tsx:33`, `SignUpPage.tsx`: with a request of each form under way,
  the last answer decides who is signed in.
* `NotificationsPopover.tsx:65`: asking for the next page drops the refetch of an
  invalidation, whose new videos are then shown only after the next one; a first
  load that fails is repeated only when the popover is opened again.
* `repository.go:46` with `useNotificationsFeed.ts`: the total is counted before
  the rows are read, so as many of the oldest videos as were shared in between
  may be missing at the end of the list; `FeedIsContiguous` says how many.

## 5. Fairness

* Hub: weak fairness of each case of the owner's select (stop, unregister,
  dispatch) and of its rendezvous with each registering caller: the owner's
  loop never blocks, and Go's select picks among ready cases at random, so a
  case that stays ready is taken. A send into the unregister channel is
  strongly fair, because goroutines blocked on a channel are served in order
  while others compete for the room. Nothing is assumed of a client's receive
  or of a caller.
* Connection: in addition, weak fairness of the handler, reader and writer
  steps of each connection: reads and writes carry deadlines, so each of them
  returns, possibly with an error. A peer need never leave or answer.
* Lifecycle: workers take, finish and exit (a job has a context of 30 s); a
  blocked send is strongly fair for the reason above; `main` steps until the
  process has ended; handlers need not.
* Videos: a call that has begun goes on (contexts bound its database and Redis
  calls), and a cached page expires. No share or list need begin.
* Stream: the subscriber asks, dispatches and stops; an XREAD succeeds if it is
  possible again and again (strong fairness: outages end).
* Session: a request or refresh on the network is answered or fails.
* Notices: the reconnect timer fires, a dial is accepted or refused, the server
  replays and sends, messages arrive and a recovery is answered. Nothing makes a
  user move, a token expire, an event be published or another request refresh
  the tokens: that is why `ReconnectsAutomatically` fails.
* Bell: what is sent is answered, a stamped row is committed, and the badge
  becomes stale. That the user in the end stays signed in and on pages with the nav
  (`StaysInTheApp`), and keeps coming back to the window (strong fairness of
  `Focus`), are premises of `BadgeSettles`, not assumptions.
* Feed: the server answers, and a sentinel in view is reported. That the list
  stays open, and that in the end nothing fails or invalidates, are premises.
* Pages: the router finishes what it began. That the user in the end neither
  follows links nor sends forms is a premise of `NobodyIsStranded`.

## 6. The proofs

All are for arbitrary values of the constants under the `ASSUME` of the modules
(finite sets of clients and of requests, for what is counted; positive
capacities, page sizes and limits; `Nobody` outside `Users`), which TLC evaluates on each run's instance.

**ConnectionProofs, the hub.** `Types` is inductive by itself and gives `TypeCorrect`.
`Ownership` strengthens `NoChannelPanic`: lists are filed by user, a client
that has not registered is untouched, and a registered client's channel is
open. It is needed because `NoChannelPanic` does not say why a channel the
owner is about to close is still open. `OpenIsOwned` is a part of it; the count is
inductive over it, with the cardinality facts of the library for the clients
dropped in one dispatch. `ContiguousDelivery` is inductive given both: for a
registered client the witness is `handled`, for a closed one it stays where it
was. `HubImplementsFanout` maps `RunDispatch` to `Serve` of the dropped clients,
the ends to `End`, and everything that only moves goroutines to a stutter.

**ConnectionProofs, the connections.** `ConnStepIsHubStep` shows each step of the composition to
be a hub step or a stutter of the hub; this is how the composition is written and
says nothing of the program by itself, but with it the hub's theorems hold for
the composition. `HubKnows` needs three facts: requests in the unregister channel
are of connections that made theirs, one each (`AskedOnce`); one that has made its
request and is still held has it waiting (`HeldWaits`); and the handler, the reader
and what the hub has on a connection are in step (`InStep`). `ReplayIsFirst` needs `Replays`:
while the handler is replaying, `writeLoop` is off and only replayed frames are
on the wire; afterwards none is left to write. `WireIsExact`
is the longest argument: `WireState` says of every connection that the live
events on its wire are in ascending order, that what was pushed and is not
written is exactly what waits in the hand of `writeLoop` and in the send
channel, in order and behind everything written, and that a close frame is the
last. `PushedPast` (the hub pushes only what it has handled) makes the event the
hub sends next the largest of all, so that `WaitInOrder` survives it. A step of
the hub changes one channel in one of two ways (`Sent`, `Quiet`), and a step of
a writer moves one event from the channel to the hand or from there to the wire.

**LifecycleProofs, the pool.** `Inv == Types /\ ExactlyOnce /\ Leaving`; `Leaving` says that
a worker has left only if the queue is closed and drained, which is what makes
`DrainedWhenStopped` follow when all have left.

**VideosProofs.** `Sharing` ties where each call stands to its row and its job;
`Totals` bounds a total by the rows read after it; `Fills` ties a cached page to
the number of deletions when it was read; `LimitsKept` is the part of
`TypeOK` about the sizes that may be cached, over `PageLimits`, what clamping makes
of any limit.

**LifecycleProofs, the process.** `PoolSteps` shows each step of the process to be a step of
the pool or a stutter of it, again by the way it is written, so that the pool's
theorems hold in the process (`PoolKeepsItsPromise`). `JobsHaveRedis` follows
from `Order` (what `main` has done by when) and `Drained`, the invariant form of
what Stop promises. `Accounts` counts, whether or not Run gave up: the rows are the
accepted jobs and the videos whose handlers have not got theirs into the queue
(`Unsubmitted`), and a request was answered exactly if its job is among the
accepted. With `Drained` this is `LossesAreKnown`. `GracefulEnd` adds that, as long
as Run has not given up (`Graceful`), no handler is left when the queue is closed.

**StreamProofs.** Of a subscriber, `Reading` says that a page is a run of
consecutive entries that continues where the last dispatch ended, or where
trimming has reached since, and that a pending XREAD asks from there; `InOrder`
is `SubscriberIsContiguous` in these terms. Both need `NewestIsKept`: a trimmed
stream keeps its newest entry, so a page is never empty (`Page` computes it). Of
a connection, `Served` says that it has got exactly what its hub handled for it
since it joined, and `Replayed` that its backlog, unless reading it failed, has
everything its hub had handled before that and could still be read.
`ResumeIsExact` is their sum: an event that is owed (`Owed`) was handled after the
connection joined, or before and its backlog was read. It
is the order of registering and reading that makes `Replayed` true: what was
handled before joining is in the stream when the backlog is read.
`EveryHubFansOut` maps the transport to one `Fanout` for each replica: an
accepted event to `Accept`, `Serve`, `Join` and the ends to their namesakes, and
whatever the readers and the connections do otherwise to a stutter.

**SessionProofs.** The invariant adds three facts about what is under way to the
properties: a request that nothing excuses was sent by the user signed in in its
tab (`OfItsTab`) with tokens of this user (`Carries`), a refresh is for the user
signed in where it runs unless a sign-in crossed it (`ForItsUser`), and a
request is repeated only with another token than the one that was refused
(`Retried`), which is why it fails only when that one expired as well. The pairs
issued are a history (`HistoryGrows`), so each fact survives the issue of a pair.

**BellProofs.** `SeenStaysSeen` is inductive with `MarkerIsLatest` (the marker is
not behind a mark that was written) and `FetchIsCurrent` (a count under way was
begun after the last mark the page was told of): without the latter an answer
could bring back what was seen. It holds because the invalidation that follows a
mark drops an older fetch where the nav is shown to a signed-in user, and
`unheeded` records the marks answered anywhere else while such a fetch was under way.

**NoticesProofs, the socket.** `AnnouncedOnce` needs `Matches`: the events
a page took for new last are all different, and the seen set is the end of them.
`NothingIsSkipped` needs what each way of an event relies on: a connection was
dialled with an event that had been handled, or with none because none had been
(`Dialled`); a recovery asks from an event that was handled (`Recoveries`), also
when its page was left since; and `Sends` says what a connection still has to
send. Dialled with a cursor, its backlog continues what was handled and reaches
the live events; dialled without one, nothing was handled before the first live
event. The premise is that no replay was refused (`lossy`). So an event that any of the three brings is next to one that was handled
(`GaplessNext`, `GaplessGrows`). The loop of `recoverViaHttp` is a
recursive function (`HandleAll`), and `AllHandled` is what it does for an answer
of any length, by induction over its events (`Induction`, from the
well-foundedness of < on the naturals).

**NoticesProofs, the list.** `Chained` says of the cached pages and of those being read that
each begins where the one before it ends and is no older, and `Covered` that no
video is missing from the newest of the first page to the oldest of the last;
`ChainGrows` is the step, one page more, and `FetchOK` says that a fetch goes on
only from a chain with a next page, so that a page from the server's cache never
continues one.

**PagesProofs.** `ListIsRefreshed` is inductive with `AnswerIsCurrent`: an answer
on its way holds what the page was told of, unless the list was invalidated
meanwhile and the fetch went on.

Only model-checked: all liveness (`NothingWaitsForever`, `EndsAreReleased`,
`NothingIsStuck`, `ShutdownEnds`, `EventuallyFresh`, `SubscriberProgresses`,
`RequestsEnd`, `EventsArrive`, `BadgeSettles`, `FeedEnds`, `NobodyIsStranded`),
which is beyond the proof system.

## 7. What is not modelled

* Schema migrations: `up`, `down`, `force` and `status` hand one call each to
  golang-migrate, which owns the version, the dirty flag and the lock; a model
  would be of the library. The unique index on `youtube_id` is used by `Videos`.
* YouTube links: `ExtractYouTubeID` is a pure function of one string, which its
  table test covers case by case; `Videos` takes the id as given.
* Configuration, logging, CORS, response formatting, rendering, toasts and
  texts: no state that two steps share.
* Redis commands and SQL statements are atomic. The client library's own
  retries, which could add one event twice, are left out; the browser drops the
  second by its id.
* Pages with an offset bypass the cache: `Feed` has them, `Videos` does not. The
  order of two concurrent inserts by `created_at` is that of their commits,
  except in `Bell`, where the difference matters.
* In `Session`, passwords, validation and refusals that change no state; tabs
  that are closed (a reload covers what they leave behind); losing the answer
  to a sign-in. In `Pages`, what a form checks before it sends, and a second request
  of one form while its first is under way, which a form that was left and opened
  again could send. In `Connection`, the close frame that the library's default
  handler writes back from the reader when the peer sends one: it carries no event.
* In `Feed`, the sentinel is watched by an effect that is set up anew after each
  render; `FetchNextPage` is weakly fair, which leaves out the moment in between.
* Two tabs that share the stored cursor of `Notices`, and React Query's cache
  being shared between tabs (it is not).
