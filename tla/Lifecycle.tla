----------------------------- MODULE Lifecycle -----------------------------
(***************************************************************************)
(* The life of one server process: backend/cmd/server/main.go (run),       *)
(* server.Build's background goroutines, server.Run, and the request       *)
(* handlers that share videos, around the worker pool of Worker.tla.       *)
(*                                                                         *)
(* A submitter of the pool is a goroutine handling one POST /videos.  The  *)
(* main goroutine leaves server.Run through one of its two cases and then  *)
(* runs its deferred calls, last deferred first: worker.Stop, redis Close. *)
(* When main returns the process ends and every other goroutine with it.   *)
(***************************************************************************)
EXTENDS Worker

VARIABLES
  main,       \* "serving", "shutdown", "stopping", "closing", "exiting", "exited"
  signalled,  \* ctx is cancelled
  listening,  \* connections are accepted
  forced,     \* server.Run returned an error: handlers may still be running
  req,        \* req[h]: "none", "active", "created", "answered", "failed"
  rows,       \* videos created
  redis,      \* the redis client: "open" or "closed"
  hubDone     \* hub.Close has returned

mainVars == <<main, signalled, listening, forced, redis, hubDone>>
reqVars == <<req, rows>>
lifeVars == <<workerVars, mainVars, reqVars>>

Active == {h \in Submitters : req[h] \in {"active", "created"}}

LifeInit ==
  /\ Init
  /\ main = "serving"
  /\ signalled = FALSE
  /\ listening = TRUE
  /\ forced = FALSE
  /\ req = [h \in Submitters |-> "none"]
  /\ rows = 0
  /\ redis = "open"
  /\ hubDone = FALSE

-----------------------------------------------------------------------------
(* Request handlers.                                                       *)

Accept(h) ==
  /\ listening
  /\ req[h] = "none"
  /\ req' = [req EXCEPT ![h] = "active"]
  /\ UNCHANGED <<workerVars, mainVars, rows>>

\* Any path of Share that creates nothing: invalid link, duplicate, error.
Refuse(h) ==
  /\ req[h] = "active"
  /\ req' = [req EXCEPT ![h] = "failed"]
  /\ UNCHANGED <<workerVars, mainVars, rows>>

Create(h) ==
  /\ req[h] = "active"
  /\ req' = [req EXCEPT ![h] = "created"]
  /\ rows' = rows + 1
  /\ UNCHANGED <<workerVars, mainVars>>

\* After Create and the cache invalidation Share calls worker.Submit.
StartSubmit(h) ==
  /\ req[h] = "created"
  /\ CallSubmit(h)
  /\ UNCHANGED <<mainVars, reqVars>>

\* Submit returns and the handler answers 201.  (The first form drops the job when
\* the queue is full, as the hub does with a message.)
Submitted_DropsWhenFull(h) ==
  /\ \/ Enqueue(h)
     \/ /\ caller[h] = "sending" /\ ~closed
        /\ Len(accepted) - taken = QueueCap
        /\ caller' = [caller EXCEPT ![h] = "idle"]
        /\ UNCHANGED <<accepted, taken, closed, job, exited, finished, stop>>
  /\ req' = [req EXCEPT ![h] = "answered"]
  /\ UNCHANGED <<mainVars, rows>>

Submitted(h) ==
  /\ Enqueue(h)
  /\ req' = [req EXCEPT ![h] = "answered"]
  /\ UNCHANGED <<mainVars, rows>>

\* Submit panics; the Recoverer middleware answers 500.
SubmitPanics(h) ==
  /\ SendOnClosed(h)
  /\ req' = [req EXCEPT ![h] = "failed"]
  /\ UNCHANGED <<mainVars, rows>>

-----------------------------------------------------------------------------
(* The main goroutine.                                                     *)

\* SIGINT or SIGTERM.
Signal ==
  /\ ~signalled
  /\ signalled' = TRUE
  /\ UNCHANGED <<workerVars, reqVars, main, listening, forced, redis, hubDone>>

\* The goroutine of Build that closes the hub; nothing waits for it.
CloseHub ==
  /\ signalled
  /\ ~hubDone
  /\ hubDone' = TRUE
  /\ UNCHANGED <<workerVars, reqVars, main, signalled, listening, forced, redis>>

\* server.Run takes its ctx.Done case: Shutdown closes the listener first.
BeginShutdown ==
  /\ main = "serving"
  /\ signalled
  /\ main' = "shutdown"
  /\ listening' = FALSE
  /\ UNCHANGED <<workerVars, reqVars, signalled, forced, redis, hubDone>>

\* server.Run takes its errCh case: ListenAndServe failed.  No Shutdown.
ServeFails ==
  /\ main = "serving"
  /\ main' = "stopping"
  /\ listening' = FALSE
  /\ forced' = TRUE
  /\ UNCHANGED <<workerVars, reqVars, signalled, redis, hubDone>>

\* Shutdown returns once every connection is idle.
ShutdownDone_NoWait ==
  /\ main = "shutdown"
  /\ main' = "stopping"
  /\ UNCHANGED <<workerVars, reqVars, signalled, listening, forced, redis, hubDone>>

ShutdownDone ==
  /\ main = "shutdown"
  /\ Active = {}
  /\ main' = "stopping"
  /\ UNCHANGED <<workerVars, reqVars, signalled, listening, forced, redis, hubDone>>

\* Its 15 s context expires first: the handlers go on, Run returns an error.
ShutdownTimeout_None == FALSE /\ UNCHANGED lifeVars

ShutdownTimeout ==
  /\ main = "shutdown"
  /\ Active # {}
  /\ main' = "stopping"
  /\ forced' = TRUE
  /\ UNCHANGED <<workerVars, reqVars, signalled, listening, redis, hubDone>>

\* Deferred: worker.Stop.
StopPool_RedisFirst ==
  /\ main = "stopping"
  /\ Stop
  /\ redis' = "closed"
  /\ UNCHANGED <<reqVars, main, signalled, listening, forced, hubDone>>

StopPool ==
  /\ main = "stopping"
  /\ Stop
  /\ UNCHANGED <<mainVars, reqVars>>

PoolStopped ==
  /\ main = "stopping"
  /\ StopReturns
  /\ main' = "closing"
  /\ UNCHANGED <<reqVars, signalled, listening, forced, redis, hubDone>>

\* Deferred: redisClient.Close, then stop, which cancels ctx in any case.
CloseRedis ==
  /\ main = "closing"
  /\ redis' = "closed"
  /\ signalled' = TRUE
  /\ main' = "exiting"
  /\ UNCHANGED <<workerVars, reqVars, listening, forced, hubDone>>

Exited ==
  /\ main = "exiting"
  /\ main' = "exited"
  /\ UNCHANGED <<workerVars, reqVars, signalled, listening, forced, redis, hubDone>>

-----------------------------------------------------------------------------
\* The pool's goroutines; a job publishes its event and returns either way.
PoolStep(w) == (Take(w) \/ Finish(w) \/ Exit(w)) /\ UNCHANGED <<mainVars, reqVars>>

MainStep ==
  \/ BeginShutdown \/ ShutdownDone \/ ShutdownTimeout
  \/ StopPool \/ PoolStopped \/ CloseRedis \/ Exited

LifeNext ==
  /\ main # "exited"
  /\ \/ \E h \in Submitters :
          \/ Accept(h) \/ Refuse(h) \/ Create(h)
          \/ StartSubmit(h) \/ Submitted(h) \/ SubmitPanics(h)
     \/ \E w \in Pool : PoolStep(w)
     \/ Signal
     \/ CloseHub
     \/ ServeFails
     \/ MainStep

LifeSpec == LifeInit /\ [][LifeNext]_lifeVars

(***************************************************************************)
(* The main goroutine and the pool are scheduled, jobs return (their       *)
(* context expires after 30 seconds), and the 15 s deadline expires.       *)
(* Senders blocked on a channel are served in arrival order, so one that   *)
(* could be served again and again is served.  Nothing else is assumed of  *)
(* handlers: one may be stuck in the database for ever.  The listener need *)
(* never fail.                                                             *)
(***************************************************************************)
LifeFairSpec ==
  /\ LifeSpec
  /\ WF_lifeVars(main # "exited" /\ MainStep)
  /\ \A w \in Pool : WF_lifeVars(main # "exited" /\ PoolStep(w))
  /\ \A h \in Submitters :
       /\ SF_lifeVars(main # "exited" /\ Submitted(h))
       /\ WF_lifeVars(main # "exited" /\ SubmitPanics(h))

-----------------------------------------------------------------------------
(* Properties.                                                             *)

\* A graceful end loses nothing: Submit sends on a channel that Stop closes, but
\* unless server.Run gave up, no handler is left to meet the closed channel, and
\* when the process ends every video created had its publish job run and no
\* request is unanswered.
GracefulEndIsClean ==
  ~forced =>
    /\ \A h \in Submitters : caller[h] # "panicked"
    /\ main = "exited" => Cardinality(finished) = rows /\ Active = {}

\* The redis client is closed only after every accepted job has returned,
\* however the server was stopped: jobs publish through it.
RedisOutlivesJobs == redis = "closed" => finished = Jobs /\ Running = {}

\* The handlers whose video is in the table and whose job is not in the queue.
Unsubmitted == {h \in Submitters : req[h] = "created" \/ caller[h] = "panicked"}

\* However the server ends, by a signal, a deadline that passes or a listener that
\* fails, and whatever handlers are left running: the requests answered 201 are those
\* whose job has run, and the videos that nobody is told of are those of the handlers
\* that were cut off before their Submit was through, or panicked in it.
LossesAreUnanswered ==
  redis = "closed" =>
    /\ \A h \in Submitters : req[h] = "answered" <=> \E j \in finished : accepted[j] = h
    /\ rows = Cardinality(finished) + Cardinality(Unsubmitted)

\* A signalled process ends, even with a handler that never returns.
ShutdownEnds == signalled ~> main = "exited"

\* Nothing is stuck in the pool: an accepted job returns, whatever is submitted
\* after it and even if the pool is stopped meanwhile; Submit returns, because
\* the job is accepted or the pool was stopped, or the process ends; and Stop
\* returns.
NothingIsStuck ==
  /\ \A j \in 1..MaxJobs : j \in Jobs ~> j \in finished
  /\ \A h \in Submitters : caller[h] = "sending" ~> caller[h] # "sending" \/ main = "exited"
  /\ stop = "waiting" ~> stop = "returned"
=============================================================================
