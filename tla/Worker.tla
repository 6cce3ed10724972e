------------------------------- MODULE Worker -------------------------------
(***************************************************************************)
(* The background worker pool of backend/internal/jobs/worker.go: a        *)
(* buffered job channel, a fixed pool of goroutines ranging over it, and   *)
(* Stop, which closes the channel and waits for the pool.                  *)
(*                                                                         *)
(* The channel is the part of the log accepted after position taken; a job *)
(* is its position in the log and accepted[j] is who submitted it.         *)
(***************************************************************************)
EXTENDS Integers, Sequences, FiniteSets

CONSTANTS
  Submitters,  \* goroutines that call Submit
  Pool,        \* worker goroutines
  QueueCap,    \* queueSize
  MaxJobs      \* bound on the number of Submit calls

ASSUME WorkerAssumption ==
  /\ QueueCap \in Nat \ {0}
  /\ MaxJobs \in Nat
  /\ IsFiniteSet(Submitters)
  /\ Pool # {}

VARIABLES
  accepted,  \* jobs ever sent on w.queue
  taken,     \* how many of them a worker has received
  closed,    \* w.queue is closed
  caller,    \* caller[s] \in {"idle", "sending", "panicked"}
  job,       \* job[w] is the job worker w runs, 0 when it runs none
  exited,    \* workers whose run has returned (and called wg.Done)
  finished,  \* jobs that have returned
  stop       \* "no", "waiting" in Stop, "returned" from it

workerVars == <<accepted, taken, closed, caller, job, exited, finished, stop>>

Jobs == 1..Len(accepted)
Running == {w \in Pool : job[w] # 0}
Calls == Len(accepted) + Cardinality({s \in Submitters : caller[s] # "idle"})

Types ==
  /\ accepted \in Seq(Submitters)
  /\ taken \in 0..Len(accepted)
  /\ closed \in BOOLEAN
  /\ caller \in [Submitters -> {"idle", "sending", "panicked"}]
  /\ job \in [Pool -> Nat]
  /\ exited \in SUBSET Pool
  /\ finished \in SUBSET Nat
  /\ stop \in {"no", "waiting", "returned"}

Init ==
  /\ accepted = <<>>
  /\ taken = 0
  /\ closed = FALSE
  /\ caller = [s \in Submitters |-> "idle"]
  /\ job = [w \in Pool |-> 0]
  /\ exited = {}
  /\ finished = {}
  /\ stop = "no"

-----------------------------------------------------------------------------
(* Submit.                                                                 *)

CallSubmit(s) ==
  /\ caller[s] = "idle"
  /\ Calls < MaxJobs
  /\ caller' = [caller EXCEPT ![s] = "sending"]
  /\ UNCHANGED <<accepted, taken, closed, job, exited, finished, stop>>

Enqueue(s) ==
  /\ caller[s] = "sending"
  /\ ~closed
  /\ Len(accepted) - taken < QueueCap
  /\ accepted' = Append(accepted, s)
  /\ caller' = [caller EXCEPT ![s] = "idle"]
  /\ UNCHANGED <<taken, closed, job, exited, finished, stop>>

\* A send on a closed channel panics, and closing it wakes the senders that
\* are blocked on it with the same panic.
SendOnClosed(s) ==
  /\ caller[s] = "sending"
  /\ closed
  /\ caller' = [caller EXCEPT ![s] = "panicked"]
  /\ UNCHANGED <<accepted, taken, closed, job, exited, finished, stop>>

-----------------------------------------------------------------------------
(* run: the body of each worker goroutine.                                 *)

IsFree(w) == w \notin exited /\ job[w] = 0

Take_Peek(w) ==
  /\ IsFree(w)
  /\ taken < Len(accepted)
  /\ job' = [job EXCEPT ![w] = taken + 1]
  /\ UNCHANGED <<accepted, taken, closed, caller, exited, finished, stop>>

Take(w) ==
  /\ IsFree(w)
  /\ taken < Len(accepted)
  /\ taken' = taken + 1
  /\ job' = [job EXCEPT ![w] = taken + 1]
  /\ UNCHANGED <<accepted, closed, caller, exited, finished, stop>>

\* The job returns, with or without an error, within the 30 s of its context.
Finish(w) ==
  /\ job[w] # 0
  /\ finished' = finished \cup {job[w]}
  /\ job' = [job EXCEPT ![w] = 0]
  /\ UNCHANGED <<accepted, taken, closed, caller, exited, stop>>

\* range ends when the channel is closed and empty.
Exit_LeavesQueue(w) ==
  /\ IsFree(w)
  /\ closed
  /\ exited' = exited \cup {w}
  /\ UNCHANGED <<accepted, taken, closed, caller, job, finished, stop>>

Exit(w) ==
  /\ IsFree(w)
  /\ closed
  /\ taken = Len(accepted)
  /\ exited' = exited \cup {w}
  /\ UNCHANGED <<accepted, taken, closed, caller, job, finished, stop>>

-----------------------------------------------------------------------------
(* Stop.                                                                   *)

Stop ==
  /\ stop = "no"
  /\ stop' = "waiting"
  /\ closed' = TRUE
  /\ UNCHANGED <<accepted, taken, caller, job, exited, finished>>

\* wg.Wait returns when every worker has called Done.
StopReturns_NoWait ==
  /\ stop = "waiting"
  /\ taken = Len(accepted)
  /\ stop' = "returned"
  /\ UNCHANGED <<accepted, taken, closed, caller, job, exited, finished>>

StopReturns ==
  /\ stop = "waiting"
  /\ exited = Pool
  /\ stop' = "returned"
  /\ UNCHANGED <<accepted, taken, closed, caller, job, exited, finished>>

-----------------------------------------------------------------------------
Next ==
  \/ \E s \in Submitters : CallSubmit(s) \/ Enqueue(s) \/ SendOnClosed(s)
  \/ \E w \in Pool : Take(w) \/ Finish(w) \/ Exit(w)
  \/ Stop
  \/ StopReturns

Spec == Init /\ [][Next]_workerVars

-----------------------------------------------------------------------------
(* Safety.                                                                 *)

\* Type correctness, and the channel never holds more than its capacity.
TypeOK == Types /\ Len(accepted) - taken <= QueueCap

\* Every job a worker has received is run by one worker or has returned, never
\* both and never by two: no job is lost or repeated by the pool.
ExactlyOnce ==
  /\ 1..taken = finished \cup {job[w] : w \in Running}
  /\ \A w \in Running : job[w] \notin finished
  /\ \A v, w \in Running : job[v] = job[w] => v = w

\* "Stop drains the queue and waits for in-flight jobs to finish": when it has
\* returned every accepted job has returned, and no worker is left.
DrainedWhenStopped ==
  stop = "returned" => finished = Jobs /\ exited = Pool /\ Running = {}

\* Once a worker has exited, nothing is ever accepted again: a job cannot slip
\* into a queue whose readers are leaving.
NothingAfterExit == [][exited # {} => accepted' = accepted /\ taken' = taken]_workerVars
=============================================================================
