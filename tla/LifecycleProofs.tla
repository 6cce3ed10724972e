--------------------------- MODULE LifecycleProofs ---------------------------
(***************************************************************************)
(* The worker pool and the process around it, for any number of workers,   *)
(* requests and places in the queue.  First the safety of the pool of      *)
(* Worker.tla by itself; then how a server process ends: its main          *)
(* goroutine uses the pool as Worker.tla allows, so what is proved of the  *)
(* pool holds in the process, and a graceful end loses nothing.            *)
(***************************************************************************)
EXTENDS Lifecycle, FiniteSetTheorems, TLAPS

(***************************************************************************)
(* Part 1: the pool.                                                       *)
(***************************************************************************)

\* A worker leaves only a closed and empty queue, with no job in hand; Stop has
\* closed the queue and returns only when the pool has left.
Leaving ==
  /\ exited # {} => closed /\ taken = Len(accepted)
  /\ \A w \in exited : job[w] = 0
  /\ stop = "returned" => exited = Pool

Inv == Types /\ ExactlyOnce /\ Leaving

-----------------------------------------------------------------------------
LEMMA InitInv == Init => Inv
  <1> SUFFICES ASSUME Init PROVE Inv
    OBVIOUS
  <1>1. Types
    <2>1. accepted \in Seq(Submitters) /\ taken \in 0..Len(accepted)
      BY DEF Init
    <2>2. caller \in [Submitters -> {"idle", "sending", "panicked"}] /\ job \in [Pool -> Nat]
      BY DEF Init
    <2> QED BY <2>1, <2>2 DEF Init, Types
  <1>2. ExactlyOnce
    BY DEF Init, ExactlyOnce, Running
  <1>3. Leaving
    BY DEF Init, Leaving
  <1> QED BY <1>1, <1>2, <1>3 DEF Inv

\* What a job in hand is: one the pool has received.
LEMMA InHand ==
  ASSUME Inv, NEW w \in Pool, job[w] # 0
  PROVE  job[w] \in 1..taken /\ job[w] \notin finished /\ w \notin exited
  BY DEF Inv, Types, ExactlyOnce, Leaving, Running

LEMMA NextInv == Inv /\ [Next]_workerVars => Inv'
  <1> SUFFICES ASSUME Inv, [Next]_workerVars PROVE Inv'
    OBVIOUS
  <1>1. ASSUME NEW s \in Submitters, CallSubmit(s) PROVE Inv'
    BY <1>1 DEF CallSubmit, Inv, Types, ExactlyOnce, Leaving, Running
  <1>2. ASSUME NEW s \in Submitters, Enqueue(s) PROVE Inv'
    <2>1. /\ accepted' \in Seq(Submitters) /\ Len(accepted') = Len(accepted) + 1
          /\ exited = {}
      BY <1>2 DEF Enqueue, Inv, Types, Leaving
    <2>2. Types'
      BY <1>2, <2>1 DEF Enqueue, Inv, Types
    <2>3. ExactlyOnce' /\ Leaving'
      BY <1>2, <2>1 DEF Enqueue, Inv, ExactlyOnce, Leaving, Running
    <2> QED BY <2>2, <2>3 DEF Inv
  <1>3. ASSUME NEW s \in Submitters, SendOnClosed(s) PROVE Inv'
    BY <1>3 DEF SendOnClosed, Inv, Types, ExactlyOnce, Leaving, Running
  <1>4. ASSUME NEW w \in Pool, Take(w) PROVE Inv'
    <2>1. /\ taken' = taken + 1 /\ taken \in Nat /\ taken < Len(accepted)
          /\ job' = [job EXCEPT ![w] = taken + 1] /\ job[w] = 0
          /\ UNCHANGED <<accepted, closed, caller, exited, finished, stop>>
      BY <1>4 DEF Take, IsFree, Inv, Types
    <2>2. Types'
      BY <2>1 DEF Inv, Types
    <2>3. Running' = Running \cup {w} /\ w \notin Running
      BY <2>1 DEF Inv, Types, Running
    <2>4. \A v \in Running : job'[v] = job[v] /\ job[v] \in 1..taken /\ job[v] \notin finished
      BY <2>1, <2>3, InHand DEF Inv, Types, Running
    <2>5. job'[w] = taken + 1 /\ taken + 1 \notin finished
      BY <2>1 DEF Inv, Types, ExactlyOnce
    <2>6. 1..taken' = finished' \cup {job'[v] : v \in Running'}
      <3>1. 1..taken' = 1..taken \cup {taken + 1}
        BY <2>1
      <3>2. {job'[v] : v \in Running'} = {job[v] : v \in Running} \cup {taken + 1}
        BY <2>3, <2>4, <2>5
      <3> QED BY <2>1, <3>1, <3>2 DEF Inv, ExactlyOnce
    <2>7. \A u, v \in Running' : job'[u] = job'[v] => u = v
      BY <2>1, <2>3, <2>4, <2>5 DEF Inv, ExactlyOnce
    <2>8. \A v \in Running' : job'[v] \notin finished'
      BY <2>1, <2>3, <2>4, <2>5
    <2>9. Leaving'
      BY <1>4, <2>1 DEF Take, IsFree, Inv, Types, Leaving
    <2> QED BY <2>2, <2>6, <2>7, <2>8, <2>9 DEF Inv, ExactlyOnce
  <1>5. ASSUME NEW w \in Pool, Finish(w) PROVE Inv'
    <2>1. /\ job' = [job EXCEPT ![w] = 0] /\ finished' = finished \cup {job[w]}
          /\ w \in Running /\ job[w] \in Nat
          /\ UNCHANGED <<accepted, taken, closed, caller, exited, stop>>
      BY <1>5 DEF Finish, Running, Inv, Types
    <2>2. Types'
      BY <2>1 DEF Inv, Types
    <2>3. Running' = Running \ {w} /\ \A v \in Running \ {w} : job'[v] = job[v]
      BY <2>1 DEF Inv, Types, Running
    <2>4. \A u, v \in Running' : job'[u] = job'[v] => u = v
      BY <2>3 DEF Inv, ExactlyOnce
    <2>5. \A v \in Running' : job'[v] \notin finished'
      BY <2>1, <2>3 DEF Inv, ExactlyOnce
    <2>6. 1..taken' = finished' \cup {job'[v] : v \in Running'}
      <3>1. {job[v] : v \in Running} = {job'[v] : v \in Running'} \cup {job[w]}
        BY <2>1, <2>3
      <3> QED BY <2>1, <3>1 DEF Inv, ExactlyOnce
    <2>7. Leaving'
      BY <2>1 DEF Inv, Types, Leaving
    <2> QED BY <2>2, <2>4, <2>5, <2>6, <2>7 DEF Inv, ExactlyOnce
  <1>6. ASSUME NEW w \in Pool, Exit(w) PROVE Inv'
    <2>1. Types' /\ ExactlyOnce'
      BY <1>6 DEF Exit, Inv, Types, ExactlyOnce, Running
    <2>2. Leaving'
      BY <1>6 DEF Exit, IsFree, Inv, Types, Leaving
    <2> QED BY <2>1, <2>2 DEF Inv
  <1>7. CASE Stop
    BY <1>7 DEF Stop, Inv, Types, ExactlyOnce, Leaving, Running
  <1>8. CASE StopReturns
    BY <1>8 DEF StopReturns, Inv, Types, ExactlyOnce, Leaving, Running
  <1>9. CASE UNCHANGED workerVars
    BY <1>9 DEF workerVars, Inv, Types, ExactlyOnce, Leaving, Running
  <1> QED
    BY <1>1, <1>2, <1>3, <1>4, <1>5, <1>6, <1>7, <1>8, <1>9 DEF Next

LEMMA InvHolds == Spec => []Inv
  BY InitInv, NextInv, PTL DEF Spec

\* The pool runs every job it receives once: no job is lost and none repeated.
THEOREM JobsRunOnce == Spec => []ExactlyOnce
  <1>1. Inv => ExactlyOnce
    BY DEF Inv
  <1> QED BY <1>1, InvHolds, PTL

\* What Stop promises holds of every state the invariant allows.
LEMMA Drained == Inv => DrainedWhenStopped
  <1> SUFFICES ASSUME Inv, stop = "returned"
               PROVE  finished = Jobs /\ exited = Pool /\ Running = {}
    BY DEF DrainedWhenStopped
  <1>1. exited = Pool /\ exited # {} /\ taken = Len(accepted)
    BY WorkerAssumption DEF Inv, Leaving
  <1>2. Running = {}
    BY <1>1 DEF Inv, Leaving, Running
  <1> QED BY <1>1, <1>2 DEF Inv, ExactlyOnce, Jobs

\* When Stop has returned, every accepted job has returned.
THEOREM StopDrains == Spec => []DrainedWhenStopped
  BY Drained, InvHolds, PTL

\* A queue whose readers are leaving accepts nothing more.
THEOREM ExitIsFinal == Spec => NothingAfterExit
  <1>1. Inv /\ [Next]_workerVars => [exited # {} => accepted' = accepted /\ taken' = taken]_workerVars
    <2> SUFFICES ASSUME Inv, Next, exited # {}
                 PROVE  accepted' = accepted /\ taken' = taken
      OBVIOUS
    <2>1. closed /\ ~(taken < Len(accepted))
      BY DEF Inv, Leaving, Types
    <2>2. ASSUME NEW s \in Submitters, CallSubmit(s) \/ Enqueue(s) \/ SendOnClosed(s)
          PROVE  accepted' = accepted /\ taken' = taken
      BY <2>1, <2>2 DEF CallSubmit, Enqueue, SendOnClosed
    <2>3. ASSUME NEW w \in Pool, Take(w) \/ Finish(w) \/ Exit(w)
          PROVE  accepted' = accepted /\ taken' = taken
      BY <2>1, <2>3 DEF Take, Finish, Exit
    <2> QED BY <2>2, <2>3 DEF Next, Stop, StopReturns
  <1> QED BY <1>1, InvHolds, PTL DEF Spec, NothingAfterExit

LEMMA CapacityNext ==
  Inv /\ Len(accepted) - taken <= QueueCap /\ [Next]_workerVars
    => (Len(accepted) - taken <= QueueCap)'
  <1> SUFFICES ASSUME Inv, Len(accepted) - taken <= QueueCap, [Next]_workerVars
               PROVE  Len(accepted') - taken' <= QueueCap
    OBVIOUS
  <1>1. ASSUME NEW s \in Submitters, Enqueue(s) PROVE Len(accepted') - taken' <= QueueCap
    BY <1>1, WorkerAssumption DEF Enqueue, Inv, Types
  <1>2. ASSUME NEW w \in Pool, Take(w) PROVE Len(accepted') - taken' <= QueueCap
    BY <1>2, WorkerAssumption DEF Take, Inv, Types
  <1> QED BY <1>1, <1>2 DEF Next, CallSubmit, SendOnClosed, Finish, Exit, Stop,
             StopReturns, workerVars

\* The variables keep their types and the queue its capacity.
THEOREM TypeCorrect == Spec => []TypeOK
  <1>1. Init => Len(accepted) - taken <= QueueCap
    BY WorkerAssumption DEF Init
  <1>2. Inv => Types
    BY DEF Inv
  <1> QED BY <1>1, <1>2, InvHolds, CapacityNext, PTL DEF Spec, TypeOK

-----------------------------------------------------------------------------
(***************************************************************************)
(* Part 2: the process.                                                    *)
(***************************************************************************)

\* Run has not returned.
Up == main \in {"serving", "shutdown"}

LifeTypes ==
  /\ req \in [Submitters -> {"none", "active", "created", "answered", "failed"}]
  /\ rows \in Nat
  /\ {signalled, listening, forced} \subseteq BOOLEAN

\* A handler in Submit has created its video.
SendersCreated == \A h \in Submitters : caller[h] = "sending" => req[h] = "created"

\* The pool is stopped after Run, and redis closed after the pool.
Order ==
  /\ listening => main = "serving"
  /\ closed => ~Up
  /\ main \in {"closing", "exiting", "exited"} => stop = "returned"
  /\ redis = "closed" => stop = "returned"

\* What was created is accepted, about to be submitted, or was in a Submit that
\* panicked; and a job is in the queue when its request has been answered.
Accounts ==
  /\ \A h \in Submitters : req[h] = "answered" <=> \E j \in Jobs : accepted[j] = h
  /\ \A h \in Submitters : caller[h] = "panicked" => req[h] = "failed"
  /\ rows = Len(accepted) + Cardinality(Unsubmitted)

\* Unless Run gave up, no handler is left when it has returned.
Graceful ==
  ~forced =>
    /\ \A h \in Submitters : caller[h] # "panicked"
    /\ ~Up => Active = {}

LifeInv == Inv /\ LifeTypes /\ SendersCreated /\ Order /\ Accounts /\ Graceful

-----------------------------------------------------------------------------
\* What a process does to its pool is a step of the pool, or none.
LEMMA PoolSteps == [LifeNext]_lifeVars => [Next]_workerVars
  <1> SUFFICES ASSUME [LifeNext]_lifeVars PROVE [Next]_workerVars
    OBVIOUS
  <1>1. ASSUME NEW h \in Submitters, Accept(h) \/ Refuse(h) \/ Create(h)
        PROVE  UNCHANGED workerVars
    BY <1>1 DEF Accept, Refuse, Create
  <1>2. ASSUME NEW h \in Submitters, StartSubmit(h) \/ Submitted(h) \/ SubmitPanics(h)
        PROVE  Next
    BY <1>2 DEF StartSubmit, Submitted, SubmitPanics, Next
  <1>3. ASSUME NEW w \in Pool, PoolStep(w) PROVE Next
    BY <1>3 DEF PoolStep, Next
  <1>4. CASE Signal \/ CloseHub \/ ServeFails
    BY <1>4 DEF Signal, CloseHub, ServeFails
  <1>5. CASE BeginShutdown \/ ShutdownDone \/ ShutdownTimeout \/ CloseRedis \/ Exited
    BY <1>5 DEF BeginShutdown, ShutdownDone, ShutdownTimeout, CloseRedis, Exited
  <1>6. CASE StopPool \/ PoolStopped
    BY <1>6 DEF StopPool, PoolStopped, Next
  <1>7. CASE UNCHANGED lifeVars
    BY <1>7 DEF lifeVars
  <1> QED BY <1>1, <1>2, <1>3, <1>4, <1>5, <1>6, <1>7 DEF LifeNext, MainStep

\* The handlers that left a video behind can be counted.
LEMMA UnsubmittedIsFinite == IsFiniteSet(Unsubmitted) /\ Cardinality(Unsubmitted) \in Nat
  <1>1. Unsubmitted \subseteq Submitters
    BY DEF Unsubmitted
  <1> QED BY <1>1, WorkerAssumption, FS_Subset, FS_CardinalityType

LEMMA LifeInit_Inv == LifeInit => LifeInv
  <1> SUFFICES ASSUME LifeInit PROVE LifeInv
    OBVIOUS
  <1>1. Inv
    BY InitInv DEF LifeInit
  <1>2. Active = {} /\ Unsubmitted = {}
    BY DEF LifeInit, Init, Active, Unsubmitted
  <1>3. Len(accepted) = 0 /\ Jobs = {} /\ Cardinality(Unsubmitted) = 0
    BY <1>2, FS_EmptySet DEF LifeInit, Init, Jobs
  <1>4. LifeTypes /\ SendersCreated /\ Order
    BY DEF LifeInit, Init, LifeTypes, SendersCreated, Order, Up
  <1>5. Graceful /\ Accounts
    BY <1>2, <1>3 DEF LifeInit, Init, Graceful, Accounts
  <1> QED BY <1>1, <1>4, <1>5 DEF LifeInv

-----------------------------------------------------------------------------
\* Nothing the invariant of the process counts is touched.
LEMMA CountsKept ==
  ASSUME LifeInv, UNCHANGED <<req, rows, accepted, caller>>
  PROVE  Accounts' /\ Active' = Active
  BY DEF LifeInv, Accounts, Jobs, Unsubmitted, Active

\* A request that leaves no video behind goes on, or is refused.
LEMMA Uncounted ==
  ASSUME LifeInv, NEW h \in Submitters, req[h] \in {"none", "active"},
         NEW t \in {"active", "failed"}, req' = [req EXCEPT ![h] = t],
         UNCHANGED <<rows, accepted, caller>>
  PROVE  Accounts'
  <1>1. Unsubmitted' = Unsubmitted
    BY DEF LifeInv, LifeTypes, Accounts, Unsubmitted
  <1>2. \A g \in Submitters : req'[g] = "answered" <=> req[g] = "answered"
    BY DEF LifeInv, LifeTypes
  <1>3. \A g \in Submitters : caller'[g] = "panicked" => req'[g] = "failed"
    BY DEF LifeInv, LifeTypes, Accounts
  <1> QED BY <1>1, <1>2, <1>3 DEF LifeInv, Accounts, Jobs

LEMMA CountedIn ==
  ASSUME LifeInv, NEW h \in Submitters, req[h] = "active",
         req' = [req EXCEPT ![h] = "created"], rows' = rows + 1, UNCHANGED <<accepted, caller>>
  PROVE  Accounts'
  <1>1. Unsubmitted' = Unsubmitted \cup {h} /\ h \notin Unsubmitted
    BY DEF LifeInv, LifeTypes, Accounts, Unsubmitted
  <1>2. Cardinality(Unsubmitted') = Cardinality(Unsubmitted) + 1
    BY <1>1, UnsubmittedIsFinite, FS_AddElement
  <1>3. \A g \in Submitters : req'[g] = "answered" <=> req[g] = "answered"
    BY DEF LifeInv, LifeTypes
  <1>4. \A g \in Submitters : caller'[g] = "panicked" => req'[g] = "failed"
    BY DEF LifeInv, LifeTypes, Accounts
  <1>5. Len(accepted) \in Nat /\ Cardinality(Unsubmitted) \in Nat
    BY UnsubmittedIsFinite DEF LifeInv, Inv, Types
  <1>6. rows' = Len(accepted') + Cardinality(Unsubmitted')
    BY <1>2, <1>5 DEF LifeInv, Accounts
  <1> QED BY <1>3, <1>4, <1>6 DEF LifeInv, Accounts, Jobs

LEMMA CountedOut ==
  ASSUME LifeInv, NEW h \in Submitters, req[h] = "created", caller[h] = "sending",
         req' = [req EXCEPT ![h] = "answered"], caller' = [caller EXCEPT ![h] = "idle"],
         accepted' = Append(accepted, h), UNCHANGED rows
  PROVE  Accounts'
  <1>0. /\ accepted \in Seq(Submitters) /\ Len(accepted) \in Nat
        /\ Len(accepted') = Len(accepted) + 1
    BY DEF LifeInv, Inv, Types
  <1>1. Unsubmitted' = Unsubmitted \ {h} /\ h \in Unsubmitted
    BY DEF LifeInv, LifeTypes, Inv, Types, Accounts, Unsubmitted
  <1>2. Cardinality(Unsubmitted') = Cardinality(Unsubmitted) - 1
    BY <1>1, UnsubmittedIsFinite, FS_RemoveElement
  <1>3. Jobs' = Jobs \cup {Len(accepted) + 1}
        /\ \A j \in Jobs : accepted'[j] = accepted[j]
        /\ accepted'[Len(accepted) + 1] = h
    BY <1>0 DEF Jobs
  <1>4. ASSUME NEW g \in Submitters
        PROVE  req'[g] = "answered" <=> \E j \in Jobs' : accepted'[j] = g
    <2>1. req[g] = "answered" <=> \E j \in Jobs : accepted[j] = g
      BY DEF LifeInv, Accounts
    <2>2. req'[g] = "answered" <=> g = h \/ req[g] = "answered"
      BY DEF LifeInv, LifeTypes
    <2>3. ASSUME NEW j \in Jobs', accepted'[j] = g PROVE g = h \/ \E k \in Jobs : accepted[k] = g
      <3>1. CASE j \in Jobs
        BY <1>3, <2>3, <3>1
      <3>2. CASE j = Len(accepted) + 1
        BY <1>3, <2>3, <3>2
      <3> QED BY <1>3, <3>1, <3>2
    <2>4. ASSUME NEW k \in Jobs, accepted[k] = g PROVE \E j \in Jobs' : accepted'[j] = g
      BY <1>3, <2>4
    <2>5. g = h => \E j \in Jobs' : accepted'[j] = g
      <3>1. Len(accepted) + 1 \in Jobs'
        BY <1>3
      <3> QED BY <1>3, <3>1
    <2> QED BY <2>1, <2>2, <2>3, <2>4, <2>5
  <1>5. \A g \in Submitters : caller'[g] = "panicked" => req'[g] = "failed"
    BY DEF LifeInv, LifeTypes, Inv, Types, Accounts
  <1>6. rows' = Len(accepted') + Cardinality(Unsubmitted')
    BY <1>0, <1>2, UnsubmittedIsFinite DEF LifeInv, Accounts
  <1> QED BY <1>4, <1>5, <1>6 DEF Accounts

\* The panic of Submit leaves its handler among those that left a video behind.
LEMMA StillCounted ==
  ASSUME LifeInv, NEW h \in Submitters, req[h] = "created",
         req' = [req EXCEPT ![h] = "failed"], caller' = [caller EXCEPT ![h] = "panicked"],
         UNCHANGED <<rows, accepted>>
  PROVE  Accounts'
  <1>1. Unsubmitted' = Unsubmitted
    BY DEF LifeInv, LifeTypes, Inv, Types, Unsubmitted
  <1>2. \A g \in Submitters : req'[g] = "answered" <=> req[g] = "answered"
    BY DEF LifeInv, LifeTypes
  <1>3. \A g \in Submitters : caller'[g] = "panicked" => req'[g] = "failed"
    BY DEF LifeInv, LifeTypes, Inv, Types, Accounts
  <1> QED BY <1>1, <1>2, <1>3 DEF LifeInv, Accounts, Jobs

LEMMA LifeNext_Inv == LifeInv /\ [LifeNext]_lifeVars => LifeInv'
  <1> SUFFICES ASSUME LifeInv, [LifeNext]_lifeVars PROVE LifeInv'
    OBVIOUS
  <1>0. /\ Inv' /\ Types
        /\ req \in [Submitters -> {"none", "active", "created", "answered", "failed"}]
        /\ caller \in [Submitters -> {"idle", "sending", "panicked"}]
    BY PoolSteps, NextInv DEF LifeInv, LifeTypes, Inv, Types
  <1> USE DEF mainVars, reqVars
  <1>1. ASSUME NEW h \in Submitters, Accept(h) PROVE LifeInv'
    <2>1. /\ listening /\ req[h] = "none" /\ req' = [req EXCEPT ![h] = "active"]
          /\ UNCHANGED <<accepted, closed, caller, stop, main, signalled, listening, forced,
                        redis, rows>>
      BY <1>1 DEF Accept, workerVars
    <2>2. Accounts'
      BY <2>1, Uncounted
    <2>3. LifeTypes' /\ SendersCreated' /\ Order'
      BY <1>0, <2>1 DEF LifeInv, LifeTypes, SendersCreated, Order, Up
    <2>4. Up
      BY <2>1 DEF LifeInv, Order, Up
    <2>5. Graceful'
      BY <2>1, <2>4 DEF LifeInv, Graceful, Up
    <2> QED BY <1>0, <2>2, <2>3, <2>5 DEF LifeInv
  <1>2. ASSUME NEW h \in Submitters, Refuse(h) PROVE LifeInv'
    <2>1. /\ req[h] = "active" /\ req' = [req EXCEPT ![h] = "failed"]
          /\ UNCHANGED <<accepted, closed, caller, stop, main, signalled, listening, forced,
                        redis, rows>>
      BY <1>2 DEF Refuse, workerVars
    <2>2. Accounts' /\ Active' \subseteq Active
      BY <1>0, <2>1, Uncounted DEF Active
    <2>3. LifeTypes' /\ SendersCreated' /\ Order'
      BY <1>0, <2>1 DEF LifeInv, LifeTypes, SendersCreated, Order, Up
    <2>4. Graceful'
      BY <2>1, <2>2 DEF LifeInv, Graceful, Up
    <2> QED BY <1>0, <2>2, <2>3, <2>4 DEF LifeInv
  <1>3. ASSUME NEW h \in Submitters, Create(h) PROVE LifeInv'
    <2>1. /\ req[h] = "active" /\ req' = [req EXCEPT ![h] = "created"] /\ rows' = rows + 1
          /\ UNCHANGED <<accepted, closed, caller, stop, main, signalled, listening, forced, redis>>
      BY <1>3 DEF Create, workerVars
    <2>2. Accounts' /\ Active' = Active
      BY <1>0, <2>1, CountedIn DEF Active
    <2>3. LifeTypes' /\ SendersCreated' /\ Order'
      BY <1>0, <2>1 DEF LifeInv, LifeTypes, SendersCreated, Order, Up
    <2>4. Graceful'
      BY <2>1, <2>2 DEF LifeInv, Graceful, Up
    <2> QED BY <1>0, <2>2, <2>3, <2>4 DEF LifeInv
  <1>4. ASSUME NEW h \in Submitters, StartSubmit(h) PROVE LifeInv'
    <2>1. /\ req[h] = "created" /\ caller[h] = "idle"
          /\ caller' = [caller EXCEPT ![h] = "sending"]
          /\ UNCHANGED <<accepted, closed, stop, main, signalled, listening, forced, redis, req, rows>>
      BY <1>4 DEF StartSubmit, CallSubmit
    <2>2. Active' = Active /\ Unsubmitted' = Unsubmitted
      BY <1>0, <2>1 DEF Active, Unsubmitted
    <2>3. LifeTypes' /\ SendersCreated' /\ Order'
      BY <1>0, <2>1 DEF LifeInv, LifeTypes, SendersCreated, Order, Up
    <2>4. Graceful' /\ Accounts'
      BY <1>0, <2>1, <2>2 DEF LifeInv, Graceful, Accounts, Jobs, Up
    <2> QED BY <1>0, <2>3, <2>4 DEF LifeInv
  <1>5. ASSUME NEW h \in Submitters, Submitted(h) PROVE LifeInv'
    <2>1. /\ caller[h] = "sending" /\ caller' = [caller EXCEPT ![h] = "idle"]
          /\ accepted' = Append(accepted, h) /\ req' = [req EXCEPT ![h] = "answered"]
          /\ UNCHANGED <<closed, stop, main, signalled, listening, forced, redis, rows>>
      BY <1>5 DEF Submitted, Enqueue
    <2>2. req[h] = "created"
      BY <2>1 DEF LifeInv, SendersCreated
    <2>3. Accounts' /\ Active' \subseteq Active
      BY <1>0, <2>1, <2>2, CountedOut DEF Active
    <2>4. LifeTypes' /\ SendersCreated' /\ Order'
      BY <1>0, <2>1 DEF LifeInv, LifeTypes, SendersCreated, Order, Up
    <2>5. Graceful'
      BY <1>0, <2>1, <2>3 DEF LifeInv, Graceful, Up
    <2> QED BY <1>0, <2>3, <2>4, <2>5 DEF LifeInv
  <1>6. ASSUME NEW h \in Submitters, SubmitPanics(h) PROVE LifeInv'
    <2>1. /\ caller[h] = "sending" /\ closed /\ caller' = [caller EXCEPT ![h] = "panicked"]
          /\ req' = [req EXCEPT ![h] = "failed"]
          /\ UNCHANGED <<accepted, closed, stop, main, signalled, listening, forced, redis, rows>>
      BY <1>6 DEF SubmitPanics, SendOnClosed
    <2>2. req[h] = "created" /\ h \in Active /\ ~Up
      BY <2>1 DEF LifeInv, SendersCreated, Active, Order
    <2>3. forced /\ forced'
      BY <2>1, <2>2 DEF LifeInv, Graceful
    <2>4. LifeTypes' /\ SendersCreated' /\ Order'
      BY <1>0, <2>1 DEF LifeInv, LifeTypes, SendersCreated, Order, Up
    <2>5. Accounts'
      BY <2>1, <2>2, StillCounted
    <2> QED BY <1>0, <2>3, <2>4, <2>5 DEF LifeInv, Graceful
  <1>7. ASSUME NEW w \in Pool, PoolStep(w) PROVE LifeInv'
    <2>1. UNCHANGED <<accepted, closed, caller, stop, main, signalled, listening, forced, redis, req, rows>>
      BY <1>7 DEF PoolStep, Take, Finish, Exit
    <2>2. Accounts' /\ Active' = Active
      BY <2>1, CountsKept
    <2>3. LifeTypes' /\ SendersCreated' /\ Order' /\ Graceful'
      BY <2>1, <2>2 DEF LifeInv, LifeTypes, SendersCreated, Order, Graceful, Up
    <2> QED BY <1>0, <2>2, <2>3 DEF LifeInv
  <1>8. CASE Signal \/ CloseHub \/ ServeFails \/ MainStep
    <2>1. UNCHANGED <<caller, accepted, req, rows>>
      BY <1>8 DEF Signal, CloseHub, ServeFails, MainStep, BeginShutdown, ShutdownDone,
           ShutdownTimeout, StopPool, Stop, PoolStopped, StopReturns, CloseRedis, Exited, workerVars
    <2>2. Accounts' /\ Active' = Active
      BY <2>1, CountsKept
    <2>3. LifeTypes' /\ SendersCreated'
      BY <1>8, <2>1 DEF LifeInv, LifeTypes, SendersCreated, Signal, CloseHub, ServeFails, MainStep,
           BeginShutdown, ShutdownDone, ShutdownTimeout, StopPool, Stop, PoolStopped, StopReturns,
           CloseRedis, Exited, workerVars
    <2>4. Order'
      BY <1>8 DEF LifeInv, LifeTypes, Order, Up, Signal, CloseHub, ServeFails, MainStep,
           BeginShutdown, ShutdownDone, ShutdownTimeout, StopPool, Stop, PoolStopped, StopReturns,
           CloseRedis, Exited, workerVars
    <2>5. Graceful'
      <3>1. forced' = forced \/ forced' = TRUE
        BY <1>8 DEF Signal, CloseHub, ServeFails, MainStep, BeginShutdown, ShutdownDone,
             ShutdownTimeout, StopPool, Stop, PoolStopped, StopReturns, CloseRedis, Exited
      <3>2. ~forced' => (~Up' => ~Up \/ Active = {})
        BY <1>8 DEF Up, Signal, CloseHub, ServeFails, MainStep, BeginShutdown, ShutdownDone,
             ShutdownTimeout, StopPool, Stop, PoolStopped, StopReturns, CloseRedis, Exited
      <3> QED BY <2>1, <2>2, <3>1, <3>2 DEF LifeInv, Graceful
    <2> QED BY <1>0, <2>2, <2>3, <2>4, <2>5 DEF LifeInv
  <1>9. CASE UNCHANGED lifeVars
    <2>1. Accounts' /\ Active' = Active
      BY <1>9, CountsKept DEF lifeVars, workerVars
    <2>2. LifeTypes' /\ SendersCreated' /\ Order' /\ Graceful'
      BY <1>9, <2>1 DEF LifeInv, LifeTypes, SendersCreated, Order, Graceful, Up, lifeVars, workerVars
    <2> QED BY <1>0, <2>1, <2>2 DEF LifeInv
  <1> QED BY <1>1, <1>2, <1>3, <1>4, <1>5, <1>6, <1>7, <1>8, <1>9 DEF LifeNext

LEMMA LifeInvHolds == LifeSpec => []LifeInv
  BY LifeInit_Inv, LifeNext_Inv, PTL DEF LifeSpec

-----------------------------------------------------------------------------
\* The process uses its pool as the pool's own specification says.
LEMMA UsesThePool == LifeSpec => Spec
  <1>1. LifeInit => Init
    BY DEF LifeInit
  <1> QED BY <1>1, PoolSteps, PTL DEF LifeSpec, Spec

\* In the process too, every job runs once, and Stop drains.
THEOREM PoolKeepsItsPromise == LifeSpec => [](ExactlyOnce /\ DrainedWhenStopped)
  BY UsesThePool, JobsRunOnce, StopDrains, PTL

\* When Stop has returned, the jobs that have returned are as many as were accepted.
LEMMA FinishedAreJobs ==
  ASSUME Inv, stop = "returned"
  PROVE  finished = Jobs /\ Cardinality(finished) = Len(accepted)
  <1>1. finished = 1..Len(accepted) /\ Len(accepted) \in Nat
    BY Drained DEF DrainedWhenStopped, Jobs, Inv, Types
  <1>2. 1 \in Int /\ Len(accepted) \in Int
    BY <1>1
  <1>3. Cardinality(1..Len(accepted)) =
          IF 1 > Len(accepted) THEN 0 ELSE Len(accepted) - 1 + 1
    BY <1>2, FS_Interval, Zenon
  <1> QED BY <1>1, <1>3 DEF Jobs

\* The redis client is closed only after every job has returned, however the
\* server was stopped.
THEOREM JobsHaveRedis == LifeSpec => []RedisOutlivesJobs
  <1>1. LifeInv => RedisOutlivesJobs
    BY Drained DEF LifeInv, Order, RedisOutlivesJobs, DrainedWhenStopped
  <1> QED BY <1>1, LifeInvHolds, PTL

\* A graceful end: no handler panics on the closed queue, and every video created
\* has been announced when the process is gone.
THEOREM GracefulEnd == LifeSpec => []GracefulEndIsClean
  <1>1. LifeInv => GracefulEndIsClean
    <2> SUFFICES ASSUME LifeInv, ~forced PROVE
          /\ \A h \in Submitters : caller[h] # "panicked"
          /\ main = "exited" => Cardinality(finished) = rows /\ Active = {}
      BY DEF GracefulEndIsClean
    <2>1. \A h \in Submitters : caller[h] # "panicked"
      BY DEF LifeInv, Graceful
    <2>2. ASSUME main = "exited" PROVE Cardinality(finished) = rows /\ Active = {}
      <3>1. Active = {} /\ Unsubmitted = {}
        BY <2>1, <2>2 DEF LifeInv, Graceful, Up, Active, Unsubmitted
      <3>2. rows = Len(accepted) /\ Len(accepted) \in Nat
        BY <3>1, FS_EmptySet DEF LifeInv, Accounts, Inv, Types
      <3>3. Cardinality(finished) = Len(accepted)
        BY <2>2, FinishedAreJobs DEF LifeInv, Order
      <3> QED BY <3>1, <3>2, <3>3
    <2> QED BY <2>1, <2>2
  <1> QED BY <1>1, LifeInvHolds, PTL

\* However the server ended, the requests answered 201 are those whose video was
\* announced, and the other videos are those of handlers that did not get through
\* Submit.
THEOREM LossesAreKnown == LifeSpec => []LossesAreUnanswered
  <1>1. LifeInv => LossesAreUnanswered
    <2> SUFFICES ASSUME LifeInv, redis = "closed"
                 PROVE  /\ \A h \in Submitters :
                             req[h] = "answered" <=> \E j \in finished : accepted[j] = h
                        /\ rows = Cardinality(finished) + Cardinality(Unsubmitted)
      BY DEF LossesAreUnanswered
    <2>1. finished = Jobs /\ Cardinality(finished) = Len(accepted)
      BY FinishedAreJobs DEF LifeInv, Order
    <2> QED BY <2>1 DEF LifeInv, Accounts
  <1> QED BY <1>1, LifeInvHolds, PTL
=============================================================================
