------------------------------ MODULE JobQueue ------------------------------
(***************************************************************************)
(* The in-process background queue: InMemoryJobQueue (src/jobs/queue.ts)   *)
(* behind BackgroundJobSystem (src/jobs/system.ts).                        *)
(*                                                                         *)
(* A job is a mutable object: the pending list, the active map and every   *)
(* handler invocation refer to the same one, so a sweep that re-queues an  *)
(* object whose handler is still running leaves two owners of it.  Objects *)
(* are numbered in order of creation; an object's job id is the number of  *)
(* the first object created with that id.                                  *)
(*                                                                         *)
(* Node runs each call to completion up to its next await, so a call and   *)
(* the drain() loop it ends with are not interleaved with other calls.     *)
(* drain() is unfolded into one RunJob step per started job, and no other  *)
(* call can happen while the loop has work left (Quiet).                   *)
(*                                                                         *)
(* Abstractions.  Time: `due` holds the objects with runAt <= now, and a   *)
(* sweep may find any leases older than its threshold.  Among due jobs the *)
(* next one is any of them (the code takes the earliest).  Payloads, job   *)
(* types, history lists and metrics are dropped.                           *)
(***************************************************************************)
EXTENDS Integers, FiniteSets

CONSTANTS
    MaxObjects,    \* bound on the job objects ever created
    MaxAttempts,   \* values of the maxAttempts option
    Concurrency    \* worker slots

ASSUME QueueAssumption ==
    /\ MaxObjects \in Nat
    /\ Concurrency \in Nat \ {0}
    /\ MaxAttempts \subseteq Nat \ {0}

Obj == 1 .. MaxObjects

VARIABLES
    running,       \* InMemoryJobQueue.running
    shuttingDown,  \* BackgroundJobSystem.shuttingDown
    draining,      \* the current call ends in drain()
    crashed,       \* the process died of an unhandled rejection
    objects,       \* number of job objects created so far
    jobId,         \* id of each object
    maxAttempts,   \* maxAttempts of each object
    attempt,       \* attempt of each object
    due,           \* objects with runAt <= now
    pending,       \* how often each object is in pendingJobs
    active,        \* activeJobs: the object registered under each id, or 0
    inflight,      \* handler invocations of each object not yet settled
    completed,     \* completed-job records made for each object
    deadLetter,    \* entries of deadLetterJobs made from each object
    taken,         \* history: dead letters removed by a replay or forced retry
    dropped,       \* history: invocations that ended without any record
    swept          \* history: ids a sweep has reclaimed

process == <<running, shuttingDown, crashed>>
identity == <<objects, jobId, maxAttempts>>
outcomes == <<completed, deadLetter, taken, dropped>>
vars == <<running, shuttingDown, draining, crashed, objects, jobId,
          maxAttempts, attempt, due, pending, active, inflight, completed,
          deadLetter, taken, dropped, swept>>

Used == 1 .. objects
ActiveIds == {i \in Obj : active[i] # 0}

Init ==
    /\ running = FALSE /\ shuttingDown = FALSE
    /\ draining = FALSE /\ crashed = FALSE
    /\ objects = 0
    /\ jobId = [o \in Obj |-> 0]
    /\ maxAttempts = [o \in Obj |-> 0]
    /\ attempt = [o \in Obj |-> 0]
    /\ due = {}
    /\ pending = [o \in Obj |-> 0]
    /\ active = [i \in Obj |-> 0]
    /\ inflight = [o \in Obj |-> 0]
    /\ completed = [o \in Obj |-> 0]
    /\ deadLetter = [o \in Obj |-> 0]
    /\ taken = [o \in Obj |-> 0]
    /\ dropped = [o \in Obj |-> 0]
    /\ swept = {}

-----------------------------------------------------------------------------
(* The drain loop *)

\* Mutant of CanRun: one worker slot too many.
CanRunOffByOne(o) ==
    running /\ Cardinality(ActiveIds) <= Concurrency /\ pending[o] > 0 /\ o \in due

CanRun(o) ==
    /\ running
    /\ Cardinality(ActiveIds) < Concurrency
    /\ pending[o] > 0
    /\ o \in due

\* The call in progress has left its drain() loop.
Quiet == ~crashed /\ ~(draining /\ \E o \in Obj : CanRun(o))

\* One turn of the loop: runJob up to the await of its handler.
RunJob(o) ==
    /\ ~crashed
    /\ draining
    /\ CanRun(o)
    /\ pending' = [pending EXCEPT ![o] = @ - 1]
    /\ attempt' = [attempt EXCEPT ![o] = @ + 1]
    /\ active' = [active EXCEPT ![jobId[o]] = o]
    /\ inflight' = [inflight EXCEPT ![o] = @ + 1]
    /\ UNCHANGED <<draining, process, identity, due, outcomes, swept>>

\* The poll timer calls drain().
Poll ==
    /\ Quiet
    /\ running
    /\ draining' = TRUE
    /\ UNCHANGED <<process, identity, attempt, due, pending, active, inflight,
                   outcomes, swept>>

\* Time: the runAt of a delayed job is reached.
BecomeDue(o) ==
    /\ Quiet
    /\ pending[o] > 0
    /\ o \notin due
    /\ due' = due \cup {o}
    /\ draining' = FALSE
    /\ UNCHANGED <<process, identity, attempt, pending, active, inflight,
                   outcomes, swept>>

-----------------------------------------------------------------------------
(* Adding jobs *)

\* Push a new object with the given id, attempt 0, and drain.
Push(id, max, isDue) ==
    LET o == objects + 1
    IN  /\ objects < MaxObjects
        /\ objects' = o
        /\ jobId' = [jobId EXCEPT ![o] = id]
        /\ maxAttempts' = [maxAttempts EXCEPT ![o] = max]
        /\ pending' = [pending EXCEPT ![o] = 1]
        /\ due' = IF isDue THEN due \cup {o} ELSE due
        /\ draining' = running
        /\ UNCHANGED <<process, attempt, active, inflight, completed, dropped,
                       swept>>

Enqueue(max, isDue) ==
    /\ Quiet
    /\ ~shuttingDown
    /\ Push(objects + 1, max, isDue)
    /\ UNCHANGED <<deadLetter, taken>>

TakeDeadLetter(o) ==
    /\ deadLetter[o] > 0
    /\ deadLetter' = [deadLetter EXCEPT ![o] = @ - 1]
    /\ taken' = [taken EXCEPT ![o] = @ + 1]

\* replayDeadLetter: a new job with a new id.
ReplayDeadLetter(o) ==
    /\ Quiet
    /\ ~shuttingDown
    /\ TakeDeadLetter(o)
    /\ Push(objects + 1, maxAttempts[o], TRUE)

\* retryJob with force: a new object that keeps the id.
RetryDeadLetter(o) ==
    /\ Quiet
    /\ ~shuttingDown
    /\ TakeDeadLetter(o)
    /\ Push(jobId[o], maxAttempts[o], TRUE)

\* retryJob of a failed job that waits for its next attempt: it becomes due,
\* its attempts are not reset.  A dead letter of the same id takes precedence.
RetryPending(o) ==
    /\ Quiet
    /\ ~shuttingDown
    /\ pending[o] > 0
    /\ attempt[o] > 0
    /\ \A x \in Used : jobId[x] = jobId[o] => deadLetter[x] = 0
    /\ due' = due \cup {o}
    /\ draining' = running
    /\ UNCHANGED <<process, identity, attempt, pending, active, inflight,
                   outcomes, swept>>

-----------------------------------------------------------------------------
(* The end of a handler: the rest of runJob *)

\* Mutant of Leave: the job keeps its entry in activeJobs.
LeaveRegistered(o) ==
    /\ Quiet
    /\ inflight[o] > 0
    /\ inflight' = [inflight EXCEPT ![o] = @ - 1]
    /\ draining' = running
    /\ UNCHANGED <<running, shuttingDown, identity, attempt, active, taken, swept>>

\* The finally block: whatever is registered under the id is removed.
Leave(o) ==
    /\ Quiet
    /\ inflight[o] > 0
    /\ inflight' = [inflight EXCEPT ![o] = @ - 1]
    /\ active' = [active EXCEPT ![jobId[o]] = 0]
    /\ draining' = running
    /\ UNCHANGED <<running, shuttingDown, identity, attempt, taken, swept>>

Complete(o) ==
    /\ Leave(o)
    /\ completed' = [completed EXCEPT ![o] = @ + 1]
    /\ UNCHANGED <<crashed, due, pending, deadLetter, dropped>>

\* Mutant of FailAndRetry: the job is not pushed back.
FailAndForget(o) ==
    /\ attempt[o] < maxAttempts[o]
    /\ Leave(o)
    /\ due' = due \ {o}
    /\ UNCHANGED <<crashed, pending, completed, deadLetter, dropped>>

\* The retry delay is at least a second, so the job is not due.
FailAndRetry(o) ==
    /\ attempt[o] < maxAttempts[o]
    /\ Leave(o)
    /\ pending' = [pending EXCEPT ![o] = @ + 1]
    /\ due' = due \ {o}
    /\ UNCHANGED <<crashed, completed, deadLetter, dropped>>

FailForGood(o) ==
    /\ attempt[o] >= maxAttempts[o]
    /\ Leave(o)
    /\ deadLetter' = [deadLetter EXCEPT ![o] = @ + 1]
    /\ UNCHANGED <<crashed, due, pending, completed, dropped>>

\* A nonRetryable error: recordFailedJob is not a method of the class, so the
\* catch block throws; the finally block still runs, and the rejection of the
\* discarded promise, which nothing handles, ends the process.
FailNonRetryable(o) ==
    /\ Leave(o)
    /\ dropped' = [dropped EXCEPT ![o] = @ + 1]
    /\ crashed' = TRUE
    /\ UNCHANGED <<due, pending, completed, deadLetter>>

-----------------------------------------------------------------------------
(* Sweeping, starting and stopping *)

ActiveObjects == {active[i] : i \in ActiveIds}

\* sweepStaleLeases finds the leases of S older than its threshold.  Their
\* handlers keep running.
SweepStaleLeases(S) ==
    LET exhausted == {o \in S : attempt[o] >= maxAttempts[o]}
        reclaimed == S \ exhausted
    IN  /\ Quiet
        /\ ~shuttingDown
        /\ S # {}
        /\ active' = [i \in Obj |-> IF active[i] \in S THEN 0 ELSE active[i]]
        /\ deadLetter' = [o \in Obj |-> IF o \in exhausted
                                        THEN deadLetter[o] + 1 ELSE deadLetter[o]]
        /\ pending' = [o \in Obj |-> IF o \in reclaimed
                                     THEN pending[o] + 1 ELSE pending[o]]
        /\ due' = due \cup reclaimed
        /\ swept' = swept \cup {jobId[o] : o \in S}
        /\ draining' = (running /\ reclaimed # {})
        /\ UNCHANGED <<process, identity, attempt, inflight, completed, taken,
                       dropped>>

Start ==
    /\ Quiet
    /\ ~running
    /\ running' = TRUE
    /\ shuttingDown' = FALSE
    /\ draining' = TRUE
    /\ UNCHANGED <<crashed, identity, attempt, due, pending, active, inflight,
                   outcomes, swept>>

\* Pending jobs stay where they are and running handlers are abandoned to
\* finish later: stop() waits for them for two seconds and returns.
Stop ==
    /\ Quiet
    /\ running
    /\ running' = FALSE
    /\ shuttingDown' = TRUE
    /\ draining' = FALSE
    /\ UNCHANGED <<crashed, identity, attempt, due, pending, active, inflight,
                   outcomes, swept>>

-----------------------------------------------------------------------------
Settle(o) ==
    \/ Complete(o)
    \/ FailAndRetry(o)
    \/ FailForGood(o)
    \/ FailNonRetryable(o)

ObjectStep(o) ==
    \/ RunJob(o)
    \/ BecomeDue(o)
    \/ Settle(o)
    \/ ReplayDeadLetter(o)
    \/ RetryDeadLetter(o)
    \/ RetryPending(o)

Next ==
    \/ \E o \in Obj : ObjectStep(o)
    \/ Poll
    \/ \E m \in MaxAttempts, d \in BOOLEAN : Enqueue(m, d)
    \/ \E S \in SUBSET ActiveObjects : SweepStaleLeases(S)
    \/ Start
    \/ Stop

Spec == Init /\ [][Next]_vars

\* The event loop runs the drain loop and its timers, and handlers settle
\* (an assumption on the handlers: the queue does not time them out).
Fairness ==
    /\ WF_vars(Poll)
    /\ \A o \in Obj : /\ WF_vars(RunJob(o))
                      /\ WF_vars(BecomeDue(o))
                      /\ WF_vars(Settle(o))

FairSpec == Spec /\ Fairness

-----------------------------------------------------------------------------
(* Properties *)

\* Every variable has its type.
TypeOK ==
    /\ running \in BOOLEAN /\ shuttingDown \in BOOLEAN
    /\ draining \in BOOLEAN /\ crashed \in BOOLEAN
    /\ objects \in 0 .. MaxObjects
    /\ jobId \in [Obj -> 0 .. MaxObjects]
    /\ maxAttempts \in [Obj -> Nat]
    /\ attempt \in [Obj -> Nat]
    /\ due \subseteq Obj
    /\ pending \in [Obj -> Nat]
    /\ active \in [Obj -> 0 .. MaxObjects]
    /\ inflight \in [Obj -> Nat]
    /\ completed \in [Obj -> Nat]
    /\ deadLetter \in [Obj -> Nat]
    /\ taken \in [Obj -> Nat]
    /\ dropped \in [Obj -> Nat]
    /\ swept \subseteq Obj

\* The places an object can be: waiting, running, or ended in some way.
Copies(o) == pending[o] + inflight[o] + completed[o] + deadLetter[o]
             + taken[o] + dropped[o]

\* Custody: no job is ever lost, and a job whose id no sweep has touched is in
\* exactly one place, so it runs once at a time and ends once, whatever mixture
\* of retries, replays, stops and restarts it goes through.
Custody ==
    \A o \in Obj : /\ o \notin Used => Copies(o) = 0
                   /\ o \in Used => Copies(o) >= 1
                   /\ (o \in Used /\ jobId[o] \notin swept) => Copies(o) = 1

Live(o) == pending[o] + inflight[o] > 0

\* A forced retry reuses the id of the job: unless a sweep interfered, an id has
\* one live object at a time, and its running handler is the one that
\* activeJobs holds, so deleting by id in the finally block hits the right run.
IdsAreExclusive ==
    \A o \in Used : jobId[o] \notin swept =>
        /\ inflight[o] = 1 <=> active[jobId[o]] = o
        /\ \A x \in Used \ {o} : jobId[x] = jobId[o] => ~(Live(o) /\ Live(x))

\* Handlers of jobs that no sweep has touched never occupy more than the
\* configured number of worker slots.
SlotsRespected ==
    Cardinality({o \in Used : inflight[o] > 0 /\ jobId[o] \notin swept})
        <= Concurrency

\* A job no sweep has touched runs at most maxAttempts times and is
\* dead-lettered only after exactly that many.
AttemptsRespected ==
    \A o \in Used : jobId[o] \notin swept =>
        /\ attempt[o] <= maxAttempts[o]
        /\ deadLetter[o] > 0 => attempt[o] = maxAttempts[o]

\* Within an id, within the slots and within the attempts: what retries, forced
\* retries and replays that overlap must not exceed.
LimitsRespected == IdsAreExclusive /\ SlotsRespected /\ AttemptsRespected

Ended(o) == completed[o] + deadLetter[o] + taken[o] + dropped[o] > 0

\* While the queue keeps running and handlers settle, every job that was
\* enqueued ends: the poll timer picks up what backoff delays.
EveryJobEnds ==
    \A o \in Obj : (o \in Used) ~> (Ended(o) \/ ~running \/ crashed)

\* queue.ts:456: for an error marked non-retryable the queue records the
\* failure and skips the retry; so every ended run leaves a record.
EveryEndIsRecorded == \A o \in Used : dropped[o] = 0
=============================================================================
