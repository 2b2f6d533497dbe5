--------------------------- MODULE GracefulShutdown ---------------------------
(***************************************************************************)
(* The shutdown of a process on SIGTERM (src/server/shutdown.ts,           *)
(* src/middleware/inFlightRequests.ts, stop in src/jobs/system.ts,         *)
(* src/jobs/queue.ts and src/services/etlWorker.ts).                       *)
(*                                                                         *)
(* The handler waits for one thing after another, each with a deadline,    *)
(* while requests still arrive, enqueue jobs and end.  It refuses requests *)
(* only while it drains: those that come later are served until the server *)
(* has closed, but their jobs are refused.                                 *)
(*                                                                         *)
(* The sockets the handler destroys end their requests for the counter and *)
(* for the server, and their handlers go on.  Left out: timers that nobody *)
(* stops or waits for (the expiration check, a scheduled job under way).   *)
(***************************************************************************)
EXTENDS Integers, FiniteSets

CONSTANTS
    Clients,  \* requests
    Tasks     \* jobs of the queue

ASSUME ShutdownAssumption == Clients \cap Tasks = {}

VARIABLES
    phase,    \* where the shutdown handler is
    client,   \* stage of each request
    detached, \* handlers that run on after their socket was destroyed
    task,     \* stage of each job
    etlRun,   \* the ETL worker: "off", "idle" or "running"
    late      \* history: deadlines that have passed

shutdownVars == <<phase, client, detached, task, etlRun, late>>

\* Before a phase lies what the one before it waits for.
Phases == {"serving", "stopping etl", "draining", "stopping jobs", "closing", "exited"}
Accepts == phase \in {"serving", "stopping etl", "stopping jobs"}
QueueRuns == phase \in {"serving", "stopping etl", "draining"}  \* the queue is running

ShutdownInit ==
    /\ phase = "serving"
    /\ client = [c \in Clients |-> "new"]
    /\ detached = {}
    /\ task = [j \in Tasks |-> "none"]
    /\ etlRun = "idle"
    /\ late = {}

InFlight == {c \in Clients : client[c] = "open"}
Active == {j \in Tasks : task[j] = "active"}
Client(c, stage) == client' = [client EXCEPT ![c] = stage]
Task(j, stage) == task' = [task EXCEPT ![j] = stage]

-----------------------------------------------------------------------------
\* inFlightMiddleware counts a request or answers 503.
Request(c) ==
    /\ client[c] = "new"
    /\ \/ Accepts /\ Client(c, "open")
       \/ phase = "draining" /\ Client(c, "refused")
    /\ UNCHANGED <<phase, detached, task, etlRun, late>>

\* A handler enqueues a job; the job system refuses it once it is shutting down.
EnqueueTask(c, j) ==
    /\ phase # "exited"
    /\ client[c] = "open" \/ c \in detached
    /\ task[j] = "none"
    /\ Task(j, IF QueueRuns THEN "queued" ELSE "refused")
    /\ UNCHANGED <<phase, client, detached, etlRun, late>>

Answer(c) ==
    /\ phase # "exited"
    /\ \/ client[c] = "open" /\ Client(c, "answered") /\ UNCHANGED detached
       \/ c \in detached /\ detached' = detached \ {c} /\ UNCHANGED client
    /\ UNCHANGED <<phase, task, etlRun, late>>

StartTask(j) ==
    /\ QueueRuns
    /\ task[j] = "queued"
    /\ Task(j, "active")
    /\ UNCHANGED <<phase, client, detached, etlRun, late>>

\* A job ends, or fails and is queued again.
EndTask(j) ==
    /\ phase # "exited"
    /\ task[j] = "active"
    /\ Task(j, "ended") \/ Task(j, "queued")
    /\ UNCHANGED <<phase, client, detached, etlRun, late>>

EtlTick ==
    /\ phase # "exited"
    /\ \/ etlRun = "idle" /\ phase = "serving" /\ etlRun' = "running"
       \/ etlRun = "running" /\ etlRun' = IF phase = "serving" THEN "idle" ELSE "off"
    /\ UNCHANGED <<phase, client, detached, task, late>>

-----------------------------------------------------------------------------
(* The handler *)

Signal ==
    /\ phase = "serving"
    /\ phase' = "stopping etl"
    /\ etlRun' = IF etlRun = "idle" THEN "off" ELSE etlRun
    /\ UNCHANGED <<client, detached, task, late>>

\* etlWorker.stop waits for the run or its drain timeout.
EtlStopped ==
    /\ phase = "stopping etl"
    /\ phase' = "draining"
    /\ late' = IF etlRun = "off" THEN late ELSE late \cup {"etl"}
    /\ UNCHANGED <<client, detached, task, etlRun>>

\* No request is in flight, or the deadline has passed and the sockets are
\* destroyed.
Drained ==
    /\ phase = "draining"
    /\ phase' = "stopping jobs"
    /\ IF InFlight = {} THEN UNCHANGED <<client, detached, late>>
       ELSE /\ client' = [c \in Clients |-> IF c \in InFlight THEN "cut" ELSE client[c]]
            /\ detached' = detached \cup InFlight
            /\ late' = late \cup {"drain"}
    /\ UNCHANGED <<task, etlRun>>

\* jobSystem.stop waits for the active jobs or its deadline.
JobsStopped ==
    /\ phase = "stopping jobs"
    /\ phase' = "closing"
    /\ late' = IF Active = {} THEN late ELSE late \cup {"jobs"}
    /\ UNCHANGED <<client, detached, task, etlRun>>

\* Mutant of Closed: the process does not wait for its connections.
ClosedAtOnce ==
    /\ phase = "closing"
    /\ phase' = "exited"
    /\ UNCHANGED <<client, detached, task, etlRun, late>>

\* server.close ends with the last connection, and the process exits with 0.
Closed ==
    /\ phase = "closing"
    /\ InFlight = {}
    /\ phase' = "exited"
    /\ UNCHANGED <<client, detached, task, etlRun, late>>

ShutdownNext ==
    \/ \E c \in Clients : Request(c) \/ Answer(c) \/ \E j \in Tasks : EnqueueTask(c, j)
    \/ \E j \in Tasks : StartTask(j) \/ EndTask(j)
    \/ EtlTick \/ Signal \/ EtlStopped \/ Drained \/ JobsStopped \/ Closed

ShutdownSpec == ShutdownInit /\ [][ShutdownNext]_shutdownVars

ShutdownTypeOK ==
    /\ phase \in Phases
    /\ client \in [Clients -> {"new", "open", "answered", "refused", "cut"}]
    /\ detached \subseteq Clients
    /\ task \in [Tasks -> {"none", "queued", "active", "refused", "ended"}]
    /\ etlRun \in {"off", "idle", "running"}
    /\ late \subseteq {"etl", "drain", "jobs"}

\* shutdown.ts: when a process exits with 0 no request, job or ETL run of it is
\* under way, whenever they came, unless the deadline that was to wait for them
\* has passed.
CleanExit ==
    phase = "exited" =>
        /\ InFlight = {}
        /\ detached # {} => "drain" \in late
        /\ Active # {} => "jobs" \in late
        /\ etlRun = "running" => "etl" \in late
=============================================================================
