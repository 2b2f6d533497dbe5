--------------------------- MODULE SchedulerLocks ---------------------------
(***************************************************************************)
(* The scheduler registry (src/jobs/system.ts): a job scheduled by several *)
(* replicas runs in one of them at a time, by an advisory lock of          *)
(* PostgreSQL.                                                             *)
(*                                                                         *)
(* The lock belongs to the session of the connection that took it, which   *)
(* may take it again, and both taking and releasing it use whichever       *)
(* connection of its pool a replica gets.  The pool closes connections     *)
(* that stay idle, and the session's locks go with them.  One job; the     *)
(* jobs' locks have different keys.                                        *)
(***************************************************************************)
EXTENDS Integers, FiniteSets

CONSTANTS
    Connections, Ticks,
    Replicas,
    PoolOf,     \* the replica each connection belongs to
    TimerOf,    \* the replica whose timer fires each tick
    MaxHolds    \* bound on how often one session takes the lock

ASSUME SchedulerAssumption ==
    /\ PoolOf \in [Connections -> Replicas]
    /\ IsFiniteSet(Ticks) /\ TimerOf \in [Ticks -> Replicas]
    /\ MaxHolds \in Nat

VARIABLES
    tick,       \* stage of each call of runJobWithOverlapGuard
    runningJobs,\* replicas that have the job in their runningJobs
    holds,      \* how often each connection's session holds the lock
    severed     \* history: runs under way when a connection of their replica
                \* that held the lock was closed, or when such a run released
                \* what was not its own

schedulerVars == <<tick, runningJobs, holds, severed>>

SchedulerInit ==
    /\ tick = [t \in Ticks |-> "due"]
    /\ runningJobs = {}
    /\ holds = [c \in Connections |-> 0]
    /\ severed = {}

\* The runs of a replica that have taken the lock and not yet released it.
Runs(r) == {t \in Ticks : TimerOf[t] = r /\ tick[t] \in {"executing", "releasing"}}

At(t, stage) == tick' = [tick EXCEPT ![t] = stage]

\* A tick is skipped while a run of its replica is registered.
Fire(t) ==
    /\ tick[t] = "due"
    /\ At(t, IF TimerOf[t] \in runningJobs THEN "ended" ELSE "locking")
    /\ UNCHANGED <<runningJobs, holds, severed>>

\* tryAcquireLock on any connection of the pool; without the lock, or when the
\* query fails, the tick ends.
TryAcquireLock(t, c) ==
    LET free == \A d \in Connections \ {c} : holds[d] = 0
    IN  /\ tick[t] = "locking"
        /\ PoolOf[c] = TimerOf[t]
        /\ \/ /\ free
              /\ holds[c] < MaxHolds
              /\ holds' = [holds EXCEPT ![c] = @ + 1]
              /\ runningJobs' = runningJobs \cup {TimerOf[t]}
              /\ At(t, "executing")
           \/ At(t, "ended") /\ UNCHANGED <<holds, runningJobs>>
        /\ UNCHANGED severed

\* execute and the heartbeat end, or one of them fails.
EndExecution(t) ==
    /\ tick[t] = "executing"
    /\ At(t, "releasing")
    /\ runningJobs' = runningJobs \ {TimerOf[t]}
    /\ UNCHANGED <<holds, severed>>

\* Mutant of ReleaseLock: the lock goes whoever holds it.
ReleaseLockOfAnyone(t, c) ==
    /\ tick[t] = "releasing"
    /\ PoolOf[c] = TimerOf[t]
    /\ holds' = [d \in Connections |-> 0]
    /\ At(t, "ended")
    /\ UNCHANGED <<runningJobs, severed>>

\* pg_advisory_unlock does nothing in a session that does not hold the lock.
\* The release of a run whose hold went with its connection frees another's.
ReleaseLock(t, c) ==
    /\ tick[t] = "releasing"
    /\ PoolOf[c] = TimerOf[t]
    /\ \/ /\ holds' = [holds EXCEPT ![c] = IF @ > 0 THEN @ - 1 ELSE 0]
          /\ severed' = IF t \in severed THEN severed \cup Runs(TimerOf[t]) ELSE severed
       \/ UNCHANGED <<holds, severed>> \* the query fails
    /\ At(t, "ended")
    /\ UNCHANGED runningJobs

\* The interval has passed again.
Rearm(t) ==
    /\ tick[t] = "ended"
    /\ At(t, "due")
    /\ severed' = severed \ {t}
    /\ UNCHANGED <<runningJobs, holds>>

\* The pool closes an idle connection, or the connection breaks.
Close(c) ==
    /\ holds[c] > 0
    /\ holds' = [holds EXCEPT ![c] = 0]
    /\ severed' = severed \cup Runs(PoolOf[c])
    /\ UNCHANGED <<tick, runningJobs>>

SchedulerNext ==
    \/ \E t \in Ticks : Fire(t) \/ EndExecution(t) \/ Rearm(t)
    \/ \E t \in Ticks, c \in Connections : TryAcquireLock(t, c) \/ ReleaseLock(t, c)
    \/ \E c \in Connections : Close(c)

SchedulerSpec == SchedulerInit /\ [][SchedulerNext]_schedulerVars

SchedulerTypeOK ==
    /\ tick \in [Ticks -> {"due", "locking", "executing", "releasing", "ended"}]
    /\ runningJobs \subseteq Replicas
    /\ holds \in [Connections -> Nat]
    /\ severed \subseteq Ticks

\* Executions of the job by two replicas overlap only if one of them has lost
\* its lock with a connection or to the release of a run that had, however often
\* a session takes the lock, ticks pass the local check together and releases
\* miss their session.
NoOverlap ==
    \A t, u \in Ticks :
        tick[t] = "executing" /\ tick[u] = "executing" /\ TimerOf[t] # TimerOf[u] =>
            t \in severed \/ u \in severed
=============================================================================
