------------------------------ MODULE DataExport ------------------------------
(***************************************************************************)
(* Data exports: the rows of export_jobs and the worker that fills them    *)
(* (src/services/exportQueue.ts, src/jobs/handlers.ts), its dead letters   *)
(* and the recovery at boot (src/jobs/system.ts).                          *)
(*                                                                         *)
(* An export is a row, which outlives its process, and entries in the      *)
(* in-memory queues of the processes.  Its submission makes one entry and  *)
(* every process that boots one more, of what it finds unfinished, whether *)
(* or not another process still works on it.                               *)
(*                                                                         *)
(* Left out: what a request must pass before its export is submitted       *)
(* (ExportRequests); the lease sweeps of the queue (JobQueue).  A process  *)
(* that stops is one that dies.                                            *)
(***************************************************************************)
EXTENDS Integers, FiniteSets

CONSTANTS
    Exports, Processes,
    MaxExportAttempts, \* max_attempts
    Own                \* the entry a submission makes; the others are the processes'

ASSUME ExportAssumption ==
    /\ MaxExportAttempts \in Nat \ {0}
    /\ Own \notin Processes

VARIABLES
    submission, \* stage of each request and the process that has it
    exportRow,  \* status and attempts
    entry,      \* queue entries: stage, attempts made and allowed
    recovery,   \* recovery at boot of each process, and what it has listed
    dlq,        \* dlqStore of each process
    excused     \* history: exports that an unanswered query, a crash in the
                \* last attempt, a recovery with attempts used up or a requeue
                \* may leave with nobody to run them

exportVars == <<submission, exportRow, entry, recovery, dlq, excused>>

Slots == Processes \cup {Own}
NoEntry == [at |-> "none", attempt |-> 0, max |-> 0]
Live == {"queued", "marking", "working"}

ExportInit ==
    /\ \E home \in [Exports -> Processes] :
           submission = [x \in Exports |-> [at |-> "new", home |-> home[x]]]
    /\ exportRow = [x \in Exports |-> [status |-> "none", attempts |-> 0]]
    /\ entry = [x \in Exports |-> [s \in Slots |-> NoEntry]]
    /\ recovery = [p \in Processes |-> [at |-> "due", found |-> {}]]
    /\ dlq = [p \in Processes |-> {}]
    /\ excused = {}

ProcessOf(x, s) == IF s = Own THEN submission[x].home ELSE s
Submitted(x, stage) == submission' = [submission EXCEPT ![x].at = stage]
SetRow(x, status, attempts) ==
    exportRow' = [exportRow EXCEPT ![x] = [status |-> status, attempts |-> attempts]]
Excuse(xs) == excused' = excused \cup xs
Recoverable(x) ==
    /\ exportRow[x].status \in {"pending", "running"}
    /\ exportRow[x].attempts < MaxExportAttempts

-----------------------------------------------------------------------------
(* Submissions *)

\* enqueueExportJob inserts the row and, when that is answered, enqueues it.
CreateExport(x) ==
    /\ submission[x].at = "new"
    /\ Submitted(x, "created")
    /\ SetRow(x, "pending", 0)
    /\ UNCHANGED <<entry, recovery, dlq, excused>>

EnqueueExport(x) ==
    /\ submission[x].at = "created"
    /\ Submitted(x, "accepted")
    /\ entry' = [entry EXCEPT ![x][Own] =
                    [at |-> "queued", attempt |-> 0, max |-> MaxExportAttempts]]
    /\ UNCHANGED <<exportRow, recovery, dlq, excused>>

-----------------------------------------------------------------------------
(* Running *)

Move(x, s, stage) == entry' = [entry EXCEPT ![x][s].at = stage]

\* The queue runs the entry again, or keeps it as a dead letter of its own.
Retry(x, s) ==
    Move(x, s, IF entry[x][s].attempt < entry[x][s].max THEN "queued" ELSE "dead")
Dies(x, s) == entry[x][s].attempt >= entry[x][s].max

\* processJob reads the row; nothing is left to do if it is done.
StartExport(x, s) ==
    /\ entry[x][s].at = "queued"
    /\ entry' = [entry EXCEPT ![x][s] =
           IF exportRow[x].status = "done" THEN NoEntry
           ELSE [entry[x][s] EXCEPT !.at = "marking", !.attempt = entry[x][s].attempt + 1]]
    /\ UNCHANGED <<submission, exportRow, recovery, dlq, excused>>

\* The row becomes running, with the attempt of this entry.
MarkRunning(x, s) ==
    /\ entry[x][s].at = "marking"
    /\ Move(x, s, "working")
    /\ SetRow(x, "running", entry[x][s].attempt)
    /\ UNCHANGED <<submission, recovery, dlq, excused>>

Succeed(x, s) ==
    /\ entry[x][s].at = "working"
    /\ entry' = [entry EXCEPT ![x][s] = NoEntry]
    /\ SetRow(x, "done", entry[x][s].attempt)
    /\ UNCHANGED <<submission, recovery, dlq, excused>>

\* Mutant of FailExport: the last attempt is one too late.
FailExportLate(x, s) ==
    LET a == entry[x][s].attempt
    IN  /\ entry[x][s].at = "working"
        /\ Retry(x, s)
        /\ SetRow(x, IF a <= MaxExportAttempts THEN "pending" ELSE "failed", a)
        /\ UNCHANGED <<submission, recovery, dlq, excused>>

\* The data, the file or the upload failed: what is left depends on the row's
\* attempts, whether the queue tries again on the entry's.  A full dead-letter
\* store drops an entry.
FailExport(x, s) ==
    LET a == entry[x][s].attempt
        p == ProcessOf(x, s)
    IN  /\ entry[x][s].at = "working"
        /\ Retry(x, s)
        /\ IF a < MaxExportAttempts
           THEN SetRow(x, "pending", a) /\ UNCHANGED dlq
           ELSE SetRow(x, "failed", a) /\ dlq' = [dlq EXCEPT ![p] = @ \cup {x}]
        /\ UNCHANGED <<submission, recovery, excused>>

\* The first or the last update of the row is not answered.
QueryFails(x, s) ==
    /\ entry[x][s].at \in {"marking", "working"}
    /\ Retry(x, s)
    /\ Excuse(IF Dies(x, s) THEN {x} ELSE {})
    /\ UNCHANGED <<submission, exportRow, recovery, dlq>>

\* An operator replays the queue's dead letter.
ReplayEntry(x, s) ==
    /\ entry[x][s].at = "dead"
    /\ entry' = [entry EXCEPT ![x][s].at = "queued", ![x][s].attempt = 0]
    /\ UNCHANGED <<submission, exportRow, recovery, dlq, excused>>

-----------------------------------------------------------------------------
(* Dead letters *)

\* requeueDlqEntry resets the row and enqueues nothing.
Requeue(x, p) ==
    /\ x \in dlq[p]
    /\ dlq' = [dlq EXCEPT ![p] = @ \ {x}]
    /\ SetRow(x, "pending", 0)
    /\ Excuse({x})
    /\ UNCHANGED <<submission, entry, recovery>>

\* discardDlqEntry, clearDlq, or room for another entry.
Discard(x, p) ==
    /\ x \in dlq[p]
    /\ dlq' = [dlq EXCEPT ![p] = @ \ {x}]
    /\ UNCHANGED <<submission, exportRow, entry, recovery, excused>>

-----------------------------------------------------------------------------
(* Boot *)

\* listRecoverable; if it fails nothing is recovered until the next boot.
ListRecoverable(p) ==
    LET found == {x \in Exports : Recoverable(x)}
    IN  /\ recovery[p].at = "due"
        /\ \/ /\ recovery' = [recovery EXCEPT ![p] =
                    [at |-> "listed",
                     found |-> {[export |-> x, attempts |-> exportRow[x].attempts] : x \in found}]]
              /\ UNCHANGED excused
           \/ /\ recovery' = [recovery EXCEPT ![p].at = "done"]
              /\ Excuse(found)
        /\ UNCHANGED <<submission, exportRow, entry, dlq>>

\* The entry allows what the row has left, but counts from one again.
EnqueueListed(p) ==
    LET found == recovery[p].found
        Left(x) == MaxExportAttempts - (CHOOSE f \in found : f.export = x).attempts
    IN  /\ recovery[p].at = "listed"
        /\ recovery' = [recovery EXCEPT ![p] = [at |-> "done", found |-> {}]]
        /\ entry' = [x \in Exports |->
               IF \E f \in found : f.export = x
               THEN [entry[x] EXCEPT ![p] = [at |-> "queued", attempt |-> 0, max |-> Left(x)]]
               ELSE entry[x]]
        /\ Excuse({f.export : f \in {g \in found : g.attempts > 0}})
        /\ UNCHANGED <<submission, exportRow, dlq>>

\* The process dies and boots again.
CrashExports(p) ==
    /\ submission' = [x \in Exports |->
           IF submission[x].home = p /\ submission[x].at = "created"
           THEN [submission[x] EXCEPT !.at = "refused"] ELSE submission[x]]
    /\ entry' = [x \in Exports |-> [s \in Slots |->
                    IF ProcessOf(x, s) = p THEN NoEntry ELSE entry[x][s]]]
    /\ recovery' = [recovery EXCEPT ![p] = [at |-> "due", found |-> {}]]
    /\ dlq' = [dlq EXCEPT ![p] = {}]
    /\ Excuse({x \in Exports : /\ exportRow[x] = [status |-> "running", attempts |-> MaxExportAttempts]
                               /\ \E s \in Slots : ProcessOf(x, s) = p /\ entry[x][s].at \in Live})
    /\ UNCHANGED exportRow

-----------------------------------------------------------------------------
ExportNext ==
    \/ \E x \in Exports : CreateExport(x) \/ EnqueueExport(x)
    \/ \E x \in Exports, s \in Slots :
         \/ StartExport(x, s) \/ MarkRunning(x, s) \/ Succeed(x, s)
         \/ FailExport(x, s) \/ QueryFails(x, s) \/ ReplayEntry(x, s)
    \/ \E x \in Exports, p \in Processes : Requeue(x, p) \/ Discard(x, p)
    \/ \E p \in Processes : ListRecoverable(p) \/ EnqueueListed(p) \/ CrashExports(p)

ExportSpec == ExportInit /\ [][ExportNext]_exportVars

Tries == 0 .. MaxExportAttempts
ExportTypeOK ==
    /\ submission \in [Exports -> [at : {"new", "created", "accepted", "refused"},
                               home : Processes]]
    /\ exportRow \in [Exports -> [status : {"none", "pending", "running", "done", "failed"},
                                  attempts : Tries]]
    /\ entry \in [Exports -> [Slots -> [at : Live \cup {"none", "dead"},
                                        attempt : Tries, max : Tries]]]
    /\ recovery \in [Processes -> [at : {"due", "listed", "done"},
                                   found : SUBSET [export : Exports, attempts : Tries]]]
    /\ dlq \in [Processes -> SUBSET Exports]
    /\ excused \subseteq Exports

\* However runs, recoveries of several processes, retries and crashes
\* interleave, an unfinished export is queued or running somewhere, about to be
\* enqueued or due to be recovered, and one that failed used its attempts,
\* unless it is excused.
ExportsAccounted ==
    \A x \in Exports \ excused :
        /\ exportRow[x].status \in {"pending", "running"} =>
               \/ submission[x].at = "created"
               \/ \E s \in Slots : entry[x][s].at \in Live
               \/ \E p \in Processes : \/ recovery[p].at = "due" /\ Recoverable(x)
                                       \/ \E f \in recovery[p].found : f.export = x
        /\ exportRow[x].status = "failed" => exportRow[x].attempts = MaxExportAttempts
=============================================================================
