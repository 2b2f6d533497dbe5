---------------------------- MODULE ExportRequests ----------------------------
(***************************************************************************)
(* The requests for exports of one tenant (src/routes/exports.ts): the     *)
(* daily quota (src/services/exportQuota.ts), and the export that a        *)
(* request with an idempotency key finds or creates (enqueueExportJob of   *)
(* src/services/exportQueue.ts).  DataExport models what becomes of an     *)
(* export that has been created.                                           *)
(*                                                                         *)
(* The counters are those of createInMemoryOrgQuotaRepository, one per     *)
(* process and day: nothing configures the repository that keeps them in   *)
(* the database.  The mutex of an increment protects a step that awaits    *)
(* nothing.  Two days are enough for a request that midnight overtakes.    *)
(***************************************************************************)
EXTENDS Integers, FiniteSets

CONSTANTS
    ExportCalls,     \* requests
    ExportServers,
    ExportKeys,      \* idempotency keys
    Shapes,          \* what requestHash tells apart
    Limit,           \* EXPORT_DAILY_QUOTA_LIMIT
    NoKey

ASSUME ExportRequestAssumption == NoKey \notin ExportKeys /\ Limit \in Nat \ {0}

VARIABLES
    day,
    count,   \* of each process and day
    call,    \* what each request is at, where, and of which day
    made,    \* exports: key and shape; without a key, the request's own
    admitted \* history: of each process and day, the requests let through

requestVars == <<day, count, call, made, admitted>>

Days == {0, 1}
NoCall == [at |-> "new", server |-> 0, day |-> 0, key |-> NoKey, shape |-> 0]

ExportRequestInit ==
    /\ day = 0
    /\ count = [s \in ExportServers |-> [d \in Days |-> 0]]
    /\ call = [c \in ExportCalls |-> NoCall]
    /\ made = {}
    /\ admitted = [s \in ExportServers |-> [d \in Days |-> {}]]

Becomes(c, stage) == call' = [call EXCEPT ![c].at = stage]
Owner(c) == IF call[c].key = NoKey THEN c ELSE call[c].key
MadeBy(c) == {m \in made : m.owner = Owner(c)}

-----------------------------------------------------------------------------
Midnight == day = 0 /\ day' = 1 /\ UNCHANGED <<count, call, made, admitted>>

\* enforceExportQuota: a full counter is not incremented.
CheckQuota(c, s, key, shape) ==
    /\ call[c].at = "new"
    /\ call' = [call EXCEPT ![c] =
           [at |-> IF count[s][day] >= Limit THEN "refused" ELSE "checked",
            server |-> s, day |-> day, key |-> key, shape |-> shape]]
    /\ UNCHANGED <<day, count, made, admitted>>

\* Mutant of IncrementQuota: the check has been made before.
IncrementUnchecked(c) ==
    LET s == call[c].server
        d == call[c].day
    IN  /\ call[c].at = "checked"
        /\ count' = [count EXCEPT ![s][d] = @ + 1]
        /\ Becomes(c, "admitted")
        /\ admitted' = [admitted EXCEPT ![s][d] = @ \cup {c}]
        /\ UNCHANGED <<day, made>>

\* Requests that have passed the check together may still be too many.
IncrementQuota(c) ==
    LET s == call[c].server
        d == call[c].day
    IN  /\ call[c].at = "checked"
        /\ count' = [count EXCEPT ![s][d] = @ + 1]
        /\ IF count'[s][d] > Limit
           THEN Becomes(c, "refused") /\ UNCHANGED admitted
           ELSE /\ Becomes(c, "admitted")
                /\ admitted' = [admitted EXCEPT ![s][d] = @ \cup {c}]
        /\ UNCHANGED <<day, made>>

\* A key that was used before answers with its export, or with a conflict.
FindByIdempotencyKey(c) ==
    /\ call[c].at = "admitted"
    /\ Becomes(c, IF MadeBy(c) = {} THEN "creating"
                  ELSE IF \E m \in MadeBy(c) : m.shape = call[c].shape THEN "accepted"
                  ELSE "conflict")
    /\ UNCHANGED <<day, count, made, admitted>>

\* The unique key refuses the second of two inserts; the database may refuse any.
CreateForCall(c) ==
    /\ call[c].at = "creating"
    /\ \/ /\ MadeBy(c) = {}
          /\ made' = made \cup {[owner |-> Owner(c), shape |-> call[c].shape]}
          /\ Becomes(c, "accepted")
       \/ Becomes(c, "failed") /\ UNCHANGED made
    /\ UNCHANGED <<day, count, admitted>>

\* The process starts anew, with a quota that nobody has used.
RestartExportServer(s) ==
    /\ count' = [count EXCEPT ![s] = [d \in Days |-> 0]]
    /\ call' = [c \in ExportCalls |->
           IF call[c].server = s /\ call[c].at \in {"checked", "admitted", "creating"}
           THEN [call[c] EXCEPT !.at = "failed"] ELSE call[c]]
    /\ admitted' = [admitted EXCEPT ![s] = [d \in Days |-> {}]]
    /\ UNCHANGED <<day, made>>

ExportRequestNext ==
    \/ Midnight
    \/ \E s \in ExportServers :
         \/ RestartExportServer(s)
         \/ \E c \in ExportCalls, key \in ExportKeys \cup {NoKey}, shape \in Shapes :
                CheckQuota(c, s, key, shape)
    \/ \E c \in ExportCalls : \/ IncrementQuota(c) \/ FindByIdempotencyKey(c)
                              \/ CreateForCall(c)

ExportRequestSpec == ExportRequestInit /\ [][ExportRequestNext]_requestVars

ExportRequestTypeOK ==
    /\ day \in Days
    /\ count \in [ExportServers -> [Days -> Nat]]
    /\ call \in [ExportCalls -> [at : {"new", "refused", "checked", "admitted", "creating",
                                       "accepted", "conflict", "failed"},
                                 server : ExportServers \cup {0}, day : Days,
                                 key : ExportKeys \cup {NoKey}, shape : Shapes \cup {0}]]
    /\ made \subseteq [owner : ExportKeys \cup ExportCalls, shape : Shapes]
    /\ admitted \in [ExportServers -> [Days -> SUBSET ExportCalls]]

\* exportQuota.ts, "Raced past the limit (concurrent requests); still reject":
\* however the checks and increments of its requests interleave, a process lets
\* through as many requests of a day as it has counted, up to the limit and no
\* more; and every request that is accepted has an export of its own shape, the
\* only one of its key.
AdmittedOnce ==
    /\ \A s \in ExportServers, d \in Days :
           Cardinality(admitted[s][d]) = IF count[s][d] < Limit THEN count[s][d] ELSE Limit
    /\ \A c \in ExportCalls :
           call[c].at = "accepted"
               => MadeBy(c) = {[owner |-> Owner(c), shape |-> call[c].shape]}
=============================================================================
