------------------------------ MODULE Verifiers ------------------------------
(***************************************************************************)
(* One verifier's profile, and the decisions the verifier takes on one     *)
(* target (src/services/verifiers.ts, routes/adminVerifiers.ts,            *)
(* verifications.ts), with the audit entries both write.                   *)
(*                                                                         *)
(* A request reads in a transaction, decides, writes, and creates its      *)
(* audit entry before it commits; the entry is a transaction of its own on *)
(* another connection.  Nothing is locked by the reads.  The entry of a    *)
(* request has the request's number; other callers of createAuditLog are   *)
(* requests that only create an entry.                                     *)
(***************************************************************************)
EXTENDS AuditLog

CONSTANT NoOrganization  \* the chain of entries that name no organisation

VARIABLES
    status,    \* of the profile, "none" when there is none
    decisions, \* results of the requests whose verification is stored
    request,   \* stage of each request, what it read and what it writes
    outdated   \* history: requests that a commit of another has overtaken

verifierVars == <<status, decisions, request, outdated>>

Statuses == {"pending", "approved", "suspended", "deactivated"}
Results == {"approved", "rejected"}

transitionMatrix == [pending     |-> {"pending", "approved", "deactivated"},
                     approved    |-> {"approved", "suspended", "deactivated"},
                     suspended   |-> {"suspended", "approved", "deactivated"},
                     deactivated |-> {"deactivated", "pending"}]
canTransition(from, to) ==
    to = "none" \/ to \in (IF from = "none" THEN Statuses ELSE transitionMatrix[from])

NoDecisions == [r \in Entries |-> "none"]
NoRequest == [at |-> "idle", from |-> "none", to |-> "none"]

VerifierInit ==
    /\ AuditInit
    /\ status \in {"none", "approved"}
    /\ decisions = NoDecisions
    /\ request = [r \in Entries |-> NoRequest]
    /\ outdated = {}

Decided == {r \in Entries : decisions[r] # "none"}
InStage(stage) == {r \in Entries : request[r].at = stage}
Starts(r) == /\ request[r].at = "idle" /\ record[r].at = "none"
             /\ ChainOf[r] = NoOrganization
Becomes(r, stage, from, to) ==
    request' = [request EXCEPT ![r] = [at |-> stage, from |-> from, to |-> to]]
MovesTo(r, stage) == request' = [request EXCEPT ![r].at = stage]
StaysPut == UNCHANGED <<status, decisions, outdated, auditVars>>

-----------------------------------------------------------------------------
\* createVerifierProfile, which does not look for a profile that is there already;
\* createOrGetVerifierProfile has looked, in a query of its own.
CreateProfile(r, to) ==
    /\ Starts(r)
    /\ Becomes(r, "read", "none", to)
    /\ StaysPut

\* updateVerifierProfile, and deleteVerifierProfile (to "none").  A status that is
\* not new comes with another field that is.
ReadProfile(r, to) ==
    /\ Starts(r)
    /\ status # "none"
    /\ canTransition(status, to)
    /\ Becomes(r, "read", status, to)
    /\ StaysPut

\* The row stays locked until the request ends; a verification that refers to it
\* keeps it from being deleted.  A profile that has gone, or come, is refused.
WriteProfile(r) ==
    /\ request[r].at = "read"
    /\ InStage("holding") = {}
    /\ request[r].to = "none" => InStage("added") = {}
    /\ MovesTo(r, IF (request[r].from = "none") = (status = "none") THEN "holding" ELSE "failed")
    /\ StaysPut

\* Mutant of LookUpDecision: only the same decision is looked for.
LookUpSameDecision(r, result) ==
    /\ Starts(r)
    /\ IF \E d \in Decided : decisions[d] = result
       THEN Becomes(r, "repeated", result, result)
       ELSE Becomes(r, "deciding", "none", result)
    /\ StaysPut

\* recordVerification finds any stored decision, which may be the same.
LookUpDecision(r, result) ==
    /\ Starts(r)
    /\ \/ Decided = {} /\ Becomes(r, "deciding", "none", result)
       \/ \E d \in Decided :
              decisions[d] = result /\ Becomes(r, "repeated", result, result)
    /\ StaysPut

\* The insert refers to the profile.
InsertDecision(r) ==
    /\ request[r].at = "deciding"
    /\ \A q \in InStage("holding") : request[q].to # "none"
    /\ MovesTo(r, IF status = "none" THEN "failed" ELSE "added")
    /\ StaysPut

\* createAuditLog, inside the request's transaction but not part of it, or
\* called by anyone else.
StampEntry(r, t) ==
    /\ request[r].at \in {"idle", "holding", "added", "repeated"}
    /\ Stamp(r, t)
    /\ UNCHANGED <<status, decisions, request, outdated>>

\* Mutant of CommitProfile: the entry is not awaited.
CommitProfileAlone(r) ==
    /\ request[r].at = "holding"
    /\ status' = request[r].to
    /\ decisions' = IF request[r].to = "none" THEN NoDecisions ELSE decisions
    /\ outdated' = outdated \cup InStage("read")
    /\ MovesTo(r, "done")
    /\ UNCHANGED auditVars

\* Deleting a profile deletes its decisions.
CommitProfile(r) ==
    /\ request[r].at = "holding"
    /\ record[r].at = "stored"
    /\ status' = request[r].to
    /\ decisions' = IF request[r].to = "none" THEN NoDecisions ELSE decisions
    /\ outdated' = outdated \cup InStage("read")
    /\ MovesTo(r, "done")
    /\ UNCHANGED auditVars

CommitDecision(r) ==
    /\ request[r].at \in {"added", "repeated"}
    /\ record[r].at = "stored"
    /\ IF request[r].at = "repeated" THEN UNCHANGED <<decisions, outdated>>
       ELSE /\ decisions' = [decisions EXCEPT ![r] = request[r].to]
            /\ outdated' = outdated \cup ((InStage("deciding") \cup InStage("added")) \ {r})
    /\ MovesTo(r, "done")
    /\ UNCHANGED <<status, auditVars>>

\* A query or the commit fails, or the process dies; a stored entry stays.  A
\* verification that fails to serialize is tried again, as another request.
RollBack(r) ==
    /\ request[r].at \in {"read", "holding", "deciding", "added", "repeated"}
    /\ MovesTo(r, "failed")
    /\ StaysPut

VerifierNext ==
    \E r \in Entries :
        \/ \E to \in Statuses : CreateProfile(r, to)
        \/ \E to \in Statuses \cup {"none"} : ReadProfile(r, to)
        \/ \E result \in Results : LookUpDecision(r, result)
        \/ \E t \in 0..MaxTime : StampEntry(r, t)
        \/ WriteProfile(r) \/ InsertDecision(r)
        \/ CommitProfile(r) \/ CommitDecision(r) \/ RollBack(r)
        \/ CreateAuditLog(r) /\ UNCHANGED <<status, decisions, request, outdated>>

VerifierSpec == VerifierInit /\ [][VerifierNext]_<<verifierVars, auditVars>>

VerifierTypeOK ==
    /\ status \in Statuses \cup {"none"}
    /\ decisions \in [Entries -> Results \cup {"none"}]
    /\ request \in [Entries -> [at : {"idle", "read", "holding", "deciding", "added",
                                      "repeated", "done", "failed"},
                                from : Statuses \cup Results \cup {"none"},
                                to : Statuses \cup Results \cup {"none"}]]
    /\ outdated \subseteq Entries
    /\ AuditTypeOK

-----------------------------------------------------------------------------
\* verifiers.ts, transitionMatrix, and docs/audit-logging.md: a profile changes
\* only with its audit entry stored, which names the status it leaves, and along
\* the matrix, unless another change was committed since the request had read it.
LogTellsHistory ==
    [][status' # status =>
        \E r \in InStage("holding") :
            /\ request'[r].at = "done" /\ record[r].at = "stored"
            /\ r \notin outdated =>
                   request[r].from = status /\ canTransition(status, status')]_<<verifierVars, auditVars>>

\* verifiers.ts, "conflict: decision already made": a target gets a second decision
\* only from a request that had looked for the first before it was stored, and every
\* decision has its audit entry.
OneDecision ==
    /\ \A q, r \in Decided : q = r \/ q \in outdated \/ r \in outdated
    /\ \A r \in Decided : record[r].at = "stored"

\* The two records of what verifiers decide agree with what was asked: decisions
\* are made once, and the log that holds them verifies.
DecisionsOnRecord == OneDecision /\ ChainVerifies
=============================================================================
