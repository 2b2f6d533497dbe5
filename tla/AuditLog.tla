------------------------------- MODULE AuditLog -------------------------------
(***************************************************************************)
(* The hash-chained audit log (src/lib/audit-logs.ts).                     *)
(*                                                                         *)
(* createAuditLog stamps the entry with the time of its process and a      *)
(* random id, and then, in a transaction of its own, reads the newest row  *)
(* of the organisation's chain and inserts a row that names it.  The read  *)
(* locks the row it finds and nothing else: another creation that waits    *)
(* for the lock gets the same row again, and an empty chain has none, so   *)
(* the lock orders the inserts and keeps no reader out.                    *)
(*                                                                         *)
(* The hash of a row stands for the row and all before it: `prev` names    *)
(* the row whose hash was read.  The order of the numbers of the entries   *)
(* is that of their random ids.  Contents and redaction are left out.      *)
(***************************************************************************)
EXTENDS Integers, FiniteSets

CONSTANTS
    Entries,  \* calls to createAuditLog
    ChainOf,  \* of each entry: its organisation
    Genesis,  \* AUDIT_LOG_GENESIS_HASH
    MaxTime   \* bounds the times, in milliseconds

ASSUME AuditAssumption == Entries \subseteq Int /\ Genesis \notin Int /\ MaxTime \in Nat

VARIABLES
    record,     \* of each entry: its stage, created_at and the row it read
    overlapped  \* history: entries created while another of their chain was, or
                \*   one of the two with an earlier time than the other had before

auditVars == <<record, overlapped>>

NoRecord == [at |-> "none", created_at |-> 0, prev |-> Genesis]
InCreation == {"stamped", "linked"}

AuditInit ==
    /\ record = [e \in Entries |-> NoRecord]
    /\ overlapped = {}

Log(c) == {e \in Entries : ChainOf[e] = c /\ record[e].at = "stored"}

\* Order of the rows: created_at, then id.
Before(d, e) ==
    \/ record[d].created_at < record[e].created_at
    \/ record[d].created_at = record[e].created_at /\ d < e
Newest(S) == {e \in S : \A d \in S : ~Before(e, d)}
Latest(S) == IF S = {} THEN Genesis ELSE CHOOSE e \in Newest(S) : TRUE

-----------------------------------------------------------------------------
\* createAuditLog chooses the time and the id.  Every process has a clock of its own,
\* so the time may be less than that of an entry that is there already.
Stamp(e, t) ==
    LET others == {d \in Entries :
                     /\ ChainOf[d] = ChainOf[e]
                     /\ \/ record[d].at \in InCreation
                        \/ record[d].at = "stored" /\ record[d].created_at > t}
    IN  /\ record[e].at = "none"
        /\ record' = [record EXCEPT ![e] = [at |-> "stamped", created_at |-> t, prev |-> Genesis]]
        /\ overlapped' = IF others = {} THEN overlapped ELSE overlapped \cup others \cup {e}

GetPreviousHash(e) ==
    /\ record[e].at = "stamped"
    /\ record' = [record EXCEPT ![e].at = "linked", ![e].prev = Latest(Log(ChainOf[e]))]
    /\ UNCHANGED overlapped

InsertRow(e) ==
    /\ record[e].at = "linked"
    /\ record' = [record EXCEPT ![e].at = "stored"]
    /\ UNCHANGED overlapped

\* The transaction fails, or finds no connection, and nothing is stored.
LoseEntry(e) ==
    /\ record[e].at \in InCreation
    /\ record' = [record EXCEPT ![e].at = "failed"]
    /\ UNCHANGED overlapped

CreateAuditLog(e) == GetPreviousHash(e) \/ InsertRow(e) \/ LoseEntry(e)

AuditNext == \E e \in Entries : (\E t \in 0..MaxTime : Stamp(e, t)) \/ CreateAuditLog(e)

AuditSpec == AuditInit /\ [][AuditNext]_auditVars

AuditTypeOK ==
    /\ record \in [Entries -> [at : {"none", "stamped", "linked", "stored", "failed"},
                              created_at : 0..MaxTime, prev : Entries \cup {Genesis}]]
    /\ overlapped \subseteq Entries

-----------------------------------------------------------------------------
\* What verifyAuditLogChain reports, going through the rows in their order.
PrevHashMismatches(c) ==
    {e \in Log(c) : record[e].prev # Latest({d \in Log(c) : Before(d, e)})}

\* Entries of one chain and one millisecond, whose order is that of random ids.
SameMoment(e) ==
    \E d \in Log(ChainOf[e]) \ {e} : record[d].created_at = record[e].created_at

\* docs/audit-logging.md, "Altered rows, removed middle rows, and reordered rows
\* are reported": of rows nobody touched only those are reported that were created
\* while another of their chain was, or in the same millisecond as another, or that
\* the clocks of two processes have put in another order than they were created in.
ChainVerifies ==
    \A e \in Entries : e \in PrevHashMismatches(ChainOf[e]) => e \in overlapped \/ SameMoment(e)
=============================================================================
