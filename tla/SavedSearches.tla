--------------------------- MODULE SavedSearches ---------------------------
(***************************************************************************)
(* An organisation's saved vault searches and their alerts.                *)
(*                                                                         *)
(* routes/orgVaults.ts keeps the searches: creating one counts those there *)
(* are and inserts in two statements.  The job 'saved-search.evaluate'     *)
(* (jobs/handlers.ts) reads the searches that are due, and takes them one  *)
(* by one: it runs the query, sends an alert when the result differs from  *)
(* the hash in the row it read, and then stores the new hash and the time. *)
(* The queue runs two jobs at once and every process has a queue, so runs  *)
(* overlap; a process may die between any two steps of a run.              *)
(*                                                                         *)
(* All the searches here have one query; what it returns, and its hash, is *)
(* one value of ResultSets.                                                *)
(***************************************************************************)
EXTENDS Naturals, FiniteSets

CONSTANTS Searches,         \* saved searches of one organisation, by the request
                            \* that creates them
          ResultSets,       \* result sets a query can have
          NoResult,         \* last_result_hash IS NULL
          MaxSearches,      \* MAX_SEARCHES_PER_ORG
          Evaluations,      \* runs of the job
          AlertFrequency,   \* alert_frequency_ms of every search, in ticks
          LastSearchTime    \* bound: the clock stops here

ASSUME NoResultAssumption == NoResult \notin ResultSets /\ "none" \notin Searches
ASSUME CapAssumption == {MaxSearches, AlertFrequency, LastSearchTime} \subseteq Nat

VARIABLES saved,       \* saved[s]: the rows of org_vault_searches
          result,      \* what their query returns now
          searchTime,  \* the clock, in ticks
          creator,     \* creator[s]: the POST, and whether others inserted after its count
          run,         \* run[r]: a run of the job
          heard,       \* heard[s]: what the alerts sent for s told, the last one first
          crossed      \* searches two runs had in hand at once, or whose alert was
                       \* sent by a run that did not come to store the hash

savedVars == <<saved, result, searchTime, creator, run, heard, crossed>>

Never == LastSearchTime + 1
NoRun == [at |-> "waiting", now |-> 0, left |-> {}, seen |-> [s \in {} |-> NoResult],
          search |-> "none", new |-> NoResult, sent |-> FALSE]

EndedRun == [NoRun EXCEPT !.at = "ended"]

\* last_evaluated_at IS NULL OR last_evaluated_at + alert_frequency_ms <= now
Due == {s \in DOMAIN saved :
          \/ saved[s].evaluated = Never
          \/ saved[s].evaluated + AlertFrequency <= searchTime}

SavedTypeOK ==
  /\ DOMAIN saved \subseteq Searches
  /\ \A s \in DOMAIN saved :
       saved[s] \in [hash : ResultSets \cup {NoResult}, evaluated : 0..Never]
  /\ result \in ResultSets
  /\ searchTime \in 0..LastSearchTime
  /\ creator \in [Searches -> [at : {"idle", "counted", "created", "refused"},
                               raced : BOOLEAN]]
  /\ \A r \in Evaluations :
       /\ run[r].at \in {"waiting", "next", "compare", "store", "ended"}
       /\ run[r].now \in 0..LastSearchTime
       /\ run[r].left \subseteq DOMAIN run[r].seen
       /\ run[r].search \in Searches \cup {"none"}
       /\ run[r].new \in ResultSets \cup {NoResult}
  /\ heard \in [Searches -> [last : ResultSets \cup {NoResult}, ever : SUBSET ResultSets]]
  /\ crossed \subseteq Searches

SavedInit ==
  /\ saved = [s \in {} |-> {}]
  /\ result \in ResultSets
  /\ searchTime = 0
  /\ creator = [s \in Searches |-> [at |-> "idle", raced |-> FALSE]]
  /\ run = [r \in Evaluations |-> NoRun]
  /\ heard = [s \in Searches |-> [last |-> NoResult, ever |-> {}]]
  /\ crossed = {}

SearchClockTicks ==
  /\ searchTime < LastSearchTime
  /\ searchTime' = searchTime + 1
  /\ UNCHANGED <<saved, result, creator, run, heard, crossed>>

\* Vaults are added and change: the query returns something else.
ResultChanges ==
  /\ result' \in ResultSets \ {result}
  /\ UNCHANGED <<saved, searchTime, creator, run, heard, crossed>>

-----------------------------------------------------------------------------
\* A request with a query definition, a name or alert settings that are refused.
RefuseSearch(s) ==
  /\ creator[s].at = "idle"
  /\ creator' = [creator EXCEPT ![s].at = "refused"]
  /\ UNCHANGED <<saved, result, searchTime, run, heard, crossed>>

HasRoom == Cardinality(DOMAIN saved) < MaxSearches

\* POST /:orgId/vault-searches: the count ...
CountSearches(s) ==
  /\ creator[s].at = "idle"
  /\ creator' = [creator EXCEPT ![s].at = IF HasRoom THEN "counted" ELSE "refused"]
  /\ UNCHANGED <<saved, result, searchTime, run, heard, crossed>>

\* ... and the insert, which no constraint or lock ties to it.
InsertSearch(s) ==
  /\ creator[s].at = "counted"
  /\ saved' = [t \in DOMAIN saved \cup {s} |->
                 IF t = s THEN [hash |-> NoResult, evaluated |-> Never] ELSE saved[t]]
  /\ creator' = [t \in Searches |->
                   IF t = s THEN [creator[s] EXCEPT !.at = "created"]
                   ELSE IF creator[t].at = "counted" THEN [creator[t] EXCEPT !.raced = TRUE]
                   ELSE creator[t]]
  /\ UNCHANGED <<result, searchTime, run, heard, crossed>>

\* DELETE /:orgId/vault-searches/:searchId
DeleteSearch(s) ==
  /\ s \in DOMAIN saved
  /\ saved' = [t \in DOMAIN saved \ {s} |-> saved[t]]
  /\ UNCHANGED <<result, searchTime, creator, run, heard, crossed>>

-----------------------------------------------------------------------------
\* The searches run r has yet to finish.
InHand(r) == run[r].left \cup ({run[r].search} \cap Searches)

\* A run gives up on its search: an alert it may have sent stays sent.
Dropped(r) == IF run[r].sent THEN {run[r].search} ELSE {}

\* The job starts: it reads the rows that are due, hashes included.  A job whose
\* payload names a search takes that one, due or not.
BeginEvaluation(r) ==
  /\ run[r].at = "waiting"
  /\ \E picked \in {Due} \cup {{s} : s \in DOMAIN saved} :
       /\ run' = [run EXCEPT
            ![r] = [NoRun EXCEPT !.at = IF picked = {} THEN "ended" ELSE "next",
                                 !.now = searchTime, !.left = picked,
                                 !.seen = [s \in picked |-> saved[s].hash]]]
       /\ crossed' = crossed \cup (picked \cap UNION {InHand(q) : q \in Evaluations})
  /\ UNCHANGED <<saved, result, searchTime, creator, heard>>

\* The query of the next search, and the hash of its rows.
QuerySearch(r, s) ==
  /\ run[r].at = "next" /\ s \in run[r].left
  /\ run' = [run EXCEPT ![r].at = "compare", ![r].search = s, ![r].new = result,
                        ![r].left = @ \ {s}]
  /\ UNCHANGED <<saved, result, searchTime, creator, heard, crossed>>

\* The result differs from what the row read at the beginning says.
SendAlert(r) ==
  LET s == run[r].search IN
  /\ run[r].at = "compare" /\ run[r].new # run[r].seen[s]
  /\ run' = [run EXCEPT ![r].at = "store", ![r].sent = TRUE]
  /\ heard' = [heard EXCEPT ![s] = [last |-> run[r].new, ever |-> @.ever \cup {run[r].new}]]
  /\ UNCHANGED <<saved, result, searchTime, creator, crossed>>

\* The run turns to its next search, or ends.
Turned(r) == IF run[r].left = {} THEN EndedRun
             ELSE [run[r] EXCEPT !.at = "next", !.search = "none", !.sent = FALSE]

\* A failed alert taken for sent: the hash is stored all the same.
SearchFailsStoring(r) ==
  /\ run[r].at \in {"compare", "store"}
  /\ run' = [run EXCEPT ![r].at = "store"]
  /\ UNCHANGED <<saved, result, searchTime, creator, heard, crossed>>

\* The query, the alert or the update throws: it is logged, the row stays as it is
\* and the next search is taken.
SearchFails(r) ==
  /\ run[r].at \in {"compare", "store"}
  /\ run' = [run EXCEPT ![r] = Turned(r)]
  /\ crossed' = crossed \cup Dropped(r)
  /\ UNCHANGED <<saved, result, searchTime, creator, heard>>

\* An update of a deleted row changes nothing.
StoreHash(r) ==
  /\ \/ run[r].at = "store"
     \/ run[r].at = "compare" /\ run[r].new = run[r].seen[run[r].search]
  /\ saved' = [s \in DOMAIN saved |->
                 IF s = run[r].search THEN [hash |-> run[r].new, evaluated |-> run[r].now]
                 ELSE saved[s]]
  /\ run' = [run EXCEPT ![r] = Turned(r)]
  /\ UNCHANGED <<result, searchTime, creator, heard, crossed>>

\* The process of a run dies.
EvaluationDies(r) ==
  /\ run[r].at \notin {"waiting", "ended"}
  /\ run' = [run EXCEPT ![r] = EndedRun]
  /\ crossed' = crossed \cup Dropped(r)
  /\ UNCHANGED <<saved, result, searchTime, creator, heard>>

SavedNext ==
  \/ SearchClockTicks
  \/ ResultChanges
  \/ \E s \in Searches : CountSearches(s) \/ RefuseSearch(s) \/ InsertSearch(s) \/ DeleteSearch(s)
  \/ \E r \in Evaluations :
       \/ BeginEvaluation(r) \/ SendAlert(r) \/ SearchFails(r)
       \/ StoreHash(r) \/ EvaluationDies(r)
       \/ \E s \in Searches : QuerySearch(r, s)

SavedSpec == SavedInit /\ [][SavedNext]_savedVars
-----------------------------------------------------------------------------
\* Some run has sent an alert for s and not stored the hash yet.
BetweenAlertAndHash(s) == \E r \in Evaluations : run[r].sent /\ run[r].search = s

(* The hash in a row is always one the recipient was told of, though runs         *)
(* overlap, die or fail anywhere; and as long as no two runs had the search in    *)
(* hand at once and none ended between its alert and its update, it is the one    *)
(* told last, so that the next difference is a difference to what they know.      *)
HashWasTold ==
  \A s \in DOMAIN saved :
    /\ saved[s].hash \in heard[s].ever \cup {NoResult}
    /\ s \in crossed \/ BetweenAlertAndHash(s) \/ saved[s].hash = heard[s].last

(* An organisation has more searches than the cap only when another create        *)
(* inserted between the count and the insert of one that is there.                *)
CapOnlyRaced ==
  Cardinality(DOMAIN saved) > MaxSearches => \E s \in DOMAIN saved : creator[s].raced

(* The alerts of saved searches tell what their rows say, and an organisation     *)
(* keeps no more of them than its cap: the two promises above.                    *)
SearchesAccounted == HashWasTold /\ CapOnlyRaced
=============================================================================
