---------------------------- MODULE VaultCreation ----------------------------
(***************************************************************************)
(* POST /api/vaults with an idempotency key (src/routes/vaults.ts over     *)
(* src/services/idempotency.ts and src/services/vaultStore.ts).            *)
(*                                                                         *)
(* The first request with a key becomes the owner of a pending promise;    *)
(* equal requests that follow wait for it, different ones are refused.     *)
(* Both maps are in the memory of the process.                             *)
(*                                                                         *)
(* When a creation fails its owner rejects the promise.  Without a waiter  *)
(* nobody handles that rejection, with one the waiter throws it again out  *)
(* of an async Express 4 handler: either way Node ends the process for an  *)
(* unhandled rejection, after the owner has written its answer.            *)
(*                                                                         *)
(* A vault is named after the request that creates it.  Keys are scoped to *)
(* their principal, so one key stands for one client's; requests without a *)
(* key share nothing and are left out.  Building the payload and           *)
(* submitting it on chain cannot fail the request (SorobanSubmit).         *)
(***************************************************************************)
EXTENDS Integers, FiniteSets

CONSTANTS
    Requests, Keys, Bodies,
    KeyOf, BodyOf,   \* the key and the body of each request
    Nobody

ASSUME CreationAssumption ==
    /\ KeyOf \in [Requests -> Keys]
    /\ BodyOf \in [Requests -> Bodies]
    /\ Nobody \notin Requests

VARIABLES
    request,     \* stage of each request and the vault it was answered with
    pendingKeys, \* pendingIdempotencyRequests: the owner, or Nobody
    entries,     \* idempotencyStore: the request answered, or Nobody
    created,     \* vaults in the database
    forgotten    \* history: vaults whose key's memory was lost since

creationVars == <<request, pendingKeys, entries, created, forgotten>>

\* "owner": validating; "inserting": the vault's transaction is open;
\* "committed": it has ended; the rest are answers, or the process has died.
Stages == {"new", "owner", "inserting", "committed", "waiting",
           "replayed", "made", "invalid", "conflict", "failed", "gone"}
InProgress == {"owner", "inserting", "committed", "waiting"}

CreationInit ==
    /\ request = [r \in Requests |-> [at |-> "new", vault |-> Nobody]]
    /\ pendingKeys = [k \in Keys |-> Nobody]
    /\ entries = [k \in Keys |-> Nobody]
    /\ created = {}
    /\ forgotten = {}

RequestAt(r, stage) == request[r].at = stage
Step(r, stage) == request' = [request EXCEPT ![r].at = stage]

-----------------------------------------------------------------------------
\* Mutant of Own: the key is not registered.
OwnUnregistered(r) == Step(r, "owner") /\ UNCHANGED pendingKeys

Own(r) ==
    /\ Step(r, "owner")
    /\ pendingKeys' = [pendingKeys EXCEPT ![KeyOf[r]] = r]

\* getIdempotentResponse: the pending request first, then the stored answer.
Arrive(r) ==
    LET p == pendingKeys[KeyOf[r]]
        e == entries[KeyOf[r]]
    IN  /\ RequestAt(r, "new")
        /\ \/ /\ p # Nobody
              /\ Step(r, IF BodyOf[r] = BodyOf[p] THEN "waiting" ELSE "conflict")
              /\ UNCHANGED pendingKeys
           \/ /\ p = Nobody /\ e # Nobody
              /\ request' = [request EXCEPT ![r] =
                     IF BodyOf[r] = BodyOf[e]
                     THEN [at |-> "replayed", vault |-> request[e].vault]
                     ELSE [@ EXCEPT !.at = "conflict"]]
              /\ UNCHANGED pendingKeys
           \/ p = Nobody /\ e = Nobody /\ Own(r)
        /\ UNCHANGED <<entries, created, forgotten>>

\* The body or an address is invalid, or its check fails: the pending entry
\* is neither resolved nor rejected.
Reject(r) ==
    /\ RequestAt(r, "owner")
    /\ Step(r, "invalid")
    /\ UNCHANGED <<pendingKeys, entries, created, forgotten>>

Accept(r) ==
    /\ RequestAt(r, "owner")
    /\ Step(r, "inserting")
    /\ UNCHANGED <<pendingKeys, entries, created, forgotten>>

\* createVaultWithMilestones commits.
CommitVault(r) ==
    /\ RequestAt(r, "inserting")
    /\ Step(r, "committed")
    /\ created' = created \cup {r}
    /\ UNCHANGED <<pendingKeys, entries, forgotten>>

\* Mutant of Waiters: the promise is dropped without being resolved.
WaitersForgotten(r) == {}

\* Requests that wait for the answer of r.
Waiters(r) == {q \in Requests : RequestAt(q, "waiting") /\ KeyOf[q] = KeyOf[r]}

\* saveIdempotentResponse resolves the promise and stores the answer, and 201.
Respond(r) ==
    /\ RequestAt(r, "committed")
    /\ pendingKeys' = [pendingKeys EXCEPT ![KeyOf[r]] = Nobody]
    /\ entries' = [entries EXCEPT ![KeyOf[r]] = r]
    /\ request' = [q \in Requests |->
           IF q = r THEN [at |-> "made", vault |-> r]
           ELSE IF q \in Waiters(r) THEN [at |-> "replayed", vault |-> r]
           ELSE request[q]]
    /\ UNCHANGED <<created, forgotten>>

\* The process dies: the transactions that are open may still commit.
Die(answered) ==
    /\ request' = [q \in Requests |->
           IF q \in answered THEN [request[q] EXCEPT !.at = "failed"]
           ELSE IF request[q].at \in InProgress THEN [request[q] EXCEPT !.at = "gone"]
           ELSE request[q]]
    /\ \E S \in SUBSET {q \in Requests : RequestAt(q, "inserting")} :
           created' = created \cup S
    /\ forgotten' = created'
    /\ pendingKeys' = [k \in Keys |-> Nobody]
    /\ entries' = [k \in Keys |-> Nobody]

\* The insert fails, or its commit is not answered: 500, and the rejection of
\* the pending promise ends the process.
FailCreation(r) == RequestAt(r, "inserting") /\ Die({r})

CrashRequests == Die({})

\* The stored answer reaches its time to live.
ExpireEntry(k) ==
    /\ entries[k] # Nobody
    /\ entries' = [entries EXCEPT ![k] = Nobody]
    /\ forgotten' = forgotten \cup {r \in created : KeyOf[r] = k}
    /\ UNCHANGED <<request, pendingKeys, created>>

-----------------------------------------------------------------------------
Handle(r) == Reject(r) \/ Accept(r) \/ CommitVault(r) \/ Respond(r) \/ FailCreation(r)

CreationNext ==
    \/ \E r \in Requests : Arrive(r) \/ Handle(r)
    \/ \E k \in Keys : ExpireEntry(k)
    \/ CrashRequests

CreationSpec == CreationInit /\ [][CreationNext]_creationVars

CreationTypeOK ==
    /\ request \in [Requests -> [at : Stages, vault : Requests \cup {Nobody}]]
    /\ pendingKeys \in [Keys -> Requests \cup {Nobody}]
    /\ entries \in [Keys -> Requests \cup {Nobody}]
    /\ created \subseteq Requests
    /\ forgotten \subseteq created

\* docs/idempotency.md: a key creates one vault however its requests overlap,
\* fail validation or wait, and every answer of success names it, unless the
\* answer expired or the process died in between.
OneVaultPerKey ==
    /\ \A r, s \in created \ forgotten : KeyOf[r] = KeyOf[s] => r = s
    /\ \A r \in Requests : request[r].at \in {"made", "replayed"} =>
           /\ request[r].vault \in created
           /\ KeyOf[request[r].vault] = KeyOf[r]
           /\ BodyOf[request[r].vault] = BodyOf[r]

\* A key whose owner was refused with 400: nothing settles its promise.
Abandoned(k) == pendingKeys[k] # Nobody /\ RequestAt(pendingKeys[k], "invalid")

\* A request that arrives is answered or goes down with the process; it can
\* wait for ever only behind a request with its key that got a 400.
EveryRequestEnds ==
    \A r \in Requests : request[r].at \in InProgress ~>
        (request[r].at \notin InProgress \/ Abandoned(KeyOf[r]))
=============================================================================
