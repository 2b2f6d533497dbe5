---------------------------- MODULE TransactionETL ----------------------------
(***************************************************************************)
(* The extraction of vault transactions from Horizon (src/services/        *)
(* transactionETL.ts and etlWorker.ts).                                    *)
(*                                                                         *)
(* Every replica has a worker, and each of its runs reads pages of         *)
(* operations in ledger order, finds the vault of each and saves one row   *)
(* per transaction.  The cursor is not stored: a run starts from the       *)
(* configured one and ends after a page that fills its batch, so what it   *)
(* reaches is bounded however long the ledger grows.                       *)
(*                                                                         *)
(* An operation is its position; two of them may belong to one transaction *)
(* and those in Foreign to no vault.  The backfill, which the default      *)
(* worker does not configure, is left out.                                 *)
(***************************************************************************)
EXTENDS Integers, FiniteSets

CONSTANTS
    MaxOperations, \* bound on the ledger
    TxOf,          \* the transaction of each operation
    Foreign,       \* operations of no vault, of a failed transaction or a type
                   \* that is not stored
    BatchSize,     \* size of a page, and of a run
    EtlWorkers

Operations == 1 .. MaxOperations

ASSUME EtlAssumption ==
    /\ MaxOperations \in Nat /\ BatchSize \in Nat \ {0}
    /\ DOMAIN TxOf = Operations
    /\ Foreign \subseteq Operations

VARIABLES
    ledger,  \* operations that Horizon shows
    stored,  \* rows of transactions, by the operation they came from
    worker,  \* isRunning of each worker
    run,     \* its activeRun: stage, cursor, operations processed, page and
             \* the transactions to save
    skipped  \* history: operations of a run whose vault was not found because
             \* a query failed

etlVars == <<ledger, stored, worker, run, skipped>>

NoRun == [at |-> "idle", cursor |-> 0, count |-> 0, page |-> {}, save |-> {}]

EtlInit ==
    /\ ledger = 0
    /\ stored = {}
    /\ worker = [w \in EtlWorkers |-> FALSE]
    /\ run = [w \in EtlWorkers |-> NoRun]
    /\ skipped = [w \in EtlWorkers |-> {}]

CloseLedger ==
    /\ ledger < MaxOperations
    /\ ledger' = ledger + 1
    /\ UNCHANGED <<stored, worker, run, skipped>>

Stored(o, rows) == \E q \in rows : TxOf[q] = TxOf[o]
EndRun(w) == run' = [run EXCEPT ![w] = NoRun]

\* start, and every tick of its interval (executeRun) while none is active.
ExecuteRun(w) ==
    /\ run[w].at = "idle"
    /\ worker' = [worker EXCEPT ![w] = TRUE]
    /\ run' = [run EXCEPT ![w].at = "fetch"]
    /\ skipped' = [skipped EXCEPT ![w] = {}]
    /\ UNCHANGED <<ledger, stored>>

\* stop: the run goes on, it was not given the signal that is aborted.
StopWorker(w) ==
    /\ worker[w]
    /\ worker' = [worker EXCEPT ![w] = FALSE]
    /\ UNCHANGED <<ledger, stored, run, skipped>>

\* A page after the cursor, unless there is none, the run has its batch or
\* the request fails.
FetchOperations(w) ==
    LET last == run[w].cursor + BatchSize
        page == {o \in 1 .. ledger : run[w].cursor < o /\ o <= last}
    IN  /\ run[w].at = "fetch"
        /\ \/ /\ page # {} /\ run[w].count < BatchSize
              /\ run' = [run EXCEPT ![w].at = "find", ![w].page = page]
           \/ EndRun(w)
        /\ UNCHANGED <<ledger, stored, worker, skipped>>

\* findVaultForOperation: errors are logged and the operation passed over.
FilterOperations(w) ==
    /\ run[w].at = "find"
    /\ \E missed \in SUBSET (run[w].page \ Foreign) :
          /\ run' = [run EXCEPT ![w].at = "save", ![w].save = run[w].page \ (Foreign \cup missed)]
          /\ skipped' = [skipped EXCEPT ![w] = @ \cup missed]
    /\ UNCHANGED <<ledger, stored, worker>>

Advance(w) ==
    run' = [run EXCEPT ![w] =
        [at |-> "fetch", cursor |-> @.cursor + Cardinality(@.page),
         count |-> @.count + Cardinality(@.page), page |-> {}, save |-> {}]]

\* Mutant of SaveTransactions: the run goes on after a save that failed.
SaveTransactionsOrNot(w) ==
    /\ run[w].at = "save"
    /\ \/ stored' = stored \cup {o \in run[w].save : ~ Stored(o, stored)}
       \/ UNCHANGED stored
    /\ Advance(w)
    /\ UNCHANGED <<ledger, worker, skipped>>

\* saveTransactions, in one transaction: of the operations of a transaction
\* that has no row yet the first makes it.  If an insert or the commit fails
\* the run ends where it is; a commit may have happened all the same.
SaveTransactions(w) ==
    LET new == {o \in run[w].save :
                  ~ Stored(o, stored \cup {q \in run[w].save : q < o})}
    IN  /\ run[w].at = "save"
        /\ \/ stored' = stored \cup new /\ Advance(w)
           \/ stored' \in {stored, stored \cup new} /\ EndRun(w)
        /\ UNCHANGED <<ledger, worker, skipped>>

\* The process dies.
CrashEtl(w) ==
    /\ worker' = [worker EXCEPT ![w] = FALSE]
    /\ EndRun(w)
    /\ UNCHANGED <<ledger, stored, skipped>>

EtlNext ==
    \/ CloseLedger
    \/ \E w \in EtlWorkers :
         \/ ExecuteRun(w) \/ StopWorker(w) \/ FetchOperations(w) \/ FilterOperations(w)
         \/ SaveTransactions(w) \/ CrashEtl(w)

EtlSpec == EtlInit /\ [][EtlNext]_etlVars

EtlTypeOK ==
    /\ ledger \in 0 .. MaxOperations
    /\ stored \subseteq Operations
    /\ worker \in [EtlWorkers -> BOOLEAN]
    /\ run \in [EtlWorkers -> [at : {"idle", "fetch", "find", "save"}, cursor : Nat, count : Nat,
                               page : SUBSET Operations, save : SUBSET Operations]]
    /\ skipped \in [EtlWorkers -> SUBSET Operations]

\* Whatever workers of several replicas save at once, fail to find or fail to
\* save, a run leaves no vault operation behind its cursor without the row of
\* its transaction, except where the lookup failed; and a transaction has one row.
NothingBehindCursor ==
    /\ \A w \in EtlWorkers, o \in Operations :
           o <= run[w].cursor => Stored(o, stored) \/ o \in Foreign \cup skipped[w]
    /\ \A o, q \in stored : TxOf[o] = TxOf[q] => o = q
=============================================================================
