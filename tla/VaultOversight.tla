--------------------------- MODULE VaultOversight ---------------------------
(***************************************************************************)
(* What operators are told of a vault, and what they do to it: the         *)
(* reconciliation with the contract (reconcileVaults of                    *)
(* src/services/transactionETL.ts, getVault of src/services/soroban.ts)    *)
(* and the administrator's cancellation (POST /overrides/vaults/:id/cancel *)
(* of src/routes/admin.ts).  Both work on the rows of VaultStore, which    *)
(* its other writers keep changing.                                        *)
(*                                                                         *)
(* A reconciliation reads all rows at once and then asks the contract      *)
(* vault by vault.  Vaults do not influence each other in it, nor does it  *)
(* write anything but its log.  An override looks for its key, cancels the *)
(* vault, then awaits its audit entry, then remembers the key.  The client *)
(* may send any key with any vault; the one it gets otherwise, made of the *)
(* administrator and the vault, is one of them.  Keys live in the process. *)
(***************************************************************************)
EXTENDS VaultStore

CONSTANTS Overrides, OverrideKeys

VARIABLES
    chain,      \* the contract's state of each vault
    job,        \* the reconciliation: vaults it has yet to ask for, rows as read
    report,     \* what the last reconciliation has said of each vault
    calm,       \* history: vaults that have not changed since it read the rows
    reopened,   \* history: ended vaults that a writer of VaultStore has revived
    override,   \* stage of each override, its vault and key, the status it found
    processed,  \* the keys in processedOverrides
    overrideLog, \* the audit log of overrides
    cancelled,  \* history: overrides that have cancelled their vault
    raced       \* history: overrides that another with the key, a failure or a
                \* restart has overtaken

oversightVars == <<chain, job, report, calm, reopened, override, processed, overrideLog, cancelled, raced>>
reconcileVars == <<chain, job, report, calm>>
overrideVars == <<override, processed, overrideLog, cancelled, raced>>

\* `alike` says that the other fields are written as in the row: amount, verifier
\* and destinations, and whether an ended vault is completed or cancelled.
OnChainVaultState == [status : Status \ {"draft"}, alike : BOOLEAN]
NoState == [status |-> "none", alike |-> FALSE]

NoOverride == [at |-> "idle", vault |-> Absent, key |-> Absent, from |-> "none"]

OversightInit ==
    /\ StoreInit
    /\ chain \in [Vaults -> {NoState} \cup [status : {"active"}, alike : BOOLEAN]]
    /\ job = [left |-> {}, rows |-> [v \in Vaults |-> "draft"]]
    /\ report = [v \in Vaults |-> "none"] /\ calm = {} /\ reopened = {}
    /\ override = [o \in Overrides |-> NoOverride]
    /\ processed = {} /\ overrideLog = {} /\ cancelled = {} /\ raced = {}

-----------------------------------------------------------------------------
(* Reconciliation *)

compareVaultStates(persisted, onChain) == persisted # onChain.status \/ ~onChain.alike

\* The job names some vaults, or means all of them.
StartReconcile(S) ==
    /\ job.left = {} /\ S # {}
    /\ job' = [left |-> S, rows |-> [v \in Vaults |-> row[v].status]]
    /\ report' = [v \in Vaults |-> "none"]
    /\ calm' = S
    /\ UNCHANGED <<chain, reopened, overrideVars, storeVars>>

\* getVault answers null for a call that fails as it does for a vault that the
\* contract does not know; what else fails is an error of the vault.
GetVault(v) == {NoState, chain[v]}

ReconcileVault(v) ==
    /\ v \in job.left
    /\ job' = [job EXCEPT !.left = @ \ {v}]
    /\ \/ \E state \in GetVault(v) :
              report' = [report EXCEPT ![v] =
                  IF state = NoState THEN "missing"
                  ELSE IF compareVaultStates(job.rows[v], state) THEN "drift" ELSE "agrees"]
       \/ report' = [report EXCEPT ![v] = "error"]
    /\ UNCHANGED <<chain, calm, reopened, overrideVars, storeVars>>

\* The query of the rows fails, or the process ends: the queue may run it again.
StopReconcile ==
    /\ job.left # {}
    /\ job' = [job EXCEPT !.left = {}]
    /\ calm' = calm \ job.left
    /\ UNCHANGED <<chain, report, reopened, overrideVars, storeVars>>

\* The contract's vault is created, or changes.
ChainMoves(v) ==
    /\ chain' \in [Vaults -> {NoState} \cup OnChainVaultState]
    /\ chain'[v] \notin {chain[v], NoState}
    /\ \A u \in Vaults \ {v} : chain'[u] = chain[u]
    /\ calm' = calm \ {v}
    /\ UNCHANGED <<job, report, reopened, overrideVars, storeVars>>

\* Any other writer of the row.
RowMoves(v) ==
    /\ WriteUnannounced(v)
    /\ calm' = calm \ {v}
    /\ reopened' = IF row[v].status = "ended" /\ row'[v].status # "ended"
                   THEN reopened \cup {v} ELSE reopened
    /\ UNCHANGED <<chain, job, report, overrideVars>>

-----------------------------------------------------------------------------
(* Overrides *)

UnderWay(k) == {o \in Overrides : override[o].at = "audit" /\ override[o].key = k}

\* The key is looked up, and the vault is cancelled under its row lock.  For one
\* that is cancelled already an entry is written all the same; a failed or completed
\* one is refused.  (The cached copy is VaultStore's matter; here the write goes
\* without saying.)
Override(o, v, k) ==
    /\ override[o].at = "idle"
    /\ k \notin processed
    /\ override' = [override EXCEPT ![o] =
                       [at |-> "audit", vault |-> v, key |-> k, from |-> row[v].status]]
    /\ \/ /\ row[v].status \in {"draft", "active"}
          /\ WriteUnannounced(v) /\ row'[v].status = "ended"
          /\ calm' = calm \ {v}
          /\ cancelled' = cancelled \cup {o}
       \/ /\ row[v].status = "ended"
          /\ UNCHANGED <<storeVars, calm, cancelled>>
    /\ UNCHANGED <<chain, job, report, reopened, processed, overrideLog, raced>>

EntryOf(o) == [by |-> o, vault |-> override[o].vault, key |-> override[o].key,
               from |-> override[o].from]

\* createAuditLog, and the key in the same turn as its answer.
RecordOverride(o) ==
    LET k == override[o].key
    IN  /\ override[o].at = "audit"
        /\ overrideLog' = overrideLog \cup {EntryOf(o)}
        /\ processed' = processed \cup {k}
        /\ raced' = raced \cup (UnderWay(k) \ {o})
        /\ override' = [override EXCEPT ![o].at = "done"]
        /\ UNCHANGED <<cancelled, reopened, reconcileVars, storeVars>>

\* What follows the commit fails: the entry may be stored, the key is not.
OverrideFails(o) ==
    /\ override[o].at = "audit"
    /\ overrideLog' \in {overrideLog, overrideLog \cup {EntryOf(o)}}
    /\ raced' = raced \cup {o}
    /\ override' = [override EXCEPT ![o].at = "failed"]
    /\ UNCHANGED <<processed, cancelled, reopened, reconcileVars, storeVars>>

\* The process ends between two steps of an override.
CrashOversight ==
    /\ processed' = {}
    /\ raced' = raced \cup {o \in Overrides : override[o].at # "idle"}
    /\ override' = [o \in Overrides |->
           IF override[o].at = "audit" THEN [override[o] EXCEPT !.at = "failed"] ELSE override[o]]
    /\ job' = [job EXCEPT !.left = {}]
    /\ calm' = calm \ job.left
    /\ UNCHANGED <<chain, report, reopened, overrideLog, cancelled, storeVars>>

OversightNext ==
    \/ \E S \in SUBSET Vaults : StartReconcile(S)
    \/ \E v \in Vaults : ReconcileVault(v) \/ ChainMoves(v) \/ RowMoves(v)
    \/ StopReconcile \/ CrashOversight
    \/ \E o \in Overrides : \/ \E v \in Vaults, k \in OverrideKeys : Override(o, v, k)
                            \/ RecordOverride(o) \/ OverrideFails(o)

OversightSpec == OversightInit /\ [][OversightNext]_<<storeVars, oversightVars>>

-----------------------------------------------------------------------------
OversightTypeOK ==
    /\ StoreTypeOK
    /\ chain \in [Vaults -> {NoState} \cup OnChainVaultState]
    /\ job \in [left : SUBSET Vaults, rows : [Vaults -> Status]]
    /\ report \in [Vaults -> {"none", "missing", "error", "drift", "agrees"}]
    /\ calm \subseteq Vaults /\ reopened \subseteq Vaults
    /\ override \in [Overrides -> [at : {"idle", "audit", "done", "failed"},
                                   vault : Vaults \cup {Absent}, key : OverrideKeys \cup {Absent},
                                   from : Status \cup {"none"}]]
    /\ processed \subseteq OverrideKeys
    /\ overrideLog \subseteq [by : Overrides, vault : Vaults, key : OverrideKeys, from : Status]
    /\ cancelled \subseteq Overrides /\ raced \subseteq Overrides

\* docs/etl.md, "detect drift": as long as neither the row nor the contract's vault
\* has changed since the rows were read, drift is reported for the vaults that have
\* it, and agreement for those that have none.
DriftAccounted ==
    \A v \in calm \ job.left :
        /\ report[v] # "none"
        /\ report[v] = "drift" => compareVaultStates(row[v].status, chain[v])
        /\ report[v] = "agrees" => ~compareVaultStates(row[v].status, chain[v])

\* A vault that an override has cancelled has an entry with the status it left,
\* unless the request failed on its way there; and no second override with its key
\* gets an entry, unless it was under way with the first or there was a restart.
Cancels(e) == e.from \in {"draft", "active"}
OverridesOnRecord ==
    /\ \A o \in cancelled \ raced :
           override[o].at = "audit" \/ \E e \in overrideLog : e.by = o /\ Cancels(e)
    /\ \A d, e \in overrideLog : d.key = e.key => d.by = e.by \/ {d.by, e.by} \cap raced # {}

\* Whatever keys they have, and through failures and restarts, one override only is
\* on record as having cancelled a vault, unless another writer has revived it: the
\* others found it cancelled, and their entries say so.
CancelledOnce ==
    \A d, e \in overrideLog :
        d.vault = e.vault /\ Cancels(d) /\ Cancels(e) => d.by = e.by \/ d.vault \in reopened

\* What the checks and the operators of a vault do and are told: the slashes of
\* expired vaults, the drift reported and the overrides recorded.
OversightAccounted ==
    SlashesAccounted /\ DriftAccounted /\ OverridesOnRecord /\ CancelledOnce
=============================================================================
