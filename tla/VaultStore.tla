----------------------------- MODULE VaultStore -----------------------------
(***************************************************************************)
(* A vault's row, its cached copy and the checks that expire it            *)
(* (src/services/vaultStore.ts, src/lib/cache.ts, src/routes/vaults.ts,    *)
(* src/services/vault.service.ts, expirationScheduler.ts and               *)
(* vaultExpiry.service.ts in src/services/).                               *)
(*                                                                         *)
(* Readers go through the cache and fill it; the PATCH route and the       *)
(* admin's cancellation invalidate it after their write; the user's        *)
(* cancellation, both expiry jobs and the event processor write the row    *)
(* without telling the cache.  A row is known by its revision (xmin), and  *)
(* a cached copy by the revision it was read at.                           *)
(*                                                                         *)
(* Two checks can overlap: the timer does not wait for the one before.  A  *)
(* check marks the vaults it has selected failed and then, one by one,     *)
(* enqueues a slash job for each under an idempotency key; these steps of  *)
(* idempotency.ts run without yielding, so getting, enqueuing and saving   *)
(* is one step.  The default job system those jobs go to is never started; *)
(* that they wait there is all that this module says of them.              *)
(***************************************************************************)
EXTENDS Integers, FiniteSets

CONSTANTS
    Vaults, Readers, Writers, Checks,
    MaxRevision,    \* bound on the writes of one row
    Absent

ASSUME StoreAssumption ==
    /\ MaxRevision \in Nat
    /\ Absent \notin Nat \cup Vaults

VARIABLES
    row,         \* revision and status of each vault
    cached,      \* cached copy of each vault: a revision, or Absent
    reading,     \* GET requests: vault, stage, revision of the body
    writing,     \* announced writes: vault and stage
    check,       \* expiration checks: vaults to mark and to slash
    slashes,     \* slash jobs enqueued for each vault in this process
    slashKeys,   \* vaults with a stored idempotency entry
    dryRun,      \* DRY_RUN in the environment of the process
    unannounced, \* history: vaults written without invalidation, or that a
                 \* write failed to invalidate, since the last invalidation
    late,        \* history: vaults whose cache was filled by a read that a
                 \* write overtook
    marked,      \* history: vaults that a check has set to failed
    dropped      \* history: vaults whose slash a crash, an unanswered update
                 \* or a dry run has dropped, or whose key expired

storeVars == <<row, cached, reading, writing, check, slashes, slashKeys, dryRun,
               unannounced, late, marked, dropped>>
cacheVars == <<cached, reading, late>>
expiryVars == <<check, slashes, slashKeys, dryRun, marked, dropped>>

Status == {"draft", "active", "failed", "ended"}  \* ended: completed or cancelled
NoCheck == [mark |-> {}, slash |-> {}]
NoRead == [at |-> "idle", vault |-> Absent, body |-> Absent]
NoWrite == [at |-> "idle", vault |-> Absent, body |-> Absent]

StoreInit ==
    /\ row = [v \in Vaults |-> [rev |-> 0, status |-> "draft"]]
    /\ cached = [v \in Vaults |-> Absent]
    /\ reading = [r \in Readers |-> NoRead]
    /\ writing = [w \in Writers |-> NoWrite]
    /\ check = [c \in Checks |-> NoCheck]
    /\ slashes = [v \in Vaults |-> 0]
    /\ dryRun \in BOOLEAN
    /\ slashKeys = {} /\ unannounced = {} /\ late = {}
    /\ marked = {} /\ dropped = {}

Write(v, status) ==
    /\ row[v].rev < MaxRevision
    /\ row' = [row EXCEPT ![v] = [rev |-> row[v].rev + 1, status |-> status]]

-----------------------------------------------------------------------------
(* Reading *)

\* getVaultById: a hit answers at once, a miss reads the row.
Get(r, v) ==
    /\ reading[r].at = "idle"
    /\ reading' = [reading EXCEPT ![r] =
           IF cached[v] # Absent THEN [at |-> "tag", vault |-> v, body |-> cached[v]]
           ELSE [at |-> "fill", vault |-> v, body |-> row[v].rev]]
    /\ UNCHANGED <<row, cached, writing, late, expiryVars, unannounced>>

\* getOrSet stores what it has read; an error of the cache is swallowed.
Fill(r) ==
    LET v == reading[r].vault
        stores == [cached EXCEPT ![v] = reading[r].body]
    IN  /\ reading[r].at = "fill"
        /\ reading' = [reading EXCEPT ![r].at = "tag"]
        /\ \/ /\ cached' = stores
              /\ late' = IF reading[r].body = row[v].rev THEN late ELSE late \cup {v}
           \/ UNCHANGED <<cached, late>>
        /\ UNCHANGED <<row, writing, unannounced, expiryVars>>

\* getVaultETag reads the current revision and the answer leaves.
Tag(r) ==
    /\ reading[r].at = "tag"
    /\ reading' = [reading EXCEPT ![r] = NoRead]
    /\ UNCHANGED <<row, cached, writing, late, unannounced, expiryVars>>

ExpireCached(v) ==
    /\ cached[v] # Absent
    /\ cached' = [cached EXCEPT ![v] = Absent]
    /\ UNCHANGED <<row, reading, writing, late, unannounced, expiryVars>>

-----------------------------------------------------------------------------
(* Announced writes *)

\* updateVaultById: the client names the revision it has seen.
Patch(w, v, revision, status) ==
    /\ writing[w].at = "idle"
    /\ row[v].rev = revision
    /\ Write(v, status)
    /\ writing' = [writing EXCEPT ![w] = [at |-> "invalidate", vault |-> v, body |-> Absent]]
    /\ UNCHANGED <<cacheVars, unannounced, expiryVars>>

\* cancelVaultById commits under a row lock, and then reads through the cache.
Cancel(w, v) ==
    /\ writing[w].at = "idle"
    /\ row[v].status \in {"draft", "active"}
    /\ Write(v, "ended")
    /\ writing' = [writing EXCEPT ![w] = [at |-> "reread", vault |-> v, body |-> Absent]]
    /\ UNCHANGED <<cacheVars, unannounced, expiryVars>>

\* If that read fails, the invalidation is left out.
Reread(w) ==
    LET v == writing[w].vault
    IN  /\ writing[w].at = "reread"
        /\ \/ /\ writing' = [writing EXCEPT ![w] =
                    IF cached[v] # Absent THEN [@ EXCEPT !.at = "invalidate"]
                    ELSE [@ EXCEPT !.at = "refill", !.body = row[v].rev]]
              /\ UNCHANGED unannounced
           \/ /\ writing' = [writing EXCEPT ![w] = NoWrite]
              /\ unannounced' = unannounced \cup {v}
        /\ UNCHANGED <<row, cacheVars, expiryVars>>

Refill(w) ==
    /\ writing[w].at = "refill"
    /\ cached' \in {cached, [cached EXCEPT ![writing[w].vault] = writing[w].body]}
    /\ writing' = [writing EXCEPT ![w].at = "invalidate", ![w].body = Absent]
    /\ UNCHANGED <<row, reading, late, unannounced, expiryVars>>

\* Mutant of Invalidate: the cached copy stays.
InvalidateNothing(w) ==
    /\ writing[w].at = "invalidate"
    /\ writing' = [writing EXCEPT ![w] = NoWrite]
    /\ UNCHANGED <<row, cacheVars, unannounced, expiryVars>>

\* The cached copy goes.  It stays if a query before fails or the cache server
\* does, whose error is swallowed.
Invalidate(w) ==
    LET v == writing[w].vault
    IN  /\ writing[w].at = "invalidate"
        /\ writing' = [writing EXCEPT ![w] = NoWrite]
        /\ \/ /\ cached' = [cached EXCEPT ![v] = Absent]
              /\ unannounced' = unannounced \ {v}
              /\ late' = late \ {v}
           \/ /\ unannounced' = unannounced \cup {v}
              /\ UNCHANGED <<cached, late>>
        /\ UNCHANGED <<row, reading, expiryVars>>

-----------------------------------------------------------------------------
(* Unannounced writes *)

\* VaultService.updateVaultStatus, markVaultExpiries, the event processor.
WriteUnannounced(v) ==
    /\ \E s \in Status : Write(v, s)
    /\ unannounced' = unannounced \cup {v}
    /\ UNCHANGED <<cacheVars, writing, expiryVars>>

-----------------------------------------------------------------------------
(* Expiration *)

\* processExpiredVaultsBatch selects active vaults past their end date.
Select(c, S) ==
    /\ check[c] = NoCheck
    /\ S # {}
    /\ \A v \in S : row[v].status = "active"
    /\ check' = [check EXCEPT ![c].mark = S]
    /\ UNCHANGED <<row, cacheVars, writing, unannounced, slashes, slashKeys, dryRun, marked, dropped>>

MoveOn(c, v, pushed) ==
    check' = [check EXCEPT ![c].mark = @ \ {v},
                           ![c].slash = IF pushed THEN @ \cup {v} ELSE @]

\* The conditional update of a vault: it is pushed whether or not it was still
\* active.  If the update is not answered it is not, whatever became of the row.
Mark(c, v) ==
    /\ v \in check[c].mark
    /\ \/ /\ row[v].status = "active"
          /\ Write(v, "failed")
          /\ unannounced' = unannounced \cup {v}
          /\ marked' = marked \cup {v}
          /\ \E answered \in BOOLEAN :
                /\ MoveOn(c, v, answered)
                /\ dropped' = IF answered THEN dropped ELSE dropped \cup {v}
       \/ /\ MoveOn(c, v, row[v].status # "active")
          /\ UNCHANGED <<row, unannounced, marked, dropped>>
       \/ /\ MoveOn(c, v, FALSE)
          /\ UNCHANGED <<row, unannounced, marked, dropped>>
    /\ UNCHANGED <<cacheVars, writing, slashes, slashKeys, dryRun>>

\* Mutant of EnqueueSlash: the stored entry is not consulted.
EnqueueSlashAlways(c, v) ==
    /\ check[c].mark = {} /\ v \in check[c].slash
    /\ check' = [check EXCEPT ![c].slash = @ \ {v}]
    /\ IF dryRun
       THEN dropped' = dropped \cup {v} /\ UNCHANGED <<slashes, slashKeys>>
       ELSE /\ slashes' = [slashes EXCEPT ![v] = @ + 1]
            /\ slashKeys' = slashKeys \cup {v}
            /\ UNCHANGED dropped
    /\ UNCHANGED <<row, cacheVars, writing, unannounced, dryRun, marked>>

\* enqueueSlashJobs: one vault of the list, unless its key has an entry.  A dry run
\* passes it over, and leaves no entry.
EnqueueSlash(c, v) ==
    /\ check[c].mark = {} /\ v \in check[c].slash
    /\ check' = [check EXCEPT ![c].slash = @ \ {v}]
    /\ IF dryRun
       THEN dropped' = dropped \cup {v} /\ UNCHANGED <<slashes, slashKeys>>
       ELSE /\ slashes' = IF v \in slashKeys THEN slashes ELSE [slashes EXCEPT ![v] = @ + 1]
            /\ slashKeys' = slashKeys \cup {v}
            /\ UNCHANGED dropped
    /\ UNCHANGED <<row, cacheVars, writing, unannounced, dryRun, marked>>

\* The entry of a slash reaches its time to live.
ExpireKey(v) ==
    /\ v \in slashKeys
    /\ slashKeys' = slashKeys \ {v}
    /\ dropped' = dropped \cup {v}
    /\ UNCHANGED <<row, cacheVars, writing, unannounced, check, slashes, dryRun, marked>>

\* The process ends: its jobs, keys, checks and requests are gone; the cache
\* survives if it is Redis.  The next one may have another environment.
CrashStore ==
    /\ reading' = [r \in Readers |-> NoRead]
    /\ writing' = [w \in Writers |-> NoWrite]
    /\ unannounced' = unannounced \cup ({writing[w].vault : w \in Writers} \ {Absent})
    /\ cached' \in {cached, [v \in Vaults |-> Absent]}
    /\ check' = [c \in Checks |-> NoCheck]
    /\ slashes' = [v \in Vaults |-> 0]
    /\ slashKeys' = {}
    /\ dryRun' \in BOOLEAN
    /\ dropped' = dropped \cup marked
    /\ UNCHANGED <<row, late, marked>>

-----------------------------------------------------------------------------
StoreNext ==
    \/ \E r \in Readers : (\E v \in Vaults : Get(r, v)) \/ Fill(r) \/ Tag(r)
    \/ \E v \in Vaults : ExpireCached(v) \/ WriteUnannounced(v) \/ ExpireKey(v)
    \/ \E w \in Writers, v \in Vaults :
         \/ \E n \in 0 .. MaxRevision, s \in Status : Patch(w, v, n, s)
         \/ Cancel(w, v)
    \/ \E w \in Writers : Reread(w) \/ Refill(w) \/ Invalidate(w)
    \/ \E c \in Checks : \/ \E S \in SUBSET Vaults : Select(c, S)
                         \/ \E v \in Vaults : Mark(c, v) \/ EnqueueSlash(c, v)
    \/ CrashStore

StoreSpec == StoreInit /\ [][StoreNext]_storeVars

Revision == 0 .. MaxRevision
StoreTypeOK ==
    /\ row \in [Vaults -> [rev : Revision, status : Status]]
    /\ cached \in [Vaults -> Revision \cup {Absent}]
    /\ reading \in [Readers -> [at : {"idle", "fill", "tag"}, vault : Vaults \cup {Absent},
                                body : Revision \cup {Absent}]]
    /\ writing \in [Writers -> [at : {"idle", "reread", "refill", "invalidate"},
                                vault : Vaults \cup {Absent}, body : Revision \cup {Absent}]]
    /\ check \in [Checks -> [mark : SUBSET Vaults, slash : SUBSET Vaults]]
    /\ slashes \in [Vaults -> Nat]
    /\ dryRun \in BOOLEAN
    /\ slashKeys \subseteq Vaults /\ unannounced \subseteq Vaults
    /\ late \subseteq Vaults /\ marked \subseteq Vaults /\ dropped \subseteq Vaults

\* A cached copy is older than its row only while an announced write has yet to
\* invalidate it, after a write that did not, or because a read that a write
\* overtook has filled the cache after the invalidation.
StaleOnlyForAReason ==
    \A v \in Vaults : cached[v] \in {Absent, row[v].rev}
        \/ v \in unannounced \cup late
        \/ \E w \in Writers : writing[w].vault = v

\* However checks overlap each other and the other writers of the row, a vault
\* that a check has failed gets its slash job, and a vault gets one at most,
\* unless the process dies, the update is not answered or the key expires, or the
\* process makes a dry run, which enqueues none.
SlashesAccounted ==
    /\ \A v \in Vaults \ dropped :
           /\ slashes[v] <= 1
           /\ v \in marked => slashes[v] = 1 \/ \E c \in Checks : v \in check[c].slash
    /\ dryRun => \A v \in Vaults : slashes[v] = 0
=============================================================================
