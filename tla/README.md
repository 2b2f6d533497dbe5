# Disciplr backend: verification project

Disciplr holds people to their goals with money. A *vault* is a stake of tokens
in a Soroban contract, split over milestones that verifiers approve; it is paid
out when they do and forfeited when the deadline passes. A TypeScript backend
(Express, PostgreSQL) creates vaults, follows the contract's events, keeps a
projection of them in its database, delivers webhooks and runs background jobs.

This directory holds TLA+ models of the parts whose errors would be hard to
find by testing, TLC configurations that check them on small instances, and
TLAPS proofs of their main properties for all instances. `PROJECT.json` maps
every definition to the lines of code it models, and lists the components, the
runs, the theorems, for every property a mutant of the code that breaks it, the
hazards of the code and the findings.

    tlc -workers 2 -config vault_lifecycle.cfg MCVaults
    tlapm AccountabilityVaultProofs.tla

Paths below are relative to the repository's `src/` where they name backend
code; a bare file name is in `src/services/`.

## 1. Inventory

| Component | State | Operations | Interacts with |
|---|---|---|---|
| **Accountability vault contract** `contracts/accountability_vault/src/lib.rs` | per vault: terms, status, stake, deadlines, verified and released milestones, pause; per instance: approvals, check-ins, dispute window, token balance | 17 entry points that change state | emits the events that the listener reads; called by Soroban submission |
| **Horizon pipeline** `horizonListener.ts`, `eventProcessor.ts`, `eventParser.ts`, `checkpointStore.ts` | `vaults`, `milestones`, `processed_events`, `failed_events`, `vault_outbox`, checkpoints; handlers in flight | start, stop, parse and handle an event, transaction with retries, dead letter, reprocess, checkpoint, admin reset | fills the outbox; shares `vaults` with the vault store |
| **Job queue** `src/jobs/queue.ts`, `system.ts` | pending list, active map, running handlers, dead letters | enqueue, drain, retry, sweep, replay, forced retry, start, stop | used by expiration, exports, routes |
| **Scheduler registry** `src/jobs/system.ts` | names of running jobs, PostgreSQL advisory locks | tick, acquire, run, release | timers of every replica |
| **Outbox relay and webhooks** `outboxRelay.ts`, `webhooks.ts`, `webhookSubscriberRepository.ts` | outbox rows, subscribers and their secrets, allowlist, breaker per subscriber (cache and table), dead letters | relay batch, dispatch, failure and success, probe, replay; register, rotate, allow, ping | reads the outbox |
| **Soroban submission** `soroban.ts` | endpoint pool with health | read account, build, send, poll, fail over | calls the contract |
| **Request idempotency** `idempotency.ts` | pending promises, stored responses | begin, save, fail, wait | vault routes |
| **Vault store and expiration** `vaultStore.ts`, `src/lib/cache.ts`, `expirationScheduler.ts` | rows with revisions, cached copies, slash jobs | cached read, update with revision, cancel, mark expired, enqueue slash | routes, pipeline |
| **Milestones and verifiers** `milestones.ts`, `verifiers.ts`, `src/routes/milestones.ts` | milestones in memory; votes, profiles and decisions in tables | vote, verify, settle, complete the vault; transition, decide | audit log |
| **Audit log** `src/lib/audit-logs.ts` | hash chain per organisation | append | every administrative operation |
| **Exports** `exportQueue.ts`, `exportQuota.ts` | rows, queue entries, dead letters, quota counters | admit, create, run, retry, recover, requeue | job queue |
| **Authentication** `auth.service.ts`, `session.ts` | refresh tokens, sessions | login, refresh, logout, revoke all | middleware |
| **Membership and invitations** `membership.ts`, `src/routes/orgMembers.ts` | membership rows, invitations | add, remove, change role, transfer; invite, resend, revoke, accept | routes |
| **Transaction ETL** `transactionETL.ts`, `etlWorker.ts` | cursor in memory, transaction rows | run, page, save, advance | Horizon |
| **Graceful shutdown** `src/server/shutdown.ts` | draining flag, requests in flight | drain, stop workers, close | everything that runs |
| **Notifications** `vaultExpiry.service.ts`, `deferredReminders.service.ts`, `src/utils/quietHours.ts` | notification rows with keys, deferred reminders | mark and tell, digest, defer, deliver | vaults |
| **API keys, feature flags, abuse monitor** `apiKeys.ts`, `featureFlags.ts`, `src/security/abuse-monitor.ts` | key rows; flag rows and cached answers; sliding windows per address | validate, rotate, revoke; look up, set; count, alert, forget | middleware |
| **Evidence reindexing** `evidenceReindex.ts` | embeddings, one cursor | batch, reset | admin route, job |
| **Vault search** `src/routes/orgVaults.ts`, `src/jobs/handlers.ts` | saved searches with the hash of their last result | page, save, evaluate, alert | notification provider |
| Others: teams, step-up authentication, routes, health, analytics | — | I/O and per-request lookups | — |

What is hard, and what correctness means:

* **Contract.** Many entry points can end a vault, in many orders, and all
  vaults of an instance share one token balance and one approval list. No stake
  is paid twice, a missed deadline stays missed, a settled vault stays settled.
* **Pipeline.** Calls of `handleEvent` overlap, commits whose answer is lost are
  retried, the process crashes between commit and checkpoint. An event takes
  effect once, together with its mark and outbox row, and every event settles.
* **Job queue, scheduler.** A job object is shared by the list, the map and a
  running handler, sweeps re-queue it, ids are reused; locks belong to sessions
  of a pool. No job is lost, limits hold, replicas take turns.
* **Outbox and webhooks.** Side effects inside a transaction that may roll back,
  a breaker whose cache and table disagree, probes that race, subscribers that
  change while a delivery is under way.
* **Submission, idempotency.** A send that timed out may have been accepted; a
  promise that nobody settles.
* **Everything between two queries.** Sessions, membership, invitations, keys,
  exports, votes, audit, searches, reminders: rows read before an await and
  written after it, in several queries without a lock. The promise holds but for
  the races that the property names, and naming them exactly is the work.

`PROJECT.json` lists these hazards at their lines with the properties on them.

## 2. Modules

Each component has a module of its own, with its variables, `...Init`, one
action per operation, handler or stretch between two awaits, `...Next` and
`...Spec`. Modules that share state are composed by EXTENDS, and `MC` modules
put components that share none into one run, in which a variable `focus` (or
`scope`) picks the one that moves. `JobQueue` and `EventParser` need no module for
TLC's sake: their cfg gives all they need.

    AccountabilityVault, Milestones -- MCVaults
    JobQueue
    VaultProjection <= HorizonPipeline -- MCHorizonPipeline
    OutboxContract <= OutboxRelay -- extends WebhookDelivery
                      OutboxRelay, WebhookSubscribers,
                      Notifications, QuietHours -- MCDelivery
    VaultStore <- VaultOversight
    VaultCreation, SorobanSubmit, VaultOversight -- MCRequests
    DataExport, ExportRequests, SchedulerLocks, Sessions, TransactionETL,
    GracefulShutdown, EventParser, FeatureFlags, VaultSearch,
    Invitations -- extends Membership            -- all in MCServices
    Verifiers -- extends AuditLog,
    ApiKeys, EvidenceReindex, SecurityMonitor,
    SavedSearches                                -- all in MCRecords

`<=` is a refinement: the abstract module is instantiated in the detailed one
and its specification is a PROPERTY of the run. `A <- B`: B extends A.

### Vaults

**AccountabilityVault.** One action per entry point. Soroban reverts all of a
call that fails, so a rejected call is a disabled action and the guards are the
code's checks. The record `Vault` is one function per mutable field plus
`terms[v]` for what `create_vault` fixes; `approvals` and `checkIn` are keyed by
the milestone index alone because the storage keys are. The token is external:
the contract's balance, a fee it may withhold, deposits from outside.
`endorsed` and `paid` are history that only properties read.
`dispute_milestone` reads the check-in entry with another type than `check_in`
stores, so it traps when there is one; the model has that behaviour.

**Milestones.** The backend's own vote on milestones. `PATCH /verify` and
`POST /validate` are one synchronous step; `POST /approve` is a *ballot* with a
step per await: profile, earlier vote, settled check, insert, count, the votes
of all the vault's milestones. `mishap` records the administrators, deletions
and failed queries that the property excuses.

### Chain

**VaultProjection, HorizonPipeline.** The first is the promise: the projected
rows change only by `Take(e)`, which applies one event of the chain that was not
taken before, with its mark and its outbox row, once the row it depends on
exists. The second is what runs. A handler's program counter goes

    check -> apply -> checkpoint            (handleEvent, success)
                   -> delete                (reprocessFailedEvent, success)
    check/apply -> check                    (retryable error, attempts left)
                -> look -> insert | update  (attempts used up)
                -> idle                     (any other error)

Two handlers of one event can both pass the read of `processed_events`; the
primary key lets one commit. The commit's answer may be lost. `Exit` is a crash,
or the end of `stop()`. The Stellar stream is a placeholder in the code: the
model delivers the chain in order from the cursor, without waiting for handlers.

**EventParser.** What `parseHorizonEvent` makes of each event the contract
publishes, between the contract's statuses and the rows. `EventValues` says
whether payloads are the contract's scalars or the records the parser wants.

### Queue, deliveries, requests

**JobQueue.** `pending[o]` counts how often an object is in the list,
`active[id]` is the object registered under an id, `inflight[o]` counts handler
invocations that have not settled. A call runs to its end before another starts,
as in Node; `Quiet` keeps other calls out while the `drain` loop has work. A
sweep may take any set of leases, which covers every threshold.

**WebhookDelivery, OutboxRelay, OutboxContract.** A delivery is one step per
stretch between two awaits; each write goes to the cache before the await and to
the table after it. A run of the relay is one transaction that locks rows,
dispatches and commits. `OutboxContract` promises that a published row stays
until its failures are counted up to the limit, one at a time and never
downwards. After a dispatch that resolves, the relay inserts a key that is no
uuid, PostgreSQL aborts the transaction, and the run ends in a rollback: the
lines that mark a row processed after a dispatch are never reached and have no
action.

**WebhookSubscribers.** What a delivery has read of a subscriber against
registration, rotation with its grace window, policies and the allowlist.

**VaultCreation, SorobanSubmit, VaultStore.** A request with an idempotency key
from `begin` to its answer, with the end of the process on a rejection nobody
handles; a submission over the endpoint pool against an external network that
applies a transaction when its sequence number is next; and a vault's row with
its cached copy, its announced and unannounced writers and overlapping checks of
expired vaults, which enqueue nothing under `DRY_RUN` (`dryRun`).

**VaultOversight** extends the store with what operators do: the reconciliation,
which reads all rows at once and then asks the contract vault by vault while both
sides move, and the administrator's cancellation, which changes the row first,
awaits its audit entry and remembers its key last. The key is the client's own, or
one made of the administrator and the vault (`admin.ts:450`), so a vault can be
cancelled under several of them: the later ones find it cancelled and write an
entry that says so. The history `reopened` holds vaults which another writer has
taken out of their end, and which can then be cancelled anew. The contract's answers are
external: `getVault` answers null for a failed call as it does for a vault that
does not exist.

### Services

**DataExport** models rows and queue entries of exports over crashes and
recoveries; **ExportRequests** the quota and keys that a request passes before;
**SchedulerLocks** ticks of replicas over pooled sessions; **Sessions** refresh,
logout and revocation query by query; **Membership** rows (a member can have
several) under edits that read before they write; **Invitations** adds the three
queries of an acceptance; **TransactionETL** pages, rows and cursor of several
workers; **GracefulShutdown** the handler's deadlines against requests and jobs;
**FeatureFlags** lookups that fill a cache after their queries, against
`setFlag`; **VaultSearch** pages by a cursor over rows that come and go, with
time in ticks finer than the cursor's milliseconds.

### Records

**AuditLog** stamps, links and inserts entries, each with the time of its own
process, which may lie before that of an entry already stored; **Verifiers** runs
profile changes and decisions around it, each entry on a connection of its own.
**ApiKeys** models writes of the whole row; **EvidenceReindex** batches against
resets of one cursor, by runs of processes that may be of an older deployment, with
the model version of theirs; **SecurityMonitor** sliding windows and their
clean-up, next to a history that forgets nothing; **SavedSearches** overlapping
evaluations and the cap. **Notifications** (with the deliveries, in `MCDelivery`)
models expiry notices, which `createNotification` first checks against the
preferences of the vault's organisation while these change (`wanted`), and digests
with their keys by the minute; **QuietHours** is the algorithm
of `quietHours.ts` as operators, against a definition of the next end, over every
window, zone, month turn and clock change of a short day.

## 3. Runs

| Run | Instance | Checks |
|---|---|---|
| `vault_lifecycle` | one vault with 7 proposals (different due dates, a two-of-two quorum with an oracle, milestones declared verified, a fee token, invalid ones), time 1..5; or two vaults of one contract, time 1..3, balance up to `MaxBalance` from outside; or a backend vault with two milestones, two verifiers, two ballots | `StakeCoversMilestones`, `Conservation`, `EndsAreFinal`, `OnlyASweepBreaksSolvency`, `VaultFollowsMilestones` |
| `queue_safety` | 2 job objects, `maxAttempts` 1 or 2, 1 slot | `Custody`, `LimitsRespected`, `EveryJobEnds` |
| `horizon_delivery` | 3 events of 2 contracts, two in one ledger, 2 handlers, 2 attempts, 1 disruption | `CheckpointFollowsCommit`, `Accounted`, `ProjectionImplemented`, `EveryEventSettles` |
| `delivery` | 3 events, 2 relay jobs, 2 deliveries at once in four arrangements (one subscriber, replays, two subscribers, rows only); or one subscriber, two secrets, two sends, a registration; or two checks of two expired vaults whose notices are turned on and off; or two runs over two deferred reminders; or all quiet hours of a short day | `NothingSilentlyLost`, `OneProbe`, `OutboxImplemented`, `DeliveredAsConfigured`, `NotificationsAccounted`, `QuietEndsNext` |
| `requests` | 4 requests over 2 keys and 2 bodies; 2 calls over 2 endpoints; 1 vault with a reader, a writer, 2 checks; the same vault under a reconciliation, or under 2 overrides with 2 keys | `OneVaultPerKey`, `SubmittedOnce`, `StaleOnlyForAReason`, `OversightAccounted` (with `SlashesAccounted`, `DriftAccounted`, `OverridesOnRecord`, `CancelledOnce`), `EveryRequestEnds` |
| `services` | two or three actors per service, as the head of `MCServices` lists | `ExportsAccounted`, `AdmittedOnce`, `NoOverlap`, `ExchangedOnce`, `InvitedOnce`, `OwnerRemains`, `NothingBehindCursor`, `CleanExit`, `EndsAreShown`, `CachedFlagIsCurrent`, `ListedOnce` |
| `records` | as the head of `MCRecords` lists | `DecisionsOnRecord`, `LogTellsHistory`, `AnswersHold`, `CurrentBehindCursor`, `ForgettingChangesNothing`, `SearchesAccounted` |
| `vault_quorum`, `queue_nonretryable`, `horizon_loss`, `relay_done`, `parser_settlements` | small | one finding each, section 5 |

`MCServices`, `MCRecords` and `MCRequests` define `TypeOK`, the conjunction of
their components' type invariants; type correctness of the contract, queue and
pipeline is proved, so the runs spend their time on the other properties.

Why the bounds are enough. *Vaults*: no call relates more than two vaults, and
what two share is the balance, the approvals and the check-ins; two milestones
give partial claims, and five ticks put a check-in before, at and after each due
date and end. *Queue*: one job can meet itself, when a replay or forced retry
creates an object with the id of one whose swept handler still runs; two
attempts are a retry and the last one. *Pipeline*: a creation, an event that
depends on it, and an end that can overtake it; one disruption (stop, crash,
reconnection, replay or reset) at every point of every interleaving. *Delivery*:
a probe races a delivery that began before the breaker tripped; two subscribers
show a dispatch that rejects while another delivery goes on; the attempts of rows
depend on the outcome of a run alone and are counted in an arrangement of their
own, where every dispatch fails. *Requests*: three
requests of one key are an owner, a waiter and a conflict, the fourth takes the
process down; two endpoints are a failover; three revisions of a row make a copy
two writes old. *Services and records*: each race is one of two actors; a third
is there where a history of earlier calls is needed (a third connection that
closes, a third key request after a rotation and a revocation, a third page). The
monitor's clock runs from 4 to 11, with windows of 1 and 2 and a cooldown of 4:
a client is forgotten after 6 idle ticks, so one seen at 4 is forgotten at 11, and
can be back and raise its pattern a second time, with or without a clean-up between.
Interchangeable actors are symmetric where the run checks safety only
(`vault_lifecycle`, `delivery`, `records`): deliveries, relay jobs, checks, ballots,
verifiers, milestones, vaults of one contract, runs of a job.
`MaxBalance`, `MaxObjects`, `MaxDisruptions`, `MaxReplays`, `MaxRevision`,
`MaxHolds`, `MaxRows`, `MaxOperations`, `MaxVersion`, `MaxEvents` and the last
times bound what would grow for ever, each in the guard of the action that feeds
it.

Deadlock checking is off, because all of these systems may come to rest: bounds
run out, requests end, processes stop.

Fairness. *Queue*: weak fairness of `RunJob`, `Poll`, `BecomeDue` (event loop,
poll timer, clock) and of a handler's settling, which is an assumption, since
the queue has no timeout for it. *Pipeline*: while the process is up the stream
delivers its next event and every database call answers or fails; none need
succeed, and `Start` is not fair. *Requests*: every await of a live process is
answered. *Relay* (`relay_done`): runs go on and the database answers from some
time on. The other runs check safety, which needs none.

## 4. Proofs

Eight modules hold proofs that TLAPS checks for every value of the constants that
satisfies the named assumptions. The results are in `PROJECT.json`; the
arguments:

* `AccountabilityVaultProofs`. `TypeOK` is inductive; `DueByEnd` from the check
  of `create_vault`, since only `extend_deadline` moves an end and it compares
  it with every due date. A missed milestone then has `now > end >= due`, so
  `check_in` is closed and `extend_deadline` needs `now < end`: `MissIsFinal`;
  with `TerminalIsFinal` this is `EndsAreFinal`. `Conservation`: every payment
  subtracts from `staked` what it adds to `paid`. The backend's vault: that the
  last verification completes it is not inductive, because the request that will
  do so may still be counting. `MilestoneIInv` says that while every milestone is
  verified and has its quorum, some ballot `Finishes`: it is about to count, or
  has read a reached quorum of all it has read, or will complete the vault.
  `FundsIInv` is about money: a funded vault's stake is what its unreleased
  milestones add up to, an unfunded one has neither stake nor releases, and the
  amounts of a created vault's milestones add up to its own. It gives
  `StakesCoverMilestones`; `SweepsAlone` adds that every other step moves the
  balance at least as much as the stake of its one vault.
* `HorizonPipelineProofs`. `IInv` is `TypeOK` and, per handler, `HandlerOK`: who
  is about to write a checkpoint or delete a dead letter has a processed event.
  `RowsStep` shows that the projected rows change in `Apply` only and that it is
  a `Take`, which is the refinement. `Accounted` adds `PositionBelow`: a start
  begins before every event from its cursor on, as ledgers do not decrease.
* `JobQueueProofs`. `IInv` joins `TypeOK`, `Custody` and `Identity` (objects of
  one id) with what ties `active` to handlers (`ActiveOwned`, `Exclusive`,
  `Registered`, `Left`) and `Slots`, an injection of handlers into leases. None
  of these is inductive alone: a settling handler removes a lease by id, and
  only `Exclusive` says that it is its own.
* `RequestsProofs`. Creation: a remembered vault is the pending or the stored
  one of its key. Submission: all of a call's transactions have a sequence
  number up to the answered one's, and the network holds nothing beyond the
  next. Store: the types and, for an idle writer, that it has read no vault; a
  vault has as many slash jobs as keys (`SlashIInv`). Oversight: while a vault is
  calm, the reconciliation's copy is its row (`ReconcileIInv`); an override that
  ended without a race has left its key, and every other with that key under way is
  counted as raced (`OverrideIInv`); two overrides that cancelled one vault need its
  revival in between, since after the first the row is ended until then
  (`CancelIInv`).
* `ServicesProofs`. Scheduler: one session holds the lock at least as often as
  its replica has runs it did not lose, by counting ticks. Sessions: `TokenOK`
  per token. Membership: an edit that is not stale keeps what it read, so an
  owner is removed only next to another, unless a member has several rows. ETL:
  the page follows the cursor without a gap, and one row per transaction by its
  least operation. Shutdown: what the handler has waited for stays away. Lists:
  what a walk was given is in order and ends at its cursor, and a row that has been
  there all along was given, shares the cursor's millisecond and is stepped over, or
  is still after the cursor (`SearchIInv`); `WalksListOnce` follows.
* `DeliveryProofs`. `RowInv`: the rows a transaction holds are locked by it alone,
  are to be dispatched, and have the attempts it has read. With it every step of
  the relay is a step of `OutboxContract` or a stutter, so roll-backs and crashes
  count nothing twice. `LettersOK`: a success that waits to be stored has reached
  its subscriber. `BreakerOK`, per breaker that nothing has disturbed: the row is
  open only while the cache is, at most one delivery trips, enters or probes, and
  none trips while another enters. The proof also showed which deliveries disturb
  a breaker: with more than two at once, an answer older than the cached state can
  replace it, so `disturbed` records that as well. `SendOK`: a secret overtaken
  once is the row's previous one, in its grace window. Notices: a failed
  vault of which nobody was told is in hand of a check that is telling, unless a
  check stopped, and two checks have one vault only where both selected it
  (`NoticeIInv`); who is about to insert a notice has found it wanted, or the
  preference has changed since. Reminders: a marked one is stored, held by a run that will send
  it, or counted as forgotten, and one that no two runs had lies in one place
  (`ReminderIInv`). Quiet hours: the run checks one evaluation per
  instant, and `QuietHoursEnd` is arithmetic: the corrections reach an end that is
  ahead on the user's clock exactly and one that has passed no later than now
  (`EndFound`), which leaves today's end or tomorrow's.
* `AccessProofs`. Parser: `Heard` per vault whose events were whole. Flags: what a
  lookup holds is what the rows say unless it is late (`LookupOK`), so what it puts
  into the cache is too, until an invalidation that is under way. Invitations: one
  request at most has an unraced invitation in hand, and one member has joined just
  while it is about to stamp it. Requests for exports: the count of a process is the
  number of its admissions up to the limit, and rows of one key are one. Exports: an
  unfinished row which no recovery would list is in the last attempt of an entry
  that works on it (`Attended`); a submission and a boot make their entry once,
  where none is (`MadeOnce`).
* `RecordsProofs`. Keys: after an undisturbed revocation no request under way holds
  a live copy (`KeepsRevoked`), after an answer none holds another secret
  (`KeepsSecret`). Reindexing: a run of since the reset has left good rows behind
  or still has them in its page (`PageGood`). Searches: `Uncrossed` gives an
  uncrossed search one run at most. Audit and verifiers: `AuditSound` says of an
  entry created alone, and in the order of the clocks, that it links to the newest
  row before it, which is what the check of the chain looks for. Monitor: each window
  of a client holds what is young
  enough of the history and nothing that is not in it (`Covers`); what is younger
  than its last call is forgotten only with the client, when it is out of every
  window; its remembered alert says of the cooldown what all its alerts say
  (`MonitorIInv`). So each answer is the one the whole history gives.

The library's theorems on induction take an operator as a parameter, which the
provers cannot instantiate. What needs induction over numbers takes the least number at
which a statement fails (`WFMin`) instead: sums over milestones and vaults, which
are unfolded into the recursive functions the community modules define
(`NatSetInduction`), counts of ticks, the newest row of a finite set, and the
list `InOrder` chooses, which exists for every finite set of rows (`InOrderIs`).

The strengthened invariants were tried with TLC on the runs' instances before they
were proved. Two proofs corrected the model where TLC could not show it: the cases
of `MarkReminder` overlapped, and `LeavesMonth` left out the third guess. The monitor
keeps its windows as sets of events, since it only filters and counts them.

Every safety invariant and action property of the passing runs is the property of
a theorem. Only model-checked are `EveryJobEnds`, `EveryEventSettles` and
`EveryRequestEnds`: liveness under fairness, whose proofs need `ENABLED`, and the
runs that exhibit a finding.

## 5. Findings

Each has a run that exhibits it.

1. `check_in` keys approvals by milestone index without the vault, so approvals
   for one vault count for another (`vault_quorum`).
2. The branch for non-retryable job errors calls a method that does not exist:
   nothing is recorded, the rejection is unhandled (`queue_nonretryable`).
3. A checkpoint is written for a later event while an earlier one is still being
   handled; after a crash the earlier event is never processed, against the
   at-least-once guarantee (`horizon_loss`).
4. An outbox row that is dispatched is never marked processed: the ETL insert
   after it aborts the transaction (`relay_done`).
5. The contract publishes scalars and no vault id, the parser wants records with
   one: no event of the contract is projected, so a slashed vault's row never
   becomes failed (`parser_settlements`). The passing runs use the records that
   the parser's tests provide.

Seen while modelling and part of the models, without a run of their own.
Contract and pipeline:

* `cancel_vault` moves a vault of any status to Cancelled (`lib.rs:776`), against
  `docs/vault-state-machine.md:31`; `EndsAreFinal` allows that one move.
* `admin_resolve` to an end and `cancel_vault` of a funded vault leave the stake
  in the contract, and `claim` and `slash_on_miss` need an active vault; only
  `reclaim_after_settlement` moves tokens afterwards, and it sweeps the balance
  that other vaults share.
* `upsertCheckpoint` moves backwards although `checkpointStore.ts:46` says it
  never does. Two handlers that fail at once can insert two dead letters.
* Dispute resolutions are published under topics the parser does not know;
  `settlement_summary` has a type and no handler; the milestone topics that the
  parser knows are never published.

Jobs, deliveries and requests:

* A sweep of a job whose handler still runs can take it beyond `maxAttempts`
  (`docs/jobs.md:67`); `LimitsRespected` is about jobs that no sweep touched.
* Removing the last host from the allowlist opens every host; the test ping does
  not look at the organisation's list. Registering again resets a subscriber's
  field policy, though the comment of the upsert lists the fields it updates. A
  delivery under way at a rotation is signed with the old secret, against
  `docs/webhooks.md:334`.
* A failed creation with a key ends the process: Express 4, no handler for
  unhandled rejections. A 400 leaves the key pending and its waiters waiting.
* An applied submission whose answers were lost is submitted again by failover.
  The arguments the client builds do not match the contract's entry points, and
  the default client has no `submitStakeWithMemo`.
* A GET reads the body before the ETag, so an old body can carry the new ETag.
  The user's cancellation and the expiry jobs write without invalidating.
  The expiration check pushes a slash job for a vault that is no longer active,
  to a job system that nothing starts.

Accounts and organisations:

* Refresh tokens outlive logout-all; `logoutAll` has no caller although
  `auth.service.ts:139` names its endpoint.
* A transfer to oneself leaves no owner. A member added twice has two rows,
  since the unique key includes a nullable `team_id`, and then the last owner
  can be removed. The routes authorise against a list in memory that nothing
  fills.
* Two requests accept one invitation together, and a crash before `accepted_at`
  leaves it usable (`docs/multi-tenancy.md:186`: "Each token is single-use").
* A rotation or re-hash of an API key writes the whole row back and can bring a
  revoked key or an old hash to life. `apiKeys.ts` imports argon2 twice.
* The audit chain forks when two entries are created at once, and is read in another
  order than it was linked in when the clocks of two processes differ. On the migrated
  schema `audit_logs.id` is a uuid that `makeId` does not build, so every insert
  is refused; the model lets it succeed or fail. Entries of verifier changes are
  written on a connection of their own and survive a rollback.
* `milestone_approvals` refers to a table of milestones that the in-memory list
  is not, so votes fail on the migrated schema; deleting a verifier deletes its
  votes; a vault with one milestone verified by `PATCH` and one by votes stays
  active, against `docs/milestones.md:106`.

Services and records:

* The export quota is per process, against `docs/exports.md:139`, and its comment
  on incrementing is untrue in a race; `enqueueExportJob` drops `columns`; the
  second of two inserts of one key gets a 500.
* The ETL cursor is never stored; of a transaction only its first operation is;
  the signal that stops the worker never reaches its run.
* A failed query for an organisation's flag caches the global answer under the
  organisation's key. `clearCache` clears a prefix that matches nothing.
* Expiry notices have no key, and a crash after the mark loses them. With the
  lead times in their default order the first match is always the longest, so
  the later reminders are never sent. A second digest of one minute is dropped,
  a deferral of one minute overwrites another, and claimed deferrals are deleted
  before delivery. No handler is registered for these runs.
* The end of quiet hours is wrong across month turns, within a day of a clock
  change, and where midnight prints as 24.
* A reindexing run under way at a reset, or one that a process of the older
  deployment starts after it, writes its cursor and passes over rows.
* A second override of one vault under another key writes a second audit entry; only
  its `result` tells it from the first.
* A page's cursor is cut to milliseconds, so rows of the same millisecond can be
  skipped (`docs/vaults-api.md:414`); two creations at once exceed the cap of
  saved searches (`docs/vaults-api.md:313`); their evaluation ignores the text
  term. `GET /api/transactions` sorts ascending against a descending cursor.

## 6. Not modelled

* Request decoding, authorisation and encoding of the HTTP routes; health,
  metrics and analytics: no step of several actors meets there.
* Rendering, serialisation, signing, embedding and XDR: pure data.
* Teams, registration, step-up and WebAuthn challenges, deletion of users,
  the ETL backfill; functions without a caller (`runSavedSearch`,
  `createMilestoneWithThreshold`, most of `vaultTransitions.ts`).
* The evidence query, the limit on sessions and the clean-up jobs: one query
  each.
* PostgreSQL, the RPC nodes, the Stellar network and the token are external:
  modelled from how the code uses them.

## 7. What is left

1. Liveness proofs, should the prover learn to reason about `ENABLED`; a bound on
   attempts per job and per event would be the variant.
2. A composition of `VaultStore` with `HorizonPipeline`, the two writers of
   `vaults.status`, and of `WebhookSubscribers` with `WebhookDelivery`.
3. Step-up challenges and teams.
