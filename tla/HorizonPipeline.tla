--------------------------- MODULE HorizonPipeline ---------------------------
(***************************************************************************)
(* From the Horizon stream to the database: HorizonListener                *)
(* (src/services/horizonListener.ts), EventProcessor (eventProcessor.ts),  *)
(* CheckpointStore (checkpointStore.ts) and the admin route that resets a  *)
(* cursor (routes/admin.ts).                                               *)
(*                                                                         *)
(* The stream calls handleEvent without waiting for the previous call, so  *)
(* several run at once and finish in any order; each is a handler slot     *)
(* with a program counter.  The stream client is a placeholder in the code *)
(* and is modelled as external: it delivers the chain's events of ledgers  *)
(* from the cursor on, in order, and again from the cursor after a         *)
(* reconnection.                                                           *)
(*                                                                         *)
(* A database transaction is two steps: the check of processed_events, and *)
(* the commit of everything else.  In between another handler may commit   *)
(* the same event; the primary key of processed_events then refuses the    *)
(* second.  Times, payloads, audit logs and the rows of validations (one   *)
(* per processed event) are dropped.                                       *)
(***************************************************************************)
EXTENDS VaultProjection, FiniteSets

CONSTANTS
    Contracts,       \* config.contractAddresses
    StartLedger,     \* config.startLedger
    MaxRetries,      \* config.maxRetries
    Handlers,        \* bound on the calls of handleEvent that run at once
    MaxDisruptions   \* bound on stops, crashes, reconnections, replays, resets

ASSUME PipelineAssumption ==
    /\ Contracts # {}
    /\ StartLedger \in Nat
    /\ MaxRetries \in Nat \ {0}
    /\ MaxDisruptions \in Nat

NoCheckpoint == -1
NoReset == [contract |-> "none", ledger |-> 0]

VARIABLES
    running,            \* the listener process is up
    shutdownRequested,
    startLedger,        \* the cursor the stream was opened with
    position,           \* the last event the stream has delivered
    pc,                 \* where each handler is
    event,              \* the event it handles
    attempt,            \* its attempt in retryWithBackoff
    replay,             \* it was started by reprocessFailedEvent
    failedEvents,       \* number of rows of each event in failed_events
    checkpoint,         \* last_ledger per contract, or NoCheckpoint
    reset,              \* an admin reset between its guard and its write
    applied,            \* history: commits of each event's effects
    unrecorded,         \* history: events a handler gave up without a record
    wasReset,           \* history: contracts whose cursor an admin has set
    disruptions         \* counter for MaxDisruptions

stream == <<running, shutdownRequested, startLedger, position>>
handler == <<pc, event, attempt, replay>>
history == <<applied, unrecorded, wasReset>>
vars == <<rows, stream, handler, failedEvents, checkpoint, reset, history,
          disruptions>>

Ledger(e) == Chain[e].ledger
Wanted(e) == Chain[e].contract \in Contracts /\ Chain[e].kind # "unparsable"

\* The stream opened at ledger l starts after the last event below l.
PositionAt(l) == Cardinality({e \in Events : Ledger(e) < l})

PInit ==
    /\ Init
    /\ running = FALSE
    /\ shutdownRequested = FALSE
    /\ startLedger = StartLedger
    /\ position = 0
    /\ pc = [h \in Handlers |-> "idle"]
    /\ event = [h \in Handlers |-> 0]
    /\ attempt = [h \in Handlers |-> 0]
    /\ replay = [h \in Handlers |-> FALSE]
    /\ failedEvents = [e \in Events |-> 0]
    /\ checkpoint = [c \in Contracts |-> NoCheckpoint]
    /\ reset = NoReset
    /\ applied = [e \in Events |-> 0]
    /\ unrecorded = {}
    /\ wasReset = {}
    /\ disruptions = 0

Disrupt ==
    /\ disruptions < MaxDisruptions
    /\ disruptions' = disruptions + 1

-----------------------------------------------------------------------------
(* The listener *)

\* The cursors of the contracts in failing could not be read.
EffectiveStart(failing) ==
    LET ledgerOf(c) == IF c \in failing \/ checkpoint[c] = NoCheckpoint
                       THEN StartLedger ELSE checkpoint[c]
    IN  CHOOSE l \in {ledgerOf(c) : c \in Contracts} :
            \A c \in Contracts : l <= ledgerOf(c)

\* start(): the cursor is the minimum over all contracts.
Start ==
    /\ ~running
    /\ running' = TRUE
    /\ shutdownRequested' = FALSE
    /\ \E failing \in SUBSET Contracts : startLedger' = EffectiveStart(failing)
    /\ position' = PositionAt(startLedger')
    /\ UNCHANGED <<rows, handler, failedEvents, checkpoint, reset, history,
                   disruptions>>

\* A broken stream is opened again with the cursor of start().
Reconnect ==
    /\ running
    /\ ~shutdownRequested
    /\ Disrupt
    /\ position' = PositionAt(startLedger)
    /\ UNCHANGED <<rows, running, shutdownRequested, startLedger, handler,
                   failedEvents, checkpoint, reset, history>>

\* stop(): events that still arrive are dropped.
RequestStop ==
    /\ running
    /\ ~shutdownRequested
    /\ Disrupt
    /\ shutdownRequested' = TRUE
    /\ UNCHANGED <<rows, running, startLedger, position, handler, failedEvents,
                   checkpoint, reset, history>>

Busy(h) == pc[h] # "idle"

\* The process ends: a crash, or stop() after the handlers or its timeout.
\* Open transactions roll back.
Exit ==
    /\ running
    /\ \/ Disrupt
       \/ shutdownRequested /\ UNCHANGED disruptions
    /\ running' = FALSE
    /\ pc' = [h \in Handlers |-> "idle"]
    /\ event' = [h \in Handlers |-> 0]
    /\ attempt' = [h \in Handlers |-> 0]
    /\ replay' = [h \in Handlers |-> FALSE]
    /\ shutdownRequested' = FALSE
    /\ startLedger' = StartLedger
    /\ position' = 0
    /\ UNCHANGED <<rows, failedEvents, checkpoint, reset, history>>

\* The calls of handler h return: its local variables are gone.
Finish(h) ==
    /\ pc' = [pc EXCEPT ![h] = "idle"]
    /\ event' = [event EXCEPT ![h] = 0]
    /\ attempt' = [attempt EXCEPT ![h] = 0]
    /\ replay' = [replay EXCEPT ![h] = FALSE]

Begin(h, e, again) ==
    /\ ~Busy(h)
    /\ pc' = [pc EXCEPT ![h] = "check"]
    /\ event' = [event EXCEPT ![h] = e]
    /\ attempt' = [attempt EXCEPT ![h] = 1]
    /\ replay' = [replay EXCEPT ![h] = again]

\* handleEvent, up to processEvent.
Deliver(h) ==
    LET e == position + 1
    IN  /\ running
        /\ ~shutdownRequested
        /\ position < Len(Chain)
        /\ Wanted(e)
        /\ position' = e
        /\ Begin(h, e, FALSE)
        /\ UNCHANGED <<rows, running, shutdownRequested, startLedger,
                       failedEvents, checkpoint, reset, history, disruptions>>

\* handleEvent of an event that is not for us, does not parse or comes late.
Ignore ==
    LET e == position + 1
    IN  /\ running
        /\ position < Len(Chain)
        /\ shutdownRequested \/ ~Wanted(e)
        /\ position' = e
        /\ unrecorded' = unrecorded \cup {e}
        /\ UNCHANGED <<rows, running, shutdownRequested, startLedger, handler,
                       failedEvents, checkpoint, reset, applied, wasReset,
                       disruptions>>

\* Mutant of PersistCheckpoint: the ledger after the event is stored.
PersistNextLedger(h) ==
    /\ pc[h] = "checkpoint"
    /\ Finish(h)
    /\ checkpoint' = [checkpoint EXCEPT ![Chain[event[h]].contract]
                                               = Ledger(event[h]) + 1]
    /\ UNCHANGED <<rows, stream, failedEvents, reset, history, disruptions>>

\* A failed write is logged and forgotten.
PersistCheckpoint(h) ==
    /\ pc[h] = "checkpoint"
    /\ Finish(h)
    /\ \/ checkpoint' = [checkpoint EXCEPT ![Chain[event[h]].contract]
                                               = Ledger(event[h])]
       \/ UNCHANGED checkpoint
    /\ UNCHANGED <<rows, stream, failedEvents, reset, history, disruptions>>

-----------------------------------------------------------------------------
(* processEvent *)

DatabaseUnchanged ==
    UNCHANGED <<rows, failedEvents, checkpoint, reset, applied, wasReset>>

Succeed(h) ==
    pc' = [pc EXCEPT ![h] = IF replay[h] THEN "delete" ELSE "checkpoint"]

\* Mutant of RetryOrGiveUp: the attempts are not counted.
RetryForEver(h) ==
    /\ pc' = [pc EXCEPT ![h] = "check"]
    /\ UNCHANGED attempt

\* A retryable error, from the transaction's begin to its commit.
RetryOrGiveUp(h) ==
    IF attempt[h] < MaxRetries
    THEN /\ pc' = [pc EXCEPT ![h] = "check"]
         /\ attempt' = [attempt EXCEPT ![h] = @ + 1]
    ELSE /\ pc' = [pc EXCEPT ![h] = "look"]
         /\ UNCHANGED attempt

\* isEventProcessed
Check(h) ==
    /\ pc[h] = "check"
    /\ IF event[h] \in processed
       THEN Succeed(h)
       ELSE pc' = [pc EXCEPT ![h] = "apply"]
    /\ DatabaseUnchanged
    /\ UNCHANGED <<stream, event, attempt, replay, unrecorded, disruptions>>

\* Mutant of Apply: the row the event depends on is not looked for.
ApplyUnready(h) ==
    /\ pc[h] = "apply"
    /\ event[h] \notin processed
    /\ Effect(event[h])
    /\ applied' = [applied EXCEPT ![event[h]] = @ + 1]
    /\ Succeed(h)
    /\ UNCHANGED <<stream, event, attempt, replay, failedEvents, checkpoint,
                   reset, unrecorded, wasReset, disruptions>>

\* The commit; its answer may be lost, which looks like a retryable error.
Apply(h) ==
    /\ pc[h] = "apply"
    /\ Take(event[h])
    /\ applied' = [applied EXCEPT ![event[h]] = @ + 1]
    /\ \/ Succeed(h) /\ UNCHANGED attempt
       \/ RetryOrGiveUp(h)
    /\ UNCHANGED <<stream, event, replay, failedEvents, checkpoint, reset,
                   unrecorded, wasReset, disruptions>>

\* The connection is lost, a deadlock or a lock timeout occurs, or the row the
\* event depends on does not exist.
FailRetryably(h) ==
    /\ pc[h] \in {"check", "apply"}
    /\ RetryOrGiveUp(h)
    /\ DatabaseUnchanged
    /\ UNCHANGED <<stream, event, replay, unrecorded, disruptions>>

\* Any other database error, a refused duplicate in processed_events included:
\* processEvent fails at once and writes nothing.
FailForGood(h) ==
    /\ pc[h] \in {"check", "apply"}
    /\ Finish(h)
    /\ unrecorded' = unrecorded \cup {event[h]}
    /\ DatabaseUnchanged
    /\ UNCHANGED <<stream, disruptions>>

\* moveToDeadLetterQueue looks for a row of the event ...
Look(h) ==
    /\ pc[h] = "look"
    /\ pc' = [pc EXCEPT ![h] = IF failedEvents[event[h]] > 0
                               THEN "update" ELSE "insert"]
    /\ DatabaseUnchanged
    /\ UNCHANGED <<stream, event, attempt, replay, unrecorded, disruptions>>

\* Mutant of Record: the row is not written.
RecordNothing(h) ==
    /\ pc[h] \in {"insert", "update"}
    /\ Finish(h)
    /\ DatabaseUnchanged
    /\ UNCHANGED <<stream, unrecorded, disruptions>>

\* ... and updates it or inserts one.
Record(h) ==
    /\ pc[h] \in {"insert", "update"}
    /\ Finish(h)
    /\ failedEvents' = IF pc[h] = "insert"
                       THEN [failedEvents EXCEPT ![event[h]] = @ + 1]
                       ELSE failedEvents
    /\ UNCHANGED <<rows, stream, checkpoint, reset, history, disruptions>>

\* An error of either statement is logged and forgotten.
RecordFails(h) ==
    /\ pc[h] \in {"look", "insert", "update"}
    /\ Finish(h)
    /\ unrecorded' = unrecorded \cup {event[h]}
    /\ DatabaseUnchanged
    /\ UNCHANGED <<stream, disruptions>>

\* reprocessFailedEvent, up to processEvent ...
Reprocess(h, e) ==
    /\ running
    /\ failedEvents[e] > 0
    /\ Disrupt
    /\ Begin(h, e, TRUE)
    /\ UNCHANGED <<rows, stream, failedEvents, checkpoint, reset, history>>

\* ... and, after a success, its last statement, which may fail.
DeleteFailed(h) ==
    /\ pc[h] = "delete"
    /\ Finish(h)
    /\ \/ failedEvents' = [failedEvents EXCEPT ![event[h]] = 0]
       \/ UNCHANGED failedEvents
    /\ UNCHANGED <<rows, stream, checkpoint, reset, history, disruptions>>

-----------------------------------------------------------------------------
(* The admin route: the guard, an await, the write *)

Ledgers == {StartLedger} \cup {Ledger(e) : e \in Events}

AskReset(c, l, force) ==
    /\ reset = NoReset
    /\ Disrupt
    /\ force \/ \A e \in processed : Ledger(e) <= l
    /\ reset' = [contract |-> c, ledger |-> l]
    /\ UNCHANGED <<rows, stream, handler, failedEvents, checkpoint, history>>

WriteReset ==
    /\ reset # NoReset
    /\ checkpoint' = [checkpoint EXCEPT ![reset.contract] = reset.ledger]
    /\ wasReset' = wasReset \cup {reset.contract}
    /\ reset' = NoReset
    /\ UNCHANGED <<rows, stream, handler, failedEvents, applied, unrecorded,
                   disruptions>>

-----------------------------------------------------------------------------
HandlerStep(h) ==
    \/ Check(h)
    \/ Apply(h)
    \/ FailRetryably(h)
    \/ FailForGood(h)
    \/ Look(h)
    \/ Record(h)
    \/ RecordFails(h)
    \/ DeleteFailed(h)
    \/ PersistCheckpoint(h)

PNext ==
    \/ Start
    \/ Reconnect
    \/ RequestStop
    \/ Exit
    \/ Ignore
    \/ \E h \in Handlers : Deliver(h) \/ HandlerStep(h)
    \/ \E h \in Handlers, e \in Events : Reprocess(h, e)
    \/ \E c \in Contracts, l \in Ledgers, f \in BOOLEAN : AskReset(c, l, f)
    \/ WriteReset

PSpec == PInit /\ [][PNext]_vars

\* While the process is up the stream delivers, and every database call
\* answers or fails; how often it fails is not restricted.
Fairness ==
    /\ WF_vars(Ignore)
    /\ WF_vars(\E h \in Handlers : Deliver(h))
    /\ \A h \in Handlers : WF_vars(HandlerStep(h))

FairSpec == PSpec /\ Fairness

-----------------------------------------------------------------------------
(* Properties *)

\* Every variable has its type.
TypeOK ==
    /\ vaults \in [Vaults -> VaultStatus]
    /\ milestones \in [Milestones -> MilestoneStatus]
    /\ processed \subseteq Events /\ outbox \subseteq Events
    /\ running \in BOOLEAN /\ shutdownRequested \in BOOLEAN
    /\ startLedger \in Nat
    /\ position \in 0 .. Len(Chain)
    /\ pc \in [Handlers -> {"idle", "check", "apply", "look", "insert",
                            "update", "delete", "checkpoint"}]
    /\ event \in [Handlers -> Events \cup {0}]
    /\ attempt \in [Handlers -> 0 .. MaxRetries]
    /\ replay \in [Handlers -> BOOLEAN]
    /\ failedEvents \in [Events -> Nat]
    /\ checkpoint \in [Contracts -> Nat \cup {NoCheckpoint}]
    /\ reset = NoReset \/ reset \in [contract : Contracts, ledger : Nat]
    /\ applied \in [Events -> Nat]
    /\ unrecorded \subseteq Events
    /\ wasReset \subseteq Contracts
    /\ disruptions \in 0 .. MaxDisruptions

\* Redeliveries, retries, replays, lost commit answers and crashes of
\* concurrent handlers show in the database as nothing but the projection:
\* every event takes effect at most once, with its idempotency mark and its
\* outbox row, and after the row it depends on (docs/horizon-listener.md:58).
ProjectionImplemented == Spec

\* The same, counted: an event's effects are committed as often as its id is
\* in processed_events, and its outbox row exists exactly for those commits.
AppliedOnce ==
    \A e \in Events :
        /\ applied[e] = IF e \in processed THEN 1 ELSE 0
        /\ e \in outbox <=> /\ e \in processed
                             /\ Chain[e].kind \in VAULT_LIFECYCLE_EVENTS

\* A vault that an event has ended never becomes active or draft again,
\* however late its vault_created is processed (eventProcessor.ts:213).
LateCreationKeepsStatus ==
    [][\A v \in Vaults : vaults[v] \in {TerminalStatus[k] : k \in TerminalKinds}
            => vaults'[v] \notin {"none", "draft", "active"}]_vars

\* The cursor is written only after a durable commit: a checkpoint that no
\* admin has set is the ledger of an event of that contract whose effects are
\* in the database, also across crashes and redeliveries.
CheckpointFollowsCommit ==
    \A c \in Contracts \ wasReset :
        checkpoint[c] # NoCheckpoint =>
            \E e \in processed : /\ Chain[e].contract = c
                                 /\ Ledger(e) = checkpoint[c]

\* Every event the stream has delivered since the last start is processed, in
\* failed_events, with a handler, or was given up in one of the ways that
\* leave no record: a non-retryable error, an error of the dead letter write,
\* or a drop in handleEvent.
Accounted ==
    \A e \in Events : e <= position /\ Ledger(e) >= startLedger =>
        \/ e \in processed \cup unrecorded
        \/ failedEvents[e] > 0
        \/ \E h \in Handlers : Busy(h) /\ event[h] = e

\* A row of failed_events is removed only for an event that is processed.
DeadLettersKept ==
    [][\A e \in Events :
          failedEvents'[e] < failedEvents[e] => e \in processed]_vars

Settled(e) == e \in processed \cup unrecorded \/ failedEvents[e] > 0

\* While the listener is up every event from its cursor on is settled: no
\* handler retries for ever and the stream is not held up by a failing event.
EveryEventSettles ==
    \A e \in Events : (running /\ Ledger(e) >= startLedger)
        ~> (Settled(e) \/ ~running \/ shutdownRequested)

\* horizonListener.ts:24: at-least-once delivery.  An event below the cursor
\* of the next start, so one that will not be delivered again, is processed,
\* dead-lettered, given up or still with a handler, as long as no admin moves
\* a cursor.
AtLeastOnce ==
    wasReset = {} =>
        \A e \in Events : Wanted(e) /\ Ledger(e) >= StartLedger
                          /\ Ledger(e) < EffectiveStart({}) =>
            Settled(e) \/ \E h \in Handlers : Busy(h) /\ event[h] = e
=============================================================================
