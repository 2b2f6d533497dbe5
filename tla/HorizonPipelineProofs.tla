------------------------ MODULE HorizonPipelineProofs ------------------------
(***************************************************************************)
(* TLAPS proofs about HorizonPipeline, for every chain of events, every    *)
(* set of contracts, any number of concurrent handlers and of retries:     *)
(* its invariants, its action properties, and that it implements           *)
(* VaultProjection.                                                        *)
(***************************************************************************)
EXTENDS HorizonPipeline, FiniteSetTheorems, WellFoundedInduction, TLAPS

-----------------------------------------------------------------------------
(* The chain and the helpers *)

\* An event of the chain has the fields of EventType.
LEMMA EventFields ==
    /\ Len(Chain) \in Nat
    /\ Events = 1 .. Len(Chain)
    /\ 0 \notin Events
    /\ \A e \in Events : /\ Chain[e].vault \in Vaults
                         /\ Chain[e].milestone \in Milestones
                         /\ Ledger(e) \in Nat
  <1>1. Len(Chain) \in Nat /\ Events = 1 .. Len(Chain)
    BY ChainAssumption DEF Events
  <1>2. \A e \in Events : Chain[e] \in EventType
    BY <1>1, ChainAssumption
  <1>3. QED
    BY <1>1, <1>2 DEF EventType, Ledger

\* What an event leaves in its rows has the type of the rows.
LEMMA AfterType ==
    ASSUME vaults \in [Vaults -> VaultStatus],
           milestones \in [Milestones -> MilestoneStatus],
           NEW e \in Events
    PROVE  /\ VaultAfter(e) \in VaultStatus
           /\ MilestoneAfter(e) \in MilestoneStatus
  <1>1. VaultAfter(e) \in VaultStatus
    BY EventFields DEF VaultAfter, VaultStatus
  <1>2. MilestoneAfter(e) \in MilestoneStatus
    BY EventFields DEF MilestoneAfter, MilestoneStatus, ReviewStatus
  <1>3. QED
    BY <1>1, <1>2

\* A stream opened at ledger l starts before every event from l on.
LEMMA PositionBelow ==
    ASSUME NEW l \in Nat
    PROVE  /\ PositionAt(l) \in 0 .. Len(Chain)
           /\ \A e \in Events : Ledger(e) >= l => PositionAt(l) < e
  <1> DEFINE below == {e \in Events : Ledger(e) < l}
  <1>1. IsFiniteSet(Events) /\ Cardinality(Events) = Len(Chain)
    BY SMTT(20), EventFields, FS_Interval
  <1>2. below \subseteq Events
    OBVIOUS
  <1>3. /\ Cardinality(below) \in Nat
        /\ Cardinality(below) <= Len(Chain)
    BY <1>1, <1>2, FS_Subset, FS_CardinalityType
  <1>4. ASSUME NEW e \in Events, Ledger(e) >= l
        PROVE  Cardinality(below) < e
    <2>1. e \in Nat \ {0}
      BY EventFields
    <2>2. \A f \in below : Ledger(f) < Ledger(e)
      BY <1>4, EventFields
    <2>3. \A f \in Events : f > e => Ledger(e) <= Ledger(f)
      BY ChainAssumption, EventFields DEF Ledger
    <2>4. below \subseteq 1 .. e - 1
      BY <2>1, <2>2, <2>3, EventFields
    <2>5. IsFiniteSet(1 .. e - 1) /\ Cardinality(1 .. e - 1) = e - 1
      BY <2>1, FS_Interval
    <2>6. Cardinality(below) <= e - 1
      BY <2>4, <2>5, FS_Subset
    <2>7. QED
      BY <2>1, <2>6, <1>3
  <1>5. QED
    BY <1>3, <1>4, EventFields DEF PositionAt

\* The cursor of a start is a ledger.
LEMMA EffectiveStartType ==
    ASSUME checkpoint \in [Contracts -> Nat \cup {NoCheckpoint}],
           NEW failing \in SUBSET Contracts
    PROVE  EffectiveStart(failing) \in Nat
  <1> DEFINE ledgerOf(c) == IF c \in failing \/ checkpoint[c] = NoCheckpoint
                            THEN StartLedger ELSE checkpoint[c]
             cursors == {ledgerOf(c) : c \in Contracts}
  <1>1. cursors \subseteq Nat /\ cursors # {}
    BY PipelineAssumption
  <1> DEFINE less == {p \in Nat \X Nat : p[1] < p[2]}
  <1>2. IsWellFoundedOn(less, Nat)
    BY NatLessThanWellFounded DEF OpToRel
  <1>3. PICK l \in cursors : \A k \in cursors : l <= k
    <2>1. \A k, l \in Nat : <<k, l>> \notin less => l <= k
      OBVIOUS
    <2> HIDE DEF cursors, less
    <2>2. PICK l \in cursors : \A k \in cursors : <<k, l>> \notin less
      BY <1>1, <1>2, WFMin
    <2>3. QED
      BY <1>1, <2>1, <2>2
  <1>4. \A c \in Contracts : l <= ledgerOf(c)
    BY <1>3
  <1>5. EffectiveStart(failing) \in cursors
    BY <1>4 DEF EffectiveStart
  <1>6. QED
    BY <1>1, <1>5

-----------------------------------------------------------------------------
(* The inductive invariant *)

\* What the position of a handler says about its event: it has one, it commits
\* or removes only what is processed, and it updates a row of failed_events
\* only while the row is there or a replay has processed the event.
HandlerOK(h) ==
    /\ Busy(h) => event[h] \in Events
    /\ pc[h] \in {"delete", "checkpoint"} => event[h] \in processed
    /\ pc[h] = "update" => event[h] \in processed \/ failedEvents[event[h]] > 0

HandlersOK == \A h \in Handlers : HandlerOK(h)

IInv == TypeOK /\ HandlersOK

\* The invariant holds when the listener has not been started yet.
LEMMA InitIInv == PInit => IInv
  <1> SUFFICES ASSUME PInit PROVE IInv
    OBVIOUS
  <1>1. TypeOK
    <2>1. vaults \in [Vaults -> VaultStatus] /\ processed \subseteq Events
      BY DEF PInit, Init, VaultStatus
    <2>2. /\ milestones \in [Milestones -> MilestoneStatus]
          /\ outbox \subseteq Events
      BY DEF PInit, Init, MilestoneStatus
    <2>3. /\ startLedger \in Nat /\ position \in 0 .. Len(Chain)
          /\ event \in [Handlers -> Events \cup {0}]
          /\ attempt \in [Handlers -> 0 .. MaxRetries]
          /\ disruptions \in 0 .. MaxDisruptions
      BY PipelineAssumption, EventFields DEF PInit
    <2>4. QED
      BY <2>1, <2>2, <2>3 DEF PInit, TypeOK
  <1>2. HandlersOK
    BY DEF PInit, HandlersOK, HandlerOK, Busy
  <1>3. QED
    BY <1>1, <1>2 DEF IInv

\* The effects of an event keep the types of the rows.
LEMMA TakeType ==
    ASSUME TypeOK, NEW e \in Events, Take(e)
    PROVE  /\ vaults' \in [Vaults -> VaultStatus]
           /\ milestones' \in [Milestones -> MilestoneStatus]
           /\ processed' = processed \cup {e}
           /\ processed' \subseteq Events
           /\ outbox' \subseteq Events
  <1>1. VaultAfter(e) \in VaultStatus /\ MilestoneAfter(e) \in MilestoneStatus
    BY AfterType DEF TypeOK
  <1>2. QED
    BY <1>1 DEF TypeOK, Take, Effect

\* Finish, Begin, Succeed and RetryOrGiveUp keep the types of the handlers.
HandlerTypes ==
    /\ pc \in [Handlers -> {"idle", "check", "apply", "look", "insert",
                            "update", "delete", "checkpoint"}]
    /\ event \in [Handlers -> Events \cup {0}]
    /\ attempt \in [Handlers -> 0 .. MaxRetries]
    /\ replay \in [Handlers -> BOOLEAN]

LEMMA HandlerStepsType ==
    ASSUME HandlerTypes, NEW h \in Handlers
    PROVE  /\ Finish(h) => HandlerTypes'
           /\ \A e \in Events, b \in BOOLEAN : Begin(h, e, b) => HandlerTypes'
           /\ Succeed(h) /\ UNCHANGED <<event, attempt, replay>>
                  => HandlerTypes'
           /\ RetryOrGiveUp(h) /\ UNCHANGED <<event, replay>> => HandlerTypes'
  <1>1. Finish(h) => HandlerTypes'
    BY PipelineAssumption DEF Finish, HandlerTypes
  <1>2. ASSUME NEW e \in Events, NEW b \in BOOLEAN, Begin(h, e, b)
        PROVE  HandlerTypes'
    BY <1>2, PipelineAssumption DEF Begin, HandlerTypes
  <1>3. Succeed(h) /\ UNCHANGED <<event, attempt, replay>> => HandlerTypes'
    BY DEF Succeed, HandlerTypes
  <1>4. RetryOrGiveUp(h) /\ UNCHANGED <<event, replay>> => HandlerTypes'
    BY PipelineAssumption DEF RetryOrGiveUp, HandlerTypes
  <1>5. QED
    BY <1>1, <1>2, <1>3, <1>4

\* Every step of a handler keeps the types.
LEMMA HandlerStepType ==
    ASSUME IInv, NEW h \in Handlers, HandlerStep(h)
    PROVE  TypeOK'
  <1>1. TypeOK /\ HandlerTypes /\ HandlerOK(h)
    BY DEF IInv, TypeOK, HandlerTypes, HandlersOK
  <1>2. HandlerTypes'
    <2>1. CASE Check(h)
      <3>1. CASE event[h] \in processed
        BY <1>1, <2>1, <3>1, HandlerStepsType DEF Check
      <3>2. CASE event[h] \notin processed
        BY <1>1, <2>1, <3>2 DEF Check, HandlerTypes
      <3>3. QED
        BY <3>1, <3>2
    <2>2. CASE Apply(h)
      BY <1>1, <2>2, HandlerStepsType DEF Apply
    <2>3. CASE FailRetryably(h)
      BY <1>1, <2>3, HandlerStepsType DEF FailRetryably
    <2>4. CASE Look(h)
      BY <1>1, <2>4 DEF Look, HandlerTypes
    <2>5. CASE \/ FailForGood(h) \/ Record(h) \/ RecordFails(h)
               \/ DeleteFailed(h) \/ PersistCheckpoint(h)
      BY <1>1, <2>5, HandlerStepsType
         DEF FailForGood, Record, RecordFails, DeleteFailed, PersistCheckpoint
    <2>6. QED
      BY <2>1, <2>2, <2>3, <2>4, <2>5 DEF HandlerStep
  <1>3. pc[h] # "idle" /\ event[h] \in Events
    BY <1>1 DEF HandlerStep, Check, Apply, FailRetryably, FailForGood, Look,
                Record, RecordFails, DeleteFailed, PersistCheckpoint,
                HandlerOK, Busy
  <1>4. /\ vaults' \in [Vaults -> VaultStatus]
        /\ milestones' \in [Milestones -> MilestoneStatus]
        /\ processed' \subseteq Events /\ outbox' \subseteq Events
    <2>1. CASE Apply(h)
      BY <1>1, <1>3, <2>1, TakeType DEF Apply
    <2>2. CASE UNCHANGED rows
      BY <1>1, <2>2 DEF TypeOK, rows
    <2>3. QED
      BY <2>1, <2>2 DEF HandlerStep, Check, FailRetryably, FailForGood, Look,
         Record, RecordFails, DeleteFailed, PersistCheckpoint, DatabaseUnchanged
  <1>5. failedEvents' \in [Events -> Nat] /\ applied' \in [Events -> Nat]
    <2>1. failedEvents \in [Events -> Nat] /\ applied \in [Events -> Nat]
      BY <1>1 DEF TypeOK
    <2>2. CASE Apply(h)
      BY <1>3, <2>1, <2>2 DEF Apply
    <2>3. CASE Record(h) \/ DeleteFailed(h)
      BY <1>3, <2>1, <2>3 DEF Record, DeleteFailed, history
    <2>4. CASE UNCHANGED <<failedEvents, applied>>
      BY <2>1, <2>4
    <2>5. QED
      BY <2>2, <2>3, <2>4 DEF HandlerStep, Check, FailRetryably, FailForGood,
         Look, RecordFails, PersistCheckpoint, DatabaseUnchanged, history
  <1>6. checkpoint' \in [Contracts -> Nat \cup {NoCheckpoint}]
    <2>1. CASE PersistCheckpoint(h)
      <3>1. Ledger(event[h]) \in Nat
        BY <1>3, EventFields
      <3>2. QED
        BY <1>1, <2>1, <3>1 DEF TypeOK, PersistCheckpoint
    <2>2. CASE UNCHANGED checkpoint
      BY <1>1, <2>2 DEF TypeOK
    <2>3. QED
      BY <2>1, <2>2 DEF HandlerStep, Check, Apply, FailRetryably, FailForGood,
         Look, Record, RecordFails, DeleteFailed, DatabaseUnchanged
  <1>7. unrecorded' \subseteq Events
    BY <1>1, <1>3 DEF TypeOK, HandlerStep, Check, Apply, FailRetryably,
       FailForGood, Look, Record, RecordFails, DeleteFailed, PersistCheckpoint,
       history
  <1>8. UNCHANGED <<stream, reset, wasReset, disruptions>>
    BY DEF HandlerStep, Check, Apply, FailRetryably, FailForGood, Look, Record,
       RecordFails, DeleteFailed, PersistCheckpoint, DatabaseUnchanged, history
  <1>9. QED
    BY <1>1, <1>2, <1>4, <1>5, <1>6, <1>7, <1>8
       DEF TypeOK, HandlerTypes, stream

\* Every step of the listener, the replay and the admin route keeps the types.
LEMMA NextType == IInv /\ [PNext]_vars => TypeOK'
  <1> SUFFICES ASSUME IInv, [PNext]_vars PROVE TypeOK'
    OBVIOUS
  <1>1. TypeOK /\ HandlerTypes
    BY DEF IInv, TypeOK, HandlerTypes
  <1>2. PositionAt(startLedger) \in 0 .. Len(Chain)
    BY <1>1, PositionBelow DEF TypeOK
  <1>3. CASE Start
    <2>1. startLedger' \in Nat
      BY <1>1, <1>3, EffectiveStartType DEF Start, TypeOK
    <2>2. position' \in 0 .. Len(Chain)
      BY <1>3, <2>1, PositionBelow DEF Start
    <2>3. QED
      BY <1>1, <1>3, <2>1, <2>2 DEF Start, TypeOK, rows, handler, history
  <1>4. CASE Reconnect
    BY <1>1, <1>2, <1>4, PipelineAssumption
       DEF Reconnect, Disrupt, TypeOK, rows, handler, history
  <1>5. CASE RequestStop
    BY <1>1, <1>5, PipelineAssumption
       DEF RequestStop, Disrupt, TypeOK, rows, handler, history
  <1>6. CASE Exit
    <2>1. HandlerTypes'
      BY <1>6, PipelineAssumption DEF Exit, HandlerTypes
    <2>2. disruptions' \in 0 .. MaxDisruptions
      BY <1>1, <1>6, PipelineAssumption DEF Exit, Disrupt, TypeOK
    <2>3. startLedger' \in Nat /\ position' \in 0 .. Len(Chain)
      BY <1>6, PipelineAssumption, EventFields DEF Exit
    <2>4. running' \in BOOLEAN /\ shutdownRequested' \in BOOLEAN
      BY <1>6 DEF Exit
    <2>5. UNCHANGED <<rows, failedEvents, checkpoint, reset, history>>
      BY <1>6 DEF Exit
    <2>6. QED
      BY <1>1, <2>1, <2>2, <2>3, <2>4, <2>5
         DEF TypeOK, HandlerTypes, rows, history
  <1>7. CASE Ignore
    <2>1. position + 1 \in Events
      BY <1>1, <1>7, EventFields DEF Ignore, TypeOK
    <2>2. QED
      BY SMTT(20), <1>1, <1>7, <2>1, EventFields DEF Ignore, TypeOK, rows, handler
  <1>8. ASSUME NEW h \in Handlers, Deliver(h) PROVE TypeOK'
    <2>1. position + 1 \in Events /\ position' = position + 1
      BY <1>1, <1>8, EventFields DEF Deliver, TypeOK
    <2>2. HandlerTypes'
      BY <1>1, <1>8, <2>1, HandlerStepsType DEF Deliver
    <2>3. QED
      BY SMTT(20), <1>1, <1>8, <2>1, <2>2, EventFields
         DEF Deliver, TypeOK, HandlerTypes, rows, history
  <1>9. ASSUME NEW h \in Handlers, HandlerStep(h) PROVE TypeOK'
    BY <1>9, HandlerStepType
  <1>10. ASSUME NEW h \in Handlers, NEW e \in Events, Reprocess(h, e)
         PROVE  TypeOK'
    <2>1. HandlerTypes'
      BY <1>1, <1>10, HandlerStepsType DEF Reprocess
    <2>2. QED
      BY <1>1, <1>10, <2>1, PipelineAssumption
         DEF Reprocess, Disrupt, TypeOK, HandlerTypes, rows, stream, history
  <1>11. ASSUME NEW c \in Contracts, NEW l \in Ledgers, NEW f \in BOOLEAN,
                AskReset(c, l, f)
         PROVE  TypeOK'
    <2>1. l \in Nat
      BY PipelineAssumption, EventFields DEF Ledgers
    <2>2. QED
      BY <1>1, <1>11, <2>1, PipelineAssumption
         DEF AskReset, Disrupt, TypeOK, rows, stream, handler, history
  <1>12. CASE WriteReset
    BY <1>1, <1>12 DEF WriteReset, TypeOK, rows, stream, handler
  <1>13. CASE UNCHANGED vars
    BY <1>1, <1>13 DEF vars, TypeOK, rows, stream, handler, history
  <1>14. QED
    BY <1>3, <1>4, <1>5, <1>6, <1>7, <1>8, <1>9, <1>10, <1>11, <1>12, <1>13
       DEF PNext

\* A handler that does not move stays in order while others commit, record
\* and remove.
LEMMA HandlerFrame ==
    ASSUME TypeOK, NEW g \in Handlers, HandlerOK(g),
           pc'[g] = pc[g], event'[g] = event[g],
           processed \subseteq processed',
           \A e \in Events : failedEvents[e] > 0 =>
               failedEvents'[e] > 0 \/ e \in processed
    PROVE  HandlerOK(g)'
  BY DEF HandlerOK, Busy

\* What a step of a handler leaves alone, and what it only adds to.
LEMMA HandlerStepEffect ==
    ASSUME IInv, NEW h \in Handlers, HandlerStep(h)
    PROVE  /\ Busy(h) /\ event[h] \in Events
           /\ UNCHANGED stream
           /\ processed \subseteq processed'
           /\ Apply(h) => event[h] \in processed'
           /\ unrecorded \subseteq unrecorded'
           /\ \A e \in Events : failedEvents[e] > 0 =>
                  failedEvents'[e] > 0 \/ e \in processed
           /\ \A g \in Handlers \ {h} : pc'[g] = pc[g] /\ event'[g] = event[g]
  <1>1. TypeOK /\ HandlerTypes /\ HandlerOK(h)
    BY DEF IInv, TypeOK, HandlerTypes, HandlersOK
  <1>2. Busy(h) /\ event[h] \in Events
    BY <1>1 DEF HandlerStep, Check, Apply, FailRetryably, FailForGood, Look,
                Record, RecordFails, DeleteFailed, PersistCheckpoint,
                HandlerOK, Busy
  <1>3. /\ processed \subseteq processed'
        /\ Apply(h) => event[h] \in processed'
    BY <1>1, <1>2, TakeType DEF HandlerStep, Check, Apply, FailRetryably,
       FailForGood, Look, Record, RecordFails, DeleteFailed, PersistCheckpoint,
       DatabaseUnchanged, rows
  <1>4. \A e \in Events : failedEvents[e] > 0 =>
            failedEvents'[e] > 0 \/ e \in processed
    <2>1. CASE Record(h)
      BY <1>1, <1>2, <2>1 DEF Record, TypeOK
    <2>2. CASE DeleteFailed(h)
      BY <1>1, <1>2, <2>2 DEF DeleteFailed, TypeOK, HandlerOK
    <2>3. CASE UNCHANGED failedEvents
      BY <2>3
    <2>4. QED
      BY <2>1, <2>2, <2>3 DEF HandlerStep, Check, Apply, FailRetryably,
         FailForGood, Look, RecordFails, PersistCheckpoint, DatabaseUnchanged
  <1>5. \A g \in Handlers \ {h} : pc'[g] = pc[g] /\ event'[g] = event[g]
    BY <1>1 DEF HandlerTypes, HandlerStep, Check, Apply, FailRetryably,
       FailForGood, Look, Record, RecordFails, DeleteFailed,
       PersistCheckpoint, Finish, Succeed, RetryOrGiveUp
  <1>6. UNCHANGED stream /\ unrecorded \subseteq unrecorded'
    BY DEF HandlerStep, Check, Apply, FailRetryably, FailForGood, Look, Record,
       RecordFails, DeleteFailed, PersistCheckpoint, history
  <1>7. QED
    BY <1>2, <1>3, <1>4, <1>5, <1>6

\* A handler's own step leaves every handler in order.
LEMMA HandlerStepOK ==
    ASSUME IInv, NEW h \in Handlers, HandlerStep(h)
    PROVE  HandlersOK'
  <1>1. TypeOK /\ HandlerTypes /\ HandlersOK
    BY DEF IInv, TypeOK, HandlerTypes
  <1>2. event[h] \in Events /\ processed \subseteq processed'
    BY HandlerStepEffect
  <1>3. \A g \in Handlers \ {h} : HandlerOK(g)'
    BY <1>1, HandlerStepEffect, HandlerFrame DEF HandlersOK
  <1>4. CASE Check(h) \/ Apply(h) \/ FailRetryably(h)
    <2>1. event'[h] = event[h]
      BY <1>4 DEF Check, Apply, FailRetryably
    <2>2. /\ pc'[h] # "update"
          /\ pc'[h] \in {"delete", "checkpoint"} => event[h] \in processed'
      BY <1>1, <1>2, <1>4, HandlerStepEffect
         DEF HandlerTypes, Check, Apply, FailRetryably, Succeed, RetryOrGiveUp
    <2>3. HandlerOK(h)'
      BY <1>2, <2>1, <2>2 DEF HandlerOK, Busy
    <2>4. QED
      BY <1>3, <2>3 DEF HandlersOK
  <1>5. CASE Look(h)
    <2>1. HandlerOK(h)'
      BY <1>1, <1>2, <1>5 DEF Look, HandlerTypes, HandlerOK, Busy,
         DatabaseUnchanged, rows
    <2>2. QED
      BY <1>3, <2>1 DEF HandlersOK
  <1>6. CASE \/ FailForGood(h) \/ Record(h) \/ RecordFails(h)
             \/ DeleteFailed(h) \/ PersistCheckpoint(h)
    <2>1. pc'[h] = "idle"
      BY <1>1, <1>6 DEF HandlerTypes, FailForGood, Record, RecordFails,
         DeleteFailed, PersistCheckpoint, Finish
    <2>2. HandlerOK(h)'
      BY <2>1 DEF HandlerOK, Busy
    <2>3. QED
      BY <1>3, <2>2 DEF HandlersOK
  <1>7. QED
    BY <1>4, <1>5, <1>6 DEF HandlerStep

\* Every step preserves the invariant.
LEMMA NextIInv == IInv /\ [PNext]_vars => IInv'
  <1> SUFFICES ASSUME IInv, [PNext]_vars PROVE IInv'
    OBVIOUS
  <1>1. TypeOK /\ HandlerTypes /\ HandlersOK
    BY DEF IInv, TypeOK, HandlerTypes
  <1>2. HandlersOK'
    <2>1. ASSUME NEW h \in Handlers, NEW e \in Events, NEW b \in BOOLEAN,
                 Begin(h, e, b), UNCHANGED <<processed, failedEvents>>
          PROVE  HandlersOK'
      <3>1. HandlerOK(h)'
        BY <1>1, <2>1 DEF Begin, HandlerTypes, HandlerOK, Busy
      <3>2. ASSUME NEW g \in Handlers \ {h}
            PROVE  HandlerOK(g)'
        <4>1. pc'[g] = pc[g] /\ event'[g] = event[g]
          BY <1>1, <2>1 DEF Begin, HandlerTypes
        <4>2. QED
          BY <1>1, <2>1, <4>1 DEF HandlersOK, HandlerOK, Busy
      <3>3. QED
        BY <3>1, <3>2 DEF HandlersOK
    <2>2. ASSUME NEW h \in Handlers, Deliver(h) PROVE HandlersOK'
      <3>1. position + 1 \in Events
        BY <1>1, <2>2, EventFields DEF Deliver, TypeOK
      <3>2. QED
        BY <2>1, <2>2, <3>1 DEF Deliver, rows
    <2>3. ASSUME NEW h \in Handlers, NEW e \in Events, Reprocess(h, e)
          PROVE  HandlersOK'
      BY <2>1, <2>3 DEF Reprocess, rows
    <2>4. ASSUME NEW h \in Handlers, HandlerStep(h) PROVE HandlersOK'
      BY <2>4, HandlerStepOK
    <2>5. CASE Exit
      BY <2>5 DEF Exit, HandlersOK, HandlerOK, Busy
    <2>6. CASE UNCHANGED <<pc, event, processed, failedEvents>>
      BY <1>1, <2>6 DEF HandlersOK, HandlerOK, Busy
    <2>7. QED
      BY <2>2, <2>3, <2>4, <2>5, <2>6
         DEF PNext, vars, Start, Reconnect, RequestStop, Ignore, AskReset,
             WriteReset, rows, handler
  <1>3. QED
    BY <1>2, NextType DEF IInv

\* The invariant holds in every reachable state.
LEMMA PipelineInvariant == PSpec => []IInv
  BY InitIInv, NextIInv, PTL DEF PSpec

\* Every variable has its type, for every chain, set of contracts, number of
\* handlers and bound on retries.
THEOREM PipelineTypeCorrect == PSpec => []TypeOK
  <1>1. IInv => TypeOK
    BY DEF IInv
  <1>2. QED
    BY <1>1, PipelineInvariant, PTL

-----------------------------------------------------------------------------
(* What every step does to the rows *)

\* The rows change in the commit of a handler and nowhere else; every commit
\* is counted and the event it commits was not processed before.
LEMMA RowsStep ==
    ASSUME IInv, [PNext]_vars
    PROVE  \/ UNCHANGED <<rows, applied>>
           \/ \E e \in Events :
                  /\ Take(e)
                  /\ applied' = [applied EXCEPT ![e] = @ + 1]
                  /\ UNCHANGED <<checkpoint, wasReset, failedEvents>>
  <1>1. ASSUME NEW h \in Handlers, Apply(h)
        PROVE  /\ event[h] \in Events
               /\ Take(event[h])
               /\ applied' = [applied EXCEPT ![event[h]] = @ + 1]
               /\ UNCHANGED <<checkpoint, wasReset, failedEvents>>
    BY <1>1 DEF Apply, IInv, HandlersOK, HandlerOK, Busy
  <1>2. ASSUME ~ \E h \in Handlers : Apply(h)
        PROVE  UNCHANGED <<rows, applied>>
    BY <1>2 DEF PNext, vars, HandlerStep, Start, Reconnect, RequestStop, Exit,
       Ignore, Deliver, Check, FailRetryably, FailForGood, Look, Record,
       RecordFails, DeleteFailed, PersistCheckpoint, Reprocess, AskReset,
       WriteReset, DatabaseUnchanged, history, rows
  <1>3. QED
    BY <1>1, <1>2

\* The pipeline implements the projection: whatever the stream redelivers and
\* the handlers retry, replay or lose in a crash, each step takes one event
\* that was not taken before, or shows nothing in the database
\* (docs/horizon-listener.md:58).
THEOREM PipelineImplementsProjection == PSpec => ProjectionImplemented
  <1>1. PInit => Init
    BY DEF PInit
  <1>2. IInv /\ [PNext]_vars => [Next]_rows
    <2> SUFFICES ASSUME IInv, [PNext]_vars PROVE [Next]_rows
      OBVIOUS
    <2>1. QED
      BY RowsStep DEF Next
  <1>3. QED
    BY <1>1, <1>2, PipelineInvariant, PTL DEF PSpec, Spec, ProjectionImplemented

\* The effects of an event are committed as often as its id is marked, so at
\* most once, and its outbox entry exists exactly then.
THEOREM EffectsCommittedOnce == PSpec => []AppliedOnce
  <1>1. PInit => AppliedOnce
    BY DEF PInit, Init, AppliedOnce
  <1>2. IInv /\ AppliedOnce /\ [PNext]_vars => AppliedOnce'
    <2> SUFFICES ASSUME IInv, AppliedOnce, [PNext]_vars PROVE AppliedOnce'
      OBVIOUS
    <2>1. CASE UNCHANGED <<rows, applied>>
      BY <2>1 DEF rows, AppliedOnce
    <2>2. ASSUME NEW e \in Events, Take(e),
                 applied' = [applied EXCEPT ![e] = @ + 1]
          PROVE  AppliedOnce'
      <3>1. applied \in [Events -> Nat] /\ applied[e] = 0
        BY <2>2 DEF IInv, TypeOK, AppliedOnce, Take
      <3>2. applied'[e] = 1 /\ \A f \in Events \ {e} : applied'[f] = applied[f]
        BY <2>2, <3>1
      <3>3. /\ processed' = processed \cup {e}
            /\ outbox' = IF Chain[e].kind \in VAULT_LIFECYCLE_EVENTS
                         THEN outbox \cup {e} ELSE outbox
        BY <2>2 DEF Take, Effect
      <3>4. e \notin processed /\ e \notin outbox
        BY <2>2 DEF Take, AppliedOnce
      <3>5. QED
        BY <3>2, <3>3, <3>4 DEF AppliedOnce
    <2>3. QED
      BY <2>1, <2>2, RowsStep
  <1>3. QED
    BY <1>1, <1>2, PipelineInvariant, PTL DEF PSpec

\* No crash, redelivery or race lets a cursor point at a ledger of which
\* nothing was committed, unless an admin has set it.
THEOREM CheckpointsFollowCommits == PSpec => []CheckpointFollowsCommit
  <1>1. PInit => CheckpointFollowsCommit
    BY DEF PInit, CheckpointFollowsCommit
  <1>2. IInv /\ CheckpointFollowsCommit /\ [PNext]_vars
            => CheckpointFollowsCommit'
    <2> SUFFICES ASSUME IInv, CheckpointFollowsCommit, [PNext]_vars
                 PROVE  CheckpointFollowsCommit'
      OBVIOUS
    <2>1. processed \subseteq processed'
      BY RowsStep DEF rows, Take, Effect
    <2>2. ASSUME NEW h \in Handlers, PersistCheckpoint(h)
          PROVE  CheckpointFollowsCommit'
      <3>1. /\ event[h] \in processed
            /\ checkpoint \in [Contracts -> Nat \cup {NoCheckpoint}]
        BY <2>2 DEF IInv, TypeOK, HandlersOK, HandlerOK, PersistCheckpoint
      <3>2. \A c \in Contracts :
                \/ checkpoint'[c] = checkpoint[c]
                \/ /\ c = Chain[event[h]].contract
                   /\ checkpoint'[c] = Ledger(event[h])
        BY <2>2, <3>1 DEF PersistCheckpoint
      <3>3. UNCHANGED <<processed, wasReset>>
        BY <2>2 DEF PersistCheckpoint, rows, history
      <3>4. QED
        BY <3>1, <3>2, <3>3 DEF CheckpointFollowsCommit
    <2>3. CASE WriteReset
      <3>1. /\ \A c \in Contracts \ {reset.contract} :
                   checkpoint'[c] = checkpoint[c]
            /\ wasReset' = wasReset \cup {reset.contract}
            /\ UNCHANGED processed
        BY <2>3 DEF IInv, TypeOK, WriteReset, rows
      <3>2. QED
        BY <3>1 DEF CheckpointFollowsCommit
    <2>4. CASE UNCHANGED <<checkpoint, wasReset>>
      BY <2>1, <2>4 DEF CheckpointFollowsCommit
    <2>5. QED
      BY <2>2, <2>3, <2>4
         DEF PNext, vars, HandlerStep, Start, Reconnect, RequestStop, Exit,
             Ignore, Deliver, Check, Apply, FailRetryably, FailForGood, Look,
             Record, RecordFails, DeleteFailed, Reprocess, AskReset,
             DatabaseUnchanged, history
  <1>3. QED
    BY <1>1, <1>2, PipelineInvariant, PTL DEF PSpec

\* An ended vault is never brought back, in whatever order its events are
\* processed.
THEOREM EndedVaultsStayEnded == PSpec => LateCreationKeepsStatus
  <1>1. ASSUME IInv, [PNext]_vars, NEW v \in Vaults,
               vaults[v] \in {TerminalStatus[k] : k \in TerminalKinds}
        PROVE  vaults'[v] \notin {"none", "draft", "active"}
    <2>1. \A k \in TerminalKinds :
              TerminalStatus[k] \notin {"none", "draft", "active"}
      BY DEF TerminalKinds, TerminalStatus
    <2>2. ASSUME NEW e \in Events, Take(e)
          PROVE  vaults'[v] \notin {"none", "draft", "active"}
      <3>1. vaults \in [Vaults -> VaultStatus]
        BY <1>1 DEF IInv, TypeOK
      <3>2. CASE Chain[e].vault = v
        <4>1. vaults'[v] = VaultAfter(e)
          BY <2>2, <3>1, <3>2 DEF Take, Effect
        <4>2. VaultAfter(e) \in {TerminalStatus[k] : k \in TerminalKinds}
          BY <1>1, <2>1, <3>2 DEF VaultAfter
        <4>3. QED
          BY <2>1, <4>1, <4>2
      <3>3. CASE Chain[e].vault # v
        BY <1>1, <2>1, <2>2, <3>1, <3>3 DEF Take, Effect
      <3>4. QED
        BY <3>2, <3>3
    <2>3. CASE UNCHANGED rows
      BY <1>1, <2>1, <2>3 DEF rows
    <2>4. QED
      BY <1>1, <2>2, <2>3, RowsStep
  <1>2. IInv /\ [PNext]_vars =>
            [\A v \in Vaults :
                vaults[v] \in {TerminalStatus[k] : k \in TerminalKinds}
                    => vaults'[v] \notin {"none", "draft", "active"}]_vars
    BY <1>1
  <1>3. QED
    BY <1>2, PipelineInvariant, PTL DEF PSpec, LateCreationKeepsStatus

\* A dead letter is given up only for an event whose effects are committed.
THEOREM DeadLettersStay == PSpec => DeadLettersKept
  <1>1. ASSUME IInv, [PNext]_vars, NEW e \in Events,
               failedEvents'[e] < failedEvents[e]
        PROVE  e \in processed
    <2>1. failedEvents \in [Events -> Nat] /\ HandlersOK
      BY <1>1 DEF IInv, TypeOK
    <2>2. ASSUME NEW h \in Handlers, DeleteFailed(h)
          PROVE  e \in processed
      BY <1>1, <2>1, <2>2 DEF DeleteFailed, HandlersOK, HandlerOK
    <2>3. ASSUME NEW h \in Handlers, Record(h)
          PROVE  e \in processed
      BY <1>1, <2>1, <2>3 DEF Record
    <2>4. CASE UNCHANGED failedEvents
      BY <1>1, <2>1, <2>4
    <2>5. QED
      BY <1>1, <2>2, <2>3, <2>4
         DEF PNext, vars, HandlerStep, Start, Reconnect, RequestStop, Exit,
             Ignore, Deliver, Check, Apply, FailRetryably, FailForGood, Look,
             RecordFails, PersistCheckpoint, Reprocess, AskReset, WriteReset,
             DatabaseUnchanged
  <1>2. IInv /\ [PNext]_vars =>
            [\A e \in Events : failedEvents'[e] < failedEvents[e]
                => e \in processed]_vars
    BY <1>1
  <1>3. QED
    BY <1>2, PipelineInvariant, PTL DEF PSpec, DeadLettersKept

-----------------------------------------------------------------------------
(* No event goes missing while the listener is up *)

\* The three places an event of the current stream can be.
Traced(e) ==
    \/ e \in processed \cup unrecorded
    \/ failedEvents[e] > 0
    \/ \E h \in Handlers : Busy(h) /\ event[h] = e

\* A step of a handler does not lose track of an event.
LEMMA HandlerKeepsTrace ==
    ASSUME IInv, NEW h \in Handlers, HandlerStep(h), NEW e \in Events, Traced(e)
    PROVE  Traced(e)'
  <1>1. TypeOK /\ HandlerTypes /\ HandlerOK(h)
    BY DEF IInv, TypeOK, HandlerTypes, HandlersOK
  <1>2. CASE e \in processed \cup unrecorded \/ failedEvents[e] > 0
    BY <1>2, HandlerStepEffect DEF Traced
  <1>3. ASSUME NEW g \in Handlers \ {h}, Busy(g), event[g] = e
        PROVE  Traced(e)'
    BY <1>3, HandlerStepEffect DEF Traced, Busy
  <1>4. CASE event[h] = e
    <2>1. CASE \/ Check(h) \/ Apply(h) \/ FailRetryably(h) \/ Look(h)
      <3>1. pc'[h] # "idle" /\ event'[h] = e
        BY <1>1, <1>4, <2>1 DEF HandlerTypes, Check, Apply, FailRetryably,
           Look, Succeed, RetryOrGiveUp
      <3>2. QED
        BY <3>1 DEF Traced, Busy
    <2>2. CASE FailForGood(h) \/ RecordFails(h)
      BY <1>4, <2>2 DEF FailForGood, RecordFails, Traced
    <2>3. CASE Record(h)
      <3>1. e \in processed' \/ failedEvents'[e] > 0
        BY <1>1, <1>4, <2>3 DEF TypeOK, Record, HandlerOK, rows
      <3>2. QED
        BY <3>1 DEF Traced
    <2>4. CASE DeleteFailed(h) \/ PersistCheckpoint(h)
      BY <1>1, <1>4, <2>4
         DEF DeleteFailed, PersistCheckpoint, HandlerOK, Traced, rows
    <2>5. QED
      BY <2>1, <2>2, <2>3, <2>4 DEF HandlerStep
  <1>5. QED
    BY <1>2, <1>3, <1>4 DEF Traced

\* Every event delivered since the last start is accounted for, however many
\* handlers run and in whatever order they end.
THEOREM DeliveredEventsAccounted == PSpec => []Accounted
  <1>1. PInit => Accounted
    <2>1. PInit => position = 0
      BY DEF PInit
    <2>2. \A e \in Events : ~(e <= 0)
      BY EventFields
    <2>3. QED
      BY <2>1, <2>2 DEF Accounted
  <1>2. ASSUME IInv, Accounted, [PNext]_vars,
               NEW e \in Events, e <= position', Ledger(e) >= startLedger'
        PROVE  Traced(e)'
    <2>1. TypeOK /\ HandlerTypes /\ e \in Nat \ {0} /\ position \in Nat
      <3>1. TypeOK
        BY <1>2 DEF IInv
      <3>2. HandlerTypes
        BY <3>1 DEF TypeOK, HandlerTypes
      <3>3. position \in 0 .. Len(Chain) /\ Len(Chain) \in Nat
        BY <3>1, EventFields DEF TypeOK
      <3>4. e \in Nat \ {0}
        BY EventFields
      <3>5. QED
        BY <3>1, <3>2, <3>3, <3>4
    <2>2. e <= position /\ Ledger(e) >= startLedger => Traced(e)
      BY <1>2 DEF Accounted, Traced
    <2>3. ~Start
      <3>1. SUFFICES ASSUME Start PROVE FALSE
        OBVIOUS
      <3>2. startLedger' \in Nat /\ position' = PositionAt(startLedger')
        BY <2>1, <3>1, EffectiveStartType DEF Start, TypeOK
      <3>3. PositionAt(startLedger') \in Nat /\ PositionAt(startLedger') < e
        BY <1>2, <3>2, EventFields, PositionBelow
      <3>4. QED
        BY <1>2, <2>1, <3>2, <3>3
    <2>4. ~Reconnect
      <3>1. SUFFICES ASSUME Reconnect PROVE FALSE
        OBVIOUS
      <3>2. /\ startLedger \in Nat /\ startLedger' = startLedger
            /\ position' = PositionAt(startLedger)
        BY <2>1, <3>1 DEF Reconnect, TypeOK
      <3>3. PositionAt(startLedger) \in Nat /\ PositionAt(startLedger) < e
        BY <1>2, <3>2, EventFields, PositionBelow
      <3>4. QED
        BY <1>2, <2>1, <3>2, <3>3
    <2>5. ~Exit
      BY <1>2, <2>1 DEF Exit
    <2>6. CASE Ignore
      BY <1>2, <2>1, <2>2, <2>6
         DEF Ignore, rows, handler, Traced, Busy
    <2>7. ASSUME NEW h \in Handlers, Deliver(h) PROVE Traced(e)'
      <3>1. pc'[h] # "idle" /\ event'[h] = position + 1
        BY <2>1, <2>7 DEF HandlerTypes, Deliver, Begin
      <3>2. CASE e = position + 1
        BY <3>1, <3>2 DEF Traced, Busy
      <3>3. CASE e # position + 1
        <4>1. Traced(e)
          BY <1>2, <2>1, <2>2, <2>7, <3>3 DEF Deliver
        <4>2. /\ UNCHANGED <<processed, unrecorded, failedEvents>>
              /\ \A g \in Handlers : Busy(g) =>
                    pc'[g] = pc[g] /\ event'[g] = event[g]
          BY <2>1, <2>7 DEF HandlerTypes, Deliver, Begin, rows, history, Busy
        <4>3. QED
          BY <4>1, <4>2 DEF Traced, Busy
      <3>4. QED
        BY <3>2, <3>3
    <2>8. ASSUME NEW h \in Handlers, HandlerStep(h) PROVE Traced(e)'
      BY <1>2, <2>2, <2>8, HandlerStepEffect, HandlerKeepsTrace DEF stream
    <2>9. ASSUME NEW h \in Handlers, NEW f \in Events, Reprocess(h, f)
          PROVE  Traced(e)'
      <3>1. /\ UNCHANGED <<processed, unrecorded, failedEvents, stream>>
            /\ \A g \in Handlers : Busy(g) =>
                  pc'[g] = pc[g] /\ event'[g] = event[g]
        BY <2>1, <2>9 DEF HandlerTypes, Reprocess, Begin, rows, history, Busy
      <3>2. QED
        BY <1>2, <2>2, <3>1 DEF Traced, Busy, stream
    <2>10. CASE UNCHANGED <<processed, unrecorded, failedEvents, pc, event,
                            position, startLedger>>
      BY <1>2, <2>2, <2>10 DEF Traced, Busy
    <2>11. QED
      BY <1>2, <2>3, <2>4, <2>5, <2>6, <2>7, <2>8, <2>9, <2>10
         DEF PNext, vars, RequestStop, AskReset, WriteReset, rows, stream,
             handler, history
  <1>3. IInv /\ Accounted /\ [PNext]_vars => Accounted'
    BY <1>2 DEF Accounted, Traced
  <1>4. QED
    BY <1>1, <1>3, PipelineInvariant, PTL DEF PSpec
=============================================================================
