--------------------------- MODULE DeliveryProofs ---------------------------
(***************************************************************************)
(* TLAPS proofs about OutboxRelay, for any number of events, subscribers,  *)
(* deliveries and relay jobs and every threshold and limit of attempts:    *)
(* that it implements OutboxContract, that no delivery is lost, and that a *)
(* breaker has at most one probe; about WebhookSubscribers; about          *)
(* Notifications, for any vaults, checks, reminders, runs and minutes; and *)
(* about QuietHours, for any lengths of day and month and any zones.       *)
(***************************************************************************)
EXTENDS OutboxRelay, WebhookSubscribers, Notifications, QuietHours,
        FiniteSetTheorems, WellFoundedInduction, TLAPS

-----------------------------------------------------------------------------
(* The rows of the outbox *)

\* The first of the rows that are left to dispatch is one of them.
LEMMA OldestIn ==
    ASSUME NEW S \in SUBSET Events, S # {}
    PROVE  Oldest(S) \in S
  <1> DEFINE less == {p \in Nat \X Nat : p[1] < p[2]}
  <1>1. IsWellFoundedOn(less, Nat)
    BY NatLessThanWellFounded DEF OpToRel
  <1>2. \A k, l \in Nat : <<k, l>> \notin less => l <= k
    OBVIOUS
  <1>3. S \subseteq Nat
    BY RelayAssumption
  <1> HIDE DEF less
  <1>4. PICK l \in S : \A k \in S : <<k, l>> \notin less
    BY <1>1, <1>3, WFMin
  <1>5. \A k \in S : l <= k
    BY <1>2, <1>3, <1>4
  <1>6. QED
    BY <1>5 DEF Oldest

Transaction == [todo : SUBSET Events, failed : SUBSET Events,
                row : Events \cup {None},
                read : [Events -> 0 .. MaxAttempts] \cup {<<>>}]

RowTypes ==
    /\ outbox \subseteq Events /\ processed \subseteq outbox
    /\ attempts \in [Events -> 0 .. MaxAttempts]
    /\ run \in [Relays -> Transaction]

\* The rows that a transaction has locked.
Held(x) == x.todo \cup x.failed \cup ({x.row} \ {None})

\* It knows their attempts, and they are to be dispatched.
Claimed(x) ==
    \A e \in Held(x) :
        /\ e \in outbox \ processed
        /\ x.read[e] = attempts[e]
        /\ attempts[e] < MaxAttempts

RowInv ==
    /\ RowTypes
    /\ \A r \in Relays : Claimed(run[r])
    /\ \A r, q \in Relays : r # q => Held(run[r]) \cap Held(run[q]) = {}

LEMMA IdleHoldsNothing == Idle \in Transaction /\ Held(Idle) = {}
  BY DEF Idle, Transaction, Held

\* A transaction that goes on with no more rows than it had, or ends.
LEMMA RunGoesOn ==
    ASSUME RowInv, NEW r \in Relays, NEW x \in Transaction,
           run' = [run EXCEPT ![r] = x],
           Held(x) \subseteq Held(run[r]),
           Held(x) = {} \/ x.read = run[r].read,
           UNCHANGED rowVars
    PROVE  RowInv'
  <1>1. RowTypes'
    BY DEF RowInv, RowTypes, rowVars
  <1>2. run'[r] = x /\ \A q \in Relays \ {r} : run'[q] = run[q]
    BY DEF RowInv, RowTypes
  <1>3. Claimed(x)'
    BY DEF RowInv, Claimed, rowVars
  <1>4. \A q \in Relays \ {r} : Claimed(run[q])'
    <2> SUFFICES ASSUME NEW q \in Relays \ {r} PROVE Claimed(run[q])'
      OBVIOUS
    <2>1. run'[q] = run[q] /\ Claimed(run[q])
      BY <1>2 DEF RowInv
    <2>2. QED
      BY <2>1 DEF Claimed, rowVars
  <1>5. \A q \in Relays : Held(run'[q]) \subseteq Held(run[q])
    BY <1>2
  <1>6. \A q \in Relays : Claimed(run[q])'
    BY <1>2, <1>3, <1>4
  <1>7. QED
    BY <1>1, <1>5, <1>6 DEF RowInv

\* Transactions that lose their rows or keep what they have.
LEMMA RowsKept ==
    ASSUME RowInv, UNCHANGED rowVars,
           run' = run \/ run' = [r \in Relays |-> Idle]
    PROVE  RowInv'
  <1>1. CASE run' = run
    BY <1>1 DEF RowInv, RowTypes, Claimed, rowVars
  <1>2. CASE run' = [r \in Relays |-> Idle]
    BY <1>2, IdleHoldsNothing DEF RowInv, RowTypes, Claimed, rowVars
  <1>3. QED
    BY <1>1, <1>2

\* The rows locked are those that some transaction holds.
LEMMA LockedRows ==
    ASSUME NEW e \in Events, e \notin Locked, NEW r \in Relays
    PROVE  e \notin Held(run[r])
  BY DEF Locked, Held

\* Every step keeps the invariant of the rows.
LEMMA RowInvStep == RowInv /\ [Next]_vars => RowInv'
  <1> SUFFICES ASSUME RowInv, [Next]_vars PROVE RowInv'
    OBVIOUS
  <1>0. RowTypes /\ None \notin Events
    BY DeliveryAssumption DEF RowInv
  <1>1. ASSUME NEW e \in Events, Publish(e) PROVE RowInv'
    BY <1>1 DEF Publish, RowInv, RowTypes, Claimed
  <1>2. ASSUME NEW r \in Relays, Claim(r) PROVE RowInv'
    <2> DEFINE rows == {e \in outbox \ processed : attempts[e] < MaxAttempts} \ Locked
               x == [todo |-> rows, failed |-> {}, row |-> None, read |-> attempts]
    <2>1. run' = [run EXCEPT ![r] = x] /\ UNCHANGED rowVars
      BY <1>2 DEF Claim
    <2>2. x \in Transaction /\ Held(x) = rows /\ Claimed(x)
      BY <1>0 DEF Transaction, Held, Claimed, RowTypes
    <2>3. RowTypes'
      BY <1>0, <2>1, <2>2 DEF RowTypes, rowVars
    <2>4. run'[r] = x /\ \A q \in Relays \ {r} : run'[q] = run[q]
      BY <1>0, <2>1 DEF RowTypes
    <2>5. \A q \in Relays : rows \cap Held(run[q]) = {}
      <3>1. rows \subseteq Events
        BY <1>0 DEF RowTypes
      <3>2. QED
        BY <3>1, LockedRows
    <2> HIDE DEF rows, x
    <2>6. \A q \in Relays : Claimed(run[q])'
      <3>1. Claimed(run[r])'
        <4>1. UNCHANGED <<outbox, processed, attempts>>
          BY <2>1 DEF rowVars
        <4>2. \A e \in Held(run'[r]) :
                  /\ e \in outbox' \ processed'
                  /\ run'[r].read[e] = attempts'[e]
                  /\ attempts'[e] < MaxAttempts
          BY <2>2, <2>4, <4>1 DEF Claimed
        <4>3. QED
          BY <4>2 DEF Claimed
      <3>2. \A q \in Relays \ {r} : Claimed(run[q])'
        BY <2>1, <2>4 DEF RowInv, Claimed, rowVars
      <3>3. QED
        BY <3>1, <3>2
    <2>7. \A p, q \in Relays : p # q => Held(run'[p]) \cap Held(run'[q]) = {}
      BY <2>2, <2>4, <2>5 DEF RowInv
    <2>8. QED
      BY <2>3, <2>6, <2>7 DEF RowInv
  <1>3. ASSUME NEW r \in Relays, Dispatch(r) PROVE RowInv'
    <2> DEFINE e == Oldest(run[r].todo)
               x == [run[r] EXCEPT !.row = e, !.todo = @ \ {e}]
    <2>1. run' = [run EXCEPT ![r] = x] /\ UNCHANGED rowVars
      <3>1. /\ run' = [run EXCEPT ![r].row = e, ![r].todo = @ \ {e}]
            /\ UNCHANGED rowVars
        BY <1>3, Zenon DEF Dispatch
      <3>2. QED
        BY <3>1, <1>0 DEF RowTypes, Transaction
    <2>2. run[r] \in Transaction /\ e \in run[r].todo
      BY <1>0, <1>3, OldestIn DEF Dispatch, RowTypes, Transaction
    <2> HIDE DEF e
    <2>3. x \in Transaction /\ Held(x) \subseteq Held(run[r]) /\ x.read = run[r].read
      BY <1>0, <2>2 DEF Transaction, Held
    <2>4. QED
      BY <2>1, <2>3, RunGoesOn
  <1>4. ASSUME NEW r \in Relays, FindFails(r) PROVE RowInv'
    <2> DEFINE e == Oldest(run[r].todo)
               x == [run[r] EXCEPT !.todo = @ \ {e}, !.failed = @ \cup {e}]
    <2>1. run' = [run EXCEPT ![r] = x] /\ UNCHANGED rowVars
      BY <1>4 DEF FindFails
    <2>2. run[r] \in Transaction /\ e \in run[r].todo
      BY <1>0, <1>4, OldestIn DEF FindFails, RowTypes, Transaction
    <2> HIDE DEF e
    <2>3. x \in Transaction /\ Held(x) \subseteq Held(run[r]) /\ x.read = run[r].read
      BY <1>0, <2>2 DEF Transaction, Held
    <2>4. QED
      BY <2>1, <2>3, RunGoesOn
  <1>5. ASSUME NEW r \in Relays, DispatchRejects(r) PROVE RowInv'
    <2> DEFINE x == [run[r] EXCEPT !.row = None, !.failed = @ \cup {run[r].row}]
    <2>1. run' = [run EXCEPT ![r] = x] /\ run[r].row # None /\ UNCHANGED rowVars
      BY <1>5 DEF DispatchRejects
    <2>2. run[r] \in Transaction
      BY <1>0 DEF RowTypes
    <2>3. x \in Transaction /\ Held(x) \subseteq Held(run[r]) /\ x.read = run[r].read
      BY <1>0, <2>1, <2>2 DEF Transaction, Held
    <2>4. QED
      BY <2>1, <2>3, RunGoesOn
  <1>6. ASSUME NEW r \in Relays, DispatchResolves(r) \/ RollBack(r) PROVE RowInv'
    <2>1. run' = [run EXCEPT ![r] = Idle] /\ UNCHANGED rowVars
      BY <1>6 DEF DispatchResolves, RollBack
    <2>2. QED
      BY <2>1, IdleHoldsNothing, RunGoesOn
  <1>7. ASSUME NEW r \in Relays, Commit(r) PROVE RowInv'
    <2> DEFINE failed == run[r].failed
               count == [e \in Events |-> IF e \in failed THEN run[r].read[e] + 1
                                                          ELSE attempts[e]]
    <2>1. /\ attempts' = count
          /\ processed' = processed \cup {e \in failed : count[e] >= MaxAttempts}
          /\ outbox' = outbox
          /\ run' = [run EXCEPT ![r] = Idle]
      BY <1>7 DEF Commit
    <2>2. /\ failed \subseteq Held(run[r])
          /\ \A e \in failed : /\ e \in outbox \ processed
                               /\ run[r].read[e] = attempts[e]
                               /\ attempts[e] < MaxAttempts
      BY DEF RowInv, Claimed, Held
    <2>3. count \in [Events -> 0 .. MaxAttempts]
      <3>1. MaxAttempts \in Nat /\ attempts \in [Events -> 0 .. MaxAttempts]
        BY <1>0, RelayAssumption DEF RowTypes
      <3>2. \A e \in failed : run[r].read[e] + 1 \in 0 .. MaxAttempts
        BY <2>2, <3>1, <1>0 DEF RowTypes
      <3> HIDE DEF failed
      <3>3. QED
        BY <3>1, <3>2
    <2>4. RowTypes'
      BY <1>0, <2>1, <2>2, <2>3, IdleHoldsNothing DEF RowTypes
    <2>5. run'[r] = Idle /\ \A q \in Relays \ {r} : run'[q] = run[q]
      BY <1>0, <2>1 DEF RowTypes
    <2>6. \A q \in Relays \ {r} : Claimed(run[q])'
      <3> SUFFICES ASSUME NEW q \in Relays \ {r}, NEW e \in Held(run[q])
                   PROVE  /\ e \in outbox' \ processed'
                          /\ run[q].read[e] = attempts'[e]
                          /\ attempts'[e] < MaxAttempts
        BY <2>5 DEF Claimed
      <3>1. e \notin failed
        BY <2>2 DEF RowInv
      <3>2. /\ e \in outbox \ processed /\ run[q].read[e] = attempts[e]
            /\ attempts[e] < MaxAttempts
        BY DEF RowInv, Claimed
      <3>3. e \in Events
        BY <1>0, <3>2 DEF RowTypes
      <3>4. QED
        BY <2>1, <3>1, <3>2, <3>3
    <2>7. \A q \in Relays : Claimed(run[q])'
      BY <2>5, <2>6, IdleHoldsNothing DEF Claimed
    <2>8. \A p, q \in Relays : p # q => Held(run'[p]) \cap Held(run'[q]) = {}
      BY <2>5, IdleHoldsNothing DEF RowInv
    <2>9. QED
      BY <2>4, <2>7, <2>8 DEF RowInv
  <1>8. CASE UNCHANGED <<outbox, attempts, processed, run>>
    BY <1>8, RowsKept DEF rowVars
  <1>9. CASE Crash
    BY <1>9, RowsKept DEF Crash
  <1>10. QED
    BY <1>1, <1>2, <1>3, <1>4, <1>5, <1>6, <1>7, <1>8, <1>9
       DEF Next, Up, RelayStep, relayOnly, Abandoned, rowVars, vars

LEMMA RowInvInit == Init => RowInv
  BY RelayAssumption, IdleHoldsNothing DEF Init, RowInv, RowTypes, Claimed

THEOREM RowInvariant == Spec => []RowInv
  BY RowInvInit, RowInvStep, PTL DEF Spec

\* Every step of the relay is one that the contract of the outbox allows: a
\* row is published, or the failures of a batch are counted, each one once.
THEOREM RelayImplementsContract == Spec => OutboxImplemented
  <1>1. Init => Contract!ContractInit
    BY DEF Init, Contract!ContractInit
  <1>2. RowInv /\ [Next]_vars => [Contract!ContractNext]_(Contract!contractVars)
    <2> SUFFICES ASSUME RowInv, [Next]_vars
                 PROVE  [Contract!ContractNext]_(Contract!contractVars)
      OBVIOUS
    <2>1. ASSUME NEW e \in Events, Publish(e) PROVE Contract!PublishRow(e)
      BY <2>1 DEF Publish, Contract!PublishRow
    <2>2. ASSUME NEW r \in Relays, Commit(r)
          PROVE  Contract!CountFailures(run[r].failed) /\ run[r].failed \in SUBSET Events
      <3> DEFINE failed == run[r].failed
                 count == [e \in Events |-> IF e \in failed THEN run[r].read[e] + 1
                                                            ELSE attempts[e]]
      <3>1. /\ attempts' = count
            /\ processed' = processed \cup {e \in failed : count[e] >= MaxAttempts}
            /\ outbox' = outbox
        BY <2>2 DEF Commit
      <3>2. \A e \in failed : /\ e \in outbox \ processed
                              /\ run[r].read[e] = attempts[e]
                              /\ attempts[e] < MaxAttempts
        BY DEF RowInv, Claimed, Held
      <3>3. /\ outbox \subseteq Events /\ attempts \in [Events -> Nat]
            /\ MaxAttempts \in Nat
        BY RelayAssumption DEF RowInv, RowTypes
      <3> HIDE DEF failed
      <3>4. count = [e \in Events |-> attempts[e] + (IF e \in failed THEN 1 ELSE 0)]
        BY <3>2, <3>3
      <3>5. \A e \in failed : e \in Events /\ count[e] = attempts[e] + 1
        BY <3>2, <3>3
      <3>6. \A e \in failed : count[e] >= MaxAttempts <=> count[e] = MaxAttempts
        BY <3>2, <3>3, <3>5
      <3> HIDE DEF count
      <3>7. processed' = processed \cup {e \in failed : attempts'[e] = MaxAttempts}
        BY <3>1, <3>6
      <3>8. failed \subseteq outbox \ processed
        BY <3>2
      <3>9. QED
        BY <3>1, <3>3, <3>4, <3>7, <3>8 DEF Contract!CountFailures, failed
    <2>3. CASE UNCHANGED rowVars
      BY <2>3 DEF rowVars, Contract!contractVars
    <2>4. QED
      BY <2>1, <2>2, <2>3
         DEF Next, Up, RelayStep, relayOnly, Abandoned, Claim, Dispatch, FindFails,
             DispatchRejects, DispatchResolves, RollBack, Crash, rowVars, vars,
             Contract!ContractNext
  <1>3. QED
    BY <1>1, <1>2, RowInvariant, PTL DEF Spec, OutboxImplemented, Contract!ContractSpec

-----------------------------------------------------------------------------
(* The types of a delivery *)

DeliveryRecord == [at : Stage, event : Events \cup {None}, to : Subscribers \cup {None},
                   probe : BOOLEAN, seen : BreakerState \cup {None}, unsaved : BOOLEAN]
ReplayRecord == [sending : 0 .. MaxReplays, marking : 0 .. MaxReplays]

DeliveryTypes ==
    /\ cache \in [Subscribers -> BreakerState \cup {None}]
    /\ stored \in [Subscribers -> BreakerState \cup {None}]
    /\ probes \subseteq Subscribers /\ cooled \subseteq Subscribers
    /\ disturbed \subseteq Subscribers
    /\ delivery \in [Slots -> DeliveryRecord]
    /\ received \subseteq Pairs /\ replayed \subseteq Pairs
    /\ deadLetters \in [Pairs -> 0 .. MaxLetters]
    /\ replays \in [Pairs -> ReplayRecord]

\* A delivery has an event and a subscriber, and after loading the breaker it
\* has what it has seen, or the cache holds it.
StageOK(d) ==
    /\ ~At(d, "free") => delivery[d].event \in Events /\ To(d) \in Subscribers
    /\ delivery[d].at \in {"filling", "transition", "transitioned", "recordFailure"}
           => delivery[d].seen \in BreakerState
    /\ delivery[d].at \in {"transition", "transitioned", "sending", "recordSuccess",
                           "recordFailure"}
           => cache[To(d)] # None

StagesOK == \A d \in Slots : StageOK(d)

\* What one step of delivery d leaves alone, and what it can make of the rest.
Moves(d) ==
    /\ ~At(d, "free") /\ ~At(d, "free")'
    /\ delivery'[d] \in DeliveryRecord
    /\ delivery' = [delivery EXCEPT ![d] = delivery'[d]]
    /\ Pair(d)' = Pair(d) /\ To(d)' = To(d)
    /\ cache' \in [Subscribers -> BreakerState \cup {None}]
    /\ stored' \in [Subscribers -> BreakerState \cup {None}]
    /\ \A s \in Subscribers : cache[s] # None => cache'[s] # None
    /\ \A s \in Subscribers \ {To(d)} :
           /\ cache'[s] = cache[s] /\ stored'[s] = stored[s]
           /\ s \in probes' <=> s \in probes
           /\ s \in disturbed' <=> s \in disturbed
    /\ disturbed \subseteq disturbed'
    /\ StageOK(d)'

LEMMA ClosedState == Closed \in BreakerState /\ Closed # None
  BY DeliveryAssumption DEF Closed, BreakerState, Mode

\* recordBreakerFailure leaves a breaker in the cache and in its write.
LEMMA RecordFailureMoves ==
    ASSUME DeliveryTypes, StagesOK, NEW d \in Slots, NEW within \in BOOLEAN,
           delivery[d].at \in {"sending", "recordSuccess"},
           RecordFailure(d, within), UNCHANGED stored
    PROVE  Moves(d) /\ cooled' \subseteq Subscribers
  <1> DEFINE s == To(d)
             old == cache[s]
             failures == IF within /\ old.failures < Threshold THEN old.failures + 1
                         ELSE IF within THEN Threshold ELSE 1
             trips == failures >= Threshold
             new == [mode |-> IF trips THEN "OPEN" ELSE old.mode, failures |-> failures]
             written == [mode |-> IF trips THEN "OPEN" ELSE "CLOSED",
                         failures |-> failures]
  <1>1. /\ ~At(d, "free") /\ delivery[d] \in DeliveryRecord
        /\ delivery[d].event \in Events /\ s \in Subscribers /\ old \in BreakerState
    BY DEF DeliveryTypes, DeliveryRecord, StagesOK, StageOK, At, To
  <1>2. failures \in 0 .. Threshold
    BY <1>1, DeliveryAssumption DEF BreakerState
  <1>3. new \in BreakerState /\ written \in BreakerState
    BY <1>1, <1>2 DEF BreakerState, Mode
  <1>4. /\ cache' = [cache EXCEPT ![s] = new]
        /\ delivery' = [delivery EXCEPT ![d].at = "recordFailure", ![d].seen = written,
                                        ![d].probe = FALSE]
        /\ probes' = IF delivery[d].probe THEN probes \ {s} ELSE probes
        /\ disturbed' \in {disturbed, disturbed \cup {s}}
        /\ cooled' \in {cooled, cooled \ {s}}
    BY DEF RecordFailure, GotoWith, EndProbe, Disturbing
  <1> HIDE DEF new, written
  <1>5. /\ delivery'[d] = [delivery[d] EXCEPT !.at = "recordFailure", !.seen = written,
                                              !.probe = FALSE]
        /\ delivery' = [delivery EXCEPT ![d] = delivery'[d]]
    BY <1>1, <1>4 DEF DeliveryTypes, DeliveryRecord
  <1>6. delivery'[d] \in DeliveryRecord
    BY <1>1, <1>3, <1>5 DEF DeliveryRecord, Stage
  <1>7. /\ delivery'[d].at = "recordFailure" /\ delivery'[d].seen = written
        /\ delivery'[d].event = delivery[d].event /\ delivery'[d].to = s
    BY <1>1, <1>5 DEF DeliveryRecord, To
  <1>8. /\ cache' \in [Subscribers -> BreakerState \cup {None}]
        /\ cache'[s] = new /\ new # None
        /\ \A t \in Subscribers \ {s} : cache'[t] = cache[t]
    BY <1>1, <1>3, <1>4, DeliveryAssumption DEF DeliveryTypes
  <1>9. StageOK(d)'
    BY <1>1, <1>3, <1>7, <1>8 DEF StageOK, At, To
  <1>10. QED
    BY <1>1, <1>4, <1>5, <1>6, <1>7, <1>8, <1>9 DEF DeliveryTypes, Moves, At, To, Pair

\* The fields of a delivery after it has gone to another stage.
Became(d, stage, state, probe) ==
    /\ delivery'[d] \in DeliveryRecord
    /\ delivery' = [delivery EXCEPT ![d] = delivery'[d]]
    /\ delivery'[d].at = stage /\ delivery'[d].seen = state
    /\ delivery'[d].probe = probe /\ delivery'[d].unsaved = delivery[d].unsaved
    /\ delivery'[d].event = delivery[d].event /\ delivery'[d].to = delivery[d].to

LEMMA Becomes ==
    ASSUME DeliveryTypes, NEW d \in Slots, NEW stage \in Stage,
           NEW state \in BreakerState \cup {None}, NEW probe \in BOOLEAN,
           delivery' = [delivery EXCEPT ![d].at = stage, ![d].seen = state,
                                        ![d].probe = probe]
    PROVE  Became(d, stage, state, probe)
  <1>1. delivery[d] \in DeliveryRecord
    BY DEF DeliveryTypes
  <1> DEFINE x == [delivery[d] EXCEPT !.at = stage, !.seen = state, !.probe = probe]
  <1>2. delivery' = [delivery EXCEPT ![d] = x]
    BY <1>1 DEF DeliveryTypes, DeliveryRecord
  <1>3. /\ x \in DeliveryRecord
        /\ x.at = stage /\ x.seen = state /\ x.probe = probe
        /\ x.unsaved = delivery[d].unsaved
        /\ x.event = delivery[d].event /\ x.to = delivery[d].to
    BY <1>1 DEF DeliveryRecord
  <1> HIDE DEF x
  <1>4. delivery'[d] = x
    BY <1>2 DEF DeliveryTypes
  <1>5. QED
    BY <1>2, <1>3, <1>4 DEF Became

LEMMA SeenAfter ==
    ASSUME DeliveryTypes, NEW d \in Slots, NEW stage, NEW state,
           GotoWith(d, stage, state)
    PROVE  delivery'[d].seen = state
  <1>1. delivery[d] \in DeliveryRecord
    BY DEF DeliveryTypes
  <1> DEFINE x == [delivery[d] EXCEPT !.at = stage, !.seen = state, !.probe = FALSE]
  <1>2. delivery' = [delivery EXCEPT ![d] = x]
    BY <1>1 DEF DeliveryTypes, DeliveryRecord, GotoWith
  <1>3. x.seen = state
    BY <1>1 DEF DeliveryRecord
  <1> HIDE DEF x
  <1>4. QED
    BY <1>2, <1>3 DEF DeliveryTypes

\* The stage of a delivery after each way to change it.
LEMMA StageAfter ==
    ASSUME DeliveryTypes, NEW d \in Slots
    PROVE  /\ \A stage : Goto(d, stage) => delivery'[d].at = stage
           /\ \A stage, state : GotoWith(d, stage, state) => delivery'[d].at = stage
           /\ StartProbe(d) => delivery'[d].at = "sending"
           /\ \A within : RecordFailure(d, within) => delivery'[d].at = "recordFailure"
  <1>1. ASSUME NEW stage, NEW state, NEW probe,
               delivery' = [delivery EXCEPT ![d].at = stage, ![d].seen = state,
                                            ![d].probe = probe]
        PROVE  delivery'[d].at = stage
    <2>1. delivery[d] \in DeliveryRecord
      BY DEF DeliveryTypes
    <2> DEFINE x == [delivery[d] EXCEPT !.at = stage, !.seen = state, !.probe = probe]
    <2>2. delivery' = [delivery EXCEPT ![d] = x]
      BY <1>1, <2>1 DEF DeliveryTypes, DeliveryRecord
    <2>3. x.at = stage
      BY <2>1 DEF DeliveryRecord
    <2> HIDE DEF x
    <2>4. QED
      BY <2>2, <2>3 DEF DeliveryTypes
  <1>2. \A stage : Goto(d, stage) => delivery'[d].at = stage
    BY <1>1, Zenon DEF Goto
  <1>3. \A stage, state : GotoWith(d, stage, state) => delivery'[d].at = stage
    BY <1>1, Zenon DEF GotoWith
  <1>4. StartProbe(d) => delivery'[d].at = "sending"
    BY <1>1, Zenon DEF StartProbe
  <1>5. \A within : RecordFailure(d, within) => delivery'[d].at = "recordFailure"
    BY <1>3, Zenon DEF RecordFailure
  <1>6. QED
    BY <1>2, <1>3, <1>4, <1>5

\* checkBreaker buries, sends, probes or goes on to the transition.
LEMMA ConsultMoves ==
    ASSUME DeliveryTypes, NEW d \in Slots, NEW state \in BreakerState,
           ~At(d, "free"), Consult(d, state)
    PROVE  \/ Became(d, "sending", None, FALSE) /\ probes' = probes /\ state.mode = "CLOSED"
           \/ Became(d, "bury", None, FALSE) /\ probes' = probes
           \/ Became(d, "transition", state, FALSE) /\ probes' = probes
           \/ /\ Became(d, "sending", None, TRUE) /\ probes' = probes \cup {To(d)}
              /\ To(d) \notin probes /\ state.mode = "HALF_OPEN"
  <1>1. CASE Goto(d, "sending") /\ probes' = probes /\ state.mode = "CLOSED"
    BY <1>1, Becomes DEF Goto, Stage
  <1>2. CASE Goto(d, "bury") /\ probes' = probes
    BY <1>2, Becomes DEF Goto, Stage
  <1>3. CASE GotoWith(d, "transition", state) /\ probes' = probes
    BY <1>3, Becomes DEF GotoWith, Stage
  <1>4. CASE StartProbe(d) /\ To(d) \notin probes /\ state.mode = "HALF_OPEN"
    BY <1>4, Becomes DEF StartProbe, Stage
  <1>5. QED
    BY <1>1, <1>2, <1>3, <1>4 DEF Consult

\* A step of a delivery moves that delivery and the breaker of its subscriber.
LEMMA StepMoves ==
    ASSUME DeliveryTypes, StagesOK, NEW d \in Slots, DeliveryStep(d)
    PROVE  Moves(d) /\ cooled' \subseteq Subscribers
  <1>1. \A stage \in Stage \ {"free"} : At(d, stage) =>
            /\ ~At(d, "free") /\ delivery[d] \in DeliveryRecord
            /\ delivery[d].event \in Events /\ To(d) \in Subscribers
    BY DEF DeliveryTypes, StagesOK, StageOK, At, Stage
  <1> DEFINE s == To(d)
             Kept == cache' = cache /\ stored' = stored /\ UNCHANGED <<probes, cooled, disturbed>>
  <1>2. ASSUME NEW stage \in {"bury", "done", "rejected"}, ~At(d, "free"),
               Became(d, stage, None, FALSE), s \in Subscribers, Kept,
               delivery[d].event \in Events
        PROVE  Moves(d) /\ cooled' \subseteq Subscribers
    BY <1>2 DEF Moves, Became, DeliveryTypes, StageOK, At, To, Pair
  <1>3. CASE Load(d)
    <2>1. /\ At(d, "start") /\ ~At(d, "free") /\ s \in Subscribers
          /\ delivery[d].event \in Events
          /\ UNCHANGED <<cache, stored, cooled, disturbed>>
      BY <1>1, <1>3 DEF Load, Stage
    <2>2. CASE cache[s] # None /\ Consult(d, cache[s])
      <3>1. cache[s] \in BreakerState
        BY <2>1, <2>2 DEF DeliveryTypes
      <3>2. \/ Became(d, "sending", None, FALSE) /\ probes' = probes
            \/ Became(d, "bury", None, FALSE) /\ probes' = probes
            \/ Became(d, "transition", cache[s], FALSE) /\ probes' = probes
            \/ Became(d, "sending", None, TRUE) /\ probes' = probes \cup {s}
        BY <2>1, <2>2, <3>1, ConsultMoves
      <3>3. QED
        BY <2>1, <2>2, <3>1, <3>2 DEF Moves, Became, DeliveryTypes, StageOK, At, To, Pair
    <2>3. CASE GotoWith(d, "filling", IF stored[s] = None THEN Closed ELSE stored[s])
               /\ probes' = probes
      <3> DEFINE state == IF stored[s] = None THEN Closed ELSE stored[s]
      <3>1. state \in BreakerState
        BY <2>1, ClosedState DEF DeliveryTypes
      <3> HIDE DEF state
      <3>2. Became(d, "filling", state, FALSE)
        BY <2>3, <3>1, Becomes DEF GotoWith, Stage, state
      <3>3. QED
        BY <2>1, <2>3, <3>1, <3>2 DEF Moves, Became, DeliveryTypes, StageOK, At, To, Pair
    <2>4. CASE Goto(d, "rejected") /\ probes' = probes
      <3>1. Became(d, "rejected", None, FALSE)
        BY <2>4, Becomes DEF Goto, Stage
      <3>2. QED
        BY <1>2, <2>1, <2>4, <3>1
    <2>5. QED
      BY <1>3, <2>2, <2>3, <2>4 DEF Load
  <1>4. CASE Fill(d)
    <2> DEFINE state == delivery[d].seen
    <2>1. /\ At(d, "filling") /\ ~At(d, "free") /\ s \in Subscribers
          /\ delivery[d].event \in Events /\ state \in BreakerState
          /\ UNCHANGED <<stored, cooled>>
          /\ cache' = [cache EXCEPT ![s] = state]
          /\ disturbed' \in {disturbed, disturbed \cup {s}}
          /\ Consult(d, state)
      BY <1>1, <1>4 DEF Fill, Stage, StagesOK, StageOK, At
    <2> HIDE DEF state
    <2>2. /\ cache' \in [Subscribers -> BreakerState \cup {None}]
          /\ cache'[s] = state /\ state # None
          /\ \A t \in Subscribers \ {s} : cache'[t] = cache[t]
      BY <2>1, DeliveryAssumption DEF DeliveryTypes
    <2>3. \/ Became(d, "sending", None, FALSE) /\ probes' = probes
          \/ Became(d, "bury", None, FALSE) /\ probes' = probes
          \/ Became(d, "transition", state, FALSE) /\ probes' = probes
          \/ Became(d, "sending", None, TRUE) /\ probes' = probes \cup {s}
      BY <2>1, ConsultMoves
    <2>4. QED
      BY <2>1, <2>2, <2>3 DEF Moves, Became, DeliveryTypes, StageOK, At, To, Pair
  <1>5. CASE TryTransition(d)
    <2>1. /\ At(d, "transition") /\ ~At(d, "free") /\ s \in Subscribers
          /\ delivery[d].event \in Events /\ delivery[d].seen \in BreakerState
          /\ cache[s] # None
          /\ UNCHANGED <<cache, probes, cooled, disturbed>>
      BY <1>1, <1>5 DEF TryTransition, Stage, StagesOK, StageOK, At
    <2>2. CASE /\ StoredOpen(s)
               /\ stored' = [stored EXCEPT ![s].mode = "HALF_OPEN"]
               /\ GotoWith(d, "transitioned", delivery[d].seen)
      <3>1. Became(d, "transitioned", delivery[d].seen, FALSE)
        BY <2>1, <2>2, Becomes DEF GotoWith, Stage
      <3>2. /\ stored' \in [Subscribers -> BreakerState \cup {None}]
            /\ \A t \in Subscribers \ {s} : stored'[t] = stored[t]
        BY <2>1, <2>2 DEF DeliveryTypes, StoredOpen, BreakerState, Mode
      <3>3. QED
        BY <2>1, <3>1, <3>2 DEF Moves, Became, DeliveryTypes, StageOK, At, To, Pair
    <2>3. CASE Goto(d, "bury") /\ stored' = stored
      BY <1>2, <2>1, <2>3, Becomes DEF Goto, Stage
    <2>4. CASE Goto(d, "rejected") /\ stored' = stored
      BY <1>2, <2>1, <2>4, Becomes DEF Goto, Stage
    <2>5. QED
      BY <1>5, <2>2, <2>3, <2>4 DEF TryTransition
  <1>6. CASE EnterHalfOpen(d)
    <2> DEFINE state == [delivery[d].seen EXCEPT !.mode = "HALF_OPEN"]
    <2>1. /\ At(d, "transitioned") /\ ~At(d, "free") /\ s \in Subscribers
          /\ delivery[d].event \in Events /\ delivery[d].seen \in BreakerState
          /\ UNCHANGED <<stored, cooled, disturbed>>
          /\ cache' = [cache EXCEPT ![s] = state]
          /\ StartProbe(d)
      BY <1>1, <1>6 DEF EnterHalfOpen, Stage, StagesOK, StageOK, At
    <2>2. state \in BreakerState
      BY <2>1 DEF BreakerState, Mode
    <2> HIDE DEF state
    <2>3. /\ cache' \in [Subscribers -> BreakerState \cup {None}]
          /\ cache'[s] = state /\ state # None
          /\ \A t \in Subscribers \ {s} : cache'[t] = cache[t]
      BY <2>1, <2>2, DeliveryAssumption DEF DeliveryTypes
    <2>4. Became(d, "sending", None, TRUE) /\ probes' = probes \cup {s}
      BY <2>1, Becomes DEF StartProbe, Stage
    <2>5. QED
      BY <2>1, <2>3, <2>4 DEF Moves, Became, DeliveryTypes, StageOK, At, To, Pair
  <1>7. CASE Succeed(d)
    <2>1. /\ At(d, "sending") /\ ~At(d, "free") /\ s \in Subscribers
          /\ delivery[d] \in DeliveryRecord
          /\ delivery[d].event \in Events
          /\ UNCHANGED <<stored, cooled>>
          /\ cache' = [cache EXCEPT ![s] = Closed]
          /\ probes' \in {probes, probes \ {s}}
          /\ disturbed' \in {disturbed, disturbed \cup {s}}
          /\ delivery' = [delivery EXCEPT ![d].at = "recordSuccess"]
      BY <1>1, <1>7 DEF Succeed, Stage, EndProbe, Disturbing
    <2>2. /\ cache' \in [Subscribers -> BreakerState \cup {None}]
          /\ cache'[s] = Closed
          /\ \A t \in Subscribers \ {s} : cache'[t] = cache[t]
      BY <2>1, ClosedState DEF DeliveryTypes
    <2>3. /\ delivery'[d] = [delivery[d] EXCEPT !.at = "recordSuccess"]
          /\ delivery' = [delivery EXCEPT ![d] = delivery'[d]]
      BY <2>1 DEF DeliveryTypes
    <2>4. /\ delivery'[d] \in DeliveryRecord
          /\ delivery'[d].at = "recordSuccess"
          /\ delivery'[d].event = delivery[d].event /\ delivery'[d].to = s
      BY <2>1, <2>3 DEF DeliveryRecord, Stage, To
    <2>5. QED
      BY <2>1, <2>2, <2>3, <2>4, ClosedState DEF Moves, DeliveryTypes, StageOK, At, To, Pair
  <1>8. CASE StoreSuccess(d)
    <2>1. /\ At(d, "recordSuccess") /\ ~At(d, "free") /\ s \in Subscribers
          /\ delivery[d].event \in Events /\ cache[s] # None
      BY <1>1, <1>8 DEF StoreSuccess, Stage, StagesOK, StageOK, At
    <2>2. CASE /\ stored' = [stored EXCEPT ![s] = Closed]
               /\ Goto(d, "done")
               /\ UNCHANGED <<cache, probes, cooled, disturbed>>
      <3>1. Became(d, "done", None, FALSE)
        BY <2>2, Becomes DEF Goto, Stage
      <3>2. /\ stored' \in [Subscribers -> BreakerState \cup {None}]
            /\ \A t \in Subscribers \ {s} : stored'[t] = stored[t]
        BY <2>1, <2>2, ClosedState DEF DeliveryTypes
      <3>3. QED
        BY <2>1, <2>2, <3>1, <3>2 DEF Moves, Became, DeliveryTypes, StageOK, At, To, Pair
    <2>3. CASE \E within \in BOOLEAN : RecordFailure(d, within) /\ UNCHANGED stored
      BY <2>1, <2>3, RecordFailureMoves DEF At
    <2>4. QED
      BY <1>8, <2>2, <2>3 DEF StoreSuccess
  <1>9. CASE Fail(d)
    BY <1>9, RecordFailureMoves DEF Fail, At
  <1>10. CASE StoreFailure(d)
    <2>1. /\ At(d, "recordFailure") /\ ~At(d, "free") /\ s \in Subscribers
          /\ delivery[d].event \in Events /\ delivery[d].seen \in BreakerState
          /\ UNCHANGED <<cache, probes, cooled, disturbed>>
      BY <1>1, <1>10 DEF StoreFailure, Stage, StagesOK, StageOK, At
    <2>2. CASE stored' = [stored EXCEPT ![s] = delivery[d].seen] /\ Goto(d, "bury")
      <3>1. Became(d, "bury", None, FALSE)
        BY <2>2, Becomes DEF Goto, Stage
      <3>2. /\ stored' \in [Subscribers -> BreakerState \cup {None}]
            /\ \A t \in Subscribers \ {s} : stored'[t] = stored[t]
        BY <2>1, <2>2 DEF DeliveryTypes
      <3>3. QED
        BY <2>1, <3>1, <3>2 DEF Moves, Became, DeliveryTypes, StageOK, At, To, Pair
    <2>3. CASE Goto(d, "rejected") /\ stored' = stored
      BY <1>2, <2>1, <2>3, Becomes DEF Goto, Stage
    <2>4. QED
      BY <1>10, <2>2, <2>3 DEF StoreFailure
  <1>11. CASE Bury(d)
    <2>1. /\ At(d, "bury") /\ ~At(d, "free") /\ s \in Subscribers
          /\ delivery[d] \in DeliveryRecord /\ delivery[d].event \in Events
          /\ UNCHANGED <<cache, stored, probes, cooled, disturbed>>
      BY <1>1, <1>11 DEF Bury, Stage, breaker
    <2>2. CASE Goto(d, "done")
      BY <1>2, <2>1, <2>2, Becomes DEF Goto, Stage
    <2>3. CASE delivery' = [delivery EXCEPT ![d].at = "done", ![d].unsaved = TRUE]
      <3>1. /\ delivery'[d] = [delivery[d] EXCEPT !.at = "done", !.unsaved = TRUE]
            /\ delivery' = [delivery EXCEPT ![d] = delivery'[d]]
        BY <2>1, <2>3 DEF DeliveryTypes
      <3>2. /\ delivery'[d] \in DeliveryRecord /\ delivery'[d].at = "done"
            /\ delivery'[d].event = delivery[d].event /\ delivery'[d].to = s
        BY <2>1, <3>1 DEF DeliveryRecord, Stage, To
      <3>3. QED
        BY <2>1, <3>1, <3>2 DEF Moves, DeliveryTypes, StageOK, At, To, Pair
    <2>4. QED
      BY <1>11, <2>2, <2>3 DEF Bury
  <1>12. QED
    BY <1>3, <1>4, <1>5, <1>6, <1>7, <1>8, <1>9, <1>10, <1>11 DEF DeliveryStep

-----------------------------------------------------------------------------
(* What the steps of the relay and of the replays do to the deliveries *)

\* Deliveries that have ended are freed, and free ones begin.
Swaps ==
    /\ UNCHANGED <<cache, stored, probes, disturbed>>
    /\ delivery' \in [Slots -> DeliveryRecord]
    /\ \A d \in Slots :
           \/ delivery'[d] = delivery[d]
           \/ /\ delivery[d].at \in {"free", "done", "rejected"}
              /\ delivery'[d].at \in {"free", "start"}
              /\ delivery'[d].at = "start" =>
                     delivery'[d].event \in Events /\ delivery'[d].to \in Subscribers

LEMMA FreeRecord == Free \in DeliveryRecord /\ Free.at = "free"
  BY DEF Free, DeliveryRecord, Stage

LEMMA ReleaseSwaps ==
    ASSUME DeliveryTypes, NEW D \in SUBSET Slots, Release(D),
           \A d \in D : delivery[d].at \in {"free", "done", "rejected"},
           UNCHANGED <<cache, stored, probes, disturbed>>
    PROVE  Swaps
  BY FreeRecord DEF Release, Swaps, DeliveryTypes

\* A dispatch begins a delivery in free slots only.
LEMMA DispatchSwaps ==
    ASSUME DeliveryTypes, RowTypes, NEW r \in Relays, Dispatch(r)
    PROVE  Swaps
  <1> DEFINE e == Oldest(run[r].todo)
             free == {d \in Slots : At(d, "free")}
  <1>1. PICK slot \in [SubscribersOf[e] -> free] :
            delivery' = [d \in Slots |->
                IF \E s \in SubscribersOf[e] : slot[s] = d
                THEN [Free EXCEPT !.at = "start", !.event = e,
                        !.to = CHOOSE s \in SubscribersOf[e] : slot[s] = d]
                ELSE delivery[d]]
    BY Zenon DEF Dispatch
  <1>2. e \in Events /\ SubscribersOf[e] \subseteq Subscribers
    <2>1. run[r].todo \in SUBSET Events /\ run[r].todo # {}
      <3>1. run[r] \in Transaction
        BY DEF RowTypes
      <3>2. run[r].todo # {}
        BY Zenon DEF Dispatch
      <3>3. QED
        BY <3>1, <3>2 DEF Transaction
    <2>2. e \in Events
      BY <2>1, OldestIn
    <2>3. QED
      BY <2>2, RelayAssumption
  <1>3. UNCHANGED <<cache, stored, probes, disturbed>>
    <2>1. UNCHANGED breaker
      BY Zenon DEF Dispatch
    <2>2. QED
      BY <2>1 DEF breaker
  <1> HIDE DEF e
  <1>4. ASSUME NEW d \in Slots
        PROVE  \/ delivery'[d] = delivery[d] /\ delivery'[d] \in DeliveryRecord
               \/ /\ delivery[d].at = "free" /\ delivery'[d] \in DeliveryRecord
                  /\ delivery'[d].at = "start"
                  /\ delivery'[d].event \in Events /\ delivery'[d].to \in Subscribers
    <2>1. CASE \E s \in SubscribersOf[e] : slot[s] = d
      <3> DEFINE t == CHOOSE s \in SubscribersOf[e] : slot[s] = d
      <3>1. t \in SubscribersOf[e] /\ slot[t] = d
        BY <2>1
      <3>2. t \in Subscribers /\ delivery[d].at = "free"
        BY <1>2, <3>1 DEF At
      <3>3. delivery'[d] = [Free EXCEPT !.at = "start", !.event = e, !.to = t]
        BY <1>1, <2>1
      <3> HIDE DEF t
      <3>4. QED
        BY <1>2, <3>2, <3>3 DEF Free, DeliveryRecord, Stage
    <2>2. CASE ~\E s \in SubscribersOf[e] : slot[s] = d
      BY <1>1, <2>2 DEF DeliveryTypes
    <2>3. QED
      BY <2>1, <2>2
  <1>5. delivery' = [d \in Slots |-> delivery'[d]]
    BY <1>1, Zenon
  <1>6. delivery' \in [Slots -> DeliveryRecord]
    BY <1>4, <1>5
  <1>7. QED
    BY <1>3, <1>4, <1>6 DEF Swaps

\* Every step is one of a delivery, of the relay or of a replay, or the end of
\* the process.
LEMMA StepKinds ==
    ASSUME DeliveryTypes, RowTypes, [Next]_vars
    PROVE  \/ \E d \in Slots : DeliveryStep(d)
           \/ /\ Swaps
              /\ \/ UNCHANGED <<received, letters, cooled>>
                 \/ \E s \in Subscribers : CoolDown(s)
                 \/ \E p \in Pairs : ReplayStep(p) /\ UNCHANGED cooled
           \/ LoseProcess
  <1>1. ASSUME NEW r \in Relays, Dispatch(r)
        PROVE  Swaps /\ UNCHANGED <<received, letters, cooled>>
    <2>1. UNCHANGED <<breaker, received, letters>>
      BY <1>1, Zenon DEF Dispatch
    <2>2. QED
      BY <1>1, <2>1, DispatchSwaps DEF breaker
  <1>2. ASSUME NEW r \in Relays, DispatchRejects(r) \/ DispatchResolves(r)
        PROVE  Swaps /\ UNCHANGED <<received, letters, cooled>>
    <2>1. CASE DispatchRejects(r)
      BY <1>2, <2>1, ReleaseSwaps DEF DispatchRejects, Owned, breaker
    <2>2. CASE DispatchResolves(r)
      BY <1>2, <2>2, ReleaseSwaps DEF DispatchResolves, Owned, At, breaker
    <2>3. QED
      BY <1>2, <2>1, <2>2
  <1>3. ASSUME NEW d \in Slots, Abandoned(d)
        PROVE  Swaps /\ UNCHANGED <<received, letters, cooled>>
    BY <1>3, ReleaseSwaps DEF Abandoned, breaker
  <1>4. CASE UNCHANGED deliveryVars
    BY <1>4 DEF Swaps, DeliveryTypes, deliveryVars, letters
  <1>5. ASSUME NEW s \in Subscribers, CoolDown(s) PROVE Swaps
    BY <1>5 DEF Swaps, DeliveryTypes, CoolDown
  <1>6. ASSUME NEW p \in Pairs, ReplayStep(p) PROVE Swaps /\ UNCHANGED cooled
    BY <1>6 DEF Swaps, DeliveryTypes, ReplayStep, StartReplay, SendReplay,
                MarkReplayed, breaker
  <1>7. \/ UNCHANGED deliveryVars
        \/ \E r \in Relays : Dispatch(r) \/ DispatchRejects(r) \/ DispatchResolves(r)
        \/ \E d \in Slots : DeliveryStep(d) \/ Abandoned(d)
        \/ \E s \in Subscribers : CoolDown(s)
        \/ \E p \in Pairs : ReplayStep(p)
        \/ LoseProcess
    <2>1. CASE UNCHANGED vars
      BY <2>1 DEF vars, deliveryVars
    <2>2. CASE Crash
      BY <2>2 DEF Crash
    <2>3. CASE Up
      BY <2>3 DEF Up, RelayStep, Publish, Claim, FindFails, Commit, RollBack
    <2>4. QED
      BY <2>1, <2>2, <2>3 DEF Next
  <1>8. QED
    BY <1>1, <1>2, <1>3, <1>4, <1>5, <1>6, <1>7 DEF deliveryVars, letters

-----------------------------------------------------------------------------
(* Type correctness *)

ReplaysBounded == \A p \in Pairs : replays[p].sending + replays[p].marking <= MaxReplays

DInv == DeliveryTypes /\ StagesOK /\ ReplaysBounded

\* A step of a delivery buries a letter, and only Bury does.
LEMMA LettersOfStep ==
    ASSUME NEW d \in Slots, DeliveryStep(d)
    PROVE  /\ received' \in {received, received \cup {Pair(d)}}
           /\ \/ deadLetters' = deadLetters
              \/ deadLetters' = [deadLetters EXCEPT ![Pair(d)] =
                                    IF @ < MaxLetters THEN @ + 1 ELSE @]
           /\ UNCHANGED <<replayed, replays>>
  BY DEF DeliveryStep, Load, Fill, TryTransition, EnterHalfOpen, Succeed, StoreSuccess,
         Fail, StoreFailure, Bury, letters

LEMMA DInvInit == Init => DInv
  <1> SUFFICES ASSUME Init PROVE DInv
    OBVIOUS
  <1>1. DeliveryTypes
    BY FreeRecord, DeliveryAssumption
       DEF Init, DeliveryInit, DeliveryTypes, ReplayRecord
  <1>2. StagesOK
    BY FreeRecord DEF Init, DeliveryInit, StagesOK, StageOK, At
  <1>3. ReplaysBounded
    BY DeliveryAssumption DEF Init, DeliveryInit, ReplaysBounded
  <1>4. QED
    BY <1>1, <1>2, <1>3 DEF DInv

\* The steps of a replay keep their counts.
LEMMA ReplayTypes ==
    ASSUME DInv, NEW p \in Pairs, ReplayStep(p)
    PROVE  /\ received' \subseteq Pairs /\ replayed' \subseteq Pairs
           /\ deadLetters' \in [Pairs -> 0 .. MaxLetters]
           /\ replays' \in [Pairs -> ReplayRecord]
           /\ ReplaysBounded'
  <1>1. /\ deadLetters \in [Pairs -> 0 .. MaxLetters] /\ MaxLetters \in Nat
        /\ replays \in [Pairs -> ReplayRecord]
        /\ received \subseteq Pairs /\ replayed \subseteq Pairs
        /\ MaxReplays \in Nat
    BY DeliveryAssumption DEF DInv, DeliveryTypes
  <1>2. received' \subseteq Pairs /\ replayed' \subseteq Pairs
    BY <1>1 DEF ReplayStep, StartReplay, SendReplay, MarkReplayed
  <1>3. deadLetters' \in [Pairs -> 0 .. MaxLetters]
    BY <1>1 DEF ReplayStep, StartReplay, SendReplay, MarkReplayed
  <1>4. PICK x \in ReplayRecord :
            replays' = [replays EXCEPT ![p] = x] /\ x.sending + x.marking <= MaxReplays
    <2>1. /\ replays[p].sending \in 0 .. MaxReplays
          /\ replays[p].marking \in 0 .. MaxReplays
          /\ replays[p].sending + replays[p].marking <= MaxReplays
      BY <1>1 DEF DInv, ReplaysBounded, ReplayRecord
    <2> DEFINE a == [replays[p] EXCEPT !.sending = @ + 1]
               b == [sending |-> replays[p].sending - 1, marking |-> replays[p].marking + 1]
               c == [replays[p] EXCEPT !.sending = @ - 1]
               m == [replays[p] EXCEPT !.marking = @ - 1]
    <2>2. CASE StartReplay(p)
      <3>1. replays' = [replays EXCEPT ![p] = a]
        BY <1>1, <2>2 DEF StartReplay, ReplayRecord
      <3>2. a \in ReplayRecord /\ a.sending + a.marking <= MaxReplays
        BY <1>1, <2>1, <2>2 DEF StartReplay, ReplayRecord
      <3>3. QED
        BY <3>1, <3>2
    <2>3. CASE SendReplay(p)
      <3>1. replays' = [replays EXCEPT ![p] = b] \/ replays' = [replays EXCEPT ![p] = c]
        BY <1>1, <2>3 DEF SendReplay, ReplayRecord
      <3>2. /\ b \in ReplayRecord /\ b.sending + b.marking <= MaxReplays
            /\ c \in ReplayRecord /\ c.sending + c.marking <= MaxReplays
        <4>1. replays[p].sending > 0 /\ replays[p] \in ReplayRecord
          BY <1>1, <2>3 DEF SendReplay
        <4>2. /\ b \in ReplayRecord /\ b.sending = replays[p].sending - 1
              /\ b.marking = replays[p].marking + 1
          BY <1>1, <2>1, <4>1 DEF ReplayRecord
        <4>3. /\ c \in ReplayRecord /\ c.sending = replays[p].sending - 1
              /\ c.marking = replays[p].marking
          BY <1>1, <2>1, <4>1 DEF ReplayRecord
        <4> HIDE DEF b, c
        <4>4. QED
          BY <1>1, <2>1, <4>2, <4>3
      <3>3. QED
        BY <3>1, <3>2
    <2>4. CASE MarkReplayed(p)
      <3>1. replays' = [replays EXCEPT ![p] = m]
        BY <1>1, <2>4 DEF MarkReplayed, ReplayRecord
      <3>2. m \in ReplayRecord /\ m.sending + m.marking <= MaxReplays
        BY <1>1, <2>1, <2>4 DEF MarkReplayed, ReplayRecord
      <3>3. QED
        BY <3>1, <3>2
    <2>5. QED
      BY <2>2, <2>3, <2>4 DEF ReplayStep
  <1>5. QED
    BY <1>1, <1>2, <1>3, <1>4 DEF DInv, ReplaysBounded

LEMMA DInvStep == DInv /\ RowTypes /\ [Next]_vars => DInv'
  <1> SUFFICES ASSUME DInv, RowTypes, [Next]_vars PROVE DInv'
    OBVIOUS
  <1>0. DeliveryTypes /\ StagesOK /\ ReplaysBounded
    BY DEF DInv
  <1>1. ASSUME NEW d \in Slots, DeliveryStep(d) PROVE DInv'
    <2>1. Moves(d) /\ cooled' \subseteq Subscribers
      BY <1>0, <1>1, StepMoves
    <2>2. delivery[d].event \in Events /\ To(d) \in Subscribers /\ Pair(d) \in Pairs
      BY <1>0, <2>1 DEF Moves, StagesOK, StageOK, Pairs, Pair, To
    <2>3. /\ received' \subseteq Pairs
          /\ deadLetters' \in [Pairs -> 0 .. MaxLetters]
          /\ UNCHANGED <<replayed, replays>>
      BY <1>0, <1>1, <2>2, LettersOfStep, DeliveryAssumption DEF DeliveryTypes
    <2>4. delivery' \in [Slots -> DeliveryRecord]
          /\ \A c \in Slots \ {d} : delivery'[c] = delivery[c]
      BY <1>0, <2>1 DEF DeliveryTypes, Moves
    <2>5. probes' \subseteq Subscribers /\ disturbed' \subseteq Subscribers
      <3>1. /\ probes' \in {probes, probes \cup {To(d)}, probes \ {To(d)}}
            /\ disturbed' \in {disturbed, disturbed \cup {To(d)}}
        BY <1>1 DEF DeliveryStep, Load, Fill, TryTransition, EnterHalfOpen, Succeed,
                    StoreSuccess, Fail, StoreFailure, Bury, Consult, StartProbe, EndProbe,
                    RecordFailure, Disturbing, breaker
      <3>2. QED
        BY <1>0, <2>2, <3>1 DEF DeliveryTypes
    <2>6. StagesOK'
      <3> SUFFICES ASSUME NEW c \in Slots PROVE StageOK(c)'
        BY DEF StagesOK
      <3>1. CASE c = d
        BY <2>1, <3>1 DEF Moves
      <3>2. CASE c # d
        BY <1>0, <2>1, <2>4, <3>2 DEF StagesOK, StageOK, Moves, At, To
      <3>3. QED
        BY <3>1, <3>2
    <2>7. QED
      BY <1>0, <2>1, <2>3, <2>4, <2>5, <2>6 DEF DInv, DeliveryTypes, Moves, ReplaysBounded
  <1>2. CASE Swaps /\ UNCHANGED <<received, letters, cooled>>
    BY <1>0, <1>2 DEF DInv, Swaps, DeliveryTypes, StagesOK, StageOK, ReplaysBounded,
                      letters, At, To
  <1>3. ASSUME Swaps, NEW s \in Subscribers, CoolDown(s) PROVE DInv'
    BY <1>0, <1>3 DEF CoolDown, DInv, Swaps, DeliveryTypes, StagesOK, StageOK,
                      ReplaysBounded, letters, At, To
  <1>4. ASSUME Swaps, NEW p \in Pairs, ReplayStep(p), UNCHANGED cooled PROVE DInv'
    <2>1. StagesOK'
      BY <1>0, <1>4 DEF Swaps, StagesOK, StageOK, At, To
    <2>2. QED
      BY <1>0, <1>4, <2>1, ReplayTypes DEF DInv, Swaps, DeliveryTypes
  <1>5. CASE LoseProcess
    <2>1. DeliveryTypes'
      BY <1>0, <1>5, FreeRecord, DeliveryAssumption
         DEF LoseProcess, DeliveryTypes, ReplayRecord
    <2>2. StagesOK' /\ ReplaysBounded'
      BY <1>5, FreeRecord, DeliveryAssumption
         DEF LoseProcess, StagesOK, StageOK, At, ReplaysBounded
    <2>3. QED
      BY <2>1, <2>2 DEF DInv
  <1>6. QED
    BY <1>0, <1>1, <1>2, <1>3, <1>4, <1>5, StepKinds

THEOREM DeliveryInvariant == Spec => []DInv
  <1>1. RowInv => RowTypes
    BY DEF RowInv
  <1>2. QED
    BY <1>1, DInvInit, DInvStep, RowInvariant, PTL DEF Spec

\* Every variable of the relay keeps its type.
THEOREM RelayTypeCorrect == Spec => []TypeOK
  <1> DEFINE OwnerType == owner \in [Slots -> Relays \cup {None}]
  <1>1. Init => OwnerType
    BY DEF Init
  <1>2. OwnerType /\ [Next]_vars => OwnerType'
    <2> SUFFICES ASSUME OwnerType, [Next]_vars PROVE OwnerType'
      OBVIOUS
    <2>1. ASSUME NEW r \in Relays, Dispatch(r) PROVE OwnerType'
      <3>1. PICK D : owner' = [d \in Slots |-> IF d \in D THEN r ELSE owner[d]]
        <4> DEFINE e == Oldest(run[r].todo)
                   free == {d \in Slots : At(d, "free")}
        <4>1. PICK slot \in [SubscribersOf[e] -> free] :
                  owner' = [d \in Slots |-> IF \E s \in SubscribersOf[e] : slot[s] = d
                                            THEN r ELSE owner[d]]
          BY <2>1, Zenon DEF Dispatch
        <4> DEFINE D == {d \in Slots : \E s \in SubscribersOf[e] : slot[s] = d}
        <4>2. owner' = [d \in Slots |-> IF d \in D THEN r ELSE owner[d]]
          BY <4>1
        <4>3. QED
          BY <4>2
      <3>2. QED
        BY <3>1
    <2>2. ASSUME NEW r \in Relays, DispatchRejects(r) \/ DispatchResolves(r)
          PROVE  OwnerType'
      BY <2>2 DEF DispatchRejects, DispatchResolves
    <2>3. CASE Crash
      BY <2>3 DEF Crash
    <2>4. CASE UNCHANGED owner
      BY <2>4
    <2>5. QED
      BY <2>1, <2>2, <2>3, <2>4
         DEF Next, Up, RelayStep, relayOnly, Publish, Claim, FindFails, Commit, RollBack,
             Abandoned, vars
  <1>3. DInv /\ RowInv /\ OwnerType => TypeOK
    BY DEF DInv, DeliveryTypes, DeliveryRecord, ReplayRecord, RowInv, RowTypes,
           Transaction, TypeOK
  <1>4. QED
    BY <1>1, <1>2, <1>3, DeliveryInvariant, RowInvariant, PTL DEF Spec

-----------------------------------------------------------------------------
(* No delivery is lost *)

Kept(d) == \/ Pair(d) \in received \cup replayed
           \/ deadLetters[Pair(d)] > 0
           \/ delivery[d].unsaved

\* A success that waits to be stored, and a replay that waits to be marked, has
\* reached its subscriber.
LettersOK ==
    /\ NothingSilentlyLost
    /\ \A d \in Slots : At(d, "recordSuccess") => Pair(d) \in received
    /\ \A p \in Pairs : replays[p].marking > 0 => p \in received

LEMMA LettersInit == Init => LettersOK
  BY FreeRecord DEF Init, DeliveryInit, LettersOK, NothingSilentlyLost, At

\* What has been kept of a pair stays kept in every step of a replay.
LEMMA ReplaysKeep ==
    ASSUME DInv, LettersOK, NEW p \in Pairs, ReplayStep(p)
    PROVE  /\ received \subseteq received' /\ replayed \subseteq replayed'
           /\ replayed' \subseteq received'
           /\ \A q \in Pairs : deadLetters[q] > 0 => deadLetters'[q] > 0 \/ q \in replayed'
           /\ \A q \in Pairs : replays'[q].marking > 0 => q \in received'
  <1>1. /\ deadLetters \in [Pairs -> 0 .. MaxLetters] /\ MaxLetters \in Nat
        /\ replays \in [Pairs -> ReplayRecord]
        /\ \A q \in Pairs : replays[q].marking \in Nat
        /\ replayed \subseteq received
        /\ \A q \in Pairs : replays[q].marking > 0 => q \in received
    BY DeliveryAssumption
       DEF DInv, DeliveryTypes, ReplayRecord, LettersOK, NothingSilentlyLost
  <1>2. CASE StartReplay(p)
    <2>1. /\ \A q \in Pairs : replays'[q].marking = replays[q].marking
          /\ UNCHANGED <<received, replayed, deadLetters>>
      BY <1>1, <1>2 DEF StartReplay, ReplayRecord
    <2>2. QED
      BY <1>1, <2>1
  <1>3. CASE SendReplay(p)
    <2>1. /\ received \subseteq received' /\ UNCHANGED <<replayed, deadLetters>>
          /\ \A q \in Pairs : \/ replays'[q].marking = replays[q].marking
                              \/ q = p /\ p \in received'
      BY <1>1, <1>3 DEF SendReplay, ReplayRecord
    <2>2. QED
      BY <1>1, <2>1
  <1>4. CASE MarkReplayed(p)
    <2>1. /\ received' = received /\ replays[p].marking > 0
          /\ \A q \in Pairs : \/ replays'[q].marking = replays[q].marking
                              \/ q = p
      BY <1>1, <1>4 DEF MarkReplayed, ReplayRecord
    <2>2. \/ replayed' = replayed \cup {p} /\ \A q \in Pairs \ {p} : deadLetters'[q] = deadLetters[q]
          \/ replayed' \in {replayed, replayed \cup {p}} /\ deadLetters' = deadLetters
      BY <1>1, <1>4 DEF MarkReplayed
    <2>3. QED
      BY <1>1, <2>1, <2>2
  <1>5. QED
    BY <1>2, <1>3, <1>4 DEF ReplayStep

LEMMA LettersStep == LettersOK /\ DInv /\ RowTypes /\ [Next]_vars => LettersOK'
  <1> SUFFICES ASSUME LettersOK, DInv, RowTypes, [Next]_vars PROVE LettersOK'
    OBVIOUS
  <1>0. /\ DeliveryTypes /\ StagesOK /\ replayed \subseteq received
        /\ \A d \in Slots : At(d, "done") => Kept(d)
        /\ \A d \in Slots : At(d, "recordSuccess") => Pair(d) \in received
        /\ \A d \in Slots : ~At(d, "free") => Pair(d) \in Pairs
    BY DEF DInv, StagesOK, StageOK, Pairs, Pair, To, LettersOK, NothingSilentlyLost, Kept
  <1>1. ASSUME NEW d \in Slots, DeliveryStep(d) PROVE LettersOK'
    <2>1. Moves(d) /\ delivery[d] \in DeliveryRecord
      BY <1>0, <1>1, StepMoves DEF DeliveryTypes
    <2>2. /\ received \subseteq received' /\ UNCHANGED <<replayed, replays>>
          /\ \A q \in Pairs : deadLetters[q] > 0 => deadLetters'[q] > 0
      <3>1. deadLetters \in [Pairs -> 0 .. MaxLetters] /\ MaxLetters \in Nat
        BY <1>0, DeliveryAssumption DEF DeliveryTypes
      <3>2. QED
        BY <1>1, <3>1, LettersOfStep
    <2>3. ASSUME NEW c \in Slots \ {d}, At(c, "done")' \/ At(c, "recordSuccess")'
          PROVE  /\ At(c, "done")' => Kept(c)'
                 /\ At(c, "recordSuccess")' => Pair(c)' \in received'
      <3>1. delivery'[c] = delivery[c]
        BY <1>0, <2>1 DEF Moves, DeliveryTypes
      <3>2. Pair(c) \in Pairs
        BY <1>0, <2>3, <3>1 DEF At
      <3>3. QED
        BY <1>0, <2>2, <3>1, <3>2 DEF At, Kept, Pair
    <2>4. /\ At(d, "done")' => Kept(d)'
          /\ At(d, "recordSuccess")' => Pair(d)' \in received'
      <3>1. CASE Succeed(d)
        <4>1. delivery'[d].at = "recordSuccess" /\ Pair(d) \in received'
          BY <1>0, <2>1, <3>1 DEF Succeed, DeliveryTypes, DeliveryRecord
        <4>2. QED
          BY <2>1, <4>1 DEF Moves, At
      <3>2. CASE StoreSuccess(d)
        <4>1. Pair(d) \in received /\ delivery'[d].at \in {"done", "recordFailure"}
          BY <1>0, <3>2, StageAfter DEF StoreSuccess, At
        <4>2. QED
          BY <2>1, <2>2, <4>1 DEF Moves, At, Kept
      <3>3. CASE Bury(d)
        <4>1. At(d, "bury") /\ Pair(d) \in Pairs
          BY <1>0, <3>3 DEF Bury, At
        <4>2. delivery'[d].at = "done"
          BY <1>0, <2>1, <3>3 DEF Bury, Goto, DeliveryTypes, DeliveryRecord
        <4>3. CASE deadLetters' = [deadLetters EXCEPT ![Pair(d)] =
                                      IF @ < MaxLetters THEN @ + 1 ELSE @]
          <5>1. deadLetters[Pair(d)] \in 0 .. MaxLetters /\ MaxLetters \in Nat \ {0}
            BY <1>0, <4>1, DeliveryAssumption DEF DeliveryTypes
          <5>2. deadLetters'[Pair(d)] > 0
            BY <1>0, <4>1, <4>3, <5>1 DEF DeliveryTypes
          <5>3. QED
            BY <2>1, <4>2, <5>2 DEF Moves, At, Kept
        <4>4. CASE delivery' = [delivery EXCEPT ![d].at = "done", ![d].unsaved = TRUE]
          <5>1. delivery'[d].unsaved
            BY <1>0, <2>1, <4>4 DEF DeliveryTypes, DeliveryRecord
          <5>2. QED
            BY <4>2, <5>1 DEF At, Kept
        <4>5. QED
          BY <3>3, <4>3, <4>4 DEF Bury
      <3>4. CASE \/ Load(d) \/ Fill(d) \/ TryTransition(d) \/ EnterHalfOpen(d)
                 \/ Fail(d) \/ StoreFailure(d)
        <4>1. delivery'[d].at \notin {"done", "recordSuccess"}
          BY <1>0, <3>4, StageAfter
             DEF Load, Fill, TryTransition, EnterHalfOpen, Fail, StoreFailure, Consult
        <4>2. QED
          BY <4>1 DEF At
      <3>5. QED
        BY <1>1, <3>1, <3>2, <3>3, <3>4 DEF DeliveryStep
    <2>5. \A c \in Slots : /\ At(c, "done")' => Kept(c)'
                           /\ At(c, "recordSuccess")' => Pair(c)' \in received'
      BY <2>3, <2>4
    <2>6. QED
      BY <1>0, <2>2, <2>5 DEF LettersOK, NothingSilentlyLost, Kept
  <1>2. ASSUME Swaps,
               received \subseteq received', replayed \subseteq replayed',
               replayed' \subseteq received',
               \A q \in Pairs : deadLetters[q] > 0 => deadLetters'[q] > 0 \/ q \in replayed',
               \A q \in Pairs : replays'[q].marking > 0 => q \in received'
        PROVE  LettersOK'
    <2>1. ASSUME NEW c \in Slots, At(c, "done")' \/ At(c, "recordSuccess")'
          PROVE  /\ At(c, "done")' => Kept(c)'
                 /\ At(c, "recordSuccess")' => Pair(c)' \in received'
      <3>1. delivery'[c] = delivery[c] /\ Pair(c) \in Pairs
        BY <1>0, <1>2, <2>1 DEF Swaps, At
      <3>2. QED
        BY <1>0, <1>2, <3>1 DEF At, Kept, Pair
    <2>2. QED
      BY <1>2, <2>1 DEF LettersOK, NothingSilentlyLost, Kept
  <1>3. CASE LoseProcess
    BY <1>0, <1>3, FreeRecord DEF LoseProcess, LettersOK, NothingSilentlyLost, At
  <1>4. CASE Swaps /\ UNCHANGED <<received, letters>>
    BY <1>0, <1>2, <1>4 DEF letters, LettersOK
  <1>5. ASSUME Swaps, NEW s \in Subscribers, CoolDown(s) PROVE LettersOK'
    BY <1>4, <1>5 DEF CoolDown
  <1>6. ASSUME Swaps, NEW p \in Pairs, ReplayStep(p) PROVE LettersOK'
    BY <1>2, <1>6, ReplaysKeep
  <1>7. QED
    BY <1>0, <1>1, <1>3, <1>4, <1>5, <1>6, StepKinds

\* However deliveries, rejections, replays and crashes interleave, a delivery
\* that has ended is received, dead or replayed unless its letter was refused.
THEOREM NoDeliveryLost == Spec => []NothingSilentlyLost
  <1>1. RowInv => RowTypes
    BY DEF RowInv
  <1>2. LettersOK => NothingSilentlyLost
    BY DEF LettersOK
  <1>3. QED
    BY <1>1, <1>2, LettersInit, LettersStep, RowInvariant, DeliveryInvariant, PTL DEF Spec

-----------------------------------------------------------------------------
(* One probe *)

Is(s, mode) == cache[s] # None /\ cache[s].mode = mode
Answer(s) == IF stored[s] = None THEN Closed ELSE stored[s]

\* The four kinds of deliveries that matter to the breaker of s: those that
\* will fill its cache, that will write that it is open, that have made it
\* half-open, and that are its probe.
Filling(d, s) == At(d, "filling") /\ To(d) = s
Tripping(d, s) == At(d, "recordFailure") /\ To(d) = s /\ delivery[d].seen.mode = "OPEN"
Entering(d, s) == At(d, "transitioned") /\ To(d) = s
Probing(d, s) == At(d, "sending") /\ To(d) = s /\ delivery[d].probe

\* The row is open only while the cache is, and neither while a delivery enters
\* the half-open state or another is about to open the row.
BreakerOK(s) ==
    /\ StoredOpen(s) => cache[s] = None \/ Is(s, "OPEN")
    /\ \A d \in Slots :
           /\ Filling(d, s) => cache[s] # None \/ delivery[d].seen = Answer(s)
           /\ Tripping(d, s) => Is(s, "OPEN") /\ ~StoredOpen(s)
           /\ Entering(d, s) => Is(s, "OPEN") /\ ~StoredOpen(s)
           /\ Probing(d, s) => Is(s, "HALF_OPEN")
    /\ \A c, d \in Slots :
           /\ ~(Entering(c, s) /\ Tripping(d, s))
           /\ Tripping(c, s) /\ Tripping(d, s) => c = d
           /\ Entering(c, s) /\ Entering(d, s) => c = d
           /\ Probing(c, s) /\ Probing(d, s) => c = d
    /\ s \in probes <=> \E d \in Slots : Probing(d, s)

BreakersOK == \A s \in Subscribers \ disturbed : BreakerOK(s)

\* One of those kinds, or one that begins to fill the cache.
Matters(x, s) ==
    /\ x.to = s
    /\ \/ x.at = "transitioned"
       \/ x.at = "recordFailure" /\ x.seen.mode = "OPEN"
       \/ x.at = "sending" /\ x.probe

\* A step that changes nothing of a breaker nor of what matters to it.
LEMMA BreakerKept ==
    ASSUME NEW s \in Subscribers, BreakerOK(s),
           cache'[s] = cache[s], stored'[s] = stored[s], s \in probes' <=> s \in probes,
           \A d \in Slots :
               \/ delivery'[d] = delivery[d]
               \/ /\ ~Matters(delivery[d], s) /\ ~Matters(delivery'[d], s)
                  /\ delivery'[d].at # "filling"
    PROVE  BreakerOK(s)'
  <1>1. \A d \in Slots :
            /\ Filling(d, s)' => Filling(d, s) /\ delivery'[d] = delivery[d]
            /\ Tripping(d, s)' <=> Tripping(d, s)
            /\ Entering(d, s)' <=> Entering(d, s)
            /\ Probing(d, s)' <=> Probing(d, s)
    BY DEF Matters, Filling, Tripping, Entering, Probing, At, To
  <1>2. /\ StoredOpen(s)' <=> StoredOpen(s)
        /\ \A mode \in Mode : Is(s, mode)' <=> Is(s, mode)
        /\ Answer(s)' = Answer(s)
    BY DEF StoredOpen, Is, Answer
  <1>3. QED
    BY <1>1, <1>2 DEF BreakerOK, Mode

\* A step of delivery d, of subscriber s: what is left to show of the breaker.
LEMMA BreakerMoved ==
    ASSUME NEW s \in Subscribers, BreakerOK(s), NEW d \in Slots,
           \A c \in Slots \ {d} : delivery'[c] = delivery[c],
           cache'[s] # None,
           StoredOpen(s)' => Is(s, "OPEN")',
           ~Filling(d, s)',
           \A c \in Slots \ {d} :
               /\ Tripping(c, s) =>
                      Is(s, "OPEN")' /\ ~StoredOpen(s)' /\ ~Tripping(d, s)' /\ ~Entering(d, s)'
               /\ Entering(c, s) =>
                      Is(s, "OPEN")' /\ ~StoredOpen(s)' /\ ~Tripping(d, s)' /\ ~Entering(d, s)'
               /\ Probing(c, s) => Is(s, "HALF_OPEN")' /\ ~Probing(d, s)' /\ s \in probes',
           Tripping(d, s)' => Is(s, "OPEN")' /\ ~StoredOpen(s)',
           Entering(d, s)' => Is(s, "OPEN")' /\ ~StoredOpen(s)',
           Probing(d, s)' => Is(s, "HALF_OPEN")' /\ s \in probes',
           s \in probes' => Probing(d, s)' \/ \E c \in Slots \ {d} : Probing(c, s)
    PROVE  BreakerOK(s)'
  <1>1. \A c \in Slots \ {d} :
            /\ Tripping(c, s)' <=> Tripping(c, s)
            /\ Entering(c, s)' <=> Entering(c, s)
            /\ Probing(c, s)' <=> Probing(c, s)
    BY DEF Tripping, Entering, Probing, At, To
  <1>2. ~(Tripping(d, s)' /\ Entering(d, s)')
    BY DEF Tripping, Entering, At
  <1>3. \A b, c \in Slots :
            /\ ~(Entering(b, s) /\ Tripping(c, s))
            /\ Tripping(b, s) /\ Tripping(c, s) => b = c
            /\ Entering(b, s) /\ Entering(c, s) => b = c
            /\ Probing(b, s) /\ Probing(c, s) => b = c
    BY DEF BreakerOK
  <1>4. \A b, c \in Slots :
            /\ ~(Entering(b, s)' /\ Tripping(c, s)')
            /\ Tripping(b, s)' /\ Tripping(c, s)' => b = c
            /\ Entering(b, s)' /\ Entering(c, s)' => b = c
            /\ Probing(b, s)' /\ Probing(c, s)' => b = c
    BY <1>1, <1>2, <1>3
  <1>5. \A c \in Slots :
            /\ Tripping(c, s)' => Is(s, "OPEN")' /\ ~StoredOpen(s)'
            /\ Entering(c, s)' => Is(s, "OPEN")' /\ ~StoredOpen(s)'
            /\ Probing(c, s)' => Is(s, "HALF_OPEN")'
    BY <1>1
  <1>6. s \in probes' <=> \E c \in Slots : Probing(c, s)'
    BY <1>1
  <1>7. QED
    BY <1>4, <1>5, <1>6 DEF BreakerOK

LEMMA StoredOpenMode ==
    ASSUME DeliveryTypes, NEW s \in Subscribers
    PROVE  StoredOpen(s) <=> stored[s] # None /\ stored[s].mode = "OPEN"
  BY DeliveryAssumption DEF DeliveryTypes, StoredOpen, BreakerState, Mode

\* A delivery that ends where its breaker is closed, or as its probe, leaves no
\* other delivery that matters.
LEMMA EndOK ==
    ASSUME DInv, NEW d \in Slots, NEW s \in Subscribers, s = To(d), BreakerOK(s),
           delivery[d].at \in {"sending", "recordSuccess"},
           disturbed' = Disturbing(d), EndProbe(d), s \notin disturbed'
    PROVE  /\ Is(s, "CLOSED") \/ Is(s, "HALF_OPEN")
           /\ ~StoredOpen(s)
           /\ \A c \in Slots : ~Tripping(c, s) /\ ~Entering(c, s)
           /\ \A c \in Slots \ {d} : ~Probing(c, s)
           /\ s \notin probes'
  <1>1. cache[s] # None
    BY DEF DInv, StagesOK, StageOK, At, To
  <1>2. Is(s, "CLOSED") \/ (Probing(d, s) /\ Is(s, "HALF_OPEN"))
    BY <1>1 DEF Disturbing, ProbesOf, Probing, Is, BreakerOK, To
  <1>3. ~Is(s, "OPEN")
    BY <1>2 DEF Is
  <1>4. ~StoredOpen(s) /\ \A c \in Slots : ~Tripping(c, s) /\ ~Entering(c, s)
    BY <1>1, <1>3 DEF BreakerOK
  <1>5. CASE Probing(d, s)
    <2>1. \A c \in Slots \ {d} : ~Probing(c, s)
      BY <1>5 DEF BreakerOK
    <2>2. s \notin probes'
      BY <1>5 DEF EndProbe, Probing, To
    <2>3. QED
      BY <1>2, <1>4, <2>1, <2>2
  <1>6. CASE ~Probing(d, s)
    <2>1. \A c \in Slots : ~Probing(c, s)
      BY <1>2, <1>6 DEF Is, BreakerOK
    <2>2. s \notin probes
      BY <2>1 DEF BreakerOK
    <2>3. QED
      BY <1>2, <1>4, <2>1, <2>2 DEF EndProbe
  <1>7. QED
    BY <1>5, <1>6

LEMMA RecordFailureBreaker ==
    ASSUME DInv, NEW d \in Slots, NEW s \in Subscribers, s = To(d), BreakerOK(s),
           delivery[d].at \in {"sending", "recordSuccess"},
           NEW within \in BOOLEAN, RecordFailure(d, within), UNCHANGED stored,
           s \notin disturbed'
    PROVE  BreakerOK(s)'
  <1>1. /\ Is(s, "CLOSED") \/ Is(s, "HALF_OPEN")
        /\ ~StoredOpen(s)
        /\ \A c \in Slots : ~Tripping(c, s) /\ ~Entering(c, s)
        /\ \A c \in Slots \ {d} : ~Probing(c, s)
        /\ s \notin probes'
    <2>1. disturbed' = Disturbing(d) /\ EndProbe(d)
      BY DEF RecordFailure
    <2>2. QED
      BY <2>1, EndOK
  <1>2. /\ Moves(d) /\ DeliveryTypes
        /\ delivery'[d].at = "recordFailure"
    BY RecordFailureMoves, StageAfter DEF DInv
  <1>3. delivery'[d].seen.mode = "OPEN" => Is(s, "OPEN")'
    <2> DEFINE old == cache[s]
               failures == IF within /\ old.failures < Threshold THEN old.failures + 1
                           ELSE IF within THEN Threshold ELSE 1
               trips == failures >= Threshold
               new == [mode |-> IF trips THEN "OPEN" ELSE old.mode, failures |-> failures]
               written == [mode |-> IF trips THEN "OPEN" ELSE "CLOSED",
                           failures |-> failures]
    <2>1. /\ cache' = [cache EXCEPT ![s] = new]
          /\ GotoWith(d, "recordFailure", written)
      BY DEF RecordFailure
    <2>2. written.mode = "OPEN" => new.mode = "OPEN"
      OBVIOUS
    <2> HIDE DEF new, written
    <2>3. cache'[s] = new /\ cache'[s] # None
      BY <1>1, <1>2, <2>1 DEF DeliveryTypes, Moves, Is
    <2>4. delivery'[d].seen = written
      BY <1>2, <2>1, SeenAfter
    <2>5. QED
      BY <2>2, <2>3, <2>4 DEF Is
  <1>4. /\ \A c \in Slots \ {d} : delivery'[c] = delivery[c]
        /\ cache'[s] # None
        /\ ~StoredOpen(s)'
        /\ ~Filling(d, s)' /\ ~Entering(d, s)' /\ ~Probing(d, s)'
        /\ Tripping(d, s)' => Is(s, "OPEN")'
    BY <1>1, <1>2, <1>3
       DEF Moves, DeliveryTypes, StoredOpen, Filling, Entering, Probing, Tripping, At, To, Is
  <1>5. QED
    BY <1>1, <1>4, BreakerMoved

\* A step of a delivery keeps every breaker that it does not disturb.
LEMMA StepBreaker ==
    ASSUME DInv, NEW d \in Slots, DeliveryStep(d),
           NEW s \in Subscribers, BreakerOK(s), s \notin disturbed'
    PROVE  BreakerOK(s)'
  <1>0. /\ DeliveryTypes /\ Moves(d)
        /\ \A c \in Slots \ {d} : delivery'[c] = delivery[c]
        /\ delivery'[d].to = To(d)
    BY StepMoves DEF DInv, Moves, DeliveryTypes, To
  <1>1. CASE s # To(d)
    <2>1. ~Matters(delivery[d], s) /\ ~Matters(delivery'[d], s)
      BY <1>0, <1>1 DEF Matters, To
    <2>2. CASE delivery'[d].at = "filling"
      <3>1. \A c \in Slots :
                /\ Filling(c, s)' <=> Filling(c, s) /\ delivery'[c] = delivery[c]
                /\ Tripping(c, s)' <=> Tripping(c, s)
                /\ Entering(c, s)' <=> Entering(c, s)
                /\ Probing(c, s)' <=> Probing(c, s)
        BY <1>0, <1>1 DEF Filling, Tripping, Entering, Probing, At, To
      <3>2. /\ cache'[s] = cache[s] /\ stored'[s] = stored[s]
            /\ s \in probes' <=> s \in probes
        BY <1>0, <1>1 DEF Moves
      <3>3. QED
        BY <3>1, <3>2 DEF BreakerOK, StoredOpen, Is, Answer
    <2>3. CASE delivery'[d].at # "filling"
      BY <1>0, <1>1, <2>1, <2>3, BreakerKept DEF Moves
    <2>4. QED
      BY <2>2, <2>3
  <1> SUFFICES ASSUME s = To(d) PROVE BreakerOK(s)'
    BY <1>1
  <1>2. ASSUME ~Matters(delivery[d], s), ~Matters(delivery'[d], s),
               delivery'[d].at # "filling",
               cache'[s] = cache[s], stored'[s] = stored[s], s \in probes' <=> s \in probes
        PROVE  BreakerOK(s)'
    BY <1>0, <1>2, BreakerKept
  <1>3. ASSUME NEW state \in BreakerState, cache'[s] = state, stored' = stored,
               Consult(d, state), delivery[d].at \in {"start", "filling"},
               cache[s] = state \/ (cache[s] = None /\ state = Answer(s))
        PROVE  BreakerOK(s)'
    <2>1. /\ state # None /\ ~Matters(delivery[d], s)
          /\ ~Tripping(d, s) /\ ~Entering(d, s) /\ ~Probing(d, s)
      BY <1>3, DeliveryAssumption DEF Matters, Tripping, Entering, Probing, At
    <2>2. \/ /\ Became(d, "sending", None, FALSE) \/ Became(d, "bury", None, FALSE)
                 \/ Became(d, "transition", state, FALSE)
             /\ probes' = probes
          \/ /\ Became(d, "sending", None, TRUE) /\ probes' = probes \cup {s}
             /\ s \notin probes /\ state.mode = "HALF_OPEN"
      BY <1>0, <1>3, ConsultMoves DEF At
    <2>3. ~Filling(d, s)' /\ ~Tripping(d, s)' /\ ~Entering(d, s)'
      BY <2>2 DEF Became, Filling, Tripping, Entering, At
    <2>4. StoredOpen(s)' => Is(s, "OPEN")'
      <3>1. StoredOpen(s)' <=> StoredOpen(s)
        BY <1>3 DEF StoredOpen
      <3>2. StoredOpen(s) /\ cache[s] = None => Answer(s).mode = "OPEN"
        BY <1>0, StoredOpenMode DEF Answer
      <3>3. QED
        BY <1>3, <2>1, <3>1, <3>2 DEF BreakerOK, Is
    <2>5. \A c \in Slots \ {d} :
              /\ Tripping(c, s) => Is(s, "OPEN")' /\ ~StoredOpen(s)'
              /\ Entering(c, s) => Is(s, "OPEN")' /\ ~StoredOpen(s)'
              /\ Probing(c, s) => Is(s, "HALF_OPEN")' /\ s \in probes
      BY <1>3, <2>1 DEF BreakerOK, Is, StoredOpen
    <2>6. CASE /\ Became(d, "sending", None, FALSE) \/ Became(d, "bury", None, FALSE)
                   \/ Became(d, "transition", state, FALSE)
               /\ probes' = probes
      <3>1. ~Probing(d, s)'
        BY <2>6 DEF Became, Probing, At
      <3>2. s \in probes' => \E c \in Slots \ {d} : Probing(c, s)
        BY <2>1, <2>6 DEF BreakerOK
      <3>3. QED
        BY <1>0, <1>3, <2>1, <2>3, <2>4, <2>5, <2>6, <3>1, <3>2, BreakerMoved
    <2>7. CASE /\ Became(d, "sending", None, TRUE) /\ probes' = probes \cup {s}
               /\ s \notin probes /\ state.mode = "HALF_OPEN"
      <3>1. Probing(d, s)' /\ Is(s, "HALF_OPEN")' /\ s \in probes'
        BY <1>0, <1>3, <2>1, <2>7 DEF Became, Probing, At, To, Is
      <3>2. \A c \in Slots : ~Probing(c, s)
        BY <2>7 DEF BreakerOK
      <3>3. QED
        BY <1>0, <1>3, <2>1, <2>3, <2>4, <2>5, <3>1, <3>2, BreakerMoved
    <2>8. QED
      BY <2>2, <2>6, <2>7
  <1>4. CASE Load(d)
    <2>1. At(d, "start") /\ UNCHANGED <<cache, stored>>
      BY <1>4 DEF Load
    <2>2. CASE cache[s] # None /\ Consult(d, cache[s])
      BY <1>0, <1>3, <2>1, <2>2 DEF DeliveryTypes, At
    <2>3. CASE /\ cache[s] = None
               /\ GotoWith(d, "filling", Answer(s)) /\ UNCHANGED probes
      <3>1. delivery'[d].at = "filling" /\ delivery'[d].seen = Answer(s)
        BY <1>0, <2>3, StageAfter, SeenAfter
      <3>2. /\ \A c \in Slots : Filling(c, s)' => delivery'[c].seen = Answer(s)'
            /\ \A c \in Slots : ~Tripping(c, s)' /\ ~Entering(c, s)' /\ ~Probing(c, s)'
            /\ s \notin probes'
        BY <1>0, <2>1, <2>3, <3>1
           DEF BreakerOK, Filling, Tripping, Entering, Probing, Answer, Is, At, To
      <3>3. cache'[s] = None
        BY <2>1, <2>3
      <3>4. QED
        BY <3>2, <3>3 DEF BreakerOK
    <2>4. CASE Goto(d, "rejected") /\ UNCHANGED probes
      BY <1>0, <1>2, <2>1, <2>4, StageAfter DEF Matters, At
    <2>5. QED
      BY <1>4, <2>2, <2>3, <2>4 DEF Load, Answer
  <1>5. CASE Fill(d)
    <2> DEFINE state == delivery[d].seen
    <2>1. /\ At(d, "filling") /\ state \in BreakerState /\ stored' = stored
          /\ cache' = [cache EXCEPT ![s] = state]
          /\ disturbed' = IF cache[s] \in {None, state}
                          THEN disturbed ELSE disturbed \cup {s}
          /\ Consult(d, state)
      BY <1>5 DEF Fill, DInv, StagesOK, StageOK, At
    <2>2. cache[s] = None => state = Answer(s)
      BY <2>1 DEF BreakerOK, Filling
    <2> HIDE DEF state
    <2>3. cache'[s] = state /\ cache[s] \in {None, state}
      BY <1>0, <2>1 DEF DeliveryTypes
    <2>4. QED
      BY <1>3, <2>1, <2>2, <2>3 DEF At
  <1>6. CASE TryTransition(d)
    <2>1. At(d, "transition") /\ cache[s] # None /\ UNCHANGED <<cache, probes>>
      BY <1>6 DEF TryTransition, DInv, StagesOK, StageOK, At
    <2>2. CASE /\ StoredOpen(s) /\ stored' = [stored EXCEPT ![s].mode = "HALF_OPEN"]
               /\ GotoWith(d, "transitioned", delivery[d].seen)
      <3>1. delivery'[d].at = "transitioned"
        BY <1>0, <2>2, StageAfter
      <3>2. Is(s, "OPEN") /\ \A c \in Slots : ~Tripping(c, s) /\ ~Entering(c, s)
        BY <2>1, <2>2 DEF BreakerOK
      <3>3. stored'[s].mode = "HALF_OPEN"
        BY <1>0, <2>2 DEF DeliveryTypes, StoredOpen
      <3>4. ~StoredOpen(s)' /\ Is(s, "OPEN")'
        BY <2>1, <3>2, <3>3 DEF StoredOpen, Is
      <3>5. ~Filling(d, s)' /\ ~Tripping(d, s)' /\ ~Probing(d, s)' /\ ~Probing(d, s)
        BY <2>1, <3>1 DEF Filling, Tripping, Probing, At
      <3>6. \A c \in Slots : ~Probing(c, s)
        BY <3>2 DEF BreakerOK, Is
      <3>7. s \notin probes'
        BY <2>1, <3>6 DEF BreakerOK
      <3>8. QED
        BY <1>0, <2>1, <3>2, <3>4, <3>5, <3>6, <3>7, BreakerMoved
    <2>3. CASE (Goto(d, "bury") \/ Goto(d, "rejected")) /\ UNCHANGED stored
      BY <1>0, <1>2, <2>1, <2>3, StageAfter DEF Matters, At
    <2>4. QED
      BY <1>6, <2>2, <2>3 DEF TryTransition
  <1>7. CASE EnterHalfOpen(d)
    <2>1. /\ Entering(d, s) /\ StartProbe(d) /\ stored' = stored
          /\ delivery[d].seen \in BreakerState
          /\ cache' = [cache EXCEPT ![s] = [delivery[d].seen EXCEPT !.mode = "HALF_OPEN"]]
      BY <1>7 DEF EnterHalfOpen, Entering, DInv, StagesOK, StageOK, At
    <2>2. Is(s, "HALF_OPEN")'
      <3>1. cache'[s].mode = "HALF_OPEN"
        BY <1>0, <2>1 DEF DeliveryTypes, BreakerState
      <3>2. cache[s] # None
        BY <2>1 DEF BreakerOK, Is
      <3>3. QED
        BY <1>0, <3>1, <3>2 DEF Moves, Is
    <2>3. Became(d, "sending", None, TRUE) /\ probes' = probes \cup {s}
      BY <1>0, <2>1, Becomes DEF StartProbe, Stage
    <2>4. /\ Is(s, "OPEN") /\ ~StoredOpen(s)
          /\ \A c \in Slots \ {d} : ~Tripping(c, s) /\ ~Entering(c, s)
      BY <2>1 DEF BreakerOK
    <2>5. \A c \in Slots : ~Probing(c, s)
      BY <2>4 DEF BreakerOK, Is
    <2>6. /\ ~Filling(d, s)' /\ ~Tripping(d, s)' /\ ~Entering(d, s)' /\ Probing(d, s)'
          /\ ~StoredOpen(s)' /\ cache'[s] # None
      BY <1>0, <2>1, <2>2, <2>3, <2>4
         DEF Became, Filling, Tripping, Entering, Probing, StoredOpen, At, To, Is
    <2>7. QED
      BY <1>0, <2>2, <2>3, <2>4, <2>5, <2>6, BreakerMoved
  <1>8. CASE Succeed(d)
    <2>1. /\ At(d, "sending") /\ EndProbe(d) /\ disturbed' = Disturbing(d)
          /\ stored' = stored /\ cache' = [cache EXCEPT ![s] = Closed]
          /\ delivery' = [delivery EXCEPT ![d].at = "recordSuccess"]
      BY <1>8 DEF Succeed
    <2>2. /\ ~StoredOpen(s)
          /\ \A c \in Slots : ~Tripping(c, s) /\ ~Entering(c, s)
          /\ \A c \in Slots \ {d} : ~Probing(c, s)
          /\ s \notin probes'
      BY <2>1, EndOK DEF At
    <2>3. delivery'[d].at = "recordSuccess" /\ cache'[s] # None
      BY <1>0, <2>1, ClosedState DEF DeliveryTypes, DeliveryRecord
    <2>4. /\ ~Filling(d, s)' /\ ~Tripping(d, s)' /\ ~Entering(d, s)' /\ ~Probing(d, s)'
          /\ ~StoredOpen(s)'
      BY <2>1, <2>2, <2>3 DEF Filling, Tripping, Entering, Probing, StoredOpen, At
    <2>5. QED
      BY <1>0, <2>2, <2>3, <2>4, BreakerMoved
  <1>9. CASE StoreSuccess(d)
    <2>1. At(d, "recordSuccess") /\ cache[s] # None
      BY <1>9 DEF StoreSuccess, DInv, StagesOK, StageOK, At
    <2>2. CASE /\ stored' = [stored EXCEPT ![s] = Closed] /\ Goto(d, "done")
               /\ UNCHANGED <<cache, probes>>
      <3>1. delivery'[d].at = "done"
        BY <1>0, <2>2, StageAfter
      <3>2. ~StoredOpen(s)'
        BY <1>0, <2>2 DEF DeliveryTypes, StoredOpen, Closed
      <3>3. /\ ~Filling(d, s)' /\ ~Tripping(d, s)' /\ ~Entering(d, s)' /\ ~Probing(d, s)'
            /\ ~Probing(d, s)
        BY <2>1, <3>1 DEF Filling, Tripping, Entering, Probing, At
      <3>4. \A c \in Slots : /\ Tripping(c, s) \/ Entering(c, s) => Is(s, "OPEN")'
                             /\ Probing(c, s) => Is(s, "HALF_OPEN")' /\ s \in probes'
        BY <2>2 DEF BreakerOK, Is
      <3>5. s \in probes' => \E c \in Slots \ {d} : Probing(c, s)
        BY <2>2, <3>3 DEF BreakerOK
      <3>6. QED
        BY <1>0, <2>1, <2>2, <3>2, <3>3, <3>4, <3>5, BreakerMoved
    <2>3. CASE \E within \in BOOLEAN : RecordFailure(d, within) /\ UNCHANGED stored
      BY <2>1, <2>3, RecordFailureBreaker DEF At
    <2>4. QED
      BY <1>9, <2>2, <2>3 DEF StoreSuccess
  <1>10. CASE Fail(d)
    BY <1>10, RecordFailureBreaker DEF Fail, At
  <1>11. CASE StoreFailure(d)
    <2>1. /\ At(d, "recordFailure") /\ delivery[d].seen \in BreakerState
          /\ cache[s] # None /\ UNCHANGED <<cache, probes>>
      BY <1>11 DEF StoreFailure, DInv, StagesOK, StageOK, At
    <2>2. CASE stored' = [stored EXCEPT ![s] = delivery[d].seen] /\ Goto(d, "bury")
      <3>1. delivery'[d].at = "bury" /\ stored'[s] = delivery[d].seen
        BY <1>0, <2>2, StageAfter DEF DeliveryTypes
      <3>2. /\ ~Filling(d, s)' /\ ~Tripping(d, s)' /\ ~Entering(d, s)' /\ ~Probing(d, s)'
            /\ ~Probing(d, s)
        BY <2>1, <3>1 DEF Filling, Tripping, Entering, Probing, At
      <3>3. StoredOpen(s)' => Tripping(d, s)
        BY <2>1, <3>1 DEF StoredOpen, Tripping
      <3>4. Tripping(d, s) =>
                Is(s, "OPEN") /\ \A c \in Slots \ {d} : ~Tripping(c, s) /\ ~Entering(c, s)
        BY DEF BreakerOK
      <3>5. /\ Is(s, "OPEN")' <=> Is(s, "OPEN")
            /\ Is(s, "HALF_OPEN")' <=> Is(s, "HALF_OPEN")
        BY <2>1 DEF Is
      <3>6. \A c \in Slots : /\ Tripping(c, s) \/ Entering(c, s) => Is(s, "OPEN")'
                             /\ Probing(c, s) => Is(s, "HALF_OPEN")' /\ s \in probes'
        BY <2>1, <3>5 DEF BreakerOK
      <3>7. s \in probes' => \E c \in Slots \ {d} : Probing(c, s)
        BY <2>1, <3>2 DEF BreakerOK
      <3>8. QED
        BY <1>0, <2>1, <3>2, <3>3, <3>4, <3>5, <3>6, <3>7, BreakerMoved
    <2>3. CASE Goto(d, "rejected") /\ UNCHANGED stored
      <3>1. delivery'[d].at = "rejected"
        BY <1>0, <2>3, StageAfter
      <3>2. /\ ~Filling(d, s)' /\ ~Tripping(d, s)' /\ ~Entering(d, s)' /\ ~Probing(d, s)'
            /\ ~Probing(d, s)
        BY <2>1, <3>1 DEF Filling, Tripping, Entering, Probing, At
      <3>3. /\ StoredOpen(s)' <=> StoredOpen(s)
            /\ Is(s, "OPEN")' <=> Is(s, "OPEN")
            /\ Is(s, "HALF_OPEN")' <=> Is(s, "HALF_OPEN")
        BY <2>1, <2>3 DEF Is, StoredOpen
      <3>4. s \in probes' => \E c \in Slots \ {d} : Probing(c, s)
        BY <2>1, <3>2 DEF BreakerOK
      <3>5. /\ \A c \in Slots :
                 /\ Tripping(c, s) \/ Entering(c, s) => Is(s, "OPEN") /\ ~StoredOpen(s)
                 /\ Probing(c, s) => Is(s, "HALF_OPEN") /\ s \in probes'
            /\ StoredOpen(s) => Is(s, "OPEN")
        BY <2>1 DEF BreakerOK
      <3>6. QED
        BY <1>0, <2>1, <3>2, <3>3, <3>4, <3>5, BreakerMoved
    <2>4. QED
      BY <1>11, <2>2, <2>3 DEF StoreFailure
  <1>12. CASE Bury(d)
    <2>1. At(d, "bury") /\ UNCHANGED <<cache, stored, probes>>
      BY <1>12 DEF Bury, breaker
    <2>2. delivery'[d].at = "done"
      BY <1>0, <1>12, StageAfter DEF Bury, DeliveryTypes, DeliveryRecord
    <2>3. QED
      BY <1>2, <2>1, <2>2 DEF Matters, At
  <1>13. QED
    BY <1>4, <1>5, <1>6, <1>7, <1>8, <1>9, <1>10, <1>11, <1>12 DEF DeliveryStep

LEMMA BreakersInit == Init => BreakersOK
  BY FreeRecord
     DEF Init, DeliveryInit, BreakersOK, BreakerOK, Filling, Tripping, Entering, Probing,
         StoredOpen, At

LEMMA BreakersStep == BreakersOK /\ DInv /\ RowTypes /\ [Next]_vars => BreakersOK'
  <1> SUFFICES ASSUME BreakersOK, DInv, RowTypes, [Next]_vars,
                      NEW s \in Subscribers \ disturbed'
               PROVE  BreakerOK(s)'
    BY DEF BreakersOK
  <1>1. ASSUME NEW d \in Slots, DeliveryStep(d) PROVE BreakerOK(s)'
    <2>1. s \notin disturbed
      BY <1>1, StepMoves DEF DInv, Moves
    <2>2. QED
      BY <1>1, <2>1, StepBreaker DEF BreakersOK
  <1>2. CASE Swaps
    <2>1. BreakerOK(s)
      BY <1>2 DEF Swaps, BreakersOK
    <2>2. \A d \in Slots :
              \/ delivery'[d] = delivery[d]
              \/ /\ ~Matters(delivery[d], s) /\ ~Matters(delivery'[d], s)
                 /\ delivery'[d].at # "filling"
      BY <1>2 DEF Swaps, Matters
    <2>3. QED
      BY <1>2, <2>1, <2>2, BreakerKept DEF Swaps
  <1>3. CASE LoseProcess
    <2>1. /\ cache'[s] = None /\ probes' = {}
          /\ \A d \in Slots : delivery'[d].at = "free"
      BY <1>3, FreeRecord DEF LoseProcess
    <2>2. QED
      BY <2>1 DEF BreakerOK, Filling, Tripping, Entering, Probing, At
  <1>4. QED
    BY <1>1, <1>2, <1>3, StepKinds DEF DInv

\* While no delivery of before disturbs it, a breaker has at most one probe, and
\* the registry knows it, for any number of deliveries and any threshold.
THEOREM BreakersProbeOnce == Spec => []OneProbe
  <1>1. BreakersOK => OneProbe
    <2> SUFFICES ASSUME BreakersOK, NEW s \in Subscribers \ disturbed
                 PROVE  /\ Cardinality(ProbesOf(s)) <= 1
                        /\ s \in probes <=> ProbesOf(s) # {}
      BY DEF OneProbe
    <2>1. BreakerOK(s) /\ \A d \in Slots : d \in ProbesOf(s) <=> Probing(d, s)
      BY DEF BreakersOK, ProbesOf, Probing
    <2>2. ProbesOf(s) \subseteq Slots
      BY DEF ProbesOf
    <2>3. s \in probes <=> ProbesOf(s) # {}
      BY <2>1, <2>2 DEF BreakerOK
    <2>4. CASE ProbesOf(s) = {}
      BY <2>3, <2>4, FS_EmptySet
    <2>5. ASSUME NEW d \in ProbesOf(s) PROVE ProbesOf(s) = {d}
      BY <2>1, <2>2, <2>5 DEF BreakerOK
    <2>6. QED
      BY <2>3, <2>4, <2>5, FS_Singleton
  <1>2. RowInv => RowTypes
    BY DEF RowInv
  <1>3. QED
    BY <1>1, <1>2, BreakersInit, BreakersStep, RowInvariant, DeliveryInvariant, PTL DEF Spec

-----------------------------------------------------------------------------
(* What a delivery has read of its subscriber *)

\* A secret that has not been overtaken is the one of the row; one that has
\* been overtaken once is its previous one, in the grace window.
SendOK(d) ==
    send[d].at # "idle" =>
        /\ send[d].url \in Urls /\ send[d].secret # NoSigningSecret
        /\ send[d].missed = 0 => row[send[d].url].secret = send[d].secret
        /\ send[d].missed = 1 => /\ send[d].url \in inGrace
                                 /\ row[send[d].url].previous = send[d].secret
        /\ send[d].at = "sending" /\ send[d].listed => IsUrlAllowedForOrg(send[d].url)

SubscriberInv == SubscriberTypeOK /\ \A d \in Sends : SendOK(d)

SendRecord == [at : {"idle", "read", "sending"}, kind : Kinds, url : Urls \cup {NoUrl},
               secret : SigningSecrets \cup {NoSigningSecret}, missed : 0 .. 2,
               listed : BOOLEAN]

RowRecord == [secret : SigningSecrets \cup {NoSigningSecret},
              previous : SigningSecrets \cup {NoSigningSecret}, policy : Policies]

\* Overtake changes only what the deliveries to u have missed.
LEMMA Overtaken ==
    ASSUME send \in [Sends -> SendRecord], NEW u \in Urls, NEW F \in [0 .. 2 -> 0 .. 2],
           send' = [d \in Sends |-> IF send[d].url = u
                                    THEN [send[d] EXCEPT !.missed = F[@]] ELSE send[d]]
    PROVE  /\ send' \in [Sends -> SendRecord]
           /\ \A d \in Sends :
                  /\ send'[d].at = send[d].at /\ send'[d].url = send[d].url
                  /\ send'[d].secret = send[d].secret /\ send'[d].listed = send[d].listed
                  /\ send'[d].missed = IF send[d].url = u THEN F[send[d].missed]
                                                          ELSE send[d].missed
  <1>1. ASSUME NEW d \in Sends
        PROVE  /\ send'[d] \in SendRecord
               /\ send'[d].at = send[d].at /\ send'[d].url = send[d].url
               /\ send'[d].secret = send[d].secret /\ send'[d].listed = send[d].listed
               /\ send'[d].missed = IF send[d].url = u THEN F[send[d].missed]
                                                       ELSE send[d].missed
    <2>1. send[d] \in SendRecord /\ F[send[d].missed] \in 0 .. 2
      BY DEF SendRecord
    <2>2. CASE send[d].url = u
      <3>1. send'[d] = [send[d] EXCEPT !.missed = F[send[d].missed]]
        BY <2>2
      <3>2. QED
        BY <2>1, <2>2, <3>1 DEF SendRecord
    <2>3. CASE send[d].url # u
      BY <2>1, <2>3
    <2>4. QED
      BY <2>2, <2>3
  <1>2. QED
    BY <1>1

LEMMA SubscriberInvInit == SubscriberInit => SubscriberInv
  BY SubscriberAssumption
     DEF SubscriberInit, SubscriberInv, SubscriberTypeOK, SendOK, NoSend, NoUpsert, Absent,
         Kinds

LEMMA RotateSends ==
    ASSUME SubscriberInv, NEW u \in Urls, NEW secret \in SigningSecrets,
           RotateSecret(u, secret)
    PROVE  SubscriberInv'
  <1> DEFINE F == [n \in 0 .. 2 |-> IF n < 2 THEN n + 1 ELSE 2]
  <1>0. SubscriberTypeOK /\ send \in [Sends -> SendRecord]
    BY DEF SubscriberInv, SubscriberTypeOK, SendRecord
  <1>1. send' = [d \in Sends |-> IF send[d].url = u
                                 THEN [send[d] EXCEPT !.missed = F[@]] ELSE send[d]]
    <2>1. send' = [d \in Sends |->
              IF send[d].url = u
              THEN [send[d] EXCEPT !.missed = IF @ < 2 THEN @ + 1 ELSE 2] ELSE send[d]]
      BY DEF RotateSecret, Overtake
    <2>2. \A d \in Sends : send[d].missed \in 0 .. 2
      BY <1>0 DEF SendRecord
    <2>3. QED
      BY <2>1, <2>2
  <1>2. F \in [0 .. 2 -> 0 .. 2] /\ F[0] = 1 /\ F[1] = 2 /\ F[2] = 2
    OBVIOUS
  <1> HIDE DEF F
  <1>3. /\ send' \in [Sends -> SendRecord]
        /\ \A d \in Sends :
               /\ send'[d].at = send[d].at /\ send'[d].url = send[d].url
               /\ send'[d].secret = send[d].secret /\ send'[d].listed = send[d].listed
               /\ send'[d].missed = IF send[d].url = u THEN F[send[d].missed]
                                                       ELSE send[d].missed
    BY <1>0, <1>1, <1>2, Overtaken
  <1> DEFINE r == [row[u] EXCEPT !.secret = secret, !.previous = row[u].secret]
  <1>4. row \in [Urls -> RowRecord] /\ row[u] \in RowRecord
    BY <1>0 DEF SubscriberTypeOK, RowRecord
  <1>5. r \in RowRecord /\ r.secret = secret /\ r.previous = row[u].secret
    BY <1>4 DEF RowRecord
  <1>6. /\ row' = [row EXCEPT ![u] = r]
        /\ inGrace' = inGrace \cup {u} /\ UNCHANGED <<allowed, upsert>>
    BY DEF RotateSecret
  <1> HIDE DEF r
  <1>7. /\ row' \in [Urls -> RowRecord] /\ row'[u] = r
        /\ \A v \in Urls \ {u} : row'[v] = row[v]
    BY <1>4, <1>5, <1>6
  <1>8. SubscriberTypeOK'
    BY <1>0, <1>3, <1>6, <1>7 DEF SubscriberTypeOK, SendRecord, RowRecord
  <1>9. ASSUME NEW d \in Sends PROVE SendOK(d)'
    <2>1. SendOK(d) /\ send[d].missed \in {0, 1, 2}
      BY <1>0 DEF SubscriberInv, SendRecord
    <2>2. QED
      BY <1>2, <1>3, <1>5, <1>6, <1>7, <2>1 DEF SendOK, IsUrlAllowedForOrg
  <1>10. QED
    BY <1>8, <1>9 DEF SubscriberInv

LEMMA RegisterSends ==
    ASSUME SubscriberInv, NEW q \in Upserts, CommitUpsert(q)
    PROVE  SubscriberInv'
  <1> DEFINE u == upsert[q].url
             secret == upsert[q].secret
             F == [n \in 0 .. 2 |-> IF n = 0 /\ row[u].secret # secret THEN 2 ELSE n]
  <1>0. SubscriberTypeOK /\ send \in [Sends -> SendRecord]
    BY DEF SubscriberInv, SubscriberTypeOK, SendRecord
  <1>1. u \in Urls /\ secret \in SigningSecrets \cup {NoSigningSecret}
    BY <1>0 DEF CommitUpsert, SubscriberTypeOK
  <1>2. send' = [d \in Sends |-> IF send[d].url = u
                                 THEN [send[d] EXCEPT !.missed = F[@]] ELSE send[d]]
    <2>1. send' = [d \in Sends |->
              IF send[d].url = u
              THEN [send[d] EXCEPT !.missed =
                       IF @ = 0 /\ row[u].secret # secret THEN 2 ELSE @] ELSE send[d]]
      BY DEF CommitUpsert, Overtake
    <2>2. \A d \in Sends : send[d].missed \in 0 .. 2
      BY <1>0 DEF SendRecord
    <2>3. QED
      BY <2>1, <2>2
  <1> DEFINE r == [row[u] EXCEPT !.secret = secret, !.policy = DefaultPolicy]
  <1>3. row \in [Urls -> RowRecord] /\ row[u] \in RowRecord
    BY <1>0, <1>1 DEF SubscriberTypeOK, RowRecord
  <1>4. /\ F \in [0 .. 2 -> 0 .. 2] /\ F[1] = 1 /\ F[2] = 2
        /\ F[0] = IF row[u].secret # secret THEN 2 ELSE 0
    OBVIOUS
  <1>5. r \in RowRecord /\ r.secret = secret /\ r.previous = row[u].previous
    BY <1>1, <1>3, SubscriberAssumption DEF RowRecord
  <1>6. /\ row' = [row EXCEPT ![u] = r]
        /\ upsert' = [upsert EXCEPT ![q] = NoUpsert] /\ UNCHANGED <<inGrace, allowed>>
    BY DEF CommitUpsert
  <1> HIDE DEF F, u, secret, r
  <1>7. /\ send' \in [Sends -> SendRecord]
        /\ \A d \in Sends :
               /\ send'[d].at = send[d].at /\ send'[d].url = send[d].url
               /\ send'[d].secret = send[d].secret /\ send'[d].listed = send[d].listed
               /\ send'[d].missed = IF send[d].url = u THEN F[send[d].missed]
                                                       ELSE send[d].missed
    BY <1>0, <1>1, <1>2, <1>4, Overtaken
  <1>8. /\ row' \in [Urls -> RowRecord] /\ row'[u] = r
        /\ \A v \in Urls \ {u} : row'[v] = row[v]
    BY <1>1, <1>3, <1>5, <1>6
  <1>9. SubscriberTypeOK'
    <2>1. upsert' \in [Upserts -> [url : Urls \cup {NoUrl},
                                   secret : SigningSecrets \cup {NoSigningSecret}]]
      BY <1>0, <1>6 DEF SubscriberTypeOK, NoUpsert
    <2>2. QED
      BY <1>0, <1>6, <1>7, <1>8, <2>1 DEF SubscriberTypeOK, SendRecord, RowRecord
  <1>10. ASSUME NEW d \in Sends PROVE SendOK(d)'
    <2>1. SendOK(d) /\ send[d].missed \in {0, 1, 2}
      BY <1>0 DEF SubscriberInv, SendRecord
    <2>2. QED
      BY <1>4, <1>5, <1>6, <1>7, <1>8, <2>1 DEF SendOK, IsUrlAllowedForOrg
  <1>11. QED
    BY <1>9, <1>10 DEF SubscriberInv

LEMMA GraceSends ==
    ASSUME SubscriberInv, NEW u \in Urls, GraceEnds(u)
    PROVE  SubscriberInv'
  <1> DEFINE F == [n \in 0 .. 2 |-> IF n = 1 THEN 2 ELSE n]
  <1>0. SubscriberTypeOK /\ send \in [Sends -> SendRecord]
    BY DEF SubscriberInv, SubscriberTypeOK, SendRecord
  <1>1. send' = [d \in Sends |-> IF send[d].url = u
                                 THEN [send[d] EXCEPT !.missed = F[@]] ELSE send[d]]
    <2>1. send' = [d \in Sends |->
              IF send[d].url = u
              THEN [send[d] EXCEPT !.missed = IF @ = 1 THEN 2 ELSE @] ELSE send[d]]
      BY DEF GraceEnds, Overtake
    <2>2. \A d \in Sends : send[d].missed \in 0 .. 2
      BY <1>0 DEF SendRecord
    <2>3. QED
      BY <2>1, <2>2
  <1>2. F \in [0 .. 2 -> 0 .. 2] /\ F[0] = 0 /\ F[1] = 2 /\ F[2] = 2
    OBVIOUS
  <1> HIDE DEF F
  <1>3. /\ send' \in [Sends -> SendRecord]
        /\ \A d \in Sends :
               /\ send'[d].at = send[d].at /\ send'[d].url = send[d].url
               /\ send'[d].secret = send[d].secret /\ send'[d].listed = send[d].listed
               /\ send'[d].missed = IF send[d].url = u THEN F[send[d].missed]
                                                       ELSE send[d].missed
    BY <1>0, <1>1, <1>2, Overtaken
  <1>4. inGrace' = inGrace \ {u} /\ UNCHANGED <<row, allowed, upsert>>
    BY DEF GraceEnds
  <1>5. SubscriberTypeOK'
    BY <1>0, <1>3, <1>4 DEF SubscriberTypeOK, SendRecord
  <1>6. ASSUME NEW d \in Sends PROVE SendOK(d)'
    <2>1. SendOK(d) /\ send[d].missed \in {0, 1, 2}
      BY <1>0 DEF SubscriberInv, SendRecord
    <2>2. QED
      BY <1>2, <1>3, <1>4, <2>1 DEF SendOK, IsUrlAllowedForOrg
  <1>7. QED
    BY <1>5, <1>6 DEF SubscriberInv

LEMMA SubscriberInvStep == SubscriberInv /\ [SubscriberNext]_subscriberVars => SubscriberInv'
  <1> SUFFICES ASSUME SubscriberInv, [SubscriberNext]_subscriberVars PROVE SubscriberInv'
    OBVIOUS
  <1>0. /\ SubscriberTypeOK /\ send \in [Sends -> SendRecord]
        /\ \A d \in Sends : SendOK(d)
    BY DEF SubscriberInv, SubscriberTypeOK, SendRecord
  <1>1. ASSUME NEW u \in Urls, NEW policy \in Policies, UpdateFieldPolicy(u, policy)
        PROVE  SubscriberInv'
    <2>1. /\ row' = [row EXCEPT ![u].policy = policy]
          /\ UNCHANGED <<inGrace, allowed, send, upsert>>
      BY <1>1 DEF UpdateFieldPolicy
    <2>2. /\ row' \in [Urls -> [secret : SigningSecrets \cup {NoSigningSecret},
                                previous : SigningSecrets \cup {NoSigningSecret},
                                policy : Policies]]
          /\ \A v \in Urls : row'[v].secret = row[v].secret
                             /\ row'[v].previous = row[v].previous
      BY <1>0, <2>1 DEF SubscriberTypeOK
    <2>3. QED
      BY <1>0, <2>1, <2>2 DEF SubscriberInv, SubscriberTypeOK, SendOK, IsUrlAllowedForOrg
  <1>2. ASSUME NEW q \in Upserts, NEW u \in Urls, NEW secret \in SigningSecrets,
               BeginUpsert(q, u, secret)
        PROVE  SubscriberInv'
    BY <1>0, <1>2
       DEF BeginUpsert, SubscriberInv, SubscriberTypeOK, SendOK, IsUrlAllowedForOrg
  <1>3. ASSUME NEW h \in Hosts, AddEgressAllowlistEntry(h) \/ RemoveEgressAllowlistEntry(h)
        PROVE  SubscriberInv'
    <2>1. /\ send' = [d \in Sends |-> [send[d] EXCEPT !.listed = FALSE]]
          /\ allowed' \subseteq Hosts /\ UNCHANGED <<row, inGrace, upsert>>
      BY <1>0, <1>3 DEF AddEgressAllowlistEntry, RemoveEgressAllowlistEntry, ListChanges,
                        SubscriberTypeOK
    <2>2. \A d \in Sends :
              /\ send'[d] \in SendRecord /\ ~send'[d].listed
              /\ send'[d].at = send[d].at /\ send'[d].url = send[d].url
              /\ send'[d].secret = send[d].secret /\ send'[d].missed = send[d].missed
      BY <1>0, <2>1 DEF SendRecord
    <2>3. send' \in [Sends -> SendRecord]
      BY <2>1, <2>2
    <2>4. SubscriberTypeOK'
      BY <1>0, <2>1, <2>3 DEF SubscriberTypeOK, SendRecord
    <2>5. QED
      BY <1>0, <2>1, <2>2, <2>4 DEF SubscriberInv, SendOK
  <1>4. ASSUME NEW d \in Sends, NEW kind \in Kinds, NEW u \in Urls, ReadSubscriber(d, kind, u)
        PROVE  SubscriberInv'
    <2> DEFINE x == [at |-> IF kind = "ping" THEN "sending" ELSE "read", kind |-> kind,
                     url |-> u, secret |-> row[u].secret, missed |-> 0,
                     listed |-> kind # "ping"]
    <2>1. /\ send' = [send EXCEPT ![d] = x] /\ Registered(u)
          /\ UNCHANGED <<row, inGrace, allowed, upsert>>
      BY <1>4 DEF ReadSubscriber
    <2>2. /\ x \in SendRecord /\ x.url = u /\ x.secret = row[u].secret
          /\ x.missed = 0 /\ ~(x.at = "sending" /\ x.listed)
      <3>1. row[u].secret \in SigningSecrets \cup {NoSigningSecret}
        BY <1>0 DEF SubscriberTypeOK
      <3>2. CASE kind = "ping"
        <4>1. x = [at |-> "sending", kind |-> kind, url |-> u, secret |-> row[u].secret,
                   missed |-> 0, listed |-> FALSE]
          BY <3>2, Zenon
        <4> HIDE DEF x
        <4>2. QED
          BY <3>1, <4>1 DEF SendRecord
      <3>3. CASE kind # "ping"
        <4>1. x = [at |-> "read", kind |-> kind, url |-> u, secret |-> row[u].secret,
                   missed |-> 0, listed |-> TRUE]
          BY <3>3
        <4> HIDE DEF x
        <4>2. QED
          BY <3>1, <4>1 DEF SendRecord
      <3>4. QED
        BY <3>2, <3>3
    <2> HIDE DEF x
    <2>3. send'[d] = x /\ \A c \in Sends \ {d} : send'[c] = send[c]
      BY <1>0, <2>1
    <2>4. SubscriberTypeOK'
      BY <1>0, <2>1, <2>2 DEF SubscriberTypeOK, SendRecord
    <2>5. ASSUME NEW c \in Sends PROVE SendOK(c)'
      BY <1>0, <2>1, <2>2, <2>3 DEF SendOK, Registered, IsUrlAllowedForOrg
    <2>6. QED
      BY <2>4, <2>5 DEF SubscriberInv
  <1>5. ASSUME NEW d \in Sends, CheckEgress(d) \/ EndSend(d)
        PROVE  SubscriberInv'
    <2>1. NoSend \in SendRecord /\ NoSend.at = "idle"
      BY DEF NoSend, SendRecord, Kinds
    <2>2. PICK x \in SendRecord :
              /\ send' = [send EXCEPT ![d] = x]
              /\ \/ x.at = "idle"
                 \/ /\ send[d].at # "idle" /\ IsUrlAllowedForOrg(x.url)
                    /\ x.url = send[d].url /\ x.secret = send[d].secret
                    /\ x.missed = send[d].missed
      <3> DEFINE y == [send[d] EXCEPT !.at = "sending", !.listed = TRUE]
      <3>1. /\ y \in SendRecord /\ y.url = send[d].url /\ y.secret = send[d].secret
            /\ y.missed = send[d].missed
        BY <1>0 DEF SendRecord
      <3>2. \/ send' = [send EXCEPT ![d] = NoSend]
            \/ /\ send' = [send EXCEPT ![d] = y] /\ send[d].at # "idle"
               /\ IsUrlAllowedForOrg(send[d].url)
        BY <1>5 DEF CheckEgress, EndSend
      <3> HIDE DEF y
      <3>3. QED
        BY <2>1, <3>1, <3>2
    <2>3. UNCHANGED <<row, inGrace, allowed, upsert>>
      BY <1>5 DEF CheckEgress, EndSend
    <2>4. send'[d] = x /\ \A c \in Sends \ {d} : send'[c] = send[c]
      BY <1>0, <2>2
    <2>5. SubscriberTypeOK'
      BY <1>0, <2>2, <2>3 DEF SubscriberTypeOK, SendRecord
    <2>6. ASSUME NEW c \in Sends PROVE SendOK(c)'
      BY <1>0, <2>2, <2>3, <2>4 DEF SendOK, IsUrlAllowedForOrg
    <2>7. QED
      BY <2>5, <2>6 DEF SubscriberInv
  <1>6. CASE UNCHANGED subscriberVars
    BY <1>0, <1>6
       DEF subscriberVars, SubscriberInv, SubscriberTypeOK, SendOK, IsUrlAllowedForOrg
  <1>7. QED
    BY <1>1, <1>2, <1>3, <1>4, <1>5, <1>6, RotateSends, RegisterSends, GraceSends
       DEF SubscriberNext

\* Whatever is rotated, registered or listed meanwhile, a delivery is signed
\* with a secret that verifies and goes to a host that is allowed.
THEOREM DeliveriesAreAsConfigured == SubscriberSpec => []DeliveredAsConfigured
  <1>1. SubscriberInv => DeliveredAsConfigured
    BY DEF SubscriberInv, SubscriberTypeOK, SendOK, DeliveredAsConfigured, VerifiesWithGrace
  <1>2. QED
    BY <1>1, SubscriberInvInit, SubscriberInvStep, PTL DEF SubscriberSpec

-----------------------------------------------------------------------------
(* The notices of failed vaults *)

CheckRecord == [at : {"idle", "selected", "telling"}, rows : SUBSET ExpiringVaults,
                asked : SUBSET ExpiringVaults]
NoticeReasons == {"selected twice", "untold", "ended meanwhile", "turned off", "turned off late"}
RunRecord == [at : {"idle", "looking", "found", "marking", "deferring", "sending", "ended"},
              minute : Minutes, rows : SUBSET Reminders, items : SUBSET Reminders]

Selected(c, v) == expiryCheck[c].at # "idle" /\ v \in expiryCheck[c].rows
\* Who still has v to tell of has failed it or met the writer that ended it; two
\* checks have it only where the second selected it while the first had it.
NoticeSound(v) ==
    /\ vaultStatus[v] = "failed" /\ notices[v] = 0 =>
           \/ {"untold", "turned off"} \cap excuse[v] # {}
           \/ \E c \in ExpiryChecks : Selected(c, v) /\ expiryCheck[c].at = "telling"
    /\ notices[v] > 0 => vaultStatus[v] = "failed" \/ "ended meanwhile" \in excuse[v]
    /\ notices[v] > 0 => vaultStatus[v] # "active"
    /\ notices[v] > 1 => "selected twice" \in excuse[v]
    /\ \A c \in ExpiryChecks : Selected(c, v) =>
           /\ vaultStatus[v] \in {"active", "failed"} \/ "ended meanwhile" \in excuse[v]
           /\ expiryCheck[c].at = "telling" => vaultStatus[v] # "active"
           /\ notices[v] > 0 => "selected twice" \in excuse[v]
           /\ \A d \in ExpiryChecks \ {c} : Selected(d, v) => "selected twice" \in excuse[v]
NoticeTypes ==
    /\ vaultStatus \in [ExpiringVaults -> {"active", "failed", "ended"}]
    /\ expiryCheck \in [ExpiryChecks -> CheckRecord]
    /\ notices \in [ExpiringVaults -> Nat]
    /\ excuse \in [ExpiringVaults -> SUBSET NoticeReasons]
\* A check asks for a vault that it has to tell of, whose organisation wanted it then.
AskedSound(v) ==
    /\ v \in unwanted => "turned off late" \in excuse[v]
    /\ \A c \in ExpiryChecks : v \in expiryCheck[c].asked =>
           /\ expiryCheck[c].at = "telling" /\ Selected(c, v)
           /\ v \in wanted \/ "turned off late" \in excuse[v]
NoticeIInv ==
    NoticeTypes /\ \A v \in ExpiringVaults : NoticeSound(v) /\ AskedSound(v)

LEMMA Excuses ==
    ASSUME NoticeTypes, NEW S \in SUBSET ExpiringVaults, NEW why \in NoticeReasons,
           excuse' = Excused(S, why)
    PROVE  /\ excuse' \in [ExpiringVaults -> SUBSET NoticeReasons]
           /\ \A v \in ExpiringVaults : excuse[v] \subseteq excuse'[v] /\ (v \in S => why \in excuse'[v])
  BY DEF Excused, NoticeTypes

\* A step that takes nobody a vault to tell of but may excuse it keeps it sound.
LEMMA NoticeFrame ==
    ASSUME NEW v \in ExpiringVaults, NoticeSound(v), vaultStatus'[v] = vaultStatus[v],
           notices'[v] = notices[v], excuse[v] \subseteq excuse'[v],
           \A c \in ExpiryChecks : Selected(c, v)' => Selected(c, v) /\ expiryCheck'[c].at = expiryCheck[c].at,
           \A c \in ExpiryChecks : Selected(c, v) /\ expiryCheck[c].at = "telling" =>
               \/ Selected(c, v)' /\ expiryCheck'[c].at = "telling"
               \/ {"untold", "turned off"} \cap excuse'[v] # {}
    PROVE  NoticeSound(v)'
  BY DEF NoticeSound

\* A step that asks for no other vault, and changes no preference.
LEMMA AskedFrame ==
    ASSUME NEW v \in ExpiringVaults, AskedSound(v), wanted' = wanted, unwanted' = unwanted,
           excuse[v] \subseteq excuse'[v],
           \A c \in ExpiryChecks : v \in expiryCheck'[c].asked =>
               /\ v \in expiryCheck[c].asked
               /\ expiryCheck'[c].at = "telling" /\ Selected(c, v)'
    PROVE  AskedSound(v)'
  BY DEF AskedSound

\* A check has done with u.
LEMMA TellMoves ==
    ASSUME NoticeTypes, NEW c \in ExpiryChecks, NEW u \in ExpiringVaults,
           expiryCheck[c].at = "telling", u \in Rows(c), EndCheck(c, Rows(c) \ {u})
    PROVE  /\ expiryCheck' \in [ExpiryChecks -> CheckRecord]
           /\ \A d \in ExpiryChecks \ {c} : expiryCheck'[d] = expiryCheck[d]
           /\ \A v \in ExpiringVaults : Selected(c, v)' <=> Selected(c, v) /\ v # u
           /\ expiryCheck'[c].at \in {"idle", "telling"}
           /\ Selected(c, u) /\ expiryCheck'[c].asked = {}
  <1> DEFINE left == expiryCheck[c].rows \ {u}
             new == IF left = {} THEN NoCheck ELSE [expiryCheck[c] EXCEPT !.rows = left, !.asked = {}]
  <1>1. expiryCheck[c] \in CheckRecord
    BY DEF NoticeTypes
  <1>2. Rows(c) = expiryCheck[c].rows
    BY <1>1 DEF Rows
  <1>3. expiryCheck' = [expiryCheck EXCEPT ![c] = new] /\ u \in expiryCheck[c].rows
    BY <1>2 DEF EndCheck
  <1>4. new \in CheckRecord /\ new.asked = {}
    BY <1>1 DEF CheckRecord, NoCheck
  <1>5. new.at \in {"idle", "telling"} /\ (new.at # "idle" => new.rows = left) /\ (left # {} => new.at # "idle")
    BY <1>1 DEF CheckRecord, NoCheck
  <1> HIDE DEF new
  <1>6. expiryCheck'[c] = new /\ \A d \in ExpiryChecks \ {c} : expiryCheck'[d] = expiryCheck[d]
    BY <1>3 DEF NoticeTypes
  <1>7. QED
    BY <1>1, <1>3, <1>4, <1>5, <1>6 DEF Selected, NoticeTypes

LEMMA NoticeStep == NoticeIInv /\ [NoticeNext]_noticeVars => NoticeIInv'
  <1> SUFFICES ASSUME NoticeIInv, [NoticeNext]_noticeVars PROVE NoticeIInv'
    OBVIOUS
  <1>0. NoticeTypes /\ \A v \in ExpiringVaults : NoticeSound(v) /\ AskedSound(v)
    BY DEF NoticeIInv
  <1>1. ASSUME NEW c \in ExpiryChecks, SelectExpired(c) PROVE NoticeIInv'
    <2> DEFINE S == Expired \cap UNION {Rows(d) : d \in ExpiryChecks \ {c}}
    <2>1. /\ expiryCheck' = [expiryCheck EXCEPT ![c] = [NoCheck EXCEPT !.at = "selected", !.rows = Expired]]
          /\ wanted' = wanted /\ unwanted' = unwanted
          /\ vaultStatus' = vaultStatus /\ notices' = notices /\ excuse' = Excused(S, "selected twice")
          /\ expiryCheck[c].at = "idle"
      BY <1>1 DEF SelectExpired
    <2>2. S \in SUBSET ExpiringVaults /\ Expired \in SUBSET ExpiringVaults
      BY DEF Expired
    <2>3. /\ excuse' \in [ExpiringVaults -> SUBSET NoticeReasons]
          /\ \A v \in ExpiringVaults : excuse[v] \subseteq excuse'[v] /\ (v \in S => "selected twice" \in excuse'[v])
      <3> HIDE DEF S
      <3>1. QED
        BY <1>0, <2>1, <2>2, Excuses DEF NoticeReasons
    <2>4. NoticeTypes'
      BY <1>0, <2>1, <2>2, <2>3 DEF NoticeTypes, CheckRecord, NoCheck
    <2>5. ASSUME NEW v \in ExpiringVaults PROVE NoticeSound(v)' /\ AskedSound(v)'
      <3>1. /\ Selected(c, v)' <=> v \in Expired
            /\ \A d \in ExpiryChecks \ {c} : Selected(d, v)' <=> Selected(d, v)
            /\ \A d \in ExpiryChecks \ {c} : expiryCheck'[d] = expiryCheck[d]
            /\ expiryCheck'[c].at = "selected" /\ ~Selected(c, v)
            /\ expiryCheck'[c].asked = {}
        BY <1>0, <2>1 DEF NoticeTypes, Selected, NoCheck
      <3>2. v \in Expired <=> vaultStatus[v] = "active"
        BY DEF Expired
      <3>3. \A d \in ExpiryChecks \ {c} : v \in Expired /\ Selected(d, v) => "selected twice" \in excuse'[v]
        BY <2>3 DEF Selected, Rows
      <3>4. NoticeSound(v) /\ excuse[v] \subseteq excuse'[v]
        BY <1>0, <2>3
      <3> HIDE DEF S
      <3>5. NoticeSound(v)'
        BY <2>1, <3>1, <3>2, <3>3, <3>4 DEF NoticeSound
      <3>6. AskedSound(v)'
        BY <1>0, <2>1, <3>1, <3>4 DEF AskedSound
      <3>7. QED
        BY <3>5, <3>6
    <2>6. QED
      BY <2>4, <2>5 DEF NoticeIInv
  <1>2. ASSUME NEW c \in ExpiryChecks, MarkFailed(c) PROVE NoticeIInv'
    <2>1. /\ expiryCheck' = [expiryCheck EXCEPT ![c] = [expiryCheck[c] EXCEPT !.at = "telling"]]
          /\ vaultStatus' = [v \in ExpiringVaults |->
                                IF v \in Rows(c) \cap Expired THEN "failed" ELSE vaultStatus[v]]
          /\ notices' = notices /\ excuse' = excuse /\ expiryCheck[c].at = "selected"
          /\ wanted' = wanted /\ unwanted' = unwanted
      BY <1>2 DEF MarkFailed
    <2>2. NoticeTypes'
      BY <1>0, <2>1 DEF NoticeTypes, CheckRecord
    <2>3. ASSUME NEW v \in ExpiringVaults PROVE NoticeSound(v)' /\ AskedSound(v)'
      <3>1. /\ \A d \in ExpiryChecks : Selected(d, v)' <=> Selected(d, v)
            /\ \A d \in ExpiryChecks \ {c} : expiryCheck'[d] = expiryCheck[d]
            /\ expiryCheck'[c].at = "telling" /\ expiryCheck'[c].asked = expiryCheck[c].asked
        BY <1>0, <2>1 DEF NoticeTypes, CheckRecord, Selected
      <3>2. vaultStatus'[v] = IF Selected(c, v) /\ vaultStatus[v] = "active" THEN "failed" ELSE vaultStatus[v]
        BY <2>1 DEF Selected, Rows, Expired
      <3>3. NoticeSound(v)
        BY <1>0
      <3>4. ASSUME Selected(c, v) /\ vaultStatus[v] = "active" PROVE NoticeSound(v)'
        BY <2>1, <3>1, <3>2, <3>3, <3>4 DEF NoticeSound
      <3>5. ASSUME ~(Selected(c, v) /\ vaultStatus[v] = "active") PROVE NoticeSound(v)'
        BY <2>1, <3>1, <3>2, <3>3, <3>5 DEF NoticeSound
      <3>6. AskedSound(v)'
        BY <1>0, <2>1, <3>1 DEF AskedSound
      <3>7. QED
        BY <3>4, <3>5, <3>6
    <2>4. QED
      BY <2>2, <2>3 DEF NoticeIInv
  <1>3. ASSUME NEW c \in ExpiryChecks, NEW u \in ExpiringVaults, Notify(c, u) PROVE NoticeIInv'
    <2>1. /\ notices' = [notices EXCEPT ![u] = notices[u] + 1]
          /\ vaultStatus' = vaultStatus /\ excuse' = excuse
          /\ wanted' = wanted /\ unwanted' = unwanted \cup ({u} \ wanted)
          /\ u \in expiryCheck[c].asked /\ EndCheck(c, Rows(c) \ {u})
      BY <1>3 DEF Notify
    <2>0. /\ expiryCheck[c].at = "telling" /\ u \in Rows(c)
          /\ u \in wanted \/ "turned off late" \in excuse[u]
      BY <1>0, <2>1 DEF AskedSound, Selected, Rows
    <2>2. /\ expiryCheck' \in [ExpiryChecks -> CheckRecord]
          /\ \A d \in ExpiryChecks \ {c} : expiryCheck'[d] = expiryCheck[d]
          /\ \A v \in ExpiringVaults : Selected(c, v)' <=> Selected(c, v) /\ v # u
          /\ expiryCheck'[c].at \in {"idle", "telling"}
          /\ expiryCheck[c].at = "telling" /\ Selected(c, u) /\ expiryCheck'[c].asked = {}
      BY <1>0, <2>0, <2>1, TellMoves
    <2>3. NoticeTypes'
      <3>1. notices' \in [ExpiringVaults -> Nat]
        <4>1. notices \in [ExpiringVaults -> Nat]
          BY <1>0 DEF NoticeTypes
        <4>2. QED
          BY ONLY <2>1, <4>1
      <3>2. QED
        BY <1>0, <2>1, <2>2, <3>1 DEF NoticeTypes
    <2>4. ASSUME NEW v \in ExpiringVaults PROVE NoticeSound(v)'
      <3>1. /\ \A d \in ExpiryChecks : Selected(d, v)' => Selected(d, v) /\ expiryCheck'[d].at = expiryCheck[d].at
            /\ v # u => \A d \in ExpiryChecks : Selected(d, v) => Selected(d, v)'
        BY <2>2 DEF Selected
      <3>2. NoticeSound(v)
        BY <1>0
      <3>3. notices[v] \in Nat /\ notices'[v] = IF v = u THEN notices[v] + 1 ELSE notices[v]
        BY <1>0, <2>1 DEF NoticeTypes
      <3>4. CASE v = u
        <4>1. \/ vaultStatus[v] = "failed"
              \/ "ended meanwhile" \in excuse[v] /\ vaultStatus[v] # "active"
          BY <1>0, <2>2, <3>2, <3>4 DEF NoticeSound
        <4>2. notices[v] > 0 => "selected twice" \in excuse[v]
          BY <2>2, <3>2, <3>4 DEF NoticeSound
        <4>3. \A d \in ExpiryChecks : Selected(d, v)' => "selected twice" \in excuse[v]
          BY <2>2, <3>1, <3>2, <3>4 DEF NoticeSound
        <4>4. notices'[v] > 0 /\ (notices'[v] > 1 => notices[v] > 0)
          BY <3>3, <3>4
        <4>5. \A d \in ExpiryChecks : Selected(d, v)' =>
                  /\ vaultStatus'[v] \in {"active", "failed"} \/ "ended meanwhile" \in excuse'[v]
                  /\ expiryCheck'[d].at = "telling" => vaultStatus'[v] # "active"
          BY <2>1, <4>1
        <4>6. /\ vaultStatus'[v] # "active"
              /\ vaultStatus'[v] = "failed" \/ "ended meanwhile" \in excuse'[v]
              /\ notices'[v] > 1 => "selected twice" \in excuse'[v]
              /\ \A d \in ExpiryChecks : Selected(d, v)' => "selected twice" \in excuse'[v]
          BY <2>1, <4>1, <4>2, <4>3, <4>4
        <4>7. ~(notices'[v] = 0)
          BY <4>4
        <4>8. QED
          BY <4>5, <4>6, <4>7 DEF NoticeSound
      <3>5. CASE v # u
        BY <2>1, <2>2, <3>1, <3>2, <3>3, <3>5, NoticeFrame
      <3>6. QED
        BY <3>4, <3>5
    <2>5. ASSUME NEW v \in ExpiringVaults PROVE AskedSound(v)'
      <3>1. \A d \in ExpiryChecks : v \in expiryCheck'[d].asked =>
                v \in expiryCheck[d].asked /\ expiryCheck'[d] = expiryCheck[d]
        BY <2>2
      <3>2. QED
        BY <1>0, <2>0, <2>1, <3>1 DEF AskedSound, Selected
    <2>6. QED
      BY <2>3, <2>4, <2>5 DEF NoticeIInv
  <1>4. ASSUME NEW c \in ExpiryChecks, StopCheck(c) PROVE NoticeIInv'
    <2>1. /\ expiryCheck' = [expiryCheck EXCEPT ![c] = NoCheck]
          /\ vaultStatus' = vaultStatus /\ notices' = notices /\ wanted' = wanted /\ unwanted' = unwanted
          /\ excuse' = IF expiryCheck[c].at = "telling" THEN Excused(Rows(c), "untold") ELSE excuse
          /\ expiryCheck[c].at # "idle"
      BY <1>4 DEF StopCheck, EndCheck
    <2>2. Rows(c) \in SUBSET ExpiringVaults /\ Rows(c) = expiryCheck[c].rows
      BY <1>0, <2>1 DEF NoticeTypes, CheckRecord, Rows
    <2>3. /\ excuse' \in [ExpiringVaults -> SUBSET NoticeReasons]
          /\ \A v \in ExpiringVaults : /\ excuse[v] \subseteq excuse'[v]
                                       /\ expiryCheck[c].at = "telling" /\ v \in Rows(c) => "untold" \in excuse'[v]
      <3>1. CASE expiryCheck[c].at = "telling"
        BY <1>0, <2>1, <2>2, <3>1, Excuses DEF NoticeReasons
      <3>2. CASE expiryCheck[c].at # "telling"
        BY <1>0, <2>1, <3>2 DEF NoticeTypes
      <3>3. QED
        BY <3>1, <3>2
    <2>4. NoticeTypes'
      BY <1>0, <2>1, <2>3 DEF NoticeTypes, CheckRecord, NoCheck
    <2>5. ASSUME NEW v \in ExpiringVaults PROVE NoticeSound(v)' /\ AskedSound(v)'
      <3>1. /\ \A d \in ExpiryChecks \ {c} : (Selected(d, v)' <=> Selected(d, v)) /\ expiryCheck'[d] = expiryCheck[d]
            /\ ~Selected(c, v)' /\ expiryCheck'[c].asked = {}
        BY <1>0, <2>1 DEF NoticeTypes, Selected, NoCheck
      <3>2. Selected(c, v) <=> v \in Rows(c)
        BY <2>1, <2>2 DEF Selected
      <3>3. NoticeSound(v)'
        BY <1>0, <2>1, <2>3, <3>1, <3>2, NoticeFrame
      <3>4. \A d \in ExpiryChecks : v \in expiryCheck'[d].asked =>
                v \in expiryCheck[d].asked /\ expiryCheck'[d].at = "telling" /\ Selected(d, v)'
        BY <1>0, <3>1 DEF AskedSound
      <3>5. QED
        BY <1>0, <2>1, <2>3, <3>3, <3>4, AskedFrame
    <2>6. QED
      BY <2>4, <2>5 DEF NoticeIInv
  <1>5. ASSUME NEW u \in ExpiringVaults, EndVault(u) PROVE NoticeIInv'
    <2> DEFINE S == {u} \cap UNION {Rows(c) : c \in ExpiryChecks}
    <2>1. /\ vaultStatus' = [vaultStatus EXCEPT ![u] = "ended"] /\ vaultStatus[u] = "active"
          /\ expiryCheck' = expiryCheck /\ notices' = notices /\ excuse' = Excused(S, "ended meanwhile")
          /\ wanted' = wanted /\ unwanted' = unwanted
      BY <1>5 DEF EndVault
    <2>2. S \in SUBSET ExpiringVaults
      OBVIOUS
    <2>3. \A c \in ExpiryChecks : Selected(c, u) => u \in S
      BY DEF Selected, Rows
    <2> HIDE DEF S
    <2>4. /\ excuse' \in [ExpiringVaults -> SUBSET NoticeReasons]
          /\ \A v \in ExpiringVaults : excuse[v] \subseteq excuse'[v] /\ (v \in S => "ended meanwhile" \in excuse'[v])
      BY <1>0, <2>1, <2>2, Excuses DEF NoticeReasons
    <2>5. NoticeTypes'
      BY <1>0, <2>1, <2>4 DEF NoticeTypes
    <2>6. ASSUME NEW v \in ExpiringVaults PROVE NoticeSound(v)'
      <3>1. NoticeSound(v) /\ \A c \in ExpiryChecks : Selected(c, v)' <=> Selected(c, v)
        BY <1>0, <2>1 DEF Selected
      <3>2. CASE v = u
        <4>1. vaultStatus'[v] = "ended" /\ vaultStatus[v] = "active" /\ notices'[v] = notices[v] /\ notices[v] \in Nat
          BY <1>0, <2>1, <3>2 DEF NoticeTypes
        <4>2. \A c \in ExpiryChecks : Selected(c, v) => "ended meanwhile" \in excuse'[v]
          BY <2>3, <2>4, <3>2
        <4>3. excuse[v] \subseteq excuse'[v]
          BY <2>4
        <4>4. QED
          BY <2>1, <3>1, <4>1, <4>2, <4>3 DEF NoticeSound
      <3>3. CASE v # u
        <4>1. vaultStatus'[v] = vaultStatus[v] /\ excuse[v] \subseteq excuse'[v]
          BY <1>0, <2>1, <2>4, <3>3 DEF NoticeTypes
        <4>2. QED
          BY <2>1, <3>1, <4>1, NoticeFrame
      <3>4. QED
        BY <3>2, <3>3
    <2>7. ASSUME NEW v \in ExpiringVaults PROVE AskedSound(v)'
      BY <1>0, <2>1, <2>4 DEF AskedSound, Selected
    <2>8. QED
      BY <2>5, <2>6, <2>7 DEF NoticeIInv
  <1>6. ASSUME NEW c \in ExpiryChecks, NEW u \in ExpiringVaults, CheckPreference(c, u) PROVE NoticeIInv'
    <2>1. /\ vaultStatus' = vaultStatus /\ notices' = notices /\ wanted' = wanted /\ unwanted' = unwanted
          /\ expiryCheck[c].at = "telling" /\ u \in Rows(c) /\ Rows(c) = expiryCheck[c].rows
      BY <1>6 DEF CheckPreference, Rows
    <2>2. CASE u \in wanted
      <3>1. expiryCheck' = [expiryCheck EXCEPT ![c] = [expiryCheck[c] EXCEPT !.asked = {u}]] /\ excuse' = excuse
        BY <1>6, <2>2 DEF CheckPreference
      <3>2. /\ expiryCheck' \in [ExpiryChecks -> CheckRecord]
            /\ \A d \in ExpiryChecks : /\ expiryCheck'[d].at = expiryCheck[d].at
                                       /\ expiryCheck'[d].rows = expiryCheck[d].rows
            /\ \A d \in ExpiryChecks \ {c} : expiryCheck'[d] = expiryCheck[d]
            /\ expiryCheck'[c].asked = {u}
        BY <1>0, <3>1 DEF NoticeTypes, CheckRecord
      <3>3. NoticeTypes'
        BY <1>0, <2>1, <3>1, <3>2 DEF NoticeTypes
      <3>4. ASSUME NEW v \in ExpiringVaults PROVE NoticeSound(v)' /\ AskedSound(v)'
        <4>1. \A d \in ExpiryChecks : Selected(d, v)' <=> Selected(d, v)
          BY <3>2 DEF Selected
        <4>2. NoticeSound(v)'
          BY <1>0, <2>1, <3>1, <3>2, <4>1, NoticeFrame
        <4>3. AskedSound(v)'
          BY <1>0, <2>1, <2>2, <3>1, <3>2, <4>1 DEF AskedSound, Selected
        <4>4. QED
          BY <4>2, <4>3
      <3>5. QED
        BY <3>3, <3>4 DEF NoticeIInv
    <2>3. CASE u \notin wanted
      <3>1. EndCheck(c, Rows(c) \ {u}) /\ excuse' = Excused({u}, "turned off")
        BY <1>6, <2>3 DEF CheckPreference
      <3>2. /\ expiryCheck' \in [ExpiryChecks -> CheckRecord]
            /\ \A d \in ExpiryChecks \ {c} : expiryCheck'[d] = expiryCheck[d]
            /\ \A v \in ExpiringVaults : Selected(c, v)' <=> Selected(c, v) /\ v # u
            /\ expiryCheck'[c].at \in {"idle", "telling"}
            /\ expiryCheck'[c].asked = {}
        BY <1>0, <2>1, <3>1, TellMoves
      <3>3. "turned off" \in NoticeReasons /\ {u} \in SUBSET ExpiringVaults
        BY DEF NoticeReasons
      <3>4. /\ excuse' \in [ExpiringVaults -> SUBSET NoticeReasons]
            /\ \A v \in ExpiringVaults : excuse[v] \subseteq excuse'[v] /\ (v \in {u} => "turned off" \in excuse'[v])
        BY <1>0, <3>1, <3>3, Excuses DEF NoticeReasons
      <3>5. NoticeTypes'
        BY <1>0, <2>1, <3>2, <3>4 DEF NoticeTypes
      <3>6. ASSUME NEW v \in ExpiringVaults PROVE NoticeSound(v)' /\ AskedSound(v)'
        <4>1. \A d \in ExpiryChecks : Selected(d, v)' => Selected(d, v) /\ expiryCheck'[d].at = expiryCheck[d].at
          BY <2>1, <3>2 DEF Selected
        <4>2. \A d \in ExpiryChecks : Selected(d, v) /\ expiryCheck[d].at = "telling" =>
                  \/ Selected(d, v)' /\ expiryCheck'[d].at = "telling"
                  \/ {"untold", "turned off"} \cap excuse'[v] # {}
          BY <2>1, <3>2, <3>4 DEF Selected
        <4>3. NoticeSound(v)'
          BY <1>0, <2>1, <3>4, <4>1, <4>2, NoticeFrame
        <4>4. \A d \in ExpiryChecks : v \in expiryCheck'[d].asked =>
                  v \in expiryCheck[d].asked /\ expiryCheck'[d].at = "telling" /\ Selected(d, v)'
          <5>1. SUFFICES ASSUME NEW d \in ExpiryChecks, v \in expiryCheck'[d].asked
                         PROVE  v \in expiryCheck[d].asked /\ expiryCheck'[d].at = "telling" /\ Selected(d, v)'
            OBVIOUS
          <5>2. expiryCheck'[d] = expiryCheck[d] /\ v \in expiryCheck[d].asked
            BY <3>2, <5>1
          <5>3. expiryCheck[d].at = "telling" /\ Selected(d, v)
            BY <1>0, <5>2 DEF AskedSound
          <5>4. QED
            BY <5>2, <5>3 DEF Selected
        <4>5. AskedSound(v)'
          BY <1>0, <2>1, <3>4, <4>4, AskedFrame
        <4>6. QED
          BY <4>3, <4>5
      <3>7. QED
        BY <3>5, <3>6 DEF NoticeIInv
    <2>4. QED
      BY <2>2, <2>3
  <1>7. ASSUME NEW u \in ExpiringVaults, SetPreference(u) PROVE NoticeIInv'
    <2> DEFINE S == {u} \cap UNION {expiryCheck[c].asked : c \in ExpiryChecks}
    <2>1. /\ vaultStatus' = vaultStatus /\ expiryCheck' = expiryCheck /\ notices' = notices
          /\ unwanted' = unwanted /\ excuse' = Excused(S, "turned off late")
          /\ \A v \in ExpiringVaults \ {u} : v \in wanted' <=> v \in wanted
      BY <1>7 DEF SetPreference
    <2>2. S \in SUBSET ExpiringVaults /\ "turned off late" \in NoticeReasons
      BY DEF NoticeReasons
    <2>3. \A c \in ExpiryChecks : u \in expiryCheck[c].asked => u \in S
      OBVIOUS
    <2> HIDE DEF S
    <2>4. /\ excuse' \in [ExpiringVaults -> SUBSET NoticeReasons]
          /\ \A v \in ExpiringVaults : excuse[v] \subseteq excuse'[v] /\ (v \in S => "turned off late" \in excuse'[v])
      BY <1>0, <2>1, <2>2, Excuses DEF NoticeReasons
    <2>5. NoticeTypes'
      BY <1>0, <2>1, <2>4 DEF NoticeTypes
    <2>6. ASSUME NEW v \in ExpiringVaults PROVE NoticeSound(v)' /\ AskedSound(v)'
      <3>1. \A c \in ExpiryChecks : Selected(c, v)' <=> Selected(c, v)
        BY <2>1 DEF Selected
      <3>2. NoticeSound(v)'
        BY <1>0, <2>1, <2>4, <3>1, NoticeFrame
      <3>3. AskedSound(v)'
        BY <1>0, <2>1, <2>3, <2>4, <3>1 DEF AskedSound
      <3>4. QED
        BY <3>2, <3>3
    <2>7. QED
      BY <2>5, <2>6 DEF NoticeIInv
  <1>8. CASE UNCHANGED noticeVars
    BY <1>0, <1>8 DEF NoticeIInv, noticeVars, NoticeTypes, NoticeSound, AskedSound, Selected
  <1>9. QED
    BY <1>1, <1>2, <1>3, <1>4, <1>5, <1>6, <1>7, <1>8 DEF NoticeNext

LEMMA NoticeInitOK == NoticeInit => NoticeIInv
  BY DEF NoticeInit, NoticeIInv, NoticeTypes, NoticeSound, AskedSound, Selected, CheckRecord, NoCheck

LEMMA NoticesHold == NoticeIInv => NoticesAccounted
  BY DEF NoticeIInv, NoticeTypes, NoticeSound, AskedSound, NoticesAccounted, Selected, Rows

-----------------------------------------------------------------------------
(* The reminders: a reminder that no two runs had lies in one place *)

\* Where a reminder lies outside of the runs.
DigestHas(i) == \E m \in Minutes : i \in digest[m]
LateHas(i) == \E m \in Minutes : i \in lateDigest[m]
KeptHas(i) == \E m \in Minutes : i \in kept[m]
ClaimHas(i) == \E c \in claimed : i \in c.items
Stored(i) == DigestHas(i) \/ LateHas(i) \/ KeptHas(i) \/ ClaimHas(i)
Once(i) ==
    /\ \A m, n \in Minutes : /\ i \in digest[m] /\ i \in digest[n] => m = n
                             /\ i \in lateDigest[m] /\ i \in lateDigest[n] => m = n
                             /\ i \in kept[m] /\ i \in kept[n] => m = n
    /\ \A c, d \in claimed : i \in c.items /\ i \in d.items => c = d
    /\ DigestHas(i) => ~LateHas(i) /\ ~KeptHas(i) /\ ~ClaimHas(i)
    /\ LateHas(i) => ~KeptHas(i) /\ ~ClaimHas(i)
    /\ KeptHas(i) => ~ClaimHas(i)

RunSound(r) ==
    /\ reminderRun[r].at \in {"idle", "ended"} => reminderRun[r].items = {}
    /\ reminderRun[r].at \in {"marking", "deferring", "sending"} =>
           /\ reminderRun[r].items \subseteq marked \cup reminderRun[r].rows
           /\ reminderRun[r].rows \subseteq reminderRun[r].items
    /\ reminderRun[r].at = "sending" => reminderRun[r].rows = {}
    /\ reminderRun[r].at = "deferring" => \A i \in Reminders : Holds(r, i) => Stored(i) \/ i \in forgotten

\* A marked reminder lies somewhere, or a run that has marked it will send it.
Accounted(i) ==
    i \in marked =>
        \/ Stored(i) \/ i \in forgotten
        \/ \E r \in ReminderRuns : /\ Holds(r, i) /\ i \notin reminderRun[r].rows
                                   /\ reminderRun[r].at \in {"marking", "sending"}

\* One run at most has a reminder that is not repeated, and while it has not stored it
\* nobody has; what is stored is marked, or the run that keeps it is about to.
Single(i) ==
    /\ Once(i)
    /\ \A r, q \in ReminderRuns : Holds(r, i) /\ Holds(q, i) => r = q
    /\ \A r \in ReminderRuns : Holds(r, i) =>
           /\ reminderRun[r].at \in {"looking", "found"} => i \notin marked /\ ~Stored(i)
           /\ reminderRun[r].at \in {"marking", "sending"} => ~Stored(i)
    /\ Stored(i) => \/ i \in marked
                    \/ \E r \in ReminderRuns : Holds(r, i) /\ reminderRun[r].at = "deferring"

ReminderTypes ==
    /\ minute \in Minutes
    /\ reminderRun \in [ReminderRuns -> RunRecord]
    /\ marked \subseteq Reminders /\ forgotten \subseteq Reminders /\ repeated \subseteq Reminders
    /\ digest \in [Minutes -> SUBSET Reminders]
    /\ kept \in [Minutes -> SUBSET Reminders]
    /\ lateDigest \in [Minutes -> SUBSET Reminders]
    /\ claimed \subseteq [minute : Minutes, items : SUBSET Reminders]
ReminderIInv ==
    /\ ReminderTypes
    /\ \A r \in ReminderRuns : RunSound(r)
    /\ \A i \in Reminders : Accounted(i)
    /\ \A i \in Reminders \ repeated : Single(i)

\* What a step may lose of the records is what it counts as forgotten.
Grows ==
    /\ marked \subseteq marked' /\ forgotten \subseteq forgotten'
    /\ \A i \in Reminders : Stored(i) => Stored(i)' \/ i \in forgotten'
\* r alone changes, and leaves alone what is stored.
Alone(r) ==
    /\ UNCHANGED <<minute, digest, kept, claimed, lateDigest>>
    /\ reminderRun' \in [ReminderRuns -> RunRecord]
    /\ \A q \in ReminderRuns \ {r} : reminderRun'[q] = reminderRun[q]
Carries(r, i) == /\ Holds(r, i) /\ i \notin reminderRun[r].rows
                 /\ reminderRun[r].at \in {"marking", "sending"}

LEMMA SetRunMoves ==
    ASSUME ReminderTypes, NEW r \in ReminderRuns, NEW new \in RunRecord, SetRun(r, new)
    PROVE  /\ reminderRun' \in [ReminderRuns -> RunRecord] /\ reminderRun'[r] = new
           /\ \A q \in ReminderRuns \ {r} : reminderRun'[q] = reminderRun[q]
  BY DEF ReminderTypes, SetRun

LEMMA EndedRecord == Ended \in RunRecord /\ Ended.at = "ended" /\ Ended.items = {} /\ Ended.rows = {}
  BY NotificationAssumption DEF Ended, NoReminderRun, RunRecord, Minutes

LEMMA RunFields ==
    ASSUME ReminderTypes, NEW r \in ReminderRuns
    PROVE  /\ reminderRun[r] \in RunRecord
           /\ reminderRun[r].at \in {"idle", "looking", "found", "marking", "deferring", "sending", "ended"}
           /\ reminderRun[r].minute \in Minutes
           /\ reminderRun[r].rows \subseteq Reminders /\ reminderRun[r].items \subseteq Reminders
  BY DEF ReminderTypes, RunRecord

LEMMA StorageKept ==
    ASSUME UNCHANGED <<digest, kept, claimed, lateDigest>>, NEW i
    PROVE  (Stored(i)' <=> Stored(i)) /\ (Once(i)' <=> Once(i))
  BY DEF Stored, Once, DigestHas, LateHas, KeptHas, ClaimHas

LEMMA RunSoundKept ==
    ASSUME NEW q \in ReminderRuns, RunSound(q), reminderRun'[q] = reminderRun[q], Grows
    PROVE  RunSound(q)'
  BY DEF RunSound, Grows, Holds

LEMMA AccountedKept ==
    ASSUME NEW i \in Reminders, Accounted(i), Grows, i \in marked' => i \in marked,
           \A r \in ReminderRuns : Carries(r, i) => Carries(r, i)' \/ Stored(i)' \/ i \in forgotten'
    PROVE  Accounted(i)'
  BY DEF Accounted, Grows, Carries

\* The runs are as they were, and what is stored lies in one place or is forgotten.
LEMMA StorageMoves ==
    ASSUME ReminderIInv, ReminderTypes', UNCHANGED <<reminderRun, marked, repeated>>, forgotten \subseteq forgotten',
           \A i \in Reminders : (Stored(i)' => Stored(i)) /\ (Stored(i) => Stored(i)' \/ i \in forgotten'),
           \A i \in Reminders : Once(i) => Once(i)'
    PROVE  ReminderIInv'
  <1>1. Grows
    BY DEF Grows
  <1>2. \A r \in ReminderRuns : RunSound(r)'
    BY <1>1, RunSoundKept DEF ReminderIInv
  <1>3. \A i \in Reminders : Accounted(i)'
    BY <1>1, AccountedKept DEF ReminderIInv, Carries, Holds
  <1>4. \A i \in Reminders \ repeated : Single(i)'
    BY DEF ReminderIInv, Single, Holds
  <1>5. QED
    BY <1>2, <1>3, <1>4 DEF ReminderIInv

LEMMA StartRunOK == ASSUME ReminderIInv, NEW r \in ReminderRuns, StartRun(r) PROVE ReminderIInv'
  <1> DEFINE new == [at |-> "looking", minute |-> minute, rows |-> Open, items |-> {}]
  <1>1. ReminderTypes /\ RunSound(r) /\ reminderRun[r].at = "idle"
    BY DEF ReminderIInv, StartRun
  <1>2. new \in RunRecord
    BY <1>1 DEF ReminderTypes, RunRecord, Open
  <1>3. /\ SetRun(r, new)
        /\ UNCHANGED <<minute, marked, digest, kept, claimed, lateDigest, forgotten, repeated>>
    BY DEF StartRun
  <1>4. new.at = "looking" /\ new.items = {}
    OBVIOUS
  <1> HIDE DEF new
  <1>5. /\ reminderRun' \in [ReminderRuns -> RunRecord] /\ reminderRun'[r] = new
        /\ \A q \in ReminderRuns \ {r} : reminderRun'[q] = reminderRun[q]
    BY <1>1, <1>2, <1>3, SetRunMoves
  <1>6. ReminderTypes'
    BY <1>1, <1>3, <1>5 DEF ReminderTypes
  <1>7. \A i \in Reminders : (Stored(i)' <=> Stored(i)) /\ (Once(i)' <=> Once(i))
    BY <1>3, StorageKept
  <1>8. Grows
    BY <1>3, <1>7 DEF Grows
  <1>9. ASSUME NEW q \in ReminderRuns PROVE RunSound(q)'
    <2>1. CASE q = r
      BY <1>4, <1>5, <2>1 DEF RunSound
    <2>2. CASE q # r
      BY <1>5, <1>8, <2>2, RunSoundKept DEF ReminderIInv
    <2>3. QED
      BY <2>1, <2>2
  <1>10. \A q \in ReminderRuns, i \in Reminders : (Holds(q, i)' <=> Holds(q, i)) /\ (q = r => ~Holds(q, i))
    BY <1>1, <1>4, <1>5 DEF Holds, RunSound
  <1>11. ASSUME NEW i \in Reminders PROVE Accounted(i)'
    <2>1. \A q \in ReminderRuns : Carries(q, i) => Carries(q, i)'
      BY <1>5, <1>10 DEF Carries
    <2>2. QED
      BY <1>3, <1>8, <2>1, AccountedKept DEF ReminderIInv
  <1>12. ASSUME NEW i \in Reminders \ repeated PROVE Single(i)'
    <2>1. Single(i) /\ \A q \in ReminderRuns : Holds(q, i) => reminderRun'[q] = reminderRun[q]
      BY <1>5, <1>10 DEF ReminderIInv
    <2>2. QED
      BY <1>3, <1>7, <1>10, <2>1 DEF Single
  <1>13. QED
    BY <1>3, <1>6, <1>9, <1>11, <1>12 DEF ReminderIInv

LEMMA StartMarkingOK == ASSUME ReminderIInv, NEW r \in ReminderRuns, StartMarking(r) PROVE ReminderIInv'
  <1> DEFINE new == [reminderRun[r] EXCEPT !.at = "marking", !.rows = reminderRun[r].items]
  <1>1. ReminderTypes /\ RunSound(r) /\ reminderRun[r].at = "found"
    BY DEF ReminderIInv, StartMarking
  <1>2. /\ new \in RunRecord /\ new.at = "marking"
        /\ new.rows = reminderRun[r].items /\ new.items = reminderRun[r].items
    BY <1>1, RunFields DEF RunRecord
  <1>3. /\ SetRun(r, new)
        /\ UNCHANGED <<minute, marked, digest, kept, claimed, lateDigest, forgotten, repeated>>
    BY DEF StartMarking
  <1> HIDE DEF new
  <1>4. /\ reminderRun' \in [ReminderRuns -> RunRecord] /\ reminderRun'[r] = new
        /\ \A q \in ReminderRuns \ {r} : reminderRun'[q] = reminderRun[q]
    BY <1>1, <1>2, <1>3, SetRunMoves
  <1>5. ReminderTypes'
    BY <1>1, <1>3, <1>4 DEF ReminderTypes
  <1>6. \A i \in Reminders : (Stored(i)' <=> Stored(i)) /\ (Once(i)' <=> Once(i))
    BY <1>3, StorageKept
  <1>7. Grows
    BY <1>3, <1>6 DEF Grows
  <1>8. ASSUME NEW q \in ReminderRuns PROVE RunSound(q)'
    <2>1. CASE q = r
      BY <1>2, <1>4, <2>1 DEF RunSound
    <2>2. CASE q # r
      BY <1>4, <1>7, <2>2, RunSoundKept DEF ReminderIInv
    <2>3. QED
      BY <2>1, <2>2
  <1>9. \A q \in ReminderRuns, i \in Reminders : Holds(q, i)' <=> Holds(q, i)
    BY <1>2, <1>4 DEF Holds
  <1>10. ASSUME NEW i \in Reminders PROVE Accounted(i)'
    <2>1. \A q \in ReminderRuns : Carries(q, i) => Carries(q, i)'
      BY <1>1, <1>4, <1>9 DEF Carries
    <2>2. QED
      BY <1>3, <1>7, <2>1, AccountedKept DEF ReminderIInv
  <1>11. ASSUME NEW i \in Reminders \ repeated PROVE Single(i)'
    <2>1. Single(i) /\ Once(i)'
      BY <1>6 DEF ReminderIInv, Single
    <2>2. \A q \in ReminderRuns : Holds(q, i)' =>
              /\ reminderRun'[q].at \in {"looking", "found"} => i \notin marked' /\ ~Stored(i)'
              /\ reminderRun'[q].at \in {"marking", "sending"} => ~Stored(i)'
      BY <1>1, <1>2, <1>3, <1>4, <1>6, <1>9, <2>1 DEF Single
    <2>3. Stored(i)' => \/ i \in marked'
                        \/ \E q \in ReminderRuns : Holds(q, i)' /\ reminderRun'[q].at = "deferring"
      BY <1>1, <1>3, <1>4, <1>6, <1>9, <2>1 DEF Single
    <2>4. QED
      BY <1>9, <2>1, <2>2, <2>3 DEF Single
  <1>12. QED
    BY <1>3, <1>5, <1>8, <1>10, <1>11 DEF ReminderIInv

LEMMA LookUpOK ==
    ASSUME ReminderIInv, NEW r \in ReminderRuns, NEW k \in Reminders, LookUp(r, k)
    PROVE  ReminderIInv'
  <1> DEFINE left == reminderRun[r].rows \ {k}
             items == IF k \notin marked THEN reminderRun[r].items \cup {k} ELSE reminderRun[r].items
             new == IF left = {} /\ items = {} THEN Ended
                    ELSE [reminderRun[r] EXCEPT !.at = IF left = {} THEN "found" ELSE "looking",
                                                !.rows = left, !.items = items]
  <1>1. ReminderTypes /\ reminderRun[r].at = "looking"
    BY DEF ReminderIInv, LookUp
  <1>2. /\ SetRun(r, new)
        /\ UNCHANGED <<minute, marked, digest, kept, claimed, lateDigest, forgotten>>
        /\ repeated' = IF k \notin marked /\ \E q \in ReminderRuns \ {r} : Holds(q, k)
                       THEN repeated \cup {k} ELSE repeated
    BY DEF LookUp
  <1>3. items \subseteq Reminders /\ left \subseteq Reminders
    BY <1>1, RunFields
  <1> HIDE DEF items, left
  <1>4. new \in RunRecord /\ new.at \in {"looking", "found", "ended"} /\ new.items = items
        /\ (new.at = "ended" => new.items = {})
    <2>1. CASE left = {} /\ items = {}
      BY <2>1, EndedRecord
    <2>2. CASE ~(left = {} /\ items = {})
      BY <1>1, <1>3, <2>2, RunFields DEF RunRecord
    <2>3. QED
      BY <2>1, <2>2
  <1> HIDE DEF new
  <1>5. /\ reminderRun' \in [ReminderRuns -> RunRecord] /\ reminderRun'[r] = new
        /\ \A q \in ReminderRuns \ {r} : reminderRun'[q] = reminderRun[q]
    BY <1>1, <1>2, <1>4, SetRunMoves
  <1>6. ReminderTypes'
    <2>1. repeated' \subseteq Reminders
      BY <1>1, <1>2 DEF ReminderTypes
    <2>2. QED
      BY <1>1, <1>2, <1>5, <2>1 DEF ReminderTypes
  <1>7. \A i \in Reminders : (Stored(i)' <=> Stored(i)) /\ (Once(i)' <=> Once(i))
    BY <1>2, StorageKept
  <1>8. Grows
    BY <1>2, <1>7 DEF Grows
  <1>9. ASSUME NEW q \in ReminderRuns PROVE RunSound(q)'
    <2>1. CASE q = r
      BY <1>4, <1>5, <2>1 DEF RunSound
    <2>2. CASE q # r
      BY <1>5, <1>8, <2>2, RunSoundKept DEF ReminderIInv
    <2>3. QED
      BY <2>1, <2>2
  <1>10. \A i \in Reminders : Holds(r, i)' <=> Holds(r, i) \/ (i = k /\ k \notin marked)
    BY <1>4, <1>5 DEF Holds, items
  <1>11. \A q \in ReminderRuns \ {r}, i \in Reminders : Holds(q, i)' <=> Holds(q, i)
    BY <1>5 DEF Holds
  <1>12. ASSUME NEW i \in Reminders PROVE Accounted(i)'
    <2>1. \A q \in ReminderRuns : Carries(q, i) => Carries(q, i)'
      BY <1>1, <1>5, <1>11 DEF Carries
    <2>2. QED
      BY <1>2, <1>8, <2>1, AccountedKept DEF ReminderIInv
  <1>13. ASSUME NEW i \in Reminders \ repeated' PROVE Single(i)'
    <2>1. Single(i) /\ Once(i)'
      BY <1>2, <1>7 DEF ReminderIInv, Single
    <2>2. Holds(r, i)' => i \notin marked /\ \A q \in ReminderRuns \ {r} : ~Holds(q, i)
      <3>1. CASE Holds(r, i)
        BY <1>1, <2>1, <3>1 DEF Single
      <3>2. CASE i = k /\ k \notin marked
        BY <1>2, <3>2
      <3>3. QED
        BY <1>10, <3>1, <3>2
    <2>3. Holds(r, i)' => ~Stored(i)
      BY <1>1, <2>1, <2>2 DEF Single
    <2>4. \A q, p \in ReminderRuns : Holds(q, i)' /\ Holds(p, i)' => q = p
      BY <1>11, <2>1, <2>2 DEF Single
    <2>5. \A q \in ReminderRuns : Holds(q, i)' =>
              /\ reminderRun'[q].at \in {"looking", "found"} => i \notin marked' /\ ~Stored(i)'
              /\ reminderRun'[q].at \in {"marking", "sending"} => ~Stored(i)'
      BY <1>2, <1>5, <1>7, <1>11, <2>1, <2>2, <2>3 DEF Single
    <2>6. Stored(i)' => \/ i \in marked'
                        \/ \E q \in ReminderRuns : Holds(q, i)' /\ reminderRun'[q].at = "deferring"
      BY <1>1, <1>2, <1>5, <1>7, <1>11, <2>1 DEF Single
    <2>7. QED
      BY <2>1, <2>4, <2>5, <2>6 DEF Single
  <1>14. QED
    BY <1>6, <1>9, <1>12, <1>13 DEF ReminderIInv

LEMMA MarkReminderOK ==
    ASSUME ReminderIInv, NEW r \in ReminderRuns, NEW k \in Reminders, MarkReminder(r, k)
    PROVE  ReminderIInv'
  <1> DEFINE old == reminderRun[r]
             left == old.rows \ {k}
             new == IF left # {} THEN [old EXCEPT !.rows = left]
                    ELSE IF old.at = "marking" THEN [old EXCEPT !.at = "sending", !.rows = {}] ELSE Ended
  <1>1. /\ ReminderTypes /\ RunSound(r) /\ old.at \in {"marking", "deferring"}
        /\ k \in old.rows /\ old \in RunRecord
    BY RunFields DEF ReminderIInv, MarkReminder
  <1>2. /\ SetRun(r, new) /\ marked' = marked \cup {k}
        /\ UNCHANGED <<minute, digest, kept, claimed, lateDigest, forgotten, repeated>>
    BY DEF MarkReminder
  <1>3. new \in RunRecord
    BY <1>1, EndedRecord DEF RunRecord
  <1>4. \/ old.rows \ {k} # {} /\ new.at = old.at /\ new.items = old.items /\ new.rows = old.rows \ {k}
        \/ old.rows = {k} /\ old.at = "marking" /\ new.at = "sending" /\ new.items = old.items /\ new.rows = {}
        \/ old.rows = {k} /\ old.at = "deferring" /\ new.at = "ended" /\ new.items = {} /\ new.rows = {}
    <2>1. CASE left # {}
      BY <1>1, <2>1 DEF RunRecord
    <2>2. CASE left = {}
      <3>1. old.rows = {k}
        BY <1>1, <2>2
      <3>2. new = IF old.at = "marking" THEN [old EXCEPT !.at = "sending", !.rows = {}] ELSE Ended
        BY <2>2
      <3> HIDE DEF new
      <3>3. QED
        BY <1>1, <3>1, <3>2, EndedRecord DEF RunRecord
    <2>3. QED
      BY <2>1, <2>2
  <1> HIDE DEF new
  <1>5. /\ reminderRun' \in [ReminderRuns -> RunRecord] /\ reminderRun'[r] = new
        /\ \A q \in ReminderRuns \ {r} : reminderRun'[q] = reminderRun[q]
    BY <1>1, <1>2, <1>3, SetRunMoves
  <1>6. ReminderTypes'
    BY <1>1, <1>2, <1>5 DEF ReminderTypes
  <1>7. \A i \in Reminders : (Stored(i)' <=> Stored(i)) /\ (Once(i)' <=> Once(i))
    BY <1>2, StorageKept
  <1>8. Grows
    BY <1>2, <1>7 DEF Grows
  <1>9. old.items \subseteq marked \cup old.rows /\ old.rows \subseteq old.items
    BY <1>1 DEF RunSound
  <1>10. ASSUME NEW q \in ReminderRuns PROVE RunSound(q)'
    <2>1. CASE q = r
      <3>1. new.at = "deferring" => \A i \in Reminders : i \in new.items => Stored(i)' \/ i \in forgotten'
        BY <1>1, <1>2, <1>4, <1>7 DEF RunSound, Holds
      <3>2. new.items \subseteq marked' \cup new.rows /\ new.rows \subseteq new.items
        BY <1>2, <1>4, <1>9
      <3>3. new.at \notin {"idle"} /\ (new.at = "ended" => new.items = {}) /\ (new.at = "sending" => new.rows = {})
        BY <1>1, <1>4
      <3>4. QED
        BY <1>5, <2>1, <3>1, <3>2, <3>3 DEF RunSound, Holds
    <2>2. CASE q # r
      BY <1>5, <1>8, <2>2, RunSoundKept DEF ReminderIInv
    <2>3. QED
      BY <2>1, <2>2
  <1>11. \A q \in ReminderRuns \ {r}, i \in Reminders : Holds(q, i)' <=> Holds(q, i)
    BY <1>5 DEF Holds
  <1>12. \A i \in Reminders : /\ Holds(r, i)' => Holds(r, i) /\ new.at \in {"marking", "deferring", "sending"}
                              /\ Holds(r, i) => Holds(r, i)' \/ (new.at = "ended" /\ i \in marked')
    BY <1>1, <1>2, <1>4, <1>5, <1>9 DEF Holds
  <1>13. ASSUME NEW i \in Reminders PROVE Accounted(i)'
    <2>1. \A q \in ReminderRuns : Carries(q, i) => Carries(q, i)'
      <3>1. Carries(r, i) => Carries(r, i)'
        BY <1>1, <1>4, <1>5 DEF Carries, Holds
      <3>2. QED
        BY <1>5, <1>11, <3>1 DEF Carries
    <2>2. CASE i # k
      BY <1>2, <1>8, <2>1, <2>2, AccountedKept DEF ReminderIInv
    <2>3. CASE i = k /\ old.at = "marking"
      <3>1. Carries(r, i)'
        BY <1>1, <1>4, <1>5, <1>9, <2>3 DEF Carries, Holds
      <3>2. QED
        BY <3>1 DEF Accounted, Carries
    <2>4. CASE i = k /\ old.at = "deferring"
      BY <1>1, <1>2, <1>7, <1>9, <2>4 DEF RunSound, Accounted, Holds
    <2>5. QED
      BY <1>1, <2>2, <2>3, <2>4
  <1>14. ASSUME NEW i \in Reminders \ repeated PROVE Single(i)'
    <2>1. Single(i) /\ Once(i)'
      BY <1>7 DEF ReminderIInv, Single
    <2>2. i = k => Holds(r, i)
      BY <1>1, <1>9 DEF Holds
    <2>3. \A q, p \in ReminderRuns : Holds(q, i)' /\ Holds(p, i)' => q = p
      BY <1>11, <1>12, <2>1 DEF Single
    <2>4. \A q \in ReminderRuns : Holds(q, i)' =>
              /\ reminderRun'[q].at \in {"looking", "found"} => i \notin marked' /\ ~Stored(i)'
              /\ reminderRun'[q].at \in {"marking", "sending"} => ~Stored(i)'
      <3>1. CASE Holds(r, i)'
        <4>1. \A q \in ReminderRuns : Holds(q, i)' => q = r
          BY <2>3, <3>1
        <4>2. Holds(r, i) /\ new.at \in {"marking", "deferring", "sending"}
          BY <1>12, <3>1
        <4>3. new.at \in {"marking", "sending"} => old.at \in {"marking", "sending"}
          BY <1>1, <1>4
        <4>4. new.at \in {"marking", "sending"} => ~Stored(i)'
          BY <1>7, <2>1, <4>2, <4>3 DEF Single
        <4>5. QED
          BY <1>5, <4>1, <4>2, <4>4
      <3>2. CASE ~Holds(r, i)'
        <4>1. \A q \in ReminderRuns : Holds(q, i)' => q # r /\ Holds(q, i) /\ reminderRun'[q] = reminderRun[q]
          BY <1>5, <1>11, <3>2
        <4>2. \A q \in ReminderRuns : Holds(q, i)' => i # k
          BY <2>1, <2>2, <4>1 DEF Single
        <4>3. QED
          BY <1>2, <1>7, <2>1, <4>1, <4>2 DEF Single
      <3>3. QED
        BY <3>1, <3>2
    <2>5. Stored(i)' => \/ i \in marked'
                        \/ \E q \in ReminderRuns : Holds(q, i)' /\ reminderRun'[q].at = "deferring"
      <3>1. ASSUME Holds(r, i), old.at = "deferring"
            PROVE  i \in marked' \/ (Holds(r, i)' /\ reminderRun'[r].at = "deferring")
        BY <1>4, <1>5, <1>12, <3>1
      <3>2. QED
        BY <1>2, <1>5, <1>7, <1>11, <2>1, <3>1 DEF Single
    <2>6. QED
      BY <2>1, <2>3, <2>4, <2>5 DEF Single
  <1>15. QED
    BY <1>2, <1>6, <1>10, <1>13, <1>14 DEF ReminderIInv

LEMMA StopRunOK == ASSUME ReminderIInv, NEW r \in ReminderRuns, StopRun(r) PROVE ReminderIInv'
  <1> DEFINE old == reminderRun[r]
  <1>1. ReminderTypes /\ RunSound(r) /\ old \in RunRecord
    BY RunFields DEF ReminderIInv
  <1>2. /\ SetRun(r, Ended)
        /\ UNCHANGED <<minute, marked, digest, kept, claimed, lateDigest>>
        /\ forgotten' = IF old.at \in {"marking", "sending"}
                        THEN forgotten \cup (old.items \ old.rows) ELSE forgotten
        /\ repeated' = IF old.at = "deferring" THEN repeated \cup old.items ELSE repeated
    BY DEF StopRun
  <1>3. /\ reminderRun' \in [ReminderRuns -> RunRecord] /\ reminderRun'[r] = Ended
        /\ \A q \in ReminderRuns \ {r} : reminderRun'[q] = reminderRun[q]
    BY <1>1, <1>2, EndedRecord, SetRunMoves
  <1>4. ReminderTypes'
    <2>1. forgotten' \subseteq Reminders /\ repeated' \subseteq Reminders
      BY <1>1, <1>2, RunFields DEF ReminderTypes
    <2>2. QED
      BY <1>1, <1>2, <1>3, <2>1 DEF ReminderTypes
  <1>5. \A i \in Reminders : (Stored(i)' <=> Stored(i)) /\ (Once(i)' <=> Once(i))
    BY <1>2, StorageKept
  <1>6. Grows
    BY <1>2, <1>5 DEF Grows
  <1>7. ASSUME NEW q \in ReminderRuns PROVE RunSound(q)'
    <2>1. CASE q = r
      BY <1>3, <2>1, EndedRecord DEF RunSound
    <2>2. CASE q # r
      BY <1>3, <1>6, <2>2, RunSoundKept DEF ReminderIInv
    <2>3. QED
      BY <2>1, <2>2
  <1>8. \A i \in Reminders : /\ ~Holds(r, i)'
                             /\ \A q \in ReminderRuns \ {r} : Holds(q, i)' <=> Holds(q, i)
    BY <1>3, EndedRecord DEF Holds
  <1>9. ASSUME NEW i \in Reminders PROVE Accounted(i)'
    <2>1. Carries(r, i) => i \in forgotten'
      BY <1>2 DEF Carries, Holds
    <2>2. \A q \in ReminderRuns : Carries(q, i) => Carries(q, i)' \/ i \in forgotten'
      BY <1>3, <1>8, <2>1 DEF Carries
    <2>3. QED
      BY <1>2, <1>6, <2>2, AccountedKept DEF ReminderIInv
  <1>10. ASSUME NEW i \in Reminders \ repeated' PROVE Single(i)'
    <2>1. Single(i) /\ Once(i)'
      BY <1>2, <1>5 DEF ReminderIInv, Single
    <2>2. Holds(r, i) => old.at # "deferring"
      BY <1>2 DEF Holds
    <2>3. \A q \in ReminderRuns : Holds(q, i)' => q # r /\ Holds(q, i) /\ reminderRun'[q] = reminderRun[q]
      BY <1>3, <1>8
    <2>4. Stored(i)' => \/ i \in marked'
                        \/ \E q \in ReminderRuns : Holds(q, i)' /\ reminderRun'[q].at = "deferring"
      BY <1>2, <1>3, <1>5, <1>8, <2>1, <2>2 DEF Single
    <2>5. QED
      BY <1>2, <1>5, <2>1, <2>3, <2>4 DEF Single
  <1>11. QED
    BY <1>4, <1>7, <1>9, <1>10 DEF ReminderIInv

LEMMA StoreDeferredReminderOK ==
    ASSUME ReminderIInv, NEW r \in ReminderRuns, StoreDeferredReminder(r)
    PROVE  ReminderIInv'
  <1> DEFINE old == reminderRun[r]
             new == [old EXCEPT !.at = "deferring", !.rows = old.items]
  <1>1. /\ ReminderTypes /\ RunSound(r) /\ old \in RunRecord /\ old.at = "found"
        /\ old.minute \in Minutes /\ old.items \subseteq Reminders
    BY RunFields DEF ReminderIInv, StoreDeferredReminder
  <1>2. new \in RunRecord /\ new.at = "deferring" /\ new.rows = old.items /\ new.items = old.items
    BY <1>1 DEF RunRecord
  <1>3. /\ SetRun(r, new)
        /\ kept' = [kept EXCEPT ![old.minute] = old.items]
        /\ forgotten' = forgotten \cup (kept[old.minute] \ old.items)
        /\ UNCHANGED <<minute, marked, digest, claimed, lateDigest, repeated>>
    BY DEF StoreDeferredReminder
  <1> HIDE DEF new
  <1>4. /\ reminderRun' \in [ReminderRuns -> RunRecord] /\ reminderRun'[r] = new
        /\ \A q \in ReminderRuns \ {r} : reminderRun'[q] = reminderRun[q]
    BY <1>1, <1>2, <1>3, SetRunMoves
  <1>5. ReminderTypes'
    <2>1. kept' \in [Minutes -> SUBSET Reminders] /\ forgotten' \subseteq Reminders
      BY <1>1, <1>3 DEF ReminderTypes
    <2>2. QED
      BY <1>1, <1>3, <1>4, <2>1 DEF ReminderTypes
  <1>6. /\ \A m \in Minutes : kept'[m] = IF m = old.minute THEN old.items ELSE kept[m]
        /\ digest' = digest /\ lateDigest' = lateDigest /\ claimed' = claimed
    BY <1>1, <1>3 DEF ReminderTypes
  <1>7. \A i \in old.items : /\ Stored(i)' /\ (~Stored(i) => Once(i)')
    BY <1>1, <1>6 DEF Stored, Once, DigestHas, LateHas, KeptHas, ClaimHas
  <1>8. ASSUME NEW i \in Reminders, i \notin old.items
        PROVE  /\ Stored(i)' => Stored(i)
               /\ Stored(i) => Stored(i)' \/ i \in forgotten'
               /\ Once(i) => Once(i)'
    <2>1. \A m \in Minutes : i \in kept'[m] => i \in kept[m]
      BY <1>6, <1>8
    <2>2. (KeptHas(i)' => KeptHas(i)) /\ (KeptHas(i) => KeptHas(i)' \/ i \in forgotten')
      BY <1>3, <1>6, <1>8 DEF KeptHas
    <2>3. (DigestHas(i)' <=> DigestHas(i)) /\ (LateHas(i)' <=> LateHas(i)) /\ (ClaimHas(i)' <=> ClaimHas(i))
      BY <1>6 DEF DigestHas, LateHas, ClaimHas
    <2>4. Once(i) => Once(i)'
      BY <1>6, <2>1, <2>2, <2>3 DEF Once
    <2>5. QED
      BY <2>2, <2>3, <2>4 DEF Stored
  <1>9. Grows
    BY <1>3, <1>7, <1>8 DEF Grows
  <1>10. ASSUME NEW q \in ReminderRuns PROVE RunSound(q)'
    <2>1. CASE q = r
      BY <1>2, <1>4, <1>7, <2>1 DEF RunSound, Holds
    <2>2. CASE q # r
      BY <1>4, <1>9, <2>2, RunSoundKept DEF ReminderIInv
    <2>3. QED
      BY <2>1, <2>2
  <1>11. \A q \in ReminderRuns, i \in Reminders : Holds(q, i)' <=> Holds(q, i)
    BY <1>2, <1>4 DEF Holds
  <1>12. ASSUME NEW i \in Reminders PROVE Accounted(i)'
    <2>1. \A q \in ReminderRuns : Carries(q, i) => Carries(q, i)'
      BY <1>1, <1>4, <1>11 DEF Carries
    <2>2. QED
      BY <1>3, <1>9, <2>1, AccountedKept DEF ReminderIInv
  <1>13. ASSUME NEW i \in Reminders \ repeated PROVE Single(i)'
    <2>1. Single(i)
      BY DEF ReminderIInv
    <2>2. CASE Holds(r, i)
      <3>1. ~Stored(i) /\ i \in old.items /\ \A q \in ReminderRuns : Holds(q, i) => q = r
        BY <1>1, <2>1, <2>2 DEF Single, Holds
      <3>2. Once(i)'
        BY <1>7, <3>1
      <3>3. QED
        BY <1>2, <1>4, <1>11, <2>2, <3>1, <3>2 DEF Single
    <2>3. CASE ~Holds(r, i)
      <3>1. i \notin old.items
        BY <2>3 DEF Holds
      <3>2. \A q \in ReminderRuns : Holds(q, i)' => q # r /\ Holds(q, i) /\ reminderRun'[q] = reminderRun[q]
        BY <1>4, <1>11, <2>3
      <3>3. Stored(i)' => \/ i \in marked'
                          \/ \E q \in ReminderRuns : Holds(q, i)' /\ reminderRun'[q].at = "deferring"
        BY <1>3, <1>4, <1>8, <1>11, <2>1, <2>3, <3>1 DEF Single
      <3>4. QED
        BY <1>3, <1>8, <2>1, <3>1, <3>2, <3>3 DEF Single
    <2>4. QED
      BY <2>2, <2>3
  <1>14. QED
    BY <1>3, <1>5, <1>10, <1>12, <1>13 DEF ReminderIInv

LEMMA SendDigestOK == ASSUME ReminderIInv, NEW r \in ReminderRuns, SendDigest(r) PROVE ReminderIInv'
  <1> DEFINE old == reminderRun[r]
             sent == IF digest[old.minute] = {} THEN old.items ELSE digest[old.minute]
  <1>1. /\ ReminderTypes /\ RunSound(r) /\ old \in RunRecord /\ old.at = "sending"
        /\ old.minute \in Minutes /\ old.items \subseteq Reminders
    BY RunFields DEF ReminderIInv, SendDigest
  <1>2. /\ SetRun(r, Ended)
        /\ digest' = [digest EXCEPT ![old.minute] = sent]
        /\ forgotten' = forgotten \cup (old.items \ sent)
        /\ UNCHANGED <<minute, marked, kept, claimed, lateDigest, repeated>>
    BY DEF SendDigest
  <1>3. sent \subseteq Reminders /\ digest[old.minute] \subseteq sent
        /\ (sent = digest[old.minute] \/ sent = old.items)
    BY <1>1 DEF ReminderTypes
  <1> HIDE DEF sent
  <1>4. /\ reminderRun' \in [ReminderRuns -> RunRecord] /\ reminderRun'[r] = Ended
        /\ \A q \in ReminderRuns \ {r} : reminderRun'[q] = reminderRun[q]
    BY <1>1, <1>2, EndedRecord, SetRunMoves
  <1>5. ReminderTypes'
    <2>1. digest' \in [Minutes -> SUBSET Reminders] /\ forgotten' \subseteq Reminders
      BY <1>1, <1>2, <1>3 DEF ReminderTypes
    <2>2. QED
      BY <1>1, <1>2, <1>4, <2>1 DEF ReminderTypes
  <1>6. /\ \A m \in Minutes : digest'[m] = IF m = old.minute THEN sent ELSE digest[m]
        /\ kept' = kept /\ lateDigest' = lateDigest /\ claimed' = claimed
    BY <1>1, <1>2 DEF ReminderTypes
  <1>7. \A i \in Reminders : /\ LateHas(i)' <=> LateHas(i)
                             /\ (KeptHas(i)' <=> KeptHas(i)) /\ (ClaimHas(i)' <=> ClaimHas(i))
                             /\ DigestHas(i) => DigestHas(i)'
                             /\ DigestHas(i)' => DigestHas(i) \/ i \in old.items
    BY <1>1, <1>3, <1>6 DEF DigestHas, LateHas, KeptHas, ClaimHas
  <1>8. \A i \in Reminders : /\ Stored(i) => Stored(i)'
                             /\ Stored(i)' => Stored(i) \/ i \in old.items
    BY <1>7 DEF Stored
  <1>9. \A i \in old.items : Stored(i)' \/ i \in forgotten'
    BY <1>1, <1>2, <1>6 DEF Stored, DigestHas
  <1>10. \A i \in Reminders : /\ i \notin old.items /\ Once(i) => Once(i)'
                              /\ ~Stored(i) => Once(i)'
    <2>1. \A i \in Reminders : i \notin old.items =>
              \A m \in Minutes : i \in digest'[m] => i \in digest[m]
      BY <1>3, <1>6
    <2>2. \A i \in Reminders : ~Stored(i) => \A m \in Minutes : i \in digest'[m] => m = old.minute
      BY <1>6 DEF Stored, DigestHas
    <2>3. \A i \in Reminders : i \notin old.items /\ Once(i) => Once(i)'
      BY <1>6, <1>7, <2>1 DEF Once
    <2>4. \A i \in Reminders : ~Stored(i) => Once(i)'
      BY <1>6, <1>7, <2>2 DEF Stored, Once, DigestHas, LateHas, KeptHas, ClaimHas
    <2>5. QED
      BY <2>3, <2>4
  <1>11. Grows
    BY <1>2, <1>8 DEF Grows
  <1>12. ASSUME NEW q \in ReminderRuns PROVE RunSound(q)'
    <2>1. CASE q = r
      BY <1>4, <2>1, EndedRecord DEF RunSound
    <2>2. CASE q # r
      BY <1>4, <1>11, <2>2, RunSoundKept DEF ReminderIInv
    <2>3. QED
      BY <2>1, <2>2
  <1>13. \A i \in Reminders : /\ ~Holds(r, i)'
                              /\ \A q \in ReminderRuns \ {r} : Holds(q, i)' <=> Holds(q, i)
    BY <1>4, EndedRecord DEF Holds
  <1>14. ASSUME NEW i \in Reminders PROVE Accounted(i)'
    <2>1. Carries(r, i) => Stored(i)' \/ i \in forgotten'
      BY <1>9 DEF Carries, Holds
    <2>2. \A q \in ReminderRuns : Carries(q, i) => Carries(q, i)' \/ Stored(i)' \/ i \in forgotten'
      BY <1>4, <1>13, <2>1 DEF Carries
    <2>3. QED
      BY <1>2, <1>11, <2>2, AccountedKept DEF ReminderIInv
  <1>15. ASSUME NEW i \in Reminders \ repeated PROVE Single(i)'
    <2>1. Single(i)
      BY DEF ReminderIInv
    <2>2. \A q \in ReminderRuns : Holds(q, i)' => q # r /\ Holds(q, i) /\ reminderRun'[q] = reminderRun[q]
      BY <1>4, <1>13
    <2>3. CASE Holds(r, i)
      <3>1. ~Stored(i) /\ i \in marked /\ \A q \in ReminderRuns : Holds(q, i) => q = r
        BY <1>1, <2>1, <2>3 DEF Single, RunSound, Holds
      <3>2. Once(i)' /\ i \in marked' /\ \A q \in ReminderRuns : ~Holds(q, i)'
        BY <1>2, <1>10, <2>2, <3>1
      <3>3. QED
        BY <3>2 DEF Single
    <2>4. CASE ~Holds(r, i)
      <3>1. i \notin old.items
        BY <2>4 DEF Holds
      <3>2. (Stored(i)' <=> Stored(i)) /\ Once(i)'
        BY <1>8, <1>10, <2>1, <3>1 DEF Single
      <3>3. Stored(i)' => \/ i \in marked'
                          \/ \E q \in ReminderRuns : Holds(q, i)' /\ reminderRun'[q].at = "deferring"
        BY <1>2, <1>4, <1>13, <2>1, <2>4, <3>2 DEF Single
      <3>4. QED
        BY <1>2, <2>1, <2>2, <3>2, <3>3 DEF Single
    <2>5. QED
      BY <2>3, <2>4
  <1>16. QED
    BY <1>2, <1>5, <1>12, <1>14, <1>15 DEF ReminderIInv

LEMMA ClaimDueRemindersOK ==
    ASSUME ReminderIInv, NEW m \in Minutes, ClaimDueReminders(m)
    PROVE  ReminderIInv'
  <1> DEFINE new == [minute |-> m, items |-> kept[m]]
  <1>1. ReminderTypes
    BY DEF ReminderIInv
  <1>2. /\ claimed' = claimed \cup {new} /\ kept' = [kept EXCEPT ![m] = {}]
        /\ UNCHANGED <<minute, reminderRun, marked, digest, lateDigest, forgotten, repeated>>
    BY DEF ClaimDueReminders
  <1>3. new \in [minute : Minutes, items : SUBSET Reminders] /\ new.items = kept[m]
    BY <1>1 DEF ReminderTypes
  <1> HIDE DEF new
  <1>4. \A n \in Minutes : kept'[n] = IF n = m THEN {} ELSE kept[n]
    BY <1>1, <1>2 DEF ReminderTypes
  <1>5. ReminderTypes'
    <2>1. kept' \in [Minutes -> SUBSET Reminders]
      BY <1>1, <1>2 DEF ReminderTypes
    <2>2. QED
      BY <1>1, <1>2, <1>3, <2>1 DEF ReminderTypes
  <1>6. \A i \in Reminders : /\ (DigestHas(i)' <=> DigestHas(i)) /\ (LateHas(i)' <=> LateHas(i))
                             /\ ClaimHas(i)' <=> ClaimHas(i) \/ i \in kept[m]
                             /\ KeptHas(i) <=> KeptHas(i)' \/ i \in kept[m]
    BY <1>2, <1>3, <1>4 DEF DigestHas, LateHas, KeptHas, ClaimHas
  <1>7. \A i \in Reminders : Stored(i)' <=> Stored(i)
    BY <1>6 DEF Stored
  <1>8. ASSUME NEW i \in Reminders, Once(i) PROVE Once(i)'
    <2>1. CASE i \in kept[m]
      <3>1. KeptHas(i) /\ ~ClaimHas(i) /\ ~DigestHas(i) /\ ~LateHas(i)
        BY <1>8, <2>1 DEF Once, KeptHas
      <3>2. ~KeptHas(i)'
        BY <1>4, <1>8, <2>1 DEF Once, KeptHas
      <3>3. \A c \in claimed' : i \in c.items => c = new
        BY <1>2, <3>1 DEF ClaimHas
      <3>4. QED
        BY <1>2, <1>6, <3>1, <3>2, <3>3 DEF Once, DigestHas, LateHas, KeptHas
    <2>2. CASE i \notin kept[m]
      <3>1. \A n \in Minutes : i \in kept'[n] => i \in kept[n]
        BY <1>4
      <3>2. \A c \in claimed' : i \in c.items => c \in claimed
        BY <1>2, <1>3, <2>2
      <3>3. /\ DigestHas(i)' <=> DigestHas(i)
            /\ LateHas(i)' <=> LateHas(i)
            /\ ClaimHas(i)' <=> ClaimHas(i)
            /\ KeptHas(i)' <=> KeptHas(i)
        BY <1>6, <2>2
      <3>4. QED
        BY <1>2, <1>8, <3>1, <3>2, <3>3 DEF Once
    <2>3. QED
      BY <2>1, <2>2
  <1>9. forgotten \subseteq forgotten' /\ UNCHANGED <<reminderRun, marked, repeated>>
    BY <1>2
  <1>10. QED
    BY <1>5, <1>7, <1>8, <1>9, StorageMoves

LEMMA DeliverDeferredOK ==
    ASSUME ReminderIInv, NEW c \in claimed, DeliverDeferred(c)
    PROVE  ReminderIInv'
  <1> DEFINE m == c.minute
             sent == IF lateDigest[m] = {} THEN c.items ELSE lateDigest[m]
  <1>1. ReminderTypes /\ m \in Minutes /\ c.items \subseteq Reminders
    BY DEF ReminderIInv, ReminderTypes
  <1>2. /\ claimed' = claimed \ {c} /\ lateDigest' = [lateDigest EXCEPT ![m] = sent]
        /\ forgotten' = forgotten \cup (c.items \ sent)
        /\ UNCHANGED <<minute, reminderRun, marked, digest, kept, repeated>>
    BY DEF DeliverDeferred
  <1>3. /\ sent \subseteq Reminders /\ lateDigest[m] \subseteq sent
        /\ sent = lateDigest[m] \/ sent = c.items
    BY <1>1 DEF ReminderTypes
  <1> HIDE DEF m, sent
  <1>4. \A n \in Minutes : lateDigest'[n] = IF n = m THEN sent ELSE lateDigest[n]
    BY <1>1, <1>2 DEF ReminderTypes
  <1>5. ReminderTypes'
    <2>1. lateDigest' \in [Minutes -> SUBSET Reminders] /\ forgotten' \subseteq Reminders
      BY <1>1, <1>2, <1>3 DEF ReminderTypes
    <2>2. QED
      BY <1>1, <1>2, <2>1 DEF ReminderTypes
  <1>6. \A i \in Reminders : /\ (DigestHas(i)' <=> DigestHas(i)) /\ (KeptHas(i)' <=> KeptHas(i))
                             /\ ClaimHas(i)' => ClaimHas(i)
                             /\ ClaimHas(i) => ClaimHas(i)' \/ i \in c.items
                             /\ LateHas(i) => LateHas(i)'
                             /\ LateHas(i)' => LateHas(i) \/ i \in c.items
                             /\ i \in c.items => LateHas(i)' \/ i \in forgotten'
    <2>1. \A i \in Reminders : (DigestHas(i)' <=> DigestHas(i)) /\ (KeptHas(i)' <=> KeptHas(i))
      BY <1>2 DEF DigestHas, KeptHas
    <2>2. \A i \in Reminders : /\ ClaimHas(i)' => ClaimHas(i)
                               /\ ClaimHas(i) => ClaimHas(i)' \/ i \in c.items
      BY <1>2 DEF ClaimHas
    <2>3. \A i \in Reminders : /\ LateHas(i) => LateHas(i)'
                               /\ LateHas(i)' => LateHas(i) \/ i \in c.items
                               /\ i \in c.items => LateHas(i)' \/ i \in forgotten'
      BY <1>1, <1>2, <1>3, <1>4 DEF LateHas
    <2>4. QED
      BY <2>1, <2>2, <2>3
  <1>7. \A i \in Reminders : i \in c.items => ClaimHas(i)
    BY DEF ClaimHas
  <1>8. \A i \in Reminders : /\ Stored(i)' => Stored(i)
                             /\ Stored(i) => Stored(i)' \/ i \in forgotten'
    BY <1>6, <1>7 DEF Stored
  <1>9. ASSUME NEW i \in Reminders, Once(i) PROVE Once(i)'
    <2>1. CASE i \in c.items
      <3>1. ClaimHas(i) /\ ~DigestHas(i) /\ ~LateHas(i) /\ ~KeptHas(i)
        BY <1>7, <1>9, <2>1 DEF Once
      <3>2. ~ClaimHas(i)'
        BY <1>2, <1>9, <2>1 DEF Once, ClaimHas
      <3>3. \A n \in Minutes : i \in lateDigest'[n] => n = m
        BY <1>4, <3>1 DEF LateHas
      <3>4. QED
        BY <1>2, <1>6, <3>1, <3>2, <3>3 DEF Once, DigestHas, KeptHas, ClaimHas
    <2>2. CASE i \notin c.items
      <3>1. \A n \in Minutes : i \in lateDigest'[n] => i \in lateDigest[n]
        BY <1>3, <1>4, <2>2
      <3>2. \A d \in claimed' : d \in claimed
        BY <1>2
      <3>3. LateHas(i)' => LateHas(i)
        BY <1>6, <2>2
      <3>4. QED
        BY <1>2, <1>6, <1>9, <3>1, <3>2, <3>3 DEF Once
    <2>3. QED
      BY <2>1, <2>2
  <1>10. forgotten \subseteq forgotten' /\ UNCHANGED <<reminderRun, marked, repeated>>
    BY <1>2
  <1>11. QED
    BY <1>5, <1>8, <1>9, <1>10, StorageMoves

LEMMA DeliveryFailsOK == ASSUME ReminderIInv, NEW c \in claimed, DeliveryFails(c) PROVE ReminderIInv'
  <1>1. ReminderTypes /\ c.items \subseteq Reminders
    BY DEF ReminderIInv, ReminderTypes
  <1>2. /\ claimed' = claimed \ {c} /\ forgotten' = forgotten \cup c.items
        /\ UNCHANGED <<minute, reminderRun, marked, digest, kept, lateDigest, repeated>>
    BY DEF DeliveryFails
  <1>3. ReminderTypes'
    BY <1>1, <1>2 DEF ReminderTypes
  <1>4. \A i \in Reminders : /\ DigestHas(i)' <=> DigestHas(i)
                             /\ (LateHas(i)' <=> LateHas(i)) /\ (KeptHas(i)' <=> KeptHas(i))
                             /\ ClaimHas(i)' => ClaimHas(i)
                             /\ ClaimHas(i) => ClaimHas(i)' \/ i \in forgotten'
    BY <1>2 DEF DigestHas, LateHas, KeptHas, ClaimHas
  <1>5. \A i \in Reminders : /\ Stored(i)' => Stored(i)
                             /\ Stored(i) => Stored(i)' \/ i \in forgotten'
    BY <1>4 DEF Stored
  <1>6. \A i \in Reminders : Once(i) => Once(i)'
    BY <1>2, <1>4 DEF Once
  <1>7. forgotten \subseteq forgotten' /\ UNCHANGED <<reminderRun, marked, repeated>>
    BY <1>2
  <1>8. QED
    BY <1>3, <1>5, <1>6, <1>7, StorageMoves

LEMMA ReminderStep == ReminderIInv /\ [ReminderNext]_reminderVars => ReminderIInv'
  <1> SUFFICES ASSUME ReminderIInv, [ReminderNext]_reminderVars PROVE ReminderIInv'
    OBVIOUS
  <1>1. ASSUME UNCHANGED <<reminderRun, marked, digest, kept, claimed, lateDigest, forgotten, repeated>>,
               minute' \in Minutes
        PROVE  ReminderIInv'
    <2>1. ReminderTypes'
      BY <1>1 DEF ReminderIInv, ReminderTypes
    <2>2. \A i \in Reminders : (Stored(i)' <=> Stored(i)) /\ (Once(i)' <=> Once(i))
      BY <1>1, StorageKept
    <2>3. forgotten \subseteq forgotten' /\ UNCHANGED <<reminderRun, marked, repeated>>
      BY <1>1
    <2>4. QED
      BY <2>1, <2>2, <2>3, StorageMoves
  <1>2. minute \in Minutes /\ MaxMinute \in Nat
    BY NotificationAssumption DEF ReminderIInv, ReminderTypes
  <1>3. ASSUME NEW i \in Reminders, MoveWindow(i) PROVE ReminderIInv'
    BY <1>1, <1>2, <1>3 DEF MoveWindow
  <1>4. CASE PassMinute
    <2>1. minute' \in Minutes
      BY <1>2, <1>4 DEF PassMinute, Minutes
    <2>2. QED
      BY <1>1, <1>4, <2>1 DEF PassMinute
  <1>5. CASE UNCHANGED reminderVars
    BY <1>1, <1>2, <1>5 DEF reminderVars
  <1>6. QED
    BY <1>3, <1>4, <1>5, StartRunOK, StartMarkingOK, StoreDeferredReminderOK, SendDigestOK, StopRunOK,
       LookUpOK, MarkReminderOK, ClaimDueRemindersOK, DeliverDeferredOK, DeliveryFailsOK DEF ReminderNext

LEMMA ReminderInitOK == ReminderInit => ReminderIInv
  <1> SUFFICES ASSUME ReminderInit PROVE ReminderIInv
    OBVIOUS
  <1>1. NoReminderRun \in RunRecord /\ NoReminderRun.at = "idle" /\ NoReminderRun.items = {} /\ 0 \in Minutes
    BY NotificationAssumption DEF NoReminderRun, RunRecord, Minutes
  <1>2. ReminderTypes
    BY <1>1 DEF ReminderInit, ReminderTypes
  <1>3. \A r \in ReminderRuns : reminderRun[r].at = "idle" /\ reminderRun[r].items = {}
    BY <1>1 DEF ReminderInit
  <1>4. \A i \in Reminders : ~Stored(i) /\ Once(i)
    BY DEF ReminderInit, Stored, Once, DigestHas, LateHas, KeptHas, ClaimHas
  <1>5. \A r \in ReminderRuns : RunSound(r)
    BY <1>3 DEF RunSound
  <1>6. \A i \in Reminders : Accounted(i) /\ Single(i)
    BY <1>3, <1>4 DEF ReminderInit, Accounted, Single, Holds
  <1>7. QED
    BY <1>2, <1>5, <1>6 DEF ReminderIInv

\* Where a single reminder lies is one place at most.
LEMMA OneDigest ==
    ASSUME NEW i \in Reminders, Single(i), NEW x \in DigestsOf(i), NEW y \in DigestsOf(i)
    PROVE  x = y
  <1> DEFINE Place(p) ==
          \/ \E m \in Minutes : i \in digest[m] /\ p = <<"sent", m>>
          \/ \E m \in Minutes : i \in lateDigest[m] /\ p = <<"late", m>>
          \/ \E m \in Minutes : i \in kept[m] /\ p = <<"kept", m>>
          \/ \E c \in claimed : i \in c.items /\ p = <<"claimed", c>>
          \/ \E r \in ReminderRuns : /\ Holds(r, i) /\ reminderRun[r].at \in {"marking", "sending"}
                                     /\ p = <<"run", r>>
  <1>1. Place(x) /\ Place(y)
    BY DEF DigestsOf
  <1>2. Once(i) /\ \A r, q \in ReminderRuns : Holds(r, i) /\ Holds(q, i) => r = q
    BY DEF Single
  <1>3. \A r \in ReminderRuns : Holds(r, i) /\ reminderRun[r].at \in {"marking", "sending"} => ~Stored(i)
    BY DEF Single
  <1>4. QED
    BY <1>1, <1>2, <1>3 DEF Once, Stored, DigestHas, LateHas, KeptHas, ClaimHas

LEMMA RemindersHold == ReminderIInv => RemindersAccounted
  <1> SUFFICES ASSUME ReminderIInv, NEW i \in Reminders
               PROVE  /\ i \in marked => DigestsOf(i) # {} \/ i \in forgotten
                      /\ Cardinality(DigestsOf(i)) > 1 => i \in repeated
    BY DEF RemindersAccounted
  <1>1. i \in marked => DigestsOf(i) # {} \/ i \in forgotten
    <2>1. Stored(i) => DigestsOf(i) # {}
      <3>1. ASSUME NEW m \in Minutes
            PROVE  /\ i \in digest[m] => <<"sent", m>> \in DigestsOf(i)
                   /\ i \in lateDigest[m] => <<"late", m>> \in DigestsOf(i)
                   /\ i \in kept[m] => <<"kept", m>> \in DigestsOf(i)
        BY DEF DigestsOf
      <3>2. \A c \in claimed : i \in c.items => <<"claimed", c>> \in DigestsOf(i)
        BY DEF DigestsOf
      <3>3. QED
        BY <3>1, <3>2 DEF Stored, DigestHas, LateHas, KeptHas, ClaimHas
    <2>2. \A r \in ReminderRuns : Carries(r, i) => DigestsOf(i) # {}
      <3>1. \A r \in ReminderRuns :
                Holds(r, i) /\ reminderRun[r].at \in {"marking", "sending"} => <<"run", r>> \in DigestsOf(i)
        BY DEF DigestsOf
      <3>2. QED
        BY <3>1 DEF Carries
    <2>3. QED
      BY <2>1, <2>2 DEF ReminderIInv, Accounted, Carries
  <1>2. ASSUME i \notin repeated PROVE ~(Cardinality(DigestsOf(i)) > 1)
    <2>1. \A x, y \in DigestsOf(i) : x = y
      BY <1>2, OneDigest DEF ReminderIInv
    <2> HIDE DEF DigestsOf
    <2>2. CASE DigestsOf(i) = {}
      BY <2>2, FS_EmptySet
    <2>3. CASE DigestsOf(i) # {}
      <3>1. PICK x : x \in DigestsOf(i)
        BY <2>3
      <3>2. DigestsOf(i) = {x}
        BY <2>1, <3>1
      <3>3. Cardinality({x}) = 1
        BY FS_Singleton
      <3>4. QED
        BY <3>2, <3>3
    <2>4. QED
      BY <2>2, <2>3
  <1>3. QED
    BY <1>1, <1>2

\* vaultExpiry.service.ts, markVaultExpiries, sendMilestoneDigestReminders and
\* processDeferredReminders: for any number of vaults and checks, reminders, runs and
\* minutes, the owner of a failed vault is told of it, and told once, and a reminder that
\* is marked lies in one digest that is sent, kept or about to be, but for what the
\* histories name.
THEOREM NobodyForgotten == NoticeSpec /\ ReminderSpec => []NotificationsAccounted
  <1>1. NoticeSpec => []NoticesAccounted
    BY NoticeInitOK, NoticeStep, NoticesHold, PTL DEF NoticeSpec
  <1>2. ReminderSpec => []RemindersAccounted
    BY ReminderInitOK, ReminderStep, RemindersHold, PTL DEF ReminderSpec
  <1>3. QED
    BY <1>1, <1>2, PTL DEF NotificationsAccounted

-----------------------------------------------------------------------------
(* The end of the quiet hours *)

\* A number is a multiple of the length and what is left over, in one way.
LEMMA Parts ==
    ASSUME NEW x \in Int, NEW D \in Nat \ {0}
    PROVE  x = D * (x \div D) + (x % D) /\ (x % D) \in 0 .. D - 1 /\ (x \div D) \in Int
  OBVIOUS

LEMMA OneWay ==
    ASSUME NEW q \in Int, NEW p \in Int, NEW D \in Nat \ {0}, NEW r \in 0 .. D - 1, NEW s \in 0 .. D - 1,
           D * q + r = D * p + s
    PROVE  q = p /\ r = s
  <1>1. D * (q - p) = s - r
    OBVIOUS
  <1>2. CASE q - p >= 1
    <2>1. D * (q - p) >= D
      BY <1>2
    <2>2. QED
      BY <1>1, <2>1
  <1>3. CASE p - q >= 1
    <2>1. D * (p - q) >= D
      BY <1>3
    <2>2. D * (p - q) = r - s
      BY <1>1
    <2>3. QED
      BY <2>1, <2>2
  <1>4. QED
    BY <1>2, <1>3

LEMMA PartsAre ==
    ASSUME NEW q \in Int, NEW D \in Nat \ {0}, NEW r \in 0 .. D - 1, NEW x \in Int, x = D * q + r
    PROVE  x \div D = q /\ x % D = r
  <1>1. x = D * (x \div D) + (x % D) /\ (x % D) \in 0 .. D - 1 /\ (x \div D) \in Int
    BY Parts
  <1> DEFINE p == x \div D
             s == x % D
  <1>2. p \in Int /\ s \in 0 .. D - 1 /\ D * q + r = D * p + s
    BY <1>1
  <1> HIDE DEF p, s
  <1>3. q = p /\ r = s
    BY <1>2, OneWay
  <1>4. QED
    BY <1>3 DEF p, s

\* The offset of the zone at a time, and what the printed hour adds to the minutes.
Offset(x) == IF x < ClockChange THEN zone.before ELSE zone.after
Added(x) == IF LocalMinute(x) < HourLength THEN zone.midnight ELSE 0

QuietIInv ==
    /\ instant \in Int
    /\ zone \in [before : Offsets, after : Offsets, midnight : {0, DayLength}]
    /\ zone.after - zone.before \in {-1, 0, 1}
    /\ window \in [startTime : 0 .. DayLength - 1, endTime : 0 .. DayLength - 1]

LEMMA QuietFacts ==
    ASSUME QuietIInv
    PROVE  /\ DayLength \in Nat \ {0} /\ MonthLength \in Nat \ {0} /\ HourLength \in Nat \ {0}
           /\ instant \in Int /\ ClockChange \in Int
           /\ zone.before \in Int /\ zone.after \in Int /\ zone.midnight \in {0, DayLength}
           /\ zone.after - zone.before \in {-1, 0, 1}
           /\ window.startTime \in 0 .. DayLength - 1 /\ window.endTime \in 0 .. DayLength - 1
  <1>1. /\ DayLength \in Nat \ {0} /\ MonthLength \in Nat \ {0} /\ HourLength \in Nat \ {0}
        /\ Offsets \subseteq Int /\ ClockChange \in Nat /\ MaxInstant \in Nat
    BY QuietAssumption
  <1>2. instant \in Int /\ zone.after - zone.before \in {-1, 0, 1}
    BY DEF QuietIInv
  <1>3. zone.before \in Offsets /\ zone.after \in Offsets /\ zone.midnight \in {0, DayLength}
    BY DEF QuietIInv
  <1>4. window.startTime \in 0 .. DayLength - 1 /\ window.endTime \in 0 .. DayLength - 1
    BY DEF QuietIInv
  <1>5. zone.before \in Int /\ zone.after \in Int
    BY <1>1, <1>3
  <1>6. instant \in Int /\ ClockChange \in Int
    BY <1>1, <1>2
  <1>7. QED
    BY ONLY <1>1, <1>2, <1>3, <1>4, <1>5, <1>6

LEMMA LocalTime ==
    ASSUME QuietIInv, NEW x \in Int
    PROVE  /\ Offset(x) \in {zone.before, zone.after} /\ Offset(x) \in Int
           /\ Local(x) = x + Offset(x) /\ Local(x) \in Int
           /\ LocalMinute(x) \in 0 .. DayLength - 1 /\ LocalDay(x) \in Int
           /\ Local(x) = DayLength * LocalDay(x) + LocalMinute(x)
           /\ ShownMinutes(x) = LocalMinute(x) + Added(x)
           /\ Added(x) \in {0, zone.midnight} /\ Added(x) \in Nat
  <1>1. Offset(x) \in {zone.before, zone.after} /\ Offset(x) \in Int
    BY QuietFacts DEF Offset
  <1>2. Local(x) = x + Offset(x) /\ Local(x) \in Int
    BY <1>1 DEF Local, Offset
  <1>3. /\ LocalMinute(x) \in 0 .. DayLength - 1 /\ LocalDay(x) \in Int
        /\ Local(x) = DayLength * LocalDay(x) + LocalMinute(x)
    <2> HIDE DEF Local
    <2>1. QED
      BY <1>2, QuietFacts, Parts DEF LocalMinute, LocalDay
  <1>4. /\ ShownMinutes(x) = LocalMinute(x) + Added(x)
        /\ Added(x) \in {0, zone.midnight} /\ Added(x) \in Nat
    <2> HIDE DEF LocalMinute
    <2>1. QED
      BY <1>3, QuietFacts DEF ShownMinutes, Added
  <1>5. QED
    BY <1>1, <1>2, <1>3, <1>4

\* The local time read off a time and the offset at it.
LEMMA LocalParts ==
    ASSUME QuietIInv, NEW x \in Int, NEW q \in Int, NEW r \in 0 .. DayLength - 1,
           x + Offset(x) = DayLength * q + r
    PROVE  LocalDay(x) = q /\ LocalMinute(x) = r
  <1>1. Local(x) = DayLength * q + r /\ Local(x) \in Int
    BY LocalTime
  <1> HIDE DEF Local
  <1>2. QED
    BY <1>1, QuietFacts, PartsAre DEF LocalDay, LocalMinute

LEMMA DaysApart ==
    ASSUME QuietIInv, NEW p \in Int, NEW q \in Int, p \div MonthLength = q \div MonthLength
    PROVE  DayOfMonth(p) - DayOfMonth(q) = p - q
  <1>1. ASSUME NEW x \in Int
        PROVE  /\ x = MonthLength * (x \div MonthLength) + (x % MonthLength)
               /\ (x % MonthLength) \in Int /\ (x \div MonthLength) \in Int
    <2>1. MonthLength \in Nat \ {0}
      BY QuietFacts
    <2>2. QED
      BY ONLY <2>1, x \in Int, Parts
  <1> DEFINE m == q \div MonthLength
             r == p % MonthLength
             s == q % MonthLength
  <1>2. p = MonthLength * m + r /\ q = MonthLength * m + s /\ {r, s, m, MonthLength} \subseteq Int
    BY <1>1, QuietFacts
  <1>3. DayOfMonth(p) - DayOfMonth(q) = r - s
    BY DEF DayOfMonth
  <1> HIDE DEF m, r, s
  <1>4. QED
    BY ONLY <1>2, <1>3, p \in Int, q \in Int

\* A guess in the month asked for is corrected but for its own offset and the printed hour.
LEMMA CorrectIs ==
    ASSUME QuietIInv, NEW g \in Int, NEW day \in Int, NEW first \in Int,
           first = day * DayLength + window.endTime,
           LocalDay(g) \div MonthLength = day \div MonthLength
    PROVE  /\ Correct(g, day, window.endTime) = first - Offset(g) - Added(g)
           /\ Correct(g, day, window.endTime) \in Int
  <1>1. DayOfMonth(day) - DayOfMonth(LocalDay(g)) = day - LocalDay(g)
    BY LocalTime, DaysApart
  <1>2. Correct(g, day, window.endTime) =
            g + window.endTime + (day - LocalDay(g)) * DayLength - ShownMinutes(g)
    BY <1>1 DEF Correct
  <1> DEFINE d == LocalDay(g)
  <1>3. /\ d \in Int /\ LocalMinute(g) \in Int /\ Added(g) \in Int /\ Offset(g) \in Int
        /\ g + Offset(g) = DayLength * d + LocalMinute(g)
        /\ ShownMinutes(g) = LocalMinute(g) + Added(g)
    BY LocalTime
  <1>4. (day - d) * DayLength = day * DayLength - DayLength * d
    BY <1>3, QuietFacts
  <1>5. day * DayLength \in Int /\ DayLength * d \in Int
    BY <1>3, QuietFacts
  <1>6. Correct(g, day, window.endTime) =
            g + window.endTime + (day * DayLength - DayLength * d) - ShownMinutes(g)
    BY <1>2, <1>4
  <1> HIDE DEF d
  <1>7. QED
    BY ONLY <1>3, <1>5, <1>6, QuietIInv, QuietFacts, g \in Int, first \in Int,
            first = day * DayLength + window.endTime

\* Within a day of an instant at which the clocks do not change, the offset is the same.
LEMMA SameOffset ==
    ASSUME QuietIInv, ~ClocksChange, NEW x \in Int, x \in instant - DayLength .. instant + DayLength
    PROVE  Offset(x) = Offset(instant)
  BY QuietFacts DEF ClocksChange, Offset

\* What the three corrections give for the end of the window on a day, in minutes
\* around the instant: an end ahead of it exactly, and one that has passed no later.
LEMMA EndFound ==
    ASSUME QuietIInv, ~ClocksChange, NEW day \in Int, ~LeavesMonth(day),
           ~(PrintsMidnightAs24 /\ window.endTime < HourLength),
           NEW end \in Int, end + Offset(instant) = day * DayLength + window.endTime,
           end \in instant - DayLength + 1 .. instant + DayLength - 1
    PROVE  /\ localToUTC(day, window.endTime) \in Int
           /\ end > instant => localToUTC(day, window.endTime) = end
           /\ end < instant => localToUTC(day, window.endTime) <= instant
  <1> DEFINE o == Offset(instant)
             first == day * DayLength + window.endTime
             second == Correct(first, day, window.endTime)
             third == Correct(second, day, window.endTime)
             found == Correct(third, day, window.endTime)
  <1>0. DayLength \in Nat \ {0} /\ instant \in Int /\ o \in Int /\ first \in Int
    BY QuietFacts, LocalTime
  <1>1. /\ LocalDay(first) \div MonthLength = day \div MonthLength
        /\ LocalDay(second) \div MonthLength = day \div MonthLength
        /\ LocalDay(third) \div MonthLength = day \div MonthLength
    BY DEF LeavesMonth
  <1>2. localToUTC(day, window.endTime) = found
    BY DEF localToUTC
  <1>3. first = end + o /\ first = day * DayLength + window.endTime
    OBVIOUS
  <1>12. /\ second = Correct(first, day, window.endTime)
        /\ third = Correct(second, day, window.endTime)
        /\ found = Correct(third, day, window.endTime)
    OBVIOUS
  <1> HIDE DEF first, second, third, found
  <1>4. second \in Int /\ second = first - Offset(first) - Added(first)
    BY <1>0, <1>1, <1>3, <1>12, CorrectIs
  <1>5. third \in Int /\ third = first - Offset(second) - Added(second)
    BY <1>1, <1>3, <1>4, <1>12, CorrectIs
  <1>6. found \in Int /\ found = first - Offset(third) - Added(third)
    BY <1>1, <1>3, <1>5, <1>12, CorrectIs
  <1>7. \A x \in {first, second, third} : /\ Offset(x) \in {zone.before, zone.after}
                                          /\ Offset(x) \in Int
                                          /\ Added(x) \in {0, zone.midnight}
    BY <1>0, <1>4, <1>5, LocalTime
  <1>8. \A x \in {first, second, third} : /\ Offset(x) - o \in {-1, 0, 1}
                                          /\ Added(x) \in {0, DayLength}
    <2>1. o \in {zone.before, zone.after}
      BY <1>0, LocalTime
    <2>2. /\ zone.before \in Int /\ zone.after \in Int /\ zone.midnight \in {0, DayLength}
          /\ zone.after - zone.before \in {-1, 0, 1}
      BY QuietFacts
    <2>3. \A a, b \in {zone.before, zone.after} : a - b \in {-1, 0, 1}
      BY <2>2
    <2>4. QED
      BY <1>7, <2>1, <2>2, <2>3
  <1>9. ASSUME end < instant PROVE found <= instant
    <2>1. Offset(third) - o \in {-1, 0, 1} /\ Added(third) \in Nat /\ Offset(third) \in Int
      BY <1>0, <1>7, <1>8
    <2>2. QED
      BY <1>0, <1>3, <1>6, <1>9, <2>1
  <1>10. ASSUME end > instant PROVE found = end
    <2>1. second \in instant - DayLength .. instant + DayLength
      <3>1. Offset(first) - o \in {-1, 0, 1} /\ Added(first) \in {0, DayLength} /\ Offset(first) \in Int
        BY <1>7, <1>8
      <3>2. QED
        BY <1>0, <1>3, <1>4, <1>10, <3>1
    <2>2. Offset(second) = o
      BY <1>4, <2>1, SameOffset
    <2>3. third = end - Added(second) /\ Added(second) \in {0, DayLength}
      BY <1>0, <1>3, <1>5, <1>8, <2>2
    <2>4. third \in instant - DayLength .. instant + DayLength
      BY <1>0, <1>10, <2>3
    <2>5. Offset(third) = o
      BY <1>5, <2>4, SameOffset
    <2>6. LocalMinute(third) = window.endTime
      <3>1. CASE Added(second) = 0
        <4>1. third + Offset(third) = DayLength * day + window.endTime
          BY <1>0, <2>3, <2>5, <3>1
        <4>2. QED
          BY <1>5, <4>1, QuietFacts, LocalParts
      <3>2. CASE Added(second) = DayLength
        <4>1. DayLength * (day - 1) = DayLength * day - DayLength /\ DayLength * day \in Int
          BY <1>0
        <4>2. third + Offset(third) = DayLength * (day - 1) + window.endTime
          BY <1>0, <2>3, <2>5, <3>2, <4>1, QuietFacts
        <4>3. QED
          BY <1>5, <4>2, QuietFacts, LocalParts
      <3>3. QED
        BY <2>3, <3>1, <3>2
    <2>7. Added(third) = 0
      BY <2>6, QuietFacts DEF Added, PrintsMidnightAs24
    <2>8. QED
      BY <1>0, <1>3, <1>6, <2>5, <2>7
  <1>11. QED
    BY <1>2, <1>6, <1>9, <1>10

\* A time within the next day at which the clock shows the end is the next end.
LEMMA NextEndIs ==
    ASSUME QuietIInv, ~ClocksChange, NEW day \in Int,
           NEW end \in Int, end + Offset(instant) = DayLength * day + window.endTime,
           end \in instant + 1 .. instant + DayLength - 1
    PROVE  NextEnd = end
  <1> DEFINE P(x) == /\ LocalMinute(x) = window.endTime
                     /\ \A u \in (instant + 1)..(x - 1) : LocalMinute(u) # window.endTime
             S == (instant + 1)..(instant + 2 * DayLength)
  <1>0. DayLength \in Nat \ {0} /\ instant \in Int /\ window.endTime \in 0 .. DayLength - 1
    BY QuietFacts
  <1>1. LocalMinute(end) = window.endTime
    <2>1. Offset(end) = Offset(instant)
      BY <1>0, SameOffset
    <2>2. QED
      BY <2>1, QuietFacts, LocalParts
  <1>2. ASSUME NEW u \in (instant + 1)..(end - 1) PROVE LocalMinute(u) # window.endTime
    <2>1. u \in Int /\ u < end /\ end - u < DayLength
      BY <1>0
    <2>2. Offset(u) = Offset(instant) /\ Offset(instant) \in Int
      BY <1>0, <2>1, SameOffset, LocalTime
    <2>3. u + Offset(u) = DayLength * LocalDay(u) + LocalMinute(u) /\ LocalDay(u) \in Int
      BY <2>1, LocalTime
    <2>4. SUFFICES ASSUME LocalMinute(u) = window.endTime PROVE FALSE
      OBVIOUS
    <2> DEFINE q == LocalDay(u)
    <2>5. DayLength * (day - q) = end - u
      BY <1>0, <2>1, <2>2, <2>3, <2>4
    <2>6. day - q \in Int /\ day - q # 0 /\ ~(day - q >= 1) /\ ~(day - q <= -1)
      <3> HIDE DEF q
      <3>1. q \in Int
        BY <2>3 DEF q
      <3>2. day - q # 0
        BY <1>0, <2>1, <2>5, <3>1
      <3>3. ASSUME day - q >= 1 PROVE FALSE
        <4>1. DayLength * (day - q) >= DayLength
          BY <1>0, <3>1, <3>3
        <4>2. QED
          BY <1>0, <2>1, <2>5, <4>1
      <3>4. ASSUME day - q <= -1 PROVE FALSE
        <4>1. DayLength * (day - q) <= -DayLength
          BY <1>0, <3>1, <3>4
        <4>2. QED
          BY <1>0, <2>1, <2>5, <4>1
      <3>5. QED
        BY <3>1, <3>2, <3>3, <3>4
    <2>7. QED
      BY <2>6
  <1>3. end \in S /\ P(end)
    BY <1>0, <1>1, <1>2
  <1>4. ASSUME NEW x \in S, P(x) PROVE x = end
    <2>1. ~(x < end)
      BY <1>0, <1>2, <1>4
    <2>2. ~(end < x)
      BY <1>0, <1>1, <1>4
    <2>3. QED
      BY <1>0, <2>1, <2>2
  <1>5. NextEnd = CHOOSE x \in S : P(x)
    BY DEF NextEnd
  <1> HIDE DEF S, P
  <1>6. QED
    BY <1>3, <1>4, <1>5

LEMMA QuietIsShown ==
    ASSUME QuietIInv
    PROVE  \/ isInQuietHours(instant) <=> Quiet(instant)
           \/ PrintsMidnightAs24 /\ LocalMinute(instant) < HourLength
  <1>1. LocalMinute(instant) \in 0 .. DayLength - 1 /\ ShownMinutes(instant) = LocalMinute(instant) + Added(instant)
    BY QuietFacts, LocalTime
  <1>2. SUFFICES ASSUME ~(PrintsMidnightAs24 /\ LocalMinute(instant) < HourLength)
                 PROVE  isInQuietHours(instant) <=> Quiet(instant)
    OBVIOUS
  <1>3. Added(instant) = 0
    BY <1>2, QuietFacts DEF Added, PrintsMidnightAs24
  <1> HIDE DEF LocalMinute, ShownMinutes
  <1>4. QED
    BY <1>1, <1>3, QuietFacts DEF isInQuietHours, Quiet

LEMMA EndIsNext ==
    ASSUME QuietIInv, Quiet(instant), ~ClocksChange,
           ~(PrintsMidnightAs24 /\ window.endTime < HourLength),
           ~LeavesMonth(LocalDay(instant)), ~LeavesMonth(LocalDay(instant + DayLength))
    PROVE  getQuietHoursEndUTC(instant) = NextEnd
  <1> DEFINE day == LocalDay(instant)
             m == LocalMinute(instant)
             w == window.endTime
             end == instant + w - m
  <1>1. /\ DayLength \in Nat \ {0} /\ instant \in Int /\ Offset(instant) \in Int
        /\ m \in 0 .. DayLength - 1 /\ w \in 0 .. DayLength - 1 /\ day \in Int
        /\ instant + Offset(instant) = DayLength * day + m
    BY QuietFacts, LocalTime
  <1>2. m # w
    <2> HIDE DEF LocalMinute
    <2>1. QED
      BY <1>1, QuietFacts DEF Quiet
  <1>3. LocalDay(instant + DayLength) = day + 1
    <2>1. Offset(instant + DayLength) = Offset(instant)
      BY <1>1, SameOffset
    <2>2. DayLength * (day + 1) = DayLength * day + DayLength
      BY <1>1
    <2>3. (instant + DayLength) + Offset(instant + DayLength) = DayLength * (day + 1) + m
      BY <1>1, <2>1, <2>2
    <2>4. QED
      BY <1>1, <2>3, LocalParts
  <1>4. getQuietHoursEndUTC(instant) =
            IF localToUTC(day, w) <= instant THEN localToUTC(day + 1, w) ELSE localToUTC(day, w)
    BY <1>3 DEF getQuietHoursEndUTC
  <1>5. /\ end \in Int /\ end + Offset(instant) = day * DayLength + w
        /\ end + Offset(instant) = DayLength * day + w
        /\ end \in instant - DayLength + 1 .. instant + DayLength - 1
    BY <1>1
  <1>6. ~LeavesMonth(day) /\ ~LeavesMonth(day + 1)
    BY <1>3
  <1> HIDE DEF day, m, end
  <1>7. /\ localToUTC(day, w) \in Int
        /\ end > instant => localToUTC(day, w) = end
        /\ end < instant => localToUTC(day, w) <= instant
    BY <1>1, <1>5, <1>6, EndFound
  <1>8. CASE m < w
    <2>1. end > instant
      BY <1>1, <1>8 DEF end
    <2>2. end \in instant + 1 .. instant + DayLength - 1
      BY <1>1, <1>5, <2>1
    <2>3. NextEnd = end
      BY <1>1, <1>5, <2>2, NextEndIs
    <2>4. QED
      BY <1>1, <1>4, <1>5, <1>7, <2>1, <2>3
  <1>9. CASE w < m
    <2>1. end < instant
      BY <1>1, <1>9 DEF end
    <2>2. (day + 1) * DayLength = day * DayLength + DayLength /\ day * DayLength \in Int
          /\ DayLength * (day + 1) = day * DayLength + DayLength
      BY <1>1
    <2> DEFINE next == end + DayLength
    <2>3. /\ next \in Int /\ next + Offset(instant) = (day + 1) * DayLength + w
          /\ next + Offset(instant) = DayLength * (day + 1) + w
          /\ next \in instant + 1 .. instant + DayLength - 1
      BY <1>1, <1>5, <2>1, <2>2
    <2> HIDE DEF next
    <2>4. next > instant /\ next \in instant - DayLength + 1 .. instant + DayLength - 1 /\ day + 1 \in Int
      BY <1>1, <2>3
    <2>5. localToUTC(day + 1, w) = next
      BY <1>6, <2>3, <2>4, EndFound
    <2>6. NextEnd = next
      BY <2>3, <2>4, NextEndIs
    <2>7. QED
      BY <1>4, <1>7, <2>1, <2>5, <2>6
  <1>10. QED
    BY <1>1, <1>2, <1>8, <1>9

LEMMA QuietInitOK == QuietInit => QuietIInv
  <1> SUFFICES ASSUME QuietInit PROVE QuietIInv
    OBVIOUS
  <1>1. instant \in Int
    <2>1. DayLength \in Int /\ MonthLength \in Int
      BY QuietAssumption
    <2>2. QED
      BY <2>1 DEF QuietInit
  <1>2. PICK o, p \in Offsets, m \in {0, DayLength} :
            p - o \in {-1, 0, 1} /\ zone = [before |-> o, after |-> p, midnight |-> m]
    BY DEF QuietInit
  <1>3. QED
    BY <1>1, <1>2 DEF QuietInit, QuietIInv

LEMMA QuietStepOK == QuietIInv /\ [QuietNext]_quietVars => QuietIInv'
  <1> SUFFICES ASSUME QuietIInv, [QuietNext]_quietVars PROVE QuietIInv'
    OBVIOUS
  <1>1. ASSUME Minute PROVE instant' \in Int
    BY <1>1 DEF Minute, QuietIInv
  <1>2. QED
    BY <1>1 DEF QuietIInv, QuietNext, Minute, quietVars

\* quietHours.ts, getQuietHoursEndUTC: whatever the lengths of day, hour and month, the
\* zones and the user's window, the end it computes is the next one on the user's clock,
\* except for a first hour printed as 24, a guess in another month and a change of the
\* clocks within a day.
THEOREM QuietHoursEnd == QuietSpec => []QuietEndsNext
  <1>1. QuietIInv => QuietEndsNext
    BY QuietIsShown, EndIsNext DEF QuietEndsNext
  <1>2. QED
    BY <1>1, QuietInitOK, QuietStepOK, PTL DEF QuietSpec
=============================================================================
