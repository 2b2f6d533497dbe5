---------------------------- MODULE OutboxRelay ----------------------------
(***************************************************************************)
(* The outbox relay (src/services/outboxRelay.ts) over the deliveries of   *)
(* WebhookDelivery.                                                        *)
(*                                                                         *)
(* A run of the relay is one database transaction: it locks the rows that  *)
(* no other run has locked, dispatches them one after the other, and       *)
(* commits its updates together.  dispatchWebhookEvent resolves when every *)
(* delivery of the event has ended, delivered or not, and rejects as soon  *)
(* as one of them meets a database error; the other deliveries then go on  *)
(* without anybody waiting.                                                *)
(*                                                                         *)
(* After a dispatch that resolves the relay inserts the event id as the    *)
(* key of etl_batches.  That column is a uuid, which "{txHash}:{index}" is *)
(* not, so PostgreSQL refuses the insert and aborts the transaction; the   *)
(* error is caught, the updates that follow fail too, and the run ends in  *)
(* a rollback.  The lines that mark a row processed after a dispatch are   *)
(* therefore never reached and have no action here.                        *)
(***************************************************************************)
EXTENDS WebhookDelivery

CONSTANTS
    SubscribersOf, \* of each event: the active ones of its organisation and type
    Relays,        \* relay jobs that can run at once
    MaxAttempts    \* MAX_ATTEMPTS

ASSUME RelayAssumption ==
    /\ Events \subseteq Nat
    /\ SubscribersOf \in [Events -> SUBSET Subscribers]
    /\ MaxAttempts \in Nat \ {0}

VARIABLES
    outbox,        \* rows of vault_outbox
    attempts,      \* committed attempts of each row
    processed,     \* rows with processed = true
    run,           \* the transaction of each relay job
    owner          \* the relay job that waits for the delivery in each slot

rowVars == <<outbox, attempts, processed>>
vars == <<cache, stored, probes, cooled, delivery, received, deadLetters,
          replayed, replays, disturbed, outbox, attempts, processed, run, owner>>

Idle == [todo |-> {}, failed |-> {}, row |-> None, read |-> <<>>]

Init ==
    /\ DeliveryInit
    /\ outbox = {}
    /\ attempts = [e \in Events |-> 0]
    /\ processed = {}
    /\ run = [r \in Relays |-> Idle]
    /\ owner = [d \in Slots |-> None]

-----------------------------------------------------------------------------
\* Mutant of Locked: the rows of other runs are not skipped.
LockedNot == {}

\* Rows locked by an open transaction.
Locked == UNION {run[r].todo \cup run[r].failed \cup {run[r].row} : r \in Relays}

\* The event processor commits an outbox row with the event (HorizonPipeline).
Publish(e) ==
    /\ e \in Events \ outbox
    /\ outbox' = outbox \cup {e}
    /\ UNCHANGED <<deliveryVars, attempts, processed, run, owner>>

\* The pause flag is a file that an admin may create or remove at any time: a
\* paused call returns at once, so a claim is a call that does not find it.
Claim(r) ==
    LET rows == {e \in outbox \ processed : attempts[e] < MaxAttempts} \ Locked
    IN  /\ run[r] = Idle
        /\ rows # {}
        /\ run' = [run EXCEPT ![r] = [todo |-> rows, failed |-> {}, row |-> None,
                                      read |-> attempts]]
        /\ UNCHANGED <<deliveryVars, rowVars, owner>>

Waiting(r) == run[r] # Idle /\ run[r].row = None
Oldest(S) == CHOOSE e \in S : \A f \in S : e <= f

\* The next row: its subscribers are found and a delivery to each begins.
Dispatch(r) ==
    /\ Waiting(r)
    /\ run[r].todo # {}
    /\ LET e == Oldest(run[r].todo)
           free == {d \in Slots : At(d, "free")}
       IN  \E slot \in [SubscribersOf[e] -> free] :
             /\ \A s, t \in SubscribersOf[e] : slot[s] = slot[t] => s = t
             /\ delivery' = [d \in Slots |->
                    IF \E s \in SubscribersOf[e] : slot[s] = d
                    THEN [Free EXCEPT !.at = "start", !.event = e,
                            !.to = CHOOSE s \in SubscribersOf[e] : slot[s] = d]
                    ELSE delivery[d]]
             /\ owner' = [d \in Slots |-> IF \E s \in SubscribersOf[e] : slot[s] = d
                                          THEN r ELSE owner[d]]
             /\ run' = [run EXCEPT ![r].row = e, ![r].todo = @ \ {e}]
    /\ UNCHANGED <<breaker, received, letters, rowVars>>

\* The query for its subscribers fails.
FindFails(r) ==
    /\ Waiting(r)
    /\ run[r].todo # {}
    /\ LET e == Oldest(run[r].todo)
       IN  run' = [run EXCEPT ![r].todo = @ \ {e}, ![r].failed = @ \cup {e}]
    /\ UNCHANGED <<deliveryVars, rowVars, owner>>

Owned(r) == {d \in Slots : owner[d] = r}
Release(D) == delivery' = [d \in Slots |-> IF d \in D THEN Free ELSE delivery[d]]

\* A delivery rejects: the attempt of the row is counted and the other
\* deliveries of the event are left to themselves.
DispatchRejects(r) ==
    /\ run[r].row # None
    /\ \E d \in Owned(r) : At(d, "rejected")
    /\ Release({d \in Owned(r) : delivery[d].at \in {"done", "rejected"}})
    /\ owner' = [d \in Slots |-> IF owner[d] = r THEN None ELSE owner[d]]
    /\ run' = [run EXCEPT ![r].row = None, ![r].failed = @ \cup {run[r].row}]
    /\ UNCHANGED <<breaker, received, letters, rowVars>>

\* All deliveries end: the insert into etl_batches aborts the transaction and
\* nothing of it is kept.
DispatchResolves(r) ==
    /\ run[r].row # None
    /\ \A d \in Owned(r) : At(d, "done")
    /\ Release(Owned(r))
    /\ owner' = [d \in Slots |-> IF owner[d] = r THEN None ELSE owner[d]]
    /\ run' = [run EXCEPT ![r] = Idle]
    /\ UNCHANGED <<breaker, received, letters, rowVars>>

\* A delivery nobody waits for ends.
Abandoned(d) ==
    /\ owner[d] = None
    /\ delivery[d].at \in {"done", "rejected"}
    /\ Release({d})
    /\ UNCHANGED <<breaker, received, letters, rowVars, run, owner>>

\* Every dispatch of the batch has failed: the attempts are stored, and a row
\* that has used up its own is marked dead.
Commit(r) ==
    LET failed == run[r].failed
        count == [e \in Events |-> IF e \in failed THEN run[r].read[e] + 1 ELSE attempts[e]]
    IN  /\ Waiting(r)
        /\ run[r].todo = {}
        /\ attempts' = count
        /\ processed' = processed \cup {e \in failed : count[e] >= MaxAttempts}
        /\ run' = [run EXCEPT ![r] = Idle]
        /\ UNCHANGED <<deliveryVars, outbox, owner>>

\* An update or the commit fails.
RollBack(r) ==
    /\ Waiting(r)
    /\ run[r].failed # {}
    /\ run' = [run EXCEPT ![r] = Idle]
    /\ UNCHANGED <<deliveryVars, rowVars, owner>>

Crash ==
    /\ LoseProcess
    /\ run' = [r \in Relays |-> Idle]
    /\ owner' = [d \in Slots |-> None]
    /\ UNCHANGED rowVars

-----------------------------------------------------------------------------
relayOnly == <<outbox, attempts, processed, run, owner>>

RelayStep(r) ==
    \/ Dispatch(r)
    \/ FindFails(r)
    \/ DispatchRejects(r)
    \/ DispatchResolves(r)
    \/ Commit(r)
    \/ RollBack(r)

Up ==
    \/ \E e \in Events : Publish(e)
    \/ \E r \in Relays : Claim(r) \/ RelayStep(r)
    \/ \E d \in Slots : DeliveryStep(d) /\ UNCHANGED relayOnly
    \/ \E d \in Slots : Abandoned(d)
    \/ \E s \in Subscribers : CoolDown(s) /\ UNCHANGED relayOnly
    \/ \E p \in Pairs : ReplayStep(p) /\ UNCHANGED relayOnly

Next == Up \/ Crash

Spec == Init /\ [][Next]_vars

\* While the process stays up, requests and queries are answered or time out,
\* and the schedule of the relay job brings it up again.
Fairness ==
    /\ \A d \in Slots : WF_vars(DeliveryStep(d) /\ UNCHANGED relayOnly)
    /\ \A r \in Relays : WF_vars(Claim(r)) /\ WF_vars(RelayStep(r))
    /\ \A s \in Subscribers : WF_vars(CoolDown(s) /\ UNCHANGED relayOnly)

FairSpec == Init /\ [][Up]_vars /\ Fairness

-----------------------------------------------------------------------------
(* Properties *)

\* Every variable has its type.
TypeOK ==
    /\ cache \in [Subscribers -> BreakerState \cup {None}]
    /\ stored \in [Subscribers -> BreakerState \cup {None}]
    /\ probes \subseteq Subscribers /\ cooled \subseteq Subscribers
    /\ disturbed \subseteq Subscribers
    /\ delivery \in [Slots -> [at : Stage, event : Events \cup {None},
                               to : Subscribers \cup {None}, probe : BOOLEAN,
                               seen : BreakerState \cup {None},
                               unsaved : BOOLEAN]]
    /\ received \subseteq Pairs /\ replayed \subseteq Pairs
    /\ deadLetters \in [Pairs -> 0 .. MaxLetters]
    /\ replays \in [Pairs -> [sending : 0 .. MaxReplays, marking : 0 .. MaxReplays]]
    /\ outbox \subseteq Events /\ processed \subseteq outbox
    /\ attempts \in [Events -> 0 .. MaxAttempts]
    /\ run \in [Relays -> [todo : SUBSET Events, failed : SUBSET Events,
                           row : Events \cup {None},
                           read : [Events -> 0 .. MaxAttempts] \cup {<<>>}]]
    /\ owner \in [Slots -> Relays \cup {None}]

\* Whatever relays overlap, roll back or die, the rows of the outbox behave as
\* OutboxContract promises: no published row leaves it before MaxAttempts
\* failed dispatches have been counted, and none is counted twice.
Contract == INSTANCE OutboxContract WITH published <- outbox, dead <- processed
OutboxImplemented == Contract!ContractSpec

\* A delivery that has ended has reached its subscriber or is among the dead
\* letters, now or until its replay; the only exception is a dead letter that
\* the database refused.  So no dispatch that resolves loses an event.  A dead
\* letter is marked replayed only after its subscriber has the event.
NothingSilentlyLost ==
    /\ \A d \in Slots : At(d, "done") =>
           \/ Pair(d) \in received \cup replayed
           \/ deadLetters[Pair(d)] > 0
           \/ delivery[d].unsaved
    /\ replayed \subseteq received

\* docs/webhooks.md:44 allows one probe of a half-open breaker.  It holds, however
\* late the breaker's queries and writes are answered, unless a delivery that began
\* before it tripped ends while it is not closed, or an answer that is older than
\* the cached state replaces this.
OneProbe ==
    \A s \in Subscribers \ disturbed :
        /\ Cardinality(ProbesOf(s)) <= 1
        /\ s \in probes <=> ProbesOf(s) # {}

\* docs/event-processing.md:25: the relay dispatches claimed events "and marks
\* them as processed".  So where the process stays up and the database answers
\* from some time on, an event all subscribers have received is processed.
DatabaseAnswers ==
    /\ \A d \in Slots : ~At(d, "rejected")
    /\ \A r \in Relays : run[r].failed = {}
DispatchedIsProcessed ==
    <>[]DatabaseAnswers =>
        \A e \in Events : ({e} \X SubscribersOf[e] \subseteq received) ~> (e \in processed)
=============================================================================
