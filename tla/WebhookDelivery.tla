-------------------------- MODULE WebhookDelivery --------------------------
(***************************************************************************)
(* Delivery of webhook events to subscribers (src/services/webhooks.ts):   *)
(* the circuit breaker of each subscriber, kept in an in-memory cache and  *)
(* in webhook_breaker_states, the dead letters and their replay.           *)
(*                                                                         *)
(* A delivery is the work of dispatchWebhookEvent for one subscriber.  The *)
(* deliveries of a process interleave at their awaits, so a delivery is    *)
(* one step per stretch between two awaits; what it has read before an     *)
(* await is in its `seen`.  Each write goes to the cache before the await  *)
(* and to the database after it.                                           *)
(*                                                                         *)
(* Abstractions.  Time: a subscriber is in `cooled` once the half-open     *)
(* timeout has passed since its breaker tripped, and whether the last      *)
(* failure lies within the window is a choice.  The up to three tries of   *)
(* one delivery are one step with the outcome of the last.  The URLs of    *)
(* all subscribers are ones that the allowlists permit.                    *)
(***************************************************************************)
EXTENDS Integers, FiniteSets

CONSTANTS
    Events,        \* ids of outbox events
    Subscribers,
    Slots,         \* deliveries that can be in progress at once
    Threshold,     \* failures that trip a breaker
    MaxLetters,    \* bound at which the count of dead letters of a pair stays
    Replayable,    \* bound: events whose dead letters an admin replays
    MaxReplays,    \* bound: replays of one dead letter in progress at once
    None

Mode == {"CLOSED", "OPEN", "HALF_OPEN"}
BreakerState == [mode : Mode, failures : 0 .. Threshold]

ASSUME DeliveryAssumption ==
    /\ Threshold \in Nat \ {0}
    /\ MaxLetters \in Nat \ {0}
    /\ Replayable \subseteq Events
    /\ MaxReplays \in Nat
    /\ None \notin Events \cup Subscribers \cup BreakerState

Closed == [mode |-> "CLOSED", failures |-> 0]
Pairs == Events \X Subscribers

VARIABLES
    cache,         \* breakerCache: a breaker state, or None, per subscriber
    stored,        \* webhook_breaker_states: a breaker state, or None
    probes,        \* inFlightProbes
    cooled,        \* subscribers whose half-open timeout has elapsed
    delivery,      \* the delivery in each slot
    received,      \* pairs whose subscriber has accepted the event
    deadLetters,   \* unreplayed dead letters of each pair (MaxLetters: or more)
    replayed,      \* pairs with a dead letter marked replayed
    replays,       \* replays in progress of each pair: sending and marking
    disturbed      \* history: breakers for which a delivery has recorded how it
                   \* ended although they were not closed and it was no probe,
                   \* or in whose cache a query has put a state of before

breaker == <<cache, stored, probes, cooled, disturbed>>
letters == <<deadLetters, replayed, replays>>
deliveryVars == <<cache, stored, probes, cooled, delivery, received,
                  deadLetters, replayed, replays, disturbed>>

Stage == {"free", "start", "filling", "transition", "transitioned", "sending",
          "recordSuccess", "recordFailure", "bury", "done", "rejected"}
Free == [at |-> "free", event |-> None, to |-> None, probe |-> FALSE,
         seen |-> None, unsaved |-> FALSE]

DeliveryInit ==
    /\ cache = [s \in Subscribers |-> None]
    /\ stored = [s \in Subscribers |-> None]
    /\ probes = {}
    /\ cooled = {}
    /\ delivery = [d \in Slots |-> Free]
    /\ received = {}
    /\ deadLetters = [p \in Pairs |-> 0]
    /\ replayed = {}
    /\ replays = [p \in Pairs |-> [sending |-> 0, marking |-> 0]]
    /\ disturbed = {}

-----------------------------------------------------------------------------
At(d, stage) == delivery[d].at = stage
To(d) == delivery[d].to
Pair(d) == <<delivery[d].event, delivery[d].to>>

\* What a delivery has seen, and whether it is a probe, matters no longer.
Goto(d, stage) ==
    delivery' = [delivery EXCEPT ![d].at = stage, ![d].seen = None, ![d].probe = FALSE]
GotoWith(d, stage, state) ==
    delivery' = [delivery EXCEPT ![d].at = stage, ![d].seen = state, ![d].probe = FALSE]

\* Deliveries that are the half-open probe of subscriber s and not settled.
ProbesOf(s) == {d \in Slots : At(d, "sending") /\ To(d) = s /\ delivery[d].probe}
\* A delivery records its end: one that began before the breaker tripped may.
Disturbing(d) ==
    IF cache[To(d)].mode # "CLOSED" /\ d \notin ProbesOf(To(d))
    THEN disturbed \cup {To(d)} ELSE disturbed

\* Mutant of StartProbe: the probe is not registered.
StartProbeUnregistered(d) ==
    /\ delivery' = [delivery EXCEPT ![d].at = "sending", ![d].seen = None, ![d].probe = TRUE]
    /\ UNCHANGED probes

\* The delivery goes ahead as the half-open probe of its subscriber.
StartProbe(d) ==
    /\ delivery' = [delivery EXCEPT ![d].at = "sending", ![d].seen = None, ![d].probe = TRUE]
    /\ probes' = probes \cup {To(d)}

\* checkBreaker, given the state it has loaded, up to its next await.
Consult(d, state) ==
    \/ state.mode = "CLOSED" /\ Goto(d, "sending") /\ UNCHANGED probes
    \/ /\ state.mode = "OPEN" /\ To(d) \notin cooled
       /\ Goto(d, "bury") /\ UNCHANGED probes
    \/ /\ state.mode = "OPEN" /\ To(d) \in cooled
       /\ GotoWith(d, "transition", state) /\ UNCHANGED probes
    \/ /\ state.mode = "HALF_OPEN" /\ To(d) \in probes
       /\ Goto(d, "bury") /\ UNCHANGED probes
    \/ /\ state.mode = "HALF_OPEN" /\ To(d) \notin probes
       /\ StartProbe(d)

\* loadBreakerState: from the cache, or by a query.
Load(d) ==
    /\ At(d, "start")
    /\ \/ /\ cache[To(d)] # None
          /\ Consult(d, cache[To(d)])
       \/ /\ cache[To(d)] = None
          /\ \/ GotoWith(d, "filling",
                         IF stored[To(d)] = None THEN Closed ELSE stored[To(d)])
             \/ Goto(d, "rejected")
          /\ UNCHANGED probes
    /\ UNCHANGED <<cache, stored, cooled, received, letters, disturbed>>

\* The answer to that query fills the cache, whatever it holds by now.
Fill(d) ==
    /\ At(d, "filling")
    /\ cache' = [cache EXCEPT ![To(d)] = delivery[d].seen]
    /\ disturbed' = IF cache[To(d)] \in {None, delivery[d].seen}
                    THEN disturbed ELSE disturbed \cup {To(d)}
    /\ Consult(d, delivery[d].seen)
    /\ UNCHANGED <<stored, cooled, received, letters>>

StoredOpen(s) == stored[s] \in [mode : {"OPEN"}, failures : 0 .. Threshold]

\* tryTransitionToHalfOpen: the conditional update, then its answer.
TryTransition(d) ==
    /\ At(d, "transition")
    /\ \/ /\ StoredOpen(To(d))
          /\ stored' = [stored EXCEPT ![To(d)].mode = "HALF_OPEN"]
          /\ GotoWith(d, "transitioned", delivery[d].seen)
       \/ /\ ~StoredOpen(To(d))
          /\ Goto(d, "bury") /\ UNCHANGED stored
       \/ Goto(d, "rejected") /\ UNCHANGED stored
    /\ UNCHANGED <<cache, probes, cooled, received, letters, disturbed>>

EnterHalfOpen(d) ==
    /\ At(d, "transitioned")
    /\ cache' = [cache EXCEPT ![To(d)] = [delivery[d].seen EXCEPT !.mode = "HALF_OPEN"]]
    /\ StartProbe(d)
    /\ UNCHANGED <<stored, cooled, received, letters, disturbed>>

EndProbe(d) == probes' = IF delivery[d].probe THEN probes \ {To(d)} ELSE probes

\* recordBreakerFailure up to its write; within tells whether the last failure
\* lies within the window.
RecordFailure(d, within) ==
    LET s == To(d)
        old == cache[s]
        failures == IF within /\ old.failures < Threshold THEN old.failures + 1
                    ELSE IF within THEN Threshold ELSE 1
        trips == failures >= Threshold
    IN  /\ EndProbe(d)
        /\ cache' = [cache EXCEPT ![s] =
                        [mode |-> IF trips THEN "OPEN" ELSE old.mode,
                         failures |-> failures]]
        /\ cooled' = IF trips THEN cooled \ {s} ELSE cooled
        /\ disturbed' = Disturbing(d)
        /\ GotoWith(d, "recordFailure",
                    [mode |-> IF trips THEN "OPEN" ELSE "CLOSED",
                     failures |-> failures])

\* The subscriber answers in time, and recordBreakerSuccess runs up to its write.
Succeed(d) ==
    /\ At(d, "sending")
    /\ received' = received \cup {Pair(d)}
    /\ EndProbe(d)
    /\ cache' = [cache EXCEPT ![To(d)] = Closed]
    /\ disturbed' = Disturbing(d)
    /\ delivery' = [delivery EXCEPT ![d].at = "recordSuccess"]
    /\ UNCHANGED <<stored, cooled, letters>>

\* The write of the reset breaker; if it fails, the delivery counts as failed.
StoreSuccess(d) ==
    /\ At(d, "recordSuccess")
    /\ \/ /\ stored' = [stored EXCEPT ![To(d)] = Closed]
          /\ Goto(d, "done")
          /\ UNCHANGED <<cache, probes, cooled, disturbed>>
       \/ \E within \in BOOLEAN : RecordFailure(d, within) /\ UNCHANGED stored
    /\ UNCHANGED <<received, letters>>

\* The last try fails or times out; the subscriber may have accepted it.
Fail(d) ==
    /\ At(d, "sending")
    /\ received' \in {received, received \cup {Pair(d)}}
    /\ \E within \in BOOLEAN : RecordFailure(d, within)
    /\ UNCHANGED <<stored, letters>>

\* Mutant of StoreFailure: no dead letter after a recorded failure.
StoreFailureOnly(d) ==
    /\ At(d, "recordFailure")
    /\ \/ /\ stored' = [stored EXCEPT ![To(d)] = delivery[d].seen]
          /\ Goto(d, "done")
       \/ Goto(d, "rejected") /\ UNCHANGED stored
    /\ UNCHANGED <<cache, probes, cooled, received, letters, disturbed>>

\* The write of the failure; its error rejects the whole dispatch.
StoreFailure(d) ==
    /\ At(d, "recordFailure")
    /\ \/ /\ stored' = [stored EXCEPT ![To(d)] = delivery[d].seen]
          /\ Goto(d, "bury")
       \/ Goto(d, "rejected") /\ UNCHANGED stored
    /\ UNCHANGED <<cache, probes, cooled, received, letters, disturbed>>

\* deadLetter: the insert, whose error is swallowed.
Bury(d) ==
    /\ At(d, "bury")
    /\ \/ /\ deadLetters' = [deadLetters EXCEPT ![Pair(d)] =
                                IF @ < MaxLetters THEN @ + 1 ELSE @]
          /\ Goto(d, "done")
       \/ /\ delivery' = [delivery EXCEPT ![d].at = "done", ![d].unsaved = TRUE]
          /\ UNCHANGED deadLetters
    /\ UNCHANGED <<breaker, received, replayed, replays>>

\* The half-open timeout of an open breaker elapses.
CoolDown(s) ==
    /\ s \notin cooled
    /\ cache[s] # None /\ cache[s].mode = "OPEN"
    /\ cooled' = cooled \cup {s}
    /\ UNCHANGED <<cache, stored, probes, delivery, received, letters, disturbed>>

-----------------------------------------------------------------------------
(* replayDeadLetter: look the letter up, deliver it, mark it *)

StartReplay(p) ==
    /\ p[1] \in Replayable
    /\ deadLetters[p] > 0
    /\ replays[p].sending + replays[p].marking < MaxReplays
    /\ replays' = [replays EXCEPT ![p].sending = @ + 1]
    /\ UNCHANGED <<breaker, delivery, received, deadLetters, replayed>>

SendReplay(p) ==
    /\ replays[p].sending > 0
    /\ \/ /\ received' = received \cup {p}
          /\ replays' = [replays EXCEPT ![p].sending = @ - 1, ![p].marking = @ + 1]
       \/ /\ received' \in {received, received \cup {p}}
          /\ replays' = [replays EXCEPT ![p].sending = @ - 1]
    /\ UNCHANGED <<breaker, delivery, deadLetters, replayed>>

\* Another replay may have marked the letter meanwhile, more than MaxLetters may
\* be left, and the update may fail.
MarkReplayed(p) ==
    /\ replays[p].marking > 0
    /\ replays' = [replays EXCEPT ![p].marking = @ - 1]
    /\ \/ /\ replayed' = replayed \cup {p}
          /\ deadLetters' = [deadLetters EXCEPT ![p] = IF @ > 0 THEN @ - 1 ELSE 0]
       \/ /\ replayed' \in {replayed, replayed \cup {p}}
          /\ p \in replayed' => p \in replayed \/ deadLetters[p] = MaxLetters
          /\ UNCHANGED deadLetters
    /\ UNCHANGED <<breaker, delivery, received>>

-----------------------------------------------------------------------------
DeliveryStep(d) ==
    \/ Load(d)
    \/ Fill(d)
    \/ TryTransition(d)
    \/ EnterHalfOpen(d)
    \/ Succeed(d)
    \/ StoreSuccess(d)
    \/ Fail(d)
    \/ StoreFailure(d)
    \/ Bury(d)

ReplayStep(p) == StartReplay(p) \/ SendReplay(p) \/ MarkReplayed(p)

\* The process ends: its cache, probes and deliveries are gone.
LoseProcess ==
    /\ cache' = [s \in Subscribers |-> None]
    /\ probes' = {}
    /\ delivery' = [d \in Slots |-> Free]
    /\ replays' = [p \in Pairs |-> [sending |-> 0, marking |-> 0]]
    /\ disturbed' = {}
    /\ UNCHANGED <<stored, cooled, received, deadLetters, replayed>>
=============================================================================
