----------------------------- MODULE MCDelivery -----------------------------
(***************************************************************************)
(* Four instances of OutboxRelay in one run of TLC, and one of each of the *)
(* other components that send something to somebody and share no variable  *)
(* with it or each other; `focus` picks.                                   *)
(*                                                                         *)
(* "shared": two events for one subscriber, published in order, two relay  *)
(* jobs and two deliveries: enough for a probe to race a delivery that     *)
(* began before the breaker tripped.  An admin replays the dead letters of *)
(* the first event one at a time.  "rows" counts the attempts of events    *)
(* that could not be dispatched, so this one leaves them out.              *)
(*                                                                         *)
(* "replays": one event and two replays of its dead letter at once.        *)
(*                                                                         *)
(* "several": one event for two subscribers, dispatched until it fails: a  *)
(* delivery that rejects leaves the other one to itself.                   *)
(*                                                                         *)
(* "rows": every query for subscribers fails, so that two relay jobs that  *)
(* roll back, commit or crash count the attempts of all events.            *)
(*                                                                         *)
(* "subscribers": one subscriber, two deliveries and a registration.       *)
(*                                                                         *)
(* "notices": two checks of two expired vaults; "reminders": two runs over *)
(* two deferred reminders; "quiet": the windows and zones of a short day.  *)
(*                                                                         *)
(* Deliveries and relay jobs are interchangeable.                          *)
(***************************************************************************)
EXTENDS OutboxRelay, WebhookSubscribers, Notifications, QuietHours, TLC

VARIABLE focus

MCSubscribersOf ==
    [e \in Events |-> IF e = 3 THEN Subscribers ELSE {CHOOSE s \in Subscribers : TRUE}]

MCOffsets == -4..4

\* Only the one that moves keeps its choice of initial states.
FocusInit ==
    /\ Init /\ SubscriberInit /\ NoticeInit /\ ReminderInit /\ QuietInit
    /\ focus \in {"shared", "replays", "several", "rows", "subscribers",
                  "notices", "reminders", "quiet"}
    /\ focus = "notices" \/ wanted = ExpiringVaults
    /\ focus = "quiet" \/ <<zone, window>> = <<[before |-> 0, after |-> 0, midnight |-> 0],
                                             [startTime |-> 0, endTime |-> 0]>>

RelayNext ==
    \/ /\ focus = "shared" /\ Next
       /\ outbox' \in {{}, {1}, {1, 2}}
       /\ \A e \in Events : attempts'[e] = 0
       /\ \A p \in Pairs : replays'[p].sending + replays'[p].marking <= 1
    \/ focus = "replays" /\ Next /\ outbox' \in {{}, {1}}
    \/ /\ focus = "several" /\ Up
       /\ outbox' \in {{}, {3}}
       /\ (\E r \in Relays : run[r].failed # {}) => UNCHANGED run
    \/ /\ focus = "rows" /\ Next
       /\ UNCHANGED deliveryVars

OthersStay ==
    /\ IF focus = "subscribers" THEN TRUE ELSE UNCHANGED subscriberVars
    /\ IF focus = "notices" THEN TRUE ELSE UNCHANGED noticeVars
    /\ IF focus = "reminders" THEN TRUE ELSE UNCHANGED reminderVars
    /\ IF focus = "quiet" THEN TRUE ELSE UNCHANGED quietVars

FocusNext ==
    /\ UNCHANGED focus
    /\ \/ RelayNext
       \/ focus = "subscribers" /\ SubscriberNext /\ UNCHANGED vars
       \/ focus = "notices" /\ NoticeNext /\ UNCHANGED vars
       \/ focus = "reminders" /\ ReminderNext /\ UNCHANGED vars
       \/ focus = "quiet" /\ QuietNext /\ UNCHANGED vars
    /\ OthersStay

FocusSpec ==
    FocusInit /\ [][FocusNext]_<<focus, vars, subscriberVars, noticeVars, reminderVars, quietVars>>

\* The relay alone, as it runs where its process stays up.
FairRelaySpec ==
    /\ FocusInit /\ focus = "shared"
    /\ [][Up /\ UNCHANGED focus /\ OthersStay]_<<focus, vars, subscriberVars, noticeVars, reminderVars, quietVars>>
    /\ Fairness

Interchangeable == Permutations(Slots) \cup Permutations(Relays)
=============================================================================
