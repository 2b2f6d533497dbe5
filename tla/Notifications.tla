---------------------------- MODULE Notifications ----------------------------
(***************************************************************************)
(* The notices of src/services/vaultExpiry.service.ts, over the rows of    *)
(* notifications and deferred_reminders.                                   *)
(*                                                                         *)
(* Notices: a check marks the expired vaults failed in one query and then  *)
(* tells their creators one after the other, without a key: it asks        *)
(* whether the vault's organisation wants such notices, then inserts.      *)
(*                                                                         *)
(* Reminders of one user: a run collects what has no row of its own key,   *)
(* and then either keeps it for the end of the quiet hours and writes the  *)
(* rows, or writes the rows and sends one digest.  The keys of the digest  *)
(* and of the kept one name the minute of the run.  A reminder is a        *)
(* milestone with the lead time it fell into; titles and times are left    *)
(* out.  Reminders name no organisation, so that they are always wanted.   *)
(* The job system registers no handler for these runs yet.                 *)
(***************************************************************************)
EXTENDS Integers, FiniteSets

CONSTANTS
    ExpiringVaults,
    ExpiryChecks,
    Reminders,
    ReminderRuns,
    MaxMinute      \* bounds the clock

ASSUME NotificationAssumption == MaxMinute \in Nat

VARIABLES
    vaultStatus, \* of each vault that is past its end
    expiryCheck, \* of each check: whether it runs, the vaults still to mark and to tell,
                 \* and the one whose notice was found to be wanted
    wanted,      \* the vaults with no organisation that has turned vault_failure off
    notices,     \* number of notices of each vault's failure
    excuse,      \* history: what has happened to each vault, by name
    unwanted,    \* history: the vaults told of while their notices were turned off
    minute,      \* the clock
    due,         \* reminders whose window is "ahead", "open" or "over"
    reminderRun, \* of each run: stage, its minute, rows still to look at, reminders
    marked,      \* reminders with a row of their own
    digest,      \* reminders in the digest of each minute
    kept,        \* deferred_reminders of each minute
    claimed,     \* kept reminders that processDeferredReminders has deleted
    lateDigest,  \* reminders in the delivered digest of each minute
    forgotten,   \* history: reminders lost to something named
    repeated     \* history: reminders that two runs had, or a failed one kept

noticeVars == <<vaultStatus, expiryCheck, wanted, notices, excuse, unwanted>>
reminderVars == <<minute, due, reminderRun, marked, digest, kept, claimed, lateDigest, forgotten, repeated>>

Minutes == 0..MaxMinute
NoCheck == [at |-> "idle", rows |-> {}, asked |-> {}]
NoReminderRun == [at |-> "idle", minute |-> 0, rows |-> {}, items |-> {}]
Ended == [NoReminderRun EXCEPT !.at = "ended"]

NoticeInit ==
    /\ vaultStatus = [v \in ExpiringVaults |-> "active"]
    /\ expiryCheck = [c \in ExpiryChecks |-> NoCheck]
    /\ wanted \in SUBSET ExpiringVaults
    /\ notices = [v \in ExpiringVaults |-> 0]
    /\ excuse = [v \in ExpiringVaults |-> {}]
    /\ unwanted = {}

ReminderInit ==
    /\ minute = 0
    /\ due = [i \in Reminders |-> "ahead"]
    /\ reminderRun = [r \in ReminderRuns |-> NoReminderRun]
    /\ marked = {} /\ claimed = {} /\ forgotten = {} /\ repeated = {}
    /\ digest = [m \in Minutes |-> {}]
    /\ kept = [m \in Minutes |-> {}]
    /\ lateDigest = [m \in Minutes |-> {}]

-----------------------------------------------------------------------------
(* markVaultExpiries *)

Excused(S, why) == [v \in ExpiringVaults |-> IF v \in S THEN excuse[v] \cup {why} ELSE excuse[v]]
Expired == {v \in ExpiringVaults : vaultStatus[v] = "active"}
Rows(c) == IF expiryCheck[c].at = "idle" THEN {} ELSE expiryCheck[c].rows

SelectExpired(c) ==
    /\ expiryCheck[c].at = "idle"
    /\ Expired # {}
    /\ expiryCheck' = [expiryCheck EXCEPT ![c] = [NoCheck EXCEPT !.at = "selected", !.rows = Expired]]
    /\ excuse' = Excused(Expired \cap UNION {Rows(d) : d \in ExpiryChecks \ {c}}, "selected twice")
    /\ UNCHANGED <<vaultStatus, wanted, notices, unwanted>>

\* update ... where status is active
MarkFailed(c) ==
    /\ expiryCheck[c].at = "selected"
    /\ expiryCheck' = [expiryCheck EXCEPT ![c].at = "telling"]
    /\ vaultStatus' = [v \in ExpiringVaults |->
                          IF v \in Rows(c) \cap Expired THEN "failed" ELSE vaultStatus[v]]
    /\ UNCHANGED <<wanted, notices, excuse, unwanted>>

EndCheck(c, rows) ==
    expiryCheck' = [expiryCheck EXCEPT ![c] =
                       IF rows = {} THEN NoCheck ELSE [@ EXCEPT !.rows = rows, !.asked = {}]]

\* createNotification asks isNotificationEnabled, and returns null for a no.
CheckPreference(c, v) ==
    /\ expiryCheck[c].at = "telling" /\ expiryCheck[c].asked = {} /\ v \in Rows(c)
    /\ IF v \in wanted
       THEN expiryCheck' = [expiryCheck EXCEPT ![c].asked = {v}] /\ UNCHANGED excuse
       ELSE EndCheck(c, Rows(c) \ {v}) /\ excuse' = Excused({v}, "turned off")
    /\ UNCHANGED <<vaultStatus, wanted, notices, unwanted>>

Notify(c, v) ==
    /\ v \in expiryCheck[c].asked
    /\ notices' = [notices EXCEPT ![v] = @ + 1]
    /\ EndCheck(c, Rows(c) \ {v})
    /\ unwanted' = unwanted \cup ({v} \ wanted)
    /\ UNCHANGED <<vaultStatus, wanted, excuse>>

\* The organisation of v changes its preferences.
SetPreference(v) ==
    /\ wanted' = IF v \in wanted THEN wanted \ {v} ELSE wanted \cup {v}
    /\ excuse' = Excused({v} \cap UNION {expiryCheck[c].asked : c \in ExpiryChecks}, "turned off late")
    /\ UNCHANGED <<vaultStatus, expiryCheck, notices, unwanted>>

\* A query throws or the process ends; a later check selects active vaults only.
StopCheck(c) ==
    /\ expiryCheck[c].at # "idle"
    /\ EndCheck(c, {})
    /\ excuse' = IF expiryCheck[c].at = "telling" THEN Excused(Rows(c), "untold") ELSE excuse
    /\ UNCHANGED <<vaultStatus, wanted, notices, unwanted>>

\* Another writer ends the vault.
EndVault(v) ==
    /\ vaultStatus[v] = "active"
    /\ vaultStatus' = [vaultStatus EXCEPT ![v] = "ended"]
    /\ excuse' = Excused({v} \cap UNION {Rows(c) : c \in ExpiryChecks}, "ended meanwhile")
    /\ UNCHANGED <<expiryCheck, wanted, notices, unwanted>>

NoticeNext ==
    \/ \E c \in ExpiryChecks : \/ SelectExpired(c) \/ MarkFailed(c) \/ StopCheck(c)
                               \/ \E v \in ExpiringVaults : CheckPreference(c, v) \/ Notify(c, v)
    \/ \E v \in ExpiringVaults : EndVault(v) \/ SetPreference(v)

-----------------------------------------------------------------------------
(* sendMilestoneDigestReminders, processDeferredReminders *)

Open == {i \in Reminders : due[i] = "open"}
Holds(r, i) == i \in reminderRun[r].items
SetRun(r, new) == reminderRun' = [reminderRun EXCEPT ![r] = new]

\* A window opens, or closes: the milestone is decided on or has fallen due.
MoveWindow(i) ==
    /\ due[i] # "over"
    /\ due' = [due EXCEPT ![i] = IF @ = "ahead" THEN "open" ELSE "over"]
    /\ UNCHANGED <<minute, reminderRun, marked, digest, kept, claimed, lateDigest, forgotten, repeated>>

PassMinute ==
    /\ minute < MaxMinute
    /\ minute' = minute + 1
    /\ UNCHANGED <<due, reminderRun, marked, digest, kept, claimed, lateDigest, forgotten, repeated>>

StartRun(r) ==
    /\ reminderRun[r].at = "idle" /\ Open # {}
    /\ SetRun(r, [at |-> "looking", minute |-> minute, rows |-> Open, items |-> {}])
    /\ UNCHANGED <<minute, due, marked, digest, kept, claimed, lateDigest, forgotten, repeated>>

\* The look-up of one reminder's own key.
LookUp(r, i) ==
    LET found == i \notin marked
        rows == reminderRun[r].rows \ {i}
        items == IF found THEN reminderRun[r].items \cup {i} ELSE reminderRun[r].items
    IN  /\ reminderRun[r].at = "looking" /\ i \in reminderRun[r].rows
        /\ SetRun(r, IF rows = {} /\ items = {} THEN Ended
                     ELSE [reminderRun[r] EXCEPT !.at = IF rows = {} THEN "found" ELSE "looking",
                                         !.rows = rows, !.items = items])
        /\ repeated' = IF found /\ \E q \in ReminderRuns \ {r} : Holds(q, i)
                       THEN repeated \cup {i} ELSE repeated
        /\ UNCHANGED <<minute, due, marked, digest, kept, claimed, lateDigest, forgotten>>

\* Outside the quiet hours the rows are written first; in the quiet hours the
\* reminders are kept, in place of what the same minute has kept before.
StartMarking(r) ==
    /\ reminderRun[r].at = "found"
    /\ SetRun(r, [reminderRun[r] EXCEPT !.at = "marking", !.rows = reminderRun[r].items])
    /\ UNCHANGED <<minute, due, marked, digest, kept, claimed, lateDigest, forgotten, repeated>>

StoreDeferredReminder(r) ==
    /\ reminderRun[r].at = "found"
    /\ SetRun(r, [reminderRun[r] EXCEPT !.at = "deferring", !.rows = reminderRun[r].items])
    /\ kept' = [kept EXCEPT ![reminderRun[r].minute] = reminderRun[r].items]
    /\ forgotten' = forgotten \cup (kept[reminderRun[r].minute] \ reminderRun[r].items)
    /\ UNCHANGED <<minute, due, marked, digest, claimed, lateDigest, repeated>>

\* createNotification with the reminder's own key, which may exist by now.
MarkReminder(r, i) ==
    /\ reminderRun[r].at \in {"marking", "deferring"} /\ i \in reminderRun[r].rows
    /\ marked' = marked \cup {i}
    /\ LET left == reminderRun[r].rows \ {i}
       IN  SetRun(r, IF left # {} THEN [reminderRun[r] EXCEPT !.rows = left]
                     ELSE IF reminderRun[r].at = "marking"
                          THEN [reminderRun[r] EXCEPT !.at = "sending", !.rows = {}] ELSE Ended)
    /\ UNCHANGED <<minute, due, digest, kept, claimed, lateDigest, forgotten, repeated>>

\* A digest of the same minute suppresses this one.
SendDigest(r) ==
    /\ reminderRun[r].at = "sending"
    /\ SetRun(r, Ended)
    /\ LET m == reminderRun[r].minute
           sent == IF digest[m] = {} THEN reminderRun[r].items ELSE digest[m]
       IN  /\ digest' = [digest EXCEPT ![m] = sent]
           /\ forgotten' = forgotten \cup (reminderRun[r].items \ sent)
    /\ UNCHANGED <<minute, due, marked, kept, claimed, lateDigest, repeated>>

\* An error, which a run that sends swallows, or the end of the process.
StopRun(r) ==
    /\ reminderRun[r].at \notin {"idle", "ended"}
    /\ SetRun(r, Ended)
    /\ forgotten' = IF reminderRun[r].at \in {"marking", "sending"}
                    THEN forgotten \cup (reminderRun[r].items \ reminderRun[r].rows) ELSE forgotten
    /\ repeated' = IF reminderRun[r].at = "deferring" THEN repeated \cup reminderRun[r].items ELSE repeated
    /\ UNCHANGED <<minute, due, marked, digest, kept, claimed, lateDigest>>

\* Mutant of ClaimDueReminders: all that are due are deleted, one batch is returned.
ClaimBatchDeleteAll(m) ==
    /\ m < minute /\ kept[m] # {}
    /\ claimed' = claimed \cup {[minute |-> m, items |-> kept[m]]}
    /\ kept' = [n \in Minutes |-> IF n < minute THEN {} ELSE kept[n]]
    /\ UNCHANGED <<minute, due, reminderRun, marked, digest, lateDigest, forgotten, repeated>>

\* What is kept falls due in a later minute; a row of a batch at a time.
ClaimDueReminders(m) ==
    /\ m < minute /\ kept[m] # {}
    /\ claimed' = claimed \cup {[minute |-> m, items |-> kept[m]]}
    /\ kept' = [kept EXCEPT ![m] = {}]
    /\ UNCHANGED <<minute, due, reminderRun, marked, digest, lateDigest, forgotten, repeated>>

\* The delivered digest of a minute suppresses another one of that minute.
DeliverDeferred(c) ==
    /\ claimed' = claimed \ {c}
    /\ LET sent == IF lateDigest[c.minute] = {} THEN c.items ELSE lateDigest[c.minute]
       IN  /\ lateDigest' = [lateDigest EXCEPT ![c.minute] = sent]
           /\ forgotten' = forgotten \cup (c.items \ sent)
    /\ UNCHANGED <<minute, due, reminderRun, marked, digest, kept, repeated>>

DeliveryFails(c) ==
    /\ claimed' = claimed \ {c}
    /\ forgotten' = forgotten \cup c.items
    /\ UNCHANGED <<minute, due, reminderRun, marked, digest, kept, lateDigest, repeated>>

ReminderNext ==
    \/ \E i \in Reminders : MoveWindow(i)
    \/ PassMinute
    \/ \E r \in ReminderRuns :
         \/ StartRun(r) \/ StartMarking(r) \/ StoreDeferredReminder(r) \/ SendDigest(r) \/ StopRun(r)
         \/ \E i \in Reminders : LookUp(r, i) \/ MarkReminder(r, i)
    \/ \E m \in Minutes : ClaimDueReminders(m)
    \/ \E c \in claimed : DeliverDeferred(c) \/ DeliveryFails(c)

NoticeSpec == NoticeInit /\ [][NoticeNext]_noticeVars
ReminderSpec == ReminderInit /\ [][ReminderNext]_reminderVars

-----------------------------------------------------------------------------
NotificationTypeOK ==
    /\ vaultStatus \in [ExpiringVaults -> {"active", "failed", "ended"}]
    /\ expiryCheck \in [ExpiryChecks -> [at : {"idle", "selected", "telling"},
                                         rows : SUBSET ExpiringVaults,
                                         asked : SUBSET ExpiringVaults]]
    /\ notices \in [ExpiringVaults -> 0..Cardinality(ExpiryChecks)]
    /\ excuse \in [ExpiringVaults -> SUBSET {"selected twice", "untold", "ended meanwhile",
                                             "turned off", "turned off late"}]
    /\ wanted \subseteq ExpiringVaults /\ unwanted \subseteq ExpiringVaults
    /\ minute \in Minutes
    /\ due \in [Reminders -> {"ahead", "open", "over"}]
    /\ reminderRun \in [ReminderRuns -> [at : {"idle", "looking", "found", "marking", "deferring", "sending",
                                        "ended"},
                                 minute : Minutes, rows : SUBSET Reminders, items : SUBSET Reminders]]
    /\ \A S \in {marked, forgotten, repeated} : S \subseteq Reminders
    /\ \A f \in {digest, kept, lateDigest} : f \in [Minutes -> SUBSET Reminders]
    /\ claimed \subseteq [minute : Minutes, items : SUBSET Reminders]

\* vaultExpiry.service.ts:45: who is told of a failure owns a vault that has failed,
\* and each is told once, unless the check stopped, the vault's organisation was asked
\* and wanted no notice, another check selected the vault too, or another writer ended
\* it before it was marked.  No one is told who does not want to be, unless the
\* preference changed between the question and the insert.
NoticesAccounted ==
    \A v \in ExpiringVaults :
        /\ vaultStatus[v] = "failed" /\ notices[v] = 0 =>
               (\E c \in ExpiryChecks : v \in Rows(c)) \/ {"untold", "turned off"} \cap excuse[v] # {}
        /\ notices[v] > 1 => "selected twice" \in excuse[v]
        /\ notices[v] > 0 => vaultStatus[v] = "failed" \/ "ended meanwhile" \in excuse[v]
        /\ v \in unwanted => "turned off late" \in excuse[v]

\* Where a marked reminder can be.
DigestsOf(i) ==
    {<<"sent", m>> : m \in {n \in Minutes : i \in digest[n]}}
    \cup {<<"late", m>> : m \in {n \in Minutes : i \in lateDigest[n]}}
    \cup {<<"kept", m>> : m \in {n \in Minutes : i \in kept[n]}}
    \cup {<<"claimed", c>> : c \in {d \in claimed : i \in d.items}}
    \cup {<<"run", r>> : r \in {q \in ReminderRuns : Holds(q, i) /\ reminderRun[q].at \in {"marking", "sending"}}}

\* "Groups all pending reminders for the same recipient", "to prevent double-
\* counting": a reminder that is marked, and so never collected again, is in a digest
\* that is sent, kept or about to be, and in one only, except for the named losses (an
\* error or crash after the mark, another digest of the minute) and repetitions (two
\* runs at once, an error after what was kept).
RemindersAccounted ==
    \A i \in Reminders :
        /\ i \in marked => DigestsOf(i) # {} \/ i \in forgotten
        /\ Cardinality(DigestsOf(i)) > 1 => i \in repeated

\* Nobody is told twice and nobody is left out, of a failure or of a reminder, but
\* for the named reasons: the two promises above.
NotificationsAccounted == NoticesAccounted /\ RemindersAccounted
=============================================================================
