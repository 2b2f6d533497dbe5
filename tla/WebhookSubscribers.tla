-------------------------- MODULE WebhookSubscribers --------------------------
(***************************************************************************)
(* The subscribers of one organisation as the administrator configures     *)
(* them (src/routes/adminWebhooks.ts, src/services/webhooks.ts,            *)
(* src/repositories/webhookSubscriberRepository.ts), and what a delivery   *)
(* under way has read of them.  WebhookDelivery models what becomes of a   *)
(* delivery; here it is only sent, with the secret and to the URL of the   *)
(* row that it read, however often it is tried.                            *)
(*                                                                         *)
(* A row is never deactivated or removed: nothing calls removeSubscriber,  *)
(* deactivate or addSubscriber.  The URLs are ones that the global guard   *)
(* of isUrlAllowed permits.                                                *)
(***************************************************************************)
EXTENDS Integers

CONSTANTS
    Urls,         \* each named for its host
    Hosts,
    SigningSecrets,
    Policies,     \* field policies
    DefaultPolicy,
    Sends,        \* deliveries, replays and test pings under way
    Upserts,      \* registrations under way
    NoSigningSecret  \* no previous secret, or no secret: no such row

ASSUME SubscriberAssumption ==
    /\ Urls \subseteq Hosts
    /\ NoSigningSecret \notin SigningSecrets
    /\ DefaultPolicy \in Policies

VARIABLES
    row,       \* webhook_subscribers, by URL
    inGrace,   \* URLs whose row was rotated less than the grace window ago
    allowed,   \* org_webhook_egress_allowlists: hosts, empty when there is no list
    send,      \* what each delivery has read
    upsert     \* registrations that have passed the allowlist

subscriberVars == <<row, inGrace, allowed, send, upsert>>

Kinds == {"event", "replay", "ping"}
NoUrl == "none"
Absent == [secret |-> NoSigningSecret, previous |-> NoSigningSecret, policy |-> DefaultPolicy]
NoSend == [at |-> "idle", kind |-> "event", url |-> NoUrl, secret |-> NoSigningSecret,
           missed |-> 0, listed |-> TRUE]
NoUpsert == [url |-> NoUrl, secret |-> NoSigningSecret]

SubscriberInit ==
    /\ row = [u \in Urls |-> Absent]
    /\ inGrace = {}
    /\ allowed = {}
    /\ send = [d \in Sends |-> NoSend]
    /\ upsert = [q \in Upserts |-> NoUpsert]

Registered(u) == row[u].secret # NoSigningSecret
IsUrlAllowedForOrg(u) == allowed = {} \/ u \in allowed

VerifiesWithGrace(u, secret) ==
    \/ row[u].secret = secret
    \/ u \in inGrace /\ row[u].previous = secret /\ secret # NoSigningSecret

\* The sends that read the row of u see it overtaken: by(n) of n before.
Overtake(u, by(_)) ==
    send' = [d \in Sends |-> IF send[d].url = u
                             THEN [send[d] EXCEPT !.missed = by(@)] ELSE send[d]]

-----------------------------------------------------------------------------
\* POST /subscribers: the allowlist is read before the row is written.
BeginUpsert(q, u, secret) ==
    /\ upsert[q] = NoUpsert
    /\ IsUrlAllowedForOrg(u)
    /\ upsert' = [upsert EXCEPT ![q] = [url |-> u, secret |-> secret]]
    /\ UNCHANGED <<row, inGrace, allowed, send>>

\* The previous secret and the time of its rotation stay what they were, and
\* the policy becomes the default one, which the caller cannot name.
CommitUpsert(q) ==
    LET u == upsert[q].url
        Replaced(n) == IF n = 0 /\ row[u].secret # upsert[q].secret THEN 2 ELSE n
    IN  /\ u # NoUrl
        /\ row' = [row EXCEPT ![u] = [@ EXCEPT !.secret = upsert[q].secret,
                                               !.policy = DefaultPolicy]]
        /\ Overtake(u, Replaced)
        /\ upsert' = [upsert EXCEPT ![q] = NoUpsert]
        /\ UNCHANGED <<inGrace, allowed>>

\* Mutant of RotateSecret: the previous secret is kept when there is one.
RotateKeepingFirst(u, secret) ==
    LET Older(n) == IF n < 2 THEN n + 1 ELSE 2
    IN  /\ Registered(u)
        /\ row' = [row EXCEPT ![u] =
               [@ EXCEPT !.secret = secret,
                         !.previous = IF @ = NoSigningSecret THEN row[u].secret ELSE @]]
        /\ inGrace' = inGrace \cup {u}
        /\ Overtake(u, Older)
        /\ UNCHANGED <<allowed, upsert>>

\* The previous secret is the one replaced, whatever else is in its window.
RotateSecret(u, secret) ==
    LET Older(n) == IF n < 2 THEN n + 1 ELSE 2
    IN  /\ Registered(u)
        /\ row' = [row EXCEPT ![u] = [@ EXCEPT !.secret = secret,
                                               !.previous = row[u].secret]]
        /\ inGrace' = inGrace \cup {u}
        /\ Overtake(u, Older)
        /\ UNCHANGED <<allowed, upsert>>

UpdateFieldPolicy(u, policy) ==
    /\ Registered(u)
    /\ row' = [row EXCEPT ![u].policy = policy]
    /\ UNCHANGED <<inGrace, allowed, send, upsert>>

\* 24 hours after its last rotation.
GraceEnds(u) ==
    LET Late(n) == IF n = 1 THEN 2 ELSE n
    IN  /\ u \in inGrace
        /\ inGrace' = inGrace \ {u}
        /\ Overtake(u, Late)
        /\ UNCHANGED <<row, allowed, upsert>>

ListChanges == send' = [d \in Sends |-> [send[d] EXCEPT !.listed = FALSE]]

AddEgressAllowlistEntry(h) ==
    /\ allowed' = allowed \cup {h}
    /\ ListChanges
    /\ UNCHANGED <<row, inGrace, upsert>>

RemoveEgressAllowlistEntry(h) ==
    /\ h \in allowed
    /\ allowed' = allowed \ {h}
    /\ ListChanges
    /\ UNCHANGED <<row, inGrace, upsert>>

-----------------------------------------------------------------------------
\* findByEvent or findById.  A test ping asks only the global guard.
ReadSubscriber(d, kind, u) ==
    /\ send[d].at = "idle" /\ Registered(u)
    /\ send' = [send EXCEPT ![d] =
           [at |-> IF kind = "ping" THEN "sending" ELSE "read", kind |-> kind, url |-> u,
            secret |-> row[u].secret, missed |-> 0, listed |-> kind # "ping"]]
    /\ UNCHANGED <<row, inGrace, allowed, upsert>>

\* The allowlist of now, once for all tries; a host off it is not sent to.
CheckEgress(d) ==
    /\ send[d].at = "read"
    /\ send' = [send EXCEPT ![d] =
           IF IsUrlAllowedForOrg(send[d].url)
           THEN [@ EXCEPT !.at = "sending", !.listed = TRUE] ELSE NoSend]
    /\ UNCHANGED <<row, inGrace, allowed, upsert>>

\* The last try has been answered, or none will be.
EndSend(d) ==
    /\ send[d].at # "idle"
    /\ send' = [send EXCEPT ![d] = NoSend]
    /\ UNCHANGED <<row, inGrace, allowed, upsert>>

SubscriberNext ==
    \/ \E u \in Urls :
         \/ GraceEnds(u)
         \/ \E p \in Policies : UpdateFieldPolicy(u, p)
         \/ \E s \in SigningSecrets : RotateSecret(u, s) \/ \E q \in Upserts : BeginUpsert(q, u, s)
         \/ \E d \in Sends, kind \in Kinds : ReadSubscriber(d, kind, u)
    \/ \E h \in Hosts : AddEgressAllowlistEntry(h) \/ RemoveEgressAllowlistEntry(h)
    \/ \E q \in Upserts : CommitUpsert(q)
    \/ \E d \in Sends : CheckEgress(d) \/ EndSend(d)

SubscriberSpec == SubscriberInit /\ [][SubscriberNext]_subscriberVars

SubscriberTypeOK ==
    /\ row \in [Urls -> [secret : SigningSecrets \cup {NoSigningSecret},
                         previous : SigningSecrets \cup {NoSigningSecret}, policy : Policies]]
    /\ inGrace \subseteq Urls /\ allowed \subseteq Hosts
    /\ send \in [Sends -> [at : {"idle", "read", "sending"}, kind : Kinds,
                           url : Urls \cup {NoUrl}, secret : SigningSecrets \cup {NoSigningSecret},
                           missed : 0 .. 2, listed : BOOLEAN]]
    /\ upsert \in [Upserts -> [url : Urls \cup {NoUrl}, secret : SigningSecrets \cup {NoSigningSecret}]]

\* webhooks.ts, "any in-flight deliveries signed with the old key continue to
\* verify": what a delivery sends verifies when it arrives, although the secret
\* has been rotated once since it read the row, until the grace window ends or
\* a registration replaces the secret; and it goes to a host that the list it
\* read, or the list of now, permits.
DeliveredAsConfigured ==
    \A d \in Sends :
        /\ send[d].at # "idle" /\ send[d].missed < 2
               => VerifiesWithGrace(send[d].url, send[d].secret)
        /\ send[d].at = "sending" /\ send[d].listed
               => IsUrlAllowedForOrg(send[d].url)
=============================================================================
