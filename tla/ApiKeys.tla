------------------------------- MODULE ApiKeys -------------------------------
(***************************************************************************)
(* One API key of a user (src/services/apiKeys.ts, routes/apiKeys.ts,      *)
(* middleware/apiKeyAuth.ts).                                              *)
(*                                                                         *)
(* A revocation, a rotation and the first use of a key stored in the old   *)
(* format read the row, compute a hash and write the whole row back, and   *)
(* so undo what another has written in between.  A hash stands for its     *)
(* secret; secrets come from a fixed set and are never reused.  Scopes,    *)
(* labels and the user the key belongs to are left out.                    *)
(***************************************************************************)
EXTENDS Integers

CONSTANTS
    Secrets,
    KeyRequests,
    NoSecret

ASSUME ApiKeyAssumption == NoSecret \notin Secrets

VARIABLES
    key,        \* the row: its hash's secret and format, and revoked_at
    keyRequest, \* stage of each request, the row it read and the secret it makes
    made,       \* secrets in use so far
    revocation, \* history: the last revocation "holds", or is "overtaken" by a
                \* write of a request that had read the row before
    last        \* history: the secret last answered, if nothing was under way

keyVars == <<key, keyRequest, made, revocation, last>>

NoRow == [secret |-> NoSecret, legacy |-> FALSE, revoked |-> FALSE]
IdleKeyRequest == [at |-> "idle", copy |-> NoRow, secret |-> NoSecret]

KeyInit ==
    /\ \/ key = NoRow /\ made = {}
       \/ \E s \in Secrets : /\ key = [secret |-> s, legacy |-> TRUE, revoked |-> FALSE]
                             /\ made = {s}
    /\ keyRequest = [q \in KeyRequests |-> IdleKeyRequest]
    /\ revocation = "none"
    /\ last = NoSecret

Writing(q, stages) == {p \in KeyRequests \ {q} : keyRequest[p].at \in stages}
FindKey(q, stage, s) ==
    /\ keyRequest[q].at = "idle"
    /\ keyRequest' = [keyRequest EXCEPT ![q] = [at |-> stage, copy |-> key, secret |-> s]]
Update(q, row) ==
    /\ key' = row
    /\ keyRequest' = [keyRequest EXCEPT ![q] = IdleKeyRequest]

-----------------------------------------------------------------------------
CreateApiKey(s) ==
    /\ key = NoRow
    /\ key' = [secret |-> s, legacy |-> FALSE, revoked |-> FALSE]
    /\ made' = made \cup {s}
    /\ last' = s
    /\ UNCHANGED <<keyRequest, revocation>>

\* revokeApiKey; a key that is revoked already needs no write.
FindToRevoke(q) ==
    /\ key # NoRow /\ ~key.revoked
    /\ FindKey(q, "revoke", NoSecret)
    /\ UNCHANGED <<key, made, revocation, last>>

RevokeApiKey(q) ==
    /\ keyRequest[q].at = "revoke"
    /\ Update(q, [keyRequest[q].copy EXCEPT !.revoked = TRUE])
    /\ revocation' = IF Writing(q, {"rotate", "rehash"}) = {} THEN "holds" ELSE "overtaken"
    /\ UNCHANGED <<made, last>>

\* Mutant of FindToRotate: a revoked key is rotated too.
FindAnyToRotate(q, s) ==
    /\ key # NoRow
    /\ s \notin made
    /\ FindKey(q, "rotate", s)
    /\ made' = made \cup {s}
    /\ UNCHANGED <<key, revocation, last>>

FindToRotate(q, s) ==
    /\ key # NoRow /\ ~key.revoked
    /\ s \notin made
    /\ FindKey(q, "rotate", s)
    /\ made' = made \cup {s}
    /\ UNCHANGED <<key, revocation, last>>

RotateApiKey(q) ==
    /\ keyRequest[q].at = "rotate"
    /\ Update(q, [secret |-> keyRequest[q].secret, legacy |-> FALSE, revoked |-> FALSE])
    /\ last' = IF Writing(q, {"revoke", "rotate", "rehash"}) = {}
               THEN keyRequest[q].secret ELSE NoSecret
    /\ UNCHANGED <<made, revocation>>

\* findMatchingRecord with the secret of an old hash, revoked or not; every other
\* use of the key writes nothing.
MatchLegacy(q) ==
    /\ key.legacy
    /\ FindKey(q, "rehash", NoSecret)
    /\ UNCHANGED <<key, made, revocation, last>>

\* An update that fails is ignored.
Rehash(q) ==
    /\ keyRequest[q].at = "rehash"
    /\ \E row \in {key, [keyRequest[q].copy EXCEPT !.legacy = FALSE]} : Update(q, row)
    /\ UNCHANGED <<made, revocation, last>>

\* validateApiKey: the secret is that of the row, in whichever format, and the key
\* is not revoked.
Valid(s) == key.secret = s /\ ~key.revoked

LoseKeyRequest(q) ==
    /\ keyRequest[q].at # "idle"
    /\ Update(q, key)
    /\ UNCHANGED <<made, revocation, last>>

KeyNext ==
    \/ \E s \in Secrets : CreateApiKey(s)
    \/ \E q \in KeyRequests :
         \/ FindToRevoke(q) \/ RevokeApiKey(q)
         \/ (\E s \in Secrets : FindToRotate(q, s)) \/ RotateApiKey(q)
         \/ MatchLegacy(q) \/ Rehash(q) \/ LoseKeyRequest(q)

KeySpec == KeyInit /\ [][KeyNext]_keyVars

KeyRow == [secret : Secrets \cup {NoSecret}, legacy : BOOLEAN, revoked : BOOLEAN]
KeyTypeOK ==
    /\ key \in KeyRow
    /\ keyRequest \in [KeyRequests -> [at : {"idle", "revoke", "rotate", "rehash"},
                                       copy : KeyRow, secret : Secrets \cup {NoSecret}]]
    /\ made \subseteq Secrets
    /\ revocation \in {"none", "holds", "overtaken"}
    /\ last \in Secrets \cup {NoSecret}

\* docs/api-keys.md, "Marks the key as revoked so further use is rejected", and
\* "Clients receive the full key value only at create time and rotate time": a key
\* stays refused and the secret answered last stays the one that is let in, unless a
\* request under way at that moment writes back the row it had read before.
AnswersHold ==
    /\ revocation = "holds" => \A s \in Secrets : ~Valid(s)
    /\ last # NoSecret => \A s \in Secrets : Valid(s) <=> s = last /\ ~key.revoked
=============================================================================
