---------------------------- MODULE RecordsProofs ----------------------------
(***************************************************************************)
(* Proofs about the records of the API: an API key under requests that     *)
(* write back what they had read, the cursor of a reindexing, saved        *)
(* searches and their alerts, the audit chain with the verifiers whose     *)
(* changes it records, and the monitor of suspicious requests.  Every      *)
(* invariant is strengthened with what the requests and runs under way, or *)
(* the clients remembered, still know.                                     *)
(***************************************************************************)
EXTENDS Verifiers, ApiKeys, EvidenceReindex, SavedSearches, SecurityMonitor,
        FiniteSetTheorems, WellFoundedInduction, TLAPS

-----------------------------------------------------------------------------
(* API keys.                                                               *)

KeyReq == [at : {"idle", "revoke", "rotate", "rehash"},
           copy : KeyRow, secret : Secrets \cup {NoSecret}]

\* A request under way has read a row that was there.
KeyReqSound(x) ==
    /\ x.at # "idle" => x.copy.secret # NoSecret /\ key.secret # NoSecret
    /\ x.at = "rotate" => x.secret # NoSecret

\* It does not bring a revoked key back ...
KeepsRevoked(x) == x.at # "rotate" /\ (x.at = "rehash" => x.copy.revoked)

\* ... nor another secret than the one answered last, if it does not make a new one.
KeepsSecret(x) == x.at # "idle" => x.copy.secret = last

KeyIInv ==
    /\ KeyTypeOK
    /\ key = NoRow \/ key.secret # NoSecret
    /\ \A q \in KeyRequests : KeyReqSound(keyRequest[q])
    /\ revocation = "holds" =>
         key.revoked /\ \A q \in KeyRequests : KeepsRevoked(keyRequest[q])
    /\ last # NoSecret =>
         key.secret = last /\ \A q \in KeyRequests : KeepsSecret(keyRequest[q])


\* A write that ends request q leaves every other one sound.
LEMMA KeyWriteKeeps ==
    ASSUME KeyIInv, NEW q \in KeyRequests, NEW row \in KeyRow, row.secret # NoSecret,
           Update(q, row)
    PROVE  /\ key' = row /\ keyRequest' \in [KeyRequests -> KeyReq]
           /\ \A p \in KeyRequests : p # q => keyRequest'[p] = keyRequest[p]
           /\ keyRequest'[q] = IdleKeyRequest
           /\ \A p \in KeyRequests : KeyReqSound(keyRequest[p])'
  <1>1. IdleKeyRequest \in KeyReq /\ IdleKeyRequest.at = "idle"
    BY DEF IdleKeyRequest, KeyReq, KeyRow, NoRow
  <1>2. keyRequest \in [KeyRequests -> KeyReq]
    BY DEF KeyIInv, KeyTypeOK, KeyReq
  <1>3. key' = row /\ keyRequest' = [keyRequest EXCEPT ![q] = IdleKeyRequest]
    BY DEF Update
  <1>4. \A p \in KeyRequests : KeyReqSound(keyRequest[p])
    BY DEF KeyIInv
  <1> HIDE DEF KeyReq, IdleKeyRequest
  <1>5. ASSUME NEW p \in KeyRequests PROVE KeyReqSound(keyRequest[p])'
    BY <1>1, <1>2, <1>3, <1>4 DEF KeyReqSound
  <1>6. QED
    BY <1>1, <1>2, <1>3, <1>5

\* A request that reads the row starts sound, and the others stay so.
LEMMA KeyReadKeeps ==
    ASSUME KeyIInv, NEW q \in KeyRequests, NEW s \in Secrets \cup {NoSecret},
           NEW stage \in {"revoke", "rotate", "rehash"}, key # NoRow,
           stage = "rotate" => s # NoSecret,
           stage = "rotate" => ~key.revoked,
           FindKey(q, stage, s), made' \subseteq Secrets,
           UNCHANGED <<key, revocation, last>>
    PROVE  KeyIInv'
  <1> DEFINE x == [at |-> stage, copy |-> key, secret |-> s]
  <1>1. /\ x \in KeyReq /\ x.at = stage /\ x.copy = key /\ x.secret = s
        /\ keyRequest \in [KeyRequests -> KeyReq] /\ key \in KeyRow
    BY DEF KeyIInv, KeyTypeOK, KeyReq
  <1>2. keyRequest' = [keyRequest EXCEPT ![q] = x]
    BY DEF FindKey
  <1> HIDE DEF x
  <1>3. keyRequest' \in [KeyRequests -> KeyReq]
    BY <1>1, <1>2
  <1>4. \A p \in KeyRequests : keyRequest'[p] = IF p = q THEN x ELSE keyRequest[p]
    BY <1>1, <1>2
  <1>5. \A p \in KeyRequests : KeyReqSound(keyRequest[p])'
    BY <1>1, <1>4 DEF KeyIInv, KeyReqSound
  <1>6. revocation' = "holds" =>
          key'.revoked /\ \A p \in KeyRequests : KeepsRevoked(keyRequest'[p])
    BY <1>1, <1>4 DEF KeyIInv, KeepsRevoked
  <1>7. last' # NoSecret =>
          key'.secret = last' /\ \A p \in KeyRequests : KeepsSecret(keyRequest[p])'
    BY <1>1, <1>4 DEF KeyIInv, KeepsSecret
  <1>8. QED
    BY <1>3, <1>5, <1>6, <1>7 DEF KeyIInv, KeyTypeOK, KeyReq

LEMMA KeyInitOK == KeyInit => KeyIInv
  <1> SUFFICES ASSUME KeyInit PROVE KeyIInv
    OBVIOUS
  <1>1. NoRow \in KeyRow /\ NoRow.secret = NoSecret
    BY DEF NoRow, KeyRow
  <1>2. key \in KeyRow /\ made \subseteq Secrets /\ (key = NoRow \/ key.secret # NoSecret)
    <2>1. ASSUME NEW s \in Secrets, key = [secret |-> s, legacy |-> TRUE, revoked |-> FALSE],
                 made = {s}
          PROVE  key \in KeyRow /\ made \subseteq Secrets /\ key.secret # NoSecret
      BY <2>1, ApiKeyAssumption DEF KeyRow
    <2>2. QED
      BY <1>1, <2>1 DEF KeyInit
  <1>3. IdleKeyRequest \in KeyReq /\ IdleKeyRequest.at = "idle"
    BY DEF IdleKeyRequest, KeyReq, KeyRow, NoRow
  <1>4. keyRequest \in [KeyRequests -> KeyReq]
        /\ \A q \in KeyRequests : keyRequest[q].at = "idle"
    BY <1>3 DEF KeyInit
  <1>5. revocation = "none" /\ last = NoSecret
    BY DEF KeyInit
  <1>6. \A q \in KeyRequests : KeyReqSound(keyRequest[q])
    BY <1>4 DEF KeyReqSound
  <1>7. KeyTypeOK
    BY <1>2, <1>4, <1>5 DEF KeyTypeOK, KeyReq
  <1>8. QED
    BY <1>2, <1>5, <1>6, <1>7 DEF KeyIInv

LEMMA KeyStep == KeyIInv /\ [KeyNext]_keyVars => KeyIInv'
  <1> SUFFICES ASSUME KeyIInv, [KeyNext]_keyVars PROVE KeyIInv'
    OBVIOUS
  <1>0. /\ KeyTypeOK /\ keyRequest \in [KeyRequests -> KeyReq] /\ key \in KeyRow
        /\ \A q \in KeyRequests : KeyReqSound(keyRequest[q])
    BY DEF KeyIInv, KeyTypeOK, KeyReq
  <1>1. ASSUME NEW s \in Secrets, CreateApiKey(s) PROVE KeyIInv'
    <2>1. \A q \in KeyRequests : keyRequest[q].at = "idle"
      BY <1>0, <1>1 DEF CreateApiKey, KeyReqSound, NoRow
    <2>2. key' \in KeyRow /\ key'.secret = s /\ s # NoSecret /\ ~key.revoked
      BY <1>1, ApiKeyAssumption DEF CreateApiKey, KeyRow, NoRow
    <2>3. QED
      BY <1>0, <1>1, <2>1, <2>2
         DEF CreateApiKey, KeyIInv, KeyTypeOK, KeyReqSound, KeepsSecret
  <1>2. ASSUME NEW q \in KeyRequests, FindToRevoke(q) PROVE KeyIInv'
    BY <1>0, <1>2, KeyReadKeeps DEF FindToRevoke, KeyTypeOK
  <1>3. ASSUME NEW q \in KeyRequests, RevokeApiKey(q) PROVE KeyIInv'
    <2> DEFINE row == [keyRequest[q].copy EXCEPT !.revoked = TRUE]
    <2>1. row \in KeyRow /\ row.revoked /\ row.secret = keyRequest[q].copy.secret
          /\ row.secret # NoSecret
      BY <1>0, <1>3 DEF KeyReq, KeyRow, RevokeApiKey, KeyReqSound
    <2>2. Update(q, row)
      BY <1>3 DEF RevokeApiKey
    <2> HIDE DEF row
    <2>3. /\ key' = row /\ keyRequest' \in [KeyRequests -> KeyReq]
          /\ \A p \in KeyRequests : p # q => keyRequest'[p] = keyRequest[p]
          /\ keyRequest'[q] = IdleKeyRequest
          /\ \A p \in KeyRequests : KeyReqSound(keyRequest[p])'
      BY <2>1, <2>2, KeyWriteKeeps
    <2>4. revocation' = "holds" => \A p \in KeyRequests : KeepsRevoked(keyRequest'[p])
      BY <1>3, <2>3 DEF RevokeApiKey, Writing, KeepsRevoked, IdleKeyRequest
    <2>5. last' # NoSecret =>
            key'.secret = last' /\ \A p \in KeyRequests : KeepsSecret(keyRequest[p])'
      BY <1>0, <1>3, <2>1, <2>3 DEF RevokeApiKey, KeyIInv, KeepsSecret, IdleKeyRequest
    <2>6. made' \subseteq Secrets /\ revocation' \in {"none", "holds", "overtaken"}
          /\ last' \in Secrets \cup {NoSecret}
      BY <1>0, <1>3 DEF RevokeApiKey, KeyTypeOK
    <2>7. QED
      BY <2>1, <2>3, <2>4, <2>5, <2>6 DEF KeyIInv, KeyTypeOK, KeyReq
  <1>4. ASSUME NEW q \in KeyRequests, NEW s \in Secrets, FindToRotate(q, s) PROVE KeyIInv'
    BY <1>0, <1>4, KeyReadKeeps, ApiKeyAssumption DEF FindToRotate, KeyTypeOK
  <1>5. ASSUME NEW q \in KeyRequests, RotateApiKey(q) PROVE KeyIInv'
    <2> DEFINE s == keyRequest[q].secret
               row == [secret |-> s, legacy |-> FALSE, revoked |-> FALSE]
    <2>1. row \in KeyRow /\ row.secret = s /\ s # NoSecret /\ s \in Secrets
      BY <1>0, <1>5 DEF KeyReq, KeyRow, RotateApiKey, KeyReqSound
    <2>2. Update(q, row)
      BY <1>5 DEF RotateApiKey
    <2> HIDE DEF row
    <2>3. /\ key' = row /\ keyRequest' \in [KeyRequests -> KeyReq]
          /\ \A p \in KeyRequests : p # q => keyRequest'[p] = keyRequest[p]
          /\ keyRequest'[q] = IdleKeyRequest
          /\ \A p \in KeyRequests : KeyReqSound(keyRequest[p])'
      BY <2>1, <2>2, KeyWriteKeeps
    <2>4. revocation' # "holds"
      BY <1>5 DEF RotateApiKey, KeyIInv, KeepsRevoked
    <2>5. last' # NoSecret => last' = s /\ \A p \in KeyRequests : keyRequest'[p].at = "idle"
      BY <1>0, <1>5, <2>3 DEF RotateApiKey, Writing, KeyReq, IdleKeyRequest
    <2>6. made' \subseteq Secrets /\ revocation' \in {"none", "holds", "overtaken"}
          /\ last' \in Secrets \cup {NoSecret}
      BY <1>0, <1>5, <2>1 DEF RotateApiKey, KeyTypeOK
    <2>7. QED
      BY <2>1, <2>3, <2>4, <2>5, <2>6 DEF KeyIInv, KeyTypeOK, KeyReq, KeepsSecret
  <1>6. ASSUME NEW q \in KeyRequests, MatchLegacy(q) PROVE KeyIInv'
    BY <1>0, <1>6, KeyReadKeeps DEF MatchLegacy, KeyTypeOK, NoRow
  <1>7. ASSUME NEW q \in KeyRequests, NEW row \in KeyRow, Update(q, row),
               row.secret # NoSecret, revocation = "holds" => row.revoked,
               last # NoSecret => row.secret = last,
               UNCHANGED <<made, revocation, last>>
        PROVE  KeyIInv'
    <2>1. /\ key' = row /\ keyRequest' \in [KeyRequests -> KeyReq]
          /\ \A p \in KeyRequests : p # q => keyRequest'[p] = keyRequest[p]
          /\ keyRequest'[q] = IdleKeyRequest
          /\ \A p \in KeyRequests : KeyReqSound(keyRequest[p])'
      BY <1>7, KeyWriteKeeps
    <2>2. revocation' = "holds" => \A p \in KeyRequests : KeepsRevoked(keyRequest'[p])
      BY <1>7, <2>1 DEF KeyIInv, KeepsRevoked, IdleKeyRequest
    <2>3. last' # NoSecret => \A p \in KeyRequests : KeepsSecret(keyRequest[p])'
      BY <1>7, <2>1 DEF KeyIInv, KeepsSecret, IdleKeyRequest
    <2>4. QED
      BY <1>0, <1>7, <2>1, <2>2, <2>3 DEF KeyIInv, KeyTypeOK, KeyReq
  <1>8. ASSUME NEW q \in KeyRequests, keyRequest[q].at # "idle"
        PROVE  key.secret # NoSecret
    BY <1>0, <1>8 DEF KeyReqSound
  <1>9. ASSUME NEW q \in KeyRequests, Rehash(q) PROVE KeyIInv'
    <2> DEFINE new == [keyRequest[q].copy EXCEPT !.legacy = FALSE]
    <2>1. PICK row \in {key, new} : Update(q, row)
      BY <1>9 DEF Rehash
    <2>2. /\ new \in KeyRow /\ new.revoked = keyRequest[q].copy.revoked
          /\ new.secret = keyRequest[q].copy.secret /\ new.secret # NoSecret
      BY <1>0, <1>9 DEF KeyReq, KeyRow, Rehash, KeyReqSound
    <2> HIDE DEF new
    <2>3. /\ revocation = "holds" => key.revoked /\ new.revoked
          /\ last # NoSecret => key.secret = last /\ new.secret = last
      BY <1>9, <2>2 DEF Rehash, KeyIInv, KeepsRevoked, KeepsSecret
    <2>4. QED
      BY <1>0, <1>7, <1>8, <1>9, <2>1, <2>2, <2>3 DEF Rehash
  <1>10. ASSUME NEW q \in KeyRequests, LoseKeyRequest(q) PROVE KeyIInv'
    BY <1>0, <1>7, <1>8, <1>10 DEF LoseKeyRequest, KeyIInv
  <1>11. CASE UNCHANGED keyVars
    BY <1>11 DEF keyVars, KeyIInv, KeyTypeOK, KeyReqSound, KeepsSecret
  <1>12. QED
    BY <1>1, <1>2, <1>3, <1>4, <1>5, <1>6, <1>9, <1>10, <1>11 DEF KeyNext

\* A revoked key stays refused, and the secret answered last is the one let in,
\* unless a request under way at that moment writes back the row it had read
\* (services/apiKeys.ts): the exceptions that the model records are all there are.
THEOREM KeyAnswersHold == KeySpec => []AnswersHold
  <1>1. KeyIInv => AnswersHold
    BY ApiKeyAssumption DEF KeyIInv, AnswersHold, Valid
  <1>2. QED
    BY <1>1, KeyInitOK, KeyStep, PTL DEF KeySpec
-----------------------------------------------------------------------------
(* The cursor of the reindexing.                                           *)

Batch == [at : {"idle", "next", "list", "versions", "embed"},
          version : 1..MaxVersion, page : SUBSET (0..MaxId),
          todo : SUBSET Ids, batches : 0..(MaxBatchesPerRun - 1)]

\* Since the last reset the model has not changed, and no run of before it has written.
Fresh == modelVersion = restartedAt /\ ~outpaced

Good(i) == embedded[i] = modelVersion \/ i \in missed

\* The page of a run: the cursor it has read, or the rows it has listed above.
PageSound(x) ==
    /\ x.at = "list" => \E c \in milestones \cup {0} : x.page = {c}
    /\ x.at \in {"versions", "embed"} => x.page \subseteq milestones /\ x.page # {}

\* What a run of since the reset has left behind, or has still to embed.
PageGood(x) ==
    /\ x.at = "list" => \A i \in milestones : \A c \in x.page : i <= c => Good(i)
    /\ x.at \in {"versions", "embed"} =>
         \A i \in milestones : \A h \in x.page : i <= h => Good(i) \/ i \in x.page
    /\ x.at = "embed" => \A i \in x.page : Good(i) \/ i \in x.todo

ReindexIInv ==
    /\ ReindexTypeOK
    /\ backfillCursor \in milestones \cup {0}
    /\ restartedAt <= modelVersion
    /\ \A w \in Reindexers : PageSound(batch[w])
    /\ modelVersion = restartedAt =>
         \A w \in Reindexers \ before : batch[w].at # "idle" => batch[w].version = modelVersion
    /\ Fresh => /\ \A i \in milestones : i <= backfillCursor => Good(i)
                /\ \A w \in Reindexers \ before : PageGood(batch[w])


LEMMA HighestIn ==
    ASSUME NEW S \in SUBSET (0..MaxId), S # {}
    PROVE  Highest(S) \in S /\ \A j \in S : j <= Highest(S)
  <1> DEFINE less == {p \in Nat \X Nat : p[1] < p[2]}
             T == {MaxId - i : i \in S}
  <1>1. IsWellFoundedOn(less, Nat)
    BY NatLessThanWellFounded DEF OpToRel
  <1>2. \A k, l \in Nat : <<k, l>> \notin less => l <= k
    OBVIOUS
  <1>0. \A i \in S : MaxId - i \in Nat
    BY ReindexAssumption
  <1>3. T \subseteq Nat /\ T # {}
    BY <1>0
  <1> HIDE DEF less
  <1>4. PICK l \in T : \A k \in T : <<k, l>> \notin less
    BY <1>1, <1>3, WFMin
  <1>5. PICK i \in S : l = MaxId - i
    BY <1>4
  <1>6. ASSUME NEW j \in S PROVE j <= i
    <2>1. MaxId - j \in T /\ MaxId - j \in Nat /\ l \in Nat
      BY <1>3, <1>4
    <2>2. l <= MaxId - j
      BY <1>2, <1>4, <2>1
    <2>3. QED
      BY <1>5, <2>2, ReindexAssumption
  <1>7. QED
    BY <1>6 DEF Highest

LEMMA LowestIn ==
    ASSUME NEW S \in SUBSET Ids, S # {}
    PROVE  (CHOOSE j \in S : \A k \in S : j <= k) \in S
  <1> DEFINE less == {p \in Nat \X Nat : p[1] < p[2]}
  <1>1. IsWellFoundedOn(less, Nat)
    BY NatLessThanWellFounded DEF OpToRel
  <1>2. \A k, l \in Nat : <<k, l>> \notin less => l <= k
    OBVIOUS
  <1>3. S \subseteq Nat
    BY DEF Ids
  <1> HIDE DEF less
  <1>4. PICK l \in S : \A k \in S : <<k, l>> \notin less
    BY <1>1, <1>3, WFMin
  <1>5. \A k \in S : l <= k
    BY <1>2, <1>3, <1>4
  <1>6. QED
    BY <1>5

\* A page holds every row above the cursor that is not above all of the page.
LEMMA PageIsPrefix ==
    ASSUME NEW above \in SUBSET Ids, NEW i \in above, NEW h \in above, i <= h,
           Cardinality({j \in above : j < h}) < ReindexBatchSize
    PROVE  Cardinality({j \in above : j < i}) < ReindexBatchSize
  <1> DEFINE A == {j \in above : j < i}
             B == {j \in above : j < h}
  <1>1. IsFiniteSet(Ids)
    BY ReindexAssumption, FS_Interval DEF Ids
  <1>2. A \subseteq B /\ B \subseteq Ids
    <2>1. above \subseteq Int
      BY ReindexAssumption DEF Ids
    <2>2. \A j \in above : j < i => j < h
      BY <2>1
    <2>3. QED
      BY <2>2
  <1>3. IsFiniteSet(B)
    BY <1>1, <1>2, FS_Subset
  <1>4. /\ Cardinality(A) <= Cardinality(B)
        /\ Cardinality(A) \in Nat /\ Cardinality(B) \in Nat
    BY <1>2, <1>3, FS_Subset, FS_CardinalityType
  <1>5. QED
    BY <1>4, ReindexAssumption

LEMMA ReindexTypes ==
    ASSUME ReindexTypeOK
    PROVE  /\ milestones \in SUBSET Ids /\ missed \in SUBSET Ids
           /\ embedded \in [Ids -> 0..MaxVersion]
           /\ modelVersion \in 1..MaxVersion /\ restartedAt \in 1..MaxVersion
           /\ backfillCursor \in 0..MaxId
           /\ batch \in [Reindexers -> Batch]
           /\ before \subseteq Reindexers /\ outpaced \in BOOLEAN
           /\ MaxId \in Nat /\ MaxVersion \in Nat /\ ReindexBatchSize \in Nat
           /\ MaxBatchesPerRun \in Nat \ {0} /\ Ids \subseteq 0..MaxId
           /\ \A i \in Ids : i # 0
  BY ReindexAssumption DEF ReindexTypeOK, Batch, Ids

\* A run that takes a step which changes nothing but its own batch.
LEMMA BatchMoves ==
    ASSUME ReindexIInv, NEW w \in Reindexers, NEW x \in Batch,
           batch' = [batch EXCEPT ![w] = x],
           before' \subseteq before \cup {w}, before \ {w} \subseteq before',
           PageSound(x),
           modelVersion = restartedAt /\ w \notin before' /\ x.at # "idle" =>
               x.version = modelVersion,
           Fresh /\ w \notin before' => PageGood(x),
           UNCHANGED <<milestones, embedded, modelVersion, backfillCursor, restartedAt,
                       missed, outpaced>>
    PROVE  ReindexIInv'
  <1>1. batch' \in [Reindexers -> Batch]
        /\ \A v \in Reindexers : batch'[v] = IF v = w THEN x ELSE batch[v]
    BY ReindexTypes DEF ReindexIInv
  <1>2. ReindexTypeOK'
    BY <1>1, ReindexTypes DEF ReindexIInv, ReindexTypeOK, Batch
  <1>3. \A v \in Reindexers : PageSound(batch[v])'
    BY <1>1 DEF ReindexIInv, PageSound
  <1>4. Fresh' = Fresh
    BY DEF Fresh
  <1>5. Fresh' => \A v \in Reindexers \ before' : PageGood(batch[v])'
    BY <1>1, <1>4 DEF ReindexIInv, PageGood, Good
  <1>6. Fresh' => \A i \in milestones' : i <= backfillCursor' => Good(i)'
    BY <1>4 DEF ReindexIInv, Good
  <1>7. modelVersion' = restartedAt' =>
          \A v \in Reindexers \ before' : batch'[v].at # "idle" => batch'[v].version = modelVersion'
    BY <1>1 DEF ReindexIInv
  <1>8. QED
    BY <1>2, <1>3, <1>5, <1>6, <1>7 DEF ReindexIInv

LEMMA NoBatchOK ==
    NoBatch \in Batch /\ NoBatch.at = "idle" /\ PageSound(NoBatch) /\ PageGood(NoBatch)
  BY ReindexAssumption DEF NoBatch, Batch, PageSound, PageGood

\* A run that ends.
LEMMA BatchEnds ==
    ASSUME ReindexIInv, NEW w \in Reindexers, EndReindex(w),
           UNCHANGED <<milestones, embedded, modelVersion, backfillCursor, restartedAt,
                       missed, outpaced>>
    PROVE  ReindexIInv'
  <1>1. batch' = [batch EXCEPT ![w] = NoBatch] /\ before' = before \ {w}
    BY DEF EndReindex
  <1>2. QED
    BY <1>1, NoBatchOK, BatchMoves

LEMMA ReindexInitOK == ReindexInit => ReindexIInv
  <1> SUFFICES ASSUME ReindexInit PROVE ReindexIInv
    OBVIOUS
  <1>1. batch \in [Reindexers -> Batch]
        /\ \A w \in Reindexers : batch[w].at = "idle" /\ PageSound(batch[w]) /\ PageGood(batch[w])
    BY NoBatchOK DEF ReindexInit
  <1>2. ReindexTypeOK
    <2>1. embedded \in [Ids -> 0..MaxVersion] /\ 1 \in 1..MaxVersion /\ 0 \in 0..MaxId
      BY ReindexAssumption DEF ReindexInit
    <2>2. QED
      BY <1>1, <2>1 DEF ReindexInit, ReindexTypeOK, Batch
  <1>3. \A i \in milestones : ~(i <= backfillCursor)
    BY DEF ReindexInit, Ids
  <1>4. QED
    BY <1>1, <1>2, <1>3 DEF ReindexInit, ReindexIInv

LEMMA StoreKeeps ==
    ASSUME ReindexIInv, NEW i \in Ids, StoreMilestone(i)
    PROVE  ReindexIInv'
  <1>0. ReindexTypeOK
    BY DEF ReindexIInv
  <1>1. /\ milestones' = milestones \cup {i} /\ i \notin milestones
        /\ missed' \in SUBSET Ids /\ missed \subseteq missed'
        /\ i < backfillCursor => i \in missed'
        /\ \A w \in Reindexers : \A j \in batch[w].page :
             batch[w].at # "idle" /\ i < j => i \in missed'
        /\ UNCHANGED <<embedded, modelVersion, backfillCursor, batch, restartedAt, before, outpaced>>
    BY <1>0, ReindexTypes DEF StoreMilestone, UnderWay
  <1>2. ReindexTypeOK'
    BY <1>0, <1>1 DEF ReindexTypeOK
  <1>3. \A w \in Reindexers : PageSound(batch[w])'
    BY <1>1 DEF ReindexIInv, PageSound
  <1>4. Fresh' = Fresh /\ \A j : Good(j) => Good(j)'
    BY <1>1 DEF Fresh, Good
  <1>5. Fresh' => \A j \in milestones' : j <= backfillCursor' => Good(j)'
    <2> SUFFICES ASSUME Fresh', NEW j \in milestones', j <= backfillCursor' PROVE Good(j)'
      OBVIOUS
    <2>1. CASE j = i
      <3>1. i # backfillCursor /\ i \in Int /\ backfillCursor \in Int
        BY <1>0, <1>1, ReindexTypes DEF ReindexIInv
      <3>2. i < backfillCursor
        BY <1>1, <2>1, <3>1
      <3>3. QED
        BY <1>1, <2>1, <3>2 DEF Good
    <2>2. CASE j \in milestones
      BY <1>1, <1>4, <2>2 DEF ReindexIInv
    <2>3. QED
      BY <1>1, <2>1, <2>2
  <1>6. Fresh' => \A w \in Reindexers \ before' : PageGood(batch[w])'
    <2> SUFFICES ASSUME Fresh', NEW w \in Reindexers \ before' PROVE PageGood(batch[w])'
      OBVIOUS
    <2>1. PageSound(batch[w]) /\ PageGood(batch[w]) /\ batch'[w] = batch[w]
          /\ batch[w].page \subseteq Int /\ i \in Int
      BY <1>0, <1>1, <1>4, ReindexTypes DEF ReindexIInv, Batch
    <2>2. ASSUME NEW h \in batch[w].page, i <= h,
                 batch[w].at \in {"list", "versions", "embed"}
          PROVE  Good(i)'
      <3>1. h \in milestones \cup {0}
        BY <2>1, <2>2 DEF PageSound
      <3>2. i # h
        BY <1>0, <1>1, <3>1, ReindexTypes
      <3>3. i < h
        BY <2>1, <2>2, <3>2
      <3>4. QED
        BY <1>1, <2>2, <3>3 DEF Good
    <2>3. QED
      BY <1>1, <1>4, <2>1, <2>2 DEF PageGood
  <1>7. QED
    BY <1>1, <1>2, <1>3, <1>5, <1>6 DEF ReindexIInv

LEMMA ListKeeps ==
    ASSUME ReindexIInv, NEW w \in Reindexers, ListMilestonesAfter(w)
    PROVE  ReindexIInv'
  <1> DEFINE above == {i \in milestones : \A c \in batch[w].page : i > c}
             page == {i \in above : Cardinality({j \in above : j < i}) < ReindexBatchSize}
             x == [batch[w] EXCEPT !.at = "versions", !.page = page]
  <1>0. ReindexTypeOK /\ batch[w] \in Batch /\ batch[w].at = "list"
    BY ReindexTypes DEF ReindexIInv, ListMilestonesAfter
  <1>1. above \in SUBSET Ids /\ page \subseteq above /\ page \subseteq milestones
        /\ page \in SUBSET (0..MaxId)
    BY <1>0, ReindexTypes
  <1>2. CASE page = {}
    BY <1>2, BatchEnds DEF ListMilestonesAfter
  <1>3. CASE page # {}
    <2>1. /\ batch' = [batch EXCEPT ![w] = x] /\ before' = before
          /\ UNCHANGED <<milestones, embedded, modelVersion, backfillCursor, restartedAt,
                         missed, outpaced>>
      <3>1. batch' = [batch EXCEPT ![w].at = "versions", ![w].page = page] /\ before' = before
        BY <1>3 DEF ListMilestonesAfter
      <3>2. QED
        BY <1>0, <3>1, ReindexTypes DEF ListMilestonesAfter
    <2>2. x \in Batch /\ x.at = "versions" /\ x.page = page /\ x.version = batch[w].version
      BY <1>0, <1>1 DEF Batch
    <2>3. ASSUME NEW i \in milestones, NEW h \in page, i <= h, Fresh, w \notin before
          PROVE  Good(i) \/ i \in page
      <3>1. PICK c \in milestones \cup {0} : batch[w].page = {c}
        BY <1>0 DEF ReindexIInv, PageSound
      <3>2. CASE i <= c
        BY <1>0, <2>3, <3>1, <3>2 DEF ReindexIInv, PageGood
      <3>3. CASE ~(i <= c)
        <4>1. i \in above
          BY <1>0, <3>1, <3>3, ReindexTypes
        <4>2. Cardinality({j \in above : j < h}) < ReindexBatchSize /\ h \in above
          BY <2>3
        <4> HIDE DEF above
        <4>3. Cardinality({j \in above : j < i}) < ReindexBatchSize
          BY <1>1, <2>3, <4>1, <4>2, PageIsPrefix
        <4>4. QED
          BY <4>1, <4>3
      <3>4. QED
        BY <3>2, <3>3
    <2> HIDE DEF above, page, x
    <2>4. PageSound(x)
      BY <1>1, <1>3, <2>2 DEF PageSound
    <2>5. Fresh /\ w \notin before' => PageGood(x)
      BY <2>1, <2>2, <2>3 DEF PageGood
    <2>6. modelVersion = restartedAt /\ w \notin before' => x.version = modelVersion
      BY <1>0, <2>1, <2>2 DEF ReindexIInv
    <2>7. QED
      BY <2>1, <2>2, <2>4, <2>5, <2>6, BatchMoves
  <1>4. QED
    BY <1>2, <1>3

LEMMA EmbedKeeps ==
    ASSUME ReindexIInv, NEW w \in Reindexers, UpsertEmbedding(w)
    PROVE  ReindexIInv'
  <1>0. ReindexTypeOK /\ batch[w] \in Batch /\ batch[w].at = "embed"
        /\ batch[w].todo # {} /\ batch \in [Reindexers -> Batch]
    BY ReindexTypes DEF ReindexIInv, UpsertEmbedding
  <1>1. PICK e \in Ids : e = CHOOSE j \in batch[w].todo : \A k \in batch[w].todo : j <= k
    BY <1>0, LowestIn DEF Batch
  <1> DEFINE x == [batch[w] EXCEPT !.todo = @ \ {e}]
  <1>2. /\ embedded' = [embedded EXCEPT ![e] = batch[w].version]
        /\ batch' = [batch EXCEPT ![w] = x]
        /\ outpaced' = (outpaced \/ w \in before)
        /\ UNCHANGED <<milestones, modelVersion, backfillCursor, restartedAt, missed, before>>
    BY <1>0, <1>1 DEF UpsertEmbedding
  <1>3. /\ x \in Batch /\ x.at = "embed" /\ x.page = batch[w].page
        /\ x.version = batch[w].version /\ x.todo = batch[w].todo \ {e}
    BY <1>0 DEF Batch
  <1> HIDE DEF x
  <1>4. batch' \in [Reindexers -> Batch]
        /\ \A v \in Reindexers : batch'[v] = IF v = w THEN x ELSE batch[v]
    BY <1>0, <1>2, <1>3
  <1>5. ReindexTypeOK'
    <2>1. embedded' \in [Ids -> 0..MaxVersion]
      BY <1>0, <1>1, <1>2, ReindexTypes DEF Batch
    <2>2. QED
      BY <1>0, <1>2, <1>4, <2>1, ReindexTypes DEF ReindexTypeOK, Batch
  <1>6. \A v \in Reindexers : PageSound(batch[v])'
    BY <1>0, <1>2, <1>3, <1>4 DEF ReindexIInv, PageSound
  <1>7. modelVersion' = restartedAt' =>
          \A v \in Reindexers \ before' : batch'[v].at # "idle" => batch'[v].version = modelVersion'
    BY <1>0, <1>2, <1>3, <1>4 DEF ReindexIInv
  <1>8. ASSUME Fresh'
        PROVE  /\ Fresh /\ w \notin before
               /\ Good(e)' /\ \A i \in Ids : Good(i) => Good(i)'
    <2>1. Fresh /\ w \notin before
      BY <1>2, <1>8 DEF Fresh
    <2>2. batch[w].version = modelVersion
      BY <1>0, <2>1 DEF ReindexIInv, Fresh
    <2>3. /\ embedded'[e] = modelVersion /\ modelVersion' = modelVersion /\ missed' = missed
          /\ \A i \in Ids : embedded'[i] = IF i = e THEN modelVersion ELSE embedded[i]
      BY <1>0, <1>1, <1>2, <2>2, ReindexTypes
    <2>4. QED
      BY <2>1, <2>3 DEF Good
  <1>9. Fresh' => \A i \in milestones' : i <= backfillCursor' => Good(i)'
    BY <1>0, <1>2, <1>8, ReindexTypes DEF ReindexIInv
  <1>10. ASSUME Fresh', NEW v \in Reindexers \ before' PROVE PageGood(batch[v])'
    <2>1. PageGood(batch[v]) /\ PageSound(batch[v]) /\ milestones \subseteq Ids
      BY <1>0, <1>2, <1>8, <1>10, ReindexTypes DEF ReindexIInv
    <2>2. CASE v # w
      <3>1. batch'[v] = batch[v] /\ milestones' = milestones
            /\ \A i \in milestones : Good(i) => Good(i)'
        BY <1>2, <1>4, <1>8, <1>10, <2>1, <2>2
      <3>2. batch[v].at = "embed" => batch[v].page \subseteq milestones
        BY <2>1 DEF PageSound
      <3>3. QED
        BY <2>1, <3>1, <3>2 DEF PageGood
    <2>3. CASE v = w
      BY <1>0, <1>2, <1>3, <1>4, <1>8, <1>10, <2>1, <2>3 DEF PageGood, PageSound
    <2>4. QED
      BY <2>2, <2>3
  <1>11. QED
    BY <1>2, <1>5, <1>6, <1>7, <1>9, <1>10 DEF ReindexIInv

LEMMA CursorKeeps ==
    ASSUME ReindexIInv, NEW w \in Reindexers, UpsertCursor(w)
    PROVE  ReindexIInv'
  <1> DEFINE c == Highest(batch[w].page)
             x == [batch[w] EXCEPT !.at = "next", !.page = {}, !.batches = @ + 1]
  <1>0. ReindexTypeOK /\ batch[w] \in Batch /\ batch[w].at = "embed"
        /\ batch[w].todo = {} /\ batch \in [Reindexers -> Batch]
    BY ReindexTypes DEF ReindexIInv, UpsertCursor
  <1>1. PageSound(batch[w]) /\ batch[w].page \in SUBSET (0..MaxId)
        /\ batch[w].page \subseteq milestones /\ batch[w].page # {}
    BY <1>0 DEF ReindexIInv, PageSound, Batch
  <1>2. c \in batch[w].page
    BY <1>1, HighestIn
  <1>3. /\ backfillCursor' = c
        /\ outpaced' = (outpaced \/ w \in before)
        /\ UNCHANGED <<milestones, embedded, modelVersion, restartedAt, missed>>
    BY DEF UpsertCursor
  <1> HIDE DEF c
  <1>4. PICK y \in Batch :
          /\ batch' = [batch EXCEPT ![w] = y]
          /\ y.at \in {"idle", "next"}
          /\ y.at # "idle" => y.version = batch[w].version /\ before' = before
          /\ before' \subseteq before /\ before \ {w} \subseteq before'
    <2>1. CASE EndReindex(w)
      BY <2>1, NoBatchOK DEF EndReindex
    <2>2. CASE ~EndReindex(w)
      <3>1. /\ batch' = [batch EXCEPT ![w].at = "next", ![w].page = {}, ![w].batches = @ + 1]
            /\ before' = before /\ batch[w].batches + 1 # MaxBatchesPerRun
        BY <2>2 DEF UpsertCursor
      <3>2. batch' = [batch EXCEPT ![w] = x]
        BY <1>0, <3>1
      <3>3. x \in Batch /\ x.at = "next" /\ x.version = batch[w].version
        BY <1>0, <3>1, ReindexTypes DEF Batch
      <3>4. QED
        BY <3>1, <3>2, <3>3
    <2>3. QED
      BY <2>1, <2>2
  <1>5. batch' \in [Reindexers -> Batch]
        /\ \A v \in Reindexers : batch'[v] = IF v = w THEN y ELSE batch[v]
    BY <1>0, <1>4
  <1>6. ReindexTypeOK'
    BY <1>0, <1>1, <1>2, <1>3, <1>4, <1>5, ReindexTypes DEF ReindexTypeOK, Batch
  <1>7. \A v \in Reindexers : PageSound(batch[v])'
    BY <1>3, <1>4, <1>5 DEF ReindexIInv, PageSound
  <1>8. modelVersion' = restartedAt' =>
          \A v \in Reindexers \ before' : batch'[v].at # "idle" => batch'[v].version = modelVersion'
    BY <1>0, <1>3, <1>4, <1>5 DEF ReindexIInv
  <1>9. Fresh' => Fresh /\ w \notin before
    BY <1>3 DEF Fresh
  <1>10. ASSUME Fresh', NEW i \in milestones', i <= backfillCursor' PROVE Good(i)'
    <2>1. PageGood(batch[w]) /\ i \in milestones
      BY <1>3, <1>9, <1>10 DEF ReindexIInv
    <2>2. Good(i)
      BY <1>0, <1>2, <1>3, <1>10, <2>1 DEF PageGood
    <2>3. QED
      BY <1>3, <2>2 DEF Good
  <1>11. ASSUME Fresh', NEW v \in Reindexers \ before' PROVE PageGood(batch[v])'
    BY <1>3, <1>4, <1>5, <1>9, <1>11 DEF ReindexIInv, PageGood, Good
  <1>12. QED
    BY <1>1, <1>2, <1>3, <1>6, <1>7, <1>8, <1>10, <1>11 DEF ReindexIInv

LEMMA ReindexStep == ReindexIInv /\ [ReindexNext]_reindexVars => ReindexIInv'
  <1> SUFFICES ASSUME ReindexIInv, [ReindexNext]_reindexVars PROVE ReindexIInv'
    OBVIOUS
  <1>0. ReindexTypeOK
    BY DEF ReindexIInv
  <1>1. ASSUME ChangeModel PROVE ReindexIInv'
    <2>1. modelVersion' \in 1..MaxVersion /\ modelVersion' # restartedAt'
          /\ restartedAt' <= modelVersion'
      BY <1>0, <1>1, ReindexTypes DEF ChangeModel, ReindexIInv
    <2>2. /\ milestones' = milestones /\ embedded' = embedded /\ batch' = batch
          /\ restartedAt' = restartedAt /\ missed' = missed /\ outpaced' = outpaced
          /\ backfillCursor' = backfillCursor /\ before' = before
      BY <1>1 DEF ChangeModel
    <2>3. ReindexTypeOK'
      BY <1>0, <2>1, <2>2 DEF ReindexTypeOK
    <2>4. QED
      BY <2>1, <2>2, <2>3 DEF ReindexIInv, Fresh, PageSound
  <1>2. ASSUME ResetCursor PROVE ReindexIInv'
    <2>0. /\ milestones' = milestones /\ embedded' = embedded /\ modelVersion' = modelVersion
          /\ batch' = batch /\ restartedAt' = modelVersion /\ missed' = {}
          /\ backfillCursor' = 0 /\ before' \subseteq Reindexers /\ outpaced' \in BOOLEAN
      BY <1>2 DEF ResetCursor, UnderWay
    <2>1. /\ modelVersion \in 1..MaxVersion /\ modelVersion <= modelVersion
          /\ 0 \in 0..MaxId
      BY <1>0, ReindexTypes
    <2>5. ReindexTypeOK' /\ restartedAt' <= modelVersion'
      BY <1>0, <2>0, <2>1 DEF ReindexTypeOK
    <2>2. \A w \in Reindexers \ before' : batch'[w].at = "idle"
      BY <1>2 DEF ResetCursor, UnderWay
    <2>3. \A i \in milestones' : ~(i <= backfillCursor')
      BY <1>0, <1>2, ReindexTypes DEF ResetCursor, Ids
    <2>4. QED
      <3>1. \A w \in Reindexers : PageSound(batch[w])'
        BY <2>0 DEF ReindexIInv, PageSound
      <3>2. \A w \in Reindexers \ before' : PageGood(batch[w])'
        BY <2>2 DEF PageGood
      <3>3. QED
        BY <2>0, <2>2, <2>3, <2>5, <3>1, <3>2 DEF ReindexIInv
  <1>3. ASSUME NEW w \in Reindexers, NEW version \in 1..modelVersion, StartReindex(w, version)
        PROVE  ReindexIInv'
    <2> DEFINE x == [NoBatch EXCEPT !.at = "next", !.version = version]
    <2>0. version \in 1..MaxVersion
      BY <1>0, ReindexTypes
    <2>1. x \in Batch /\ x.at = "next" /\ x.version = version
      BY <2>0, NoBatchOK DEF Batch
    <2>2. /\ batch' = [batch EXCEPT ![w] = x]
          /\ before' = IF version = modelVersion THEN before ELSE before \cup {w}
          /\ UNCHANGED <<milestones, embedded, modelVersion, backfillCursor, restartedAt,
                         missed, outpaced>>
      BY <1>3 DEF StartReindex
    <2> HIDE DEF x
    <2>3. PageSound(x) /\ PageGood(x)
      BY <2>1 DEF PageSound, PageGood
    <2>4. QED
      BY <2>1, <2>2, <2>3, BatchMoves
  <1>4. ASSUME NEW w \in Reindexers, GetCursor(w) PROVE ReindexIInv'
    <2> DEFINE x == [batch[w] EXCEPT !.at = "list", !.page = {backfillCursor}]
    <2>0. batch[w] \in Batch /\ batch \in [Reindexers -> Batch] /\ batch[w].at = "next"
      BY <1>0, <1>4, ReindexTypes DEF GetCursor
    <2>1. x \in Batch /\ x.at = "list" /\ x.version = batch[w].version
          /\ x.page = {backfillCursor}
      BY <1>0, <2>0, ReindexTypes DEF Batch
    <2>2. batch' = [batch EXCEPT ![w] = x] /\ before' = before
          /\ UNCHANGED <<milestones, embedded, modelVersion, backfillCursor, restartedAt,
                         missed, outpaced>>
      BY <1>4, <2>0 DEF GetCursor
    <2> HIDE DEF x
    <2>3. PageSound(x) /\ (Fresh => PageGood(x))
      BY <2>1 DEF PageSound, PageGood, ReindexIInv
    <2>4. modelVersion = restartedAt /\ w \notin before => x.version = modelVersion
      BY <2>0, <2>1 DEF ReindexIInv
    <2>5. QED
      BY <2>1, <2>2, <2>3, <2>4, BatchMoves
  <1>5. ASSUME NEW w \in Reindexers, FindEmbeddingVersions(w) PROVE ReindexIInv'
    <2> DEFINE todo == {i \in batch[w].page : embedded[i] # batch[w].version}
               x == [batch[w] EXCEPT !.at = "embed", !.todo = todo]
    <2>0. batch[w] \in Batch /\ batch \in [Reindexers -> Batch] /\ batch[w].at = "versions"
          /\ PageSound(batch[w])
      BY <1>0, <1>5, ReindexTypes DEF FindEmbeddingVersions, ReindexIInv
    <2>1. todo \subseteq Ids
      BY <1>0, <2>0, ReindexTypes DEF PageSound
    <2>2. batch' = [batch EXCEPT ![w] = x] /\ before' = before
          /\ UNCHANGED <<milestones, embedded, modelVersion, backfillCursor, restartedAt,
                         missed, outpaced>>
      BY <1>5, <2>0 DEF FindEmbeddingVersions
    <2>3. w \notin before /\ modelVersion = restartedAt => batch[w].version = modelVersion
      BY <2>0 DEF ReindexIInv
    <2>4. w \notin before /\ Fresh => \A i \in batch[w].page : Good(i) \/ i \in todo
      BY <2>3 DEF Good, Fresh
    <2> HIDE DEF todo
    <2>5. x \in Batch /\ x.at = "embed" /\ x.version = batch[w].version
          /\ x.page = batch[w].page /\ x.todo = todo
      BY <2>0, <2>1 DEF Batch
    <2> HIDE DEF x
    <2>6. PageSound(x) /\ (Fresh /\ w \notin before => PageGood(x))
      BY <2>0, <2>4, <2>5 DEF PageSound, PageGood, ReindexIInv
    <2>7. QED
      BY <2>2, <2>3, <2>5, <2>6, BatchMoves
  <1>6. ASSUME NEW w \in Reindexers, StopReindex(w) PROVE ReindexIInv'
    BY <1>6, BatchEnds DEF StopReindex
  <1>7. CASE UNCHANGED reindexVars
    BY <1>7 DEF reindexVars, ReindexIInv, ReindexTypeOK, PageSound, PageGood, Fresh, Good
  <1>8. QED
    BY <1>1, <1>2, <1>3, <1>4, <1>5, <1>6, <1>7, StoreKeeps, ListKeeps, EmbedKeeps,
       CursorKeeps DEF ReindexNext

\* Whatever runs overlap, stop or are restarted, the cursor passes no row that has
\* no embedding of the current model (services/evidenceReindex.ts), but for rows
\* stored behind it and what the model of embeddings or an earlier run has changed.
THEOREM CursorPassesNothing == ReindexSpec => []CurrentBehindCursor
  <1>1. ReindexIInv => CurrentBehindCursor
    BY DEF ReindexIInv, ReindexTypeOK, Fresh, Good, CurrentBehindCursor
  <1>2. QED
    BY <1>1, ReindexInitOK, ReindexStep, PTL DEF ReindexSpec
-----------------------------------------------------------------------------
(* Saved searches.                                                         *)

Hashes == ResultSets \cup {NoResult}
SearchRow == [hash : Hashes, evaluated : 0..Never]
Creator == [at : {"idle", "counted", "created", "refused"}, raced : BOOLEAN]
SearchRun == [at : {"waiting", "next", "compare", "store", "ended"},
              now : 0..LastSearchTime, left : SUBSET Searches,
              seen : UNION {[S -> Hashes] : S \in SUBSET Searches},
              search : Searches \cup {"none"}, new : Hashes, sent : BOOLEAN]

SavedTypes ==
    /\ DOMAIN saved \in SUBSET Searches /\ IsFiniteSet(DOMAIN saved)
    /\ \A s \in DOMAIN saved : saved[s] \in SearchRow
    /\ result \in ResultSets /\ searchTime \in 0..LastSearchTime
    /\ creator \in [Searches -> Creator]
    /\ run \in [Evaluations -> SearchRun]
    /\ heard \in [Searches -> [last : Hashes, ever : SUBSET ResultSets]]
    /\ crossed \subseteq Searches

Created == {s \in Searches : creator[s].at = "created"}
Told(s) == heard[s].ever \cup {NoResult}
Hand(x) == x.left \cup ({x.search} \cap Searches)
SentFor(x, s) == x.sent /\ x.search = s

\* The shape of a run, what it has seen in the rows and what it has sent.
RunSound(x) ==
    /\ Hand(x) \subseteq DOMAIN x.seen
    /\ DOMAIN x.seen \subseteq Created
    /\ x.at \in {"compare", "store"} =>
         x.search \in Searches /\ x.search \notin x.left /\ x.new \in ResultSets
    /\ x.at \notin {"compare", "store"} => x.search = "none"
    /\ x.at \in {"waiting", "ended"} => x.left = {}
    /\ x.sent <=> x.at = "store"
    /\ x.sent => x.new \in heard[x.search].ever
    /\ \A s \in DOMAIN x.seen : x.seen[s] \in Told(s)

\* Every row comes from the one insert of its request, and the rows whose request
\* was not raced fit under the cap.
Unraced == {s \in DOMAIN saved : ~creator[s].raced}
RowsSound ==
    /\ \A s \in DOMAIN saved : s \in Created /\ saved[s].hash \in Told(s)
    /\ \A s \in Searches \ Created : heard[s].last = NoResult
    /\ \A s \in Searches :
         creator[s].at = "counted" /\ ~creator[s].raced =>
             Cardinality(DOMAIN saved) < MaxSearches
    /\ Cardinality(Unraced) <= MaxSearches

\* A search that was never crossed has one run at most, which has seen what the row
\* says, and a row that says what was told last unless that run is about to.
Uncrossed(s) ==
    /\ \A q, r \in Evaluations : s \in Hand(run[q]) /\ s \in Hand(run[r]) => q = r
    /\ \A r \in Evaluations :
         /\ SentFor(run[r], s) => heard[s].last = run[r].new
         /\ s \in Hand(run[r]) /\ s \in DOMAIN saved /\ ~SentFor(run[r], s) =>
                run[r].seen[s] = saved[s].hash
    /\ s \in DOMAIN saved =>
         (\E r \in Evaluations : SentFor(run[r], s)) \/ saved[s].hash = heard[s].last

SavedIInv ==
    /\ SavedTypes
    /\ RowsSound
    /\ \A r \in Evaluations : RunSound(run[r])
    /\ \A s \in Searches \ crossed : Uncrossed(s)

LEMMA SearchBounds == MaxSearches \in Nat /\ LastSearchTime \in Nat /\ Never \in Nat
  BY CapAssumption DEF Never

\* A run that has seen nothing.
LEMMA NoRunIs ==
    /\ NoRun \in SearchRun /\ NoRun.at = "waiting" /\ NoRun.now = 0 /\ NoRun.left = {}
    /\ DOMAIN NoRun.seen = {} /\ NoRun.search = "none" /\ ~NoRun.sent
  <1> DEFINE e == [s \in {} |-> NoResult]
  <1>1. e \in [{} -> Hashes] /\ DOMAIN e = {}
    OBVIOUS
  <1>2. NoRun = [at |-> "waiting", now |-> 0, left |-> {}, seen |-> e, search |-> "none",
                 new |-> NoResult, sent |-> FALSE]
    BY DEF NoRun
  <1> HIDE DEF e
  <1>3. NoRun.at = "waiting" /\ NoRun.now = 0 /\ NoRun.left = {} /\ NoRun.search = "none"
        /\ NoRun.seen = e /\ ~NoRun.sent
    BY <1>2
  <1>4. e \in UNION {[S -> Hashes] : S \in SUBSET Searches}
    BY <1>1
  <1>5. 0 \in 0..LastSearchTime /\ NoResult \in Hashes
    BY SearchBounds DEF Hashes
  <1>6. NoRun \in SearchRun
    BY <1>2, <1>4, <1>5 DEF SearchRun
  <1>7. QED
    BY <1>1, <1>3, <1>6

LEMMA RunMoved ==
    ASSUME SavedTypes, NEW r \in Evaluations, NEW x \in SearchRun, run' = [run EXCEPT ![r] = x]
    PROVE  /\ run' \in [Evaluations -> SearchRun]
           /\ \A q \in Evaluations : run'[q] = IF q = r THEN x ELSE run[q]
  BY DEF SavedTypes

\* A run that goes on, takes up what no other has, or lets go of what it has not
\* sent an alert for, while rows and alerts stay as they are.
LEMMA RunMoves ==
    ASSUME SavedIInv, NEW r \in Evaluations, NEW x \in SearchRun,
           run' = [run EXCEPT ![r] = x], RunSound(x),
           UNCHANGED <<saved, result, searchTime, creator, heard>>,
           crossed \subseteq crossed', crossed' \subseteq Searches,
           \A s \in Searches \ crossed' :
               /\ s \in Hand(x) =>
                      \A q \in Evaluations : q # r /\ s \in Hand(run[q]) => s \in Hand(run[r])
               /\ SentFor(x, s) => heard[s].last = x.new
               /\ s \in Hand(x) /\ s \in DOMAIN saved /\ ~SentFor(x, s) =>
                      x.seen[s] = saved[s].hash
               /\ SentFor(run[r], s) => SentFor(x, s)
    PROVE  SavedIInv'
  <1>1. /\ run' \in [Evaluations -> SearchRun]
        /\ \A q \in Evaluations : run'[q] = IF q = r THEN x ELSE run[q]
    BY RunMoved DEF SavedIInv
  <1>2. SavedTypes'
    BY <1>1 DEF SavedIInv, SavedTypes
  <1>3. RowsSound'
    BY DEF SavedIInv, RowsSound, Created, Told, Unraced
  <1>4. ASSUME NEW q \in Evaluations PROVE RunSound(run[q])'
    <2>1. RunSound(run'[q])
      BY <1>1 DEF SavedIInv
    <2>2. QED
      BY <2>1 DEF RunSound, Created, Told, Hand
  <1>5. ASSUME NEW s \in Searches \ crossed' PROVE Uncrossed(s)'
    <2>1. Uncrossed(s)
      BY <1>5 DEF SavedIInv
    <2>2. \A p, q \in Evaluations : s \in Hand(run'[p]) /\ s \in Hand(run'[q]) => p = q
      BY <1>1, <1>5, <2>1 DEF Uncrossed
    <2>3. \A q \in Evaluations :
            /\ SentFor(run'[q], s) => heard[s].last = run'[q].new
            /\ s \in Hand(run'[q]) /\ s \in DOMAIN saved /\ ~SentFor(run'[q], s) =>
                   run'[q].seen[s] = saved[s].hash
      BY <1>1, <1>5, <2>1 DEF Uncrossed
    <2>4. (\E q \in Evaluations : SentFor(run[q], s)) => \E q \in Evaluations : SentFor(run'[q], s)
      BY <1>1, <1>5
    <2>5. QED
      BY <2>1, <2>2, <2>3, <2>4 DEF Uncrossed, Hand, SentFor
  <1>6. QED
    BY <1>2, <1>3, <1>4, <1>5 DEF SavedIInv

LEMMA EndedSound ==
    ASSUME SavedIInv
    PROVE  /\ EndedRun \in SearchRun /\ RunSound(EndedRun)
           /\ Hand(EndedRun) = {} /\ ~EndedRun.sent
  <1>1. /\ EndedRun \in SearchRun /\ EndedRun.at = "ended" /\ EndedRun.left = {}
        /\ DOMAIN EndedRun.seen = {} /\ EndedRun.search = "none" /\ ~EndedRun.sent
    BY NoRunIs DEF EndedRun, SearchRun
  <1>2. Hand(EndedRun) = {}
    BY <1>1, NoResultAssumption DEF Hand
  <1>3. QED
    BY <1>1, <1>2 DEF RunSound

\* The run turned to its next search, or ended.
LEMMA TurnedSound ==
    ASSUME SavedIInv, NEW r \in Evaluations, run[r].at \in {"compare", "store"}
    PROVE  /\ Turned(r) \in SearchRun /\ RunSound(Turned(r))
           /\ Hand(Turned(r)) = run[r].left /\ ~Turned(r).sent
           /\ run[r].left # {} => Turned(r).seen = run[r].seen
  <1>1. CASE run[r].left = {}
    BY <1>1, EndedSound DEF Turned
  <1>2. CASE run[r].left # {}
    <2> DEFINE x == [run[r] EXCEPT !.at = "next", !.search = "none", !.sent = FALSE]
    <2>1. run[r] \in SearchRun /\ RunSound(run[r]) /\ Turned(r) = x
      BY <1>2 DEF SavedIInv, SavedTypes, Turned
    <2>2. /\ x \in SearchRun /\ x.at = "next" /\ x.search = "none" /\ x.sent = FALSE
          /\ x.left = run[r].left /\ x.seen = run[r].seen
      BY <2>1 DEF SearchRun
    <2> HIDE DEF x
    <2>3. Hand(x) = run[r].left
      BY <2>2, NoResultAssumption DEF Hand
    <2>4. RunSound(x)
      BY <2>1, <2>2, <2>3 DEF RunSound, Hand
    <2>5. QED
      BY <2>1, <2>2, <2>3, <2>4
  <1>3. QED
    BY <1>1, <1>2

LEMMA BeginKeeps ==
    ASSUME SavedIInv, NEW r \in Evaluations, BeginEvaluation(r)
    PROVE  SavedIInv'
  <1>1. PICK picked \in {Due} \cup {{s} : s \in DOMAIN saved} :
          /\ run' = [run EXCEPT
               ![r] = [NoRun EXCEPT !.at = IF picked = {} THEN "ended" ELSE "next",
                                    !.now = searchTime, !.left = picked,
                                    !.seen = [s \in picked |-> saved[s].hash]]]
          /\ crossed' = crossed \cup (picked \cap UNION {InHand(q) : q \in Evaluations})
    BY DEF BeginEvaluation
  <1> DEFINE seen == [s \in picked |-> saved[s].hash]
             x == [NoRun EXCEPT !.at = IF picked = {} THEN "ended" ELSE "next",
                                !.now = searchTime, !.left = picked,
                                !.seen = [s \in picked |-> saved[s].hash]]
  <1>2. run' = [run EXCEPT ![r] = x]
    BY <1>1
  <1>3. /\ picked \in SUBSET (DOMAIN saved) /\ picked \in SUBSET Searches
        /\ UNCHANGED <<saved, result, searchTime, creator, heard>>
        /\ run[r].at = "waiting" /\ run[r] \in SearchRun /\ RunSound(run[r])
    BY DEF Due, SavedIInv, SavedTypes, BeginEvaluation
  <1>4. seen \in [picked -> Hashes] /\ \A s \in picked : seen[s] = saved[s].hash
    BY <1>3 DEF SavedIInv, SavedTypes, SearchRow
  <1> HIDE DEF seen
  <1>5. seen \in UNION {[S -> Hashes] : S \in SUBSET Searches} /\ DOMAIN seen = picked
    BY <1>3, <1>4
  <1>6. /\ x \in SearchRun /\ x.at \in {"ended", "next"} /\ (x.at = "ended" => picked = {})
        /\ x.left = picked /\ x.seen = seen /\ x.search = "none" /\ ~x.sent
    <2>1. x = [NoRun EXCEPT !.at = IF picked = {} THEN "ended" ELSE "next",
                            !.now = searchTime, !.left = picked, !.seen = seen]
      BY DEF seen
    <2>2. searchTime \in 0..LastSearchTime
      BY DEF SavedIInv, SavedTypes
    <2> HIDE DEF x
    <2>3. QED
      BY <1>3, <1>5, <2>1, <2>2, NoRunIs DEF SearchRun
  <1> HIDE DEF x
  <1>7. Hand(x) = picked
    BY <1>6, NoResultAssumption DEF Hand
  <1>8. RunSound(x)
    BY <1>3, <1>4, <1>5, <1>6, <1>7 DEF RunSound, SavedIInv, RowsSound
  <1>9. crossed \subseteq crossed' /\ crossed' \subseteq Searches
    BY <1>1, <1>3 DEF SavedIInv, SavedTypes
  <1>10. ASSUME NEW s \in Searches \ crossed'
         PROVE  /\ s \in Hand(x) => \A q \in Evaluations : s \notin Hand(run[q])
                /\ ~SentFor(x, s) /\ ~SentFor(run[r], s)
                /\ s \in Hand(x) => x.seen[s] = saved[s].hash
    <2>1. \A q \in Evaluations : InHand(q) = Hand(run[q])
      BY DEF InHand, Hand
    <2>2. s \in picked => \A q \in Evaluations : s \notin Hand(run[q])
      BY <1>1, <1>10, <2>1
    <2>3. QED
      BY <1>3, <1>4, <1>6, <1>7, <2>2 DEF SentFor, RunSound
  <1>11. QED
    BY <1>2, <1>3, <1>6, <1>8, <1>9, <1>10, RunMoves

LEMMA QueryKeeps ==
    ASSUME SavedIInv, NEW r \in Evaluations, NEW s \in Searches, QuerySearch(r, s)
    PROVE  SavedIInv'
  <1> DEFINE x == [run[r] EXCEPT !.at = "compare", !.search = s, !.new = result, !.left = @ \ {s}]
  <1>1. /\ run[r] \in SearchRun /\ RunSound(run[r]) /\ run[r].at = "next" /\ s \in run[r].left
        /\ UNCHANGED <<saved, result, searchTime, creator, heard, crossed>>
        /\ result \in ResultSets /\ crossed \subseteq Searches
    BY DEF QuerySearch, SavedIInv, SavedTypes
  <1>2. run' = [run EXCEPT ![r] = x]
    BY DEF QuerySearch, SavedIInv, SavedTypes
  <1>3. /\ x \in SearchRun /\ x.at = "compare" /\ x.search = s /\ x.new = result
        /\ x.left = run[r].left \ {s} /\ x.seen = run[r].seen /\ x.sent = run[r].sent
    BY <1>1 DEF SearchRun, Hashes
  <1> HIDE DEF x
  <1>4. Hand(x) = Hand(run[r])
    BY <1>1, <1>3, NoResultAssumption DEF Hand, RunSound
  <1>5. RunSound(x)
    BY <1>1, <1>3, <1>4 DEF RunSound
  <1>6. ASSUME NEW t \in Searches \ crossed'
        PROVE  /\ ~SentFor(x, t) /\ ~SentFor(run[r], t)
               /\ t \in Hand(x) /\ t \in DOMAIN saved => x.seen[t] = saved[t].hash
    <2>1. Uncrossed(t)
      BY <1>1, <1>6 DEF SavedIInv
    <2>2. QED
      BY <1>1, <1>3, <1>4, <2>1 DEF SentFor, RunSound, Uncrossed
  <1>7. QED
    BY <1>1, <1>2, <1>3, <1>4, <1>5, <1>6, RunMoves

\* A run that drops its search, or everything; crossed takes what it has sent.
LEMMA DropKeeps ==
    ASSUME SavedIInv, NEW r \in Evaluations, NEW x \in SearchRun,
           run' = [run EXCEPT ![r] = x], RunSound(x), Hand(x) \subseteq run[r].left, ~x.sent,
           Hand(x) # {} => x.seen = run[r].seen,
           crossed' = crossed \cup Dropped(r),
           UNCHANGED <<saved, result, searchTime, creator, heard>>
    PROVE  SavedIInv'
  <1>1. run[r] \in SearchRun /\ RunSound(run[r]) /\ crossed \subseteq Searches
    BY DEF SavedIInv, SavedTypes
  <1>2. crossed \subseteq crossed' /\ crossed' \subseteq Searches
    BY <1>1 DEF Dropped, RunSound
  <1>3. ASSUME NEW s \in Searches \ crossed'
        PROVE  /\ ~SentFor(x, s) /\ ~SentFor(run[r], s)
               /\ s \in Hand(x) => s \in Hand(run[r])
               /\ s \in Hand(x) /\ s \in DOMAIN saved => x.seen[s] = saved[s].hash
    <2>1. Uncrossed(s) /\ ~SentFor(x, s) /\ ~SentFor(run[r], s)
      BY <1>2, <1>3 DEF SavedIInv, SentFor, Dropped
    <2>2. s \in Hand(x) => s \in Hand(run[r])
      BY DEF Hand
    <2>3. QED
      BY <2>1, <2>2 DEF Uncrossed
  <1>4. QED
    BY <1>2, <1>3, RunMoves

LEMMA AlertKeeps ==
    ASSUME SavedIInv, NEW r \in Evaluations, SendAlert(r)
    PROVE  SavedIInv'
  <1>1. PICK s : s = run[r].search
    OBVIOUS
  <1>2. PICK new : new = run[r].new
    OBVIOUS
  <1> DEFINE x == [run[r] EXCEPT !.at = "store", !.sent = TRUE]
             h == [last |-> new, ever |-> heard[s].ever \cup {new}]
  <1>3. /\ run[r] \in SearchRun /\ RunSound(run[r]) /\ run[r].at = "compare"
        /\ s \in Searches /\ new \in ResultSets /\ s \notin run[r].left
        /\ UNCHANGED <<saved, result, searchTime, creator, crossed>>
    BY <1>1, <1>2 DEF SendAlert, SavedIInv, SavedTypes, RunSound
  <1>4. run' = [run EXCEPT ![r] = x] /\ heard' = [heard EXCEPT ![s] = h]
    BY <1>1, <1>2, <1>3 DEF SendAlert, SavedIInv, SavedTypes
  <1>5. /\ x \in SearchRun /\ x.at = "store" /\ x.sent /\ x.search = s /\ x.new = new
        /\ x.left = run[r].left /\ x.seen = run[r].seen
    BY <1>1, <1>2, <1>3 DEF SearchRun
  <1>6. h \in [last : Hashes, ever : SUBSET ResultSets] /\ h.last = new
        /\ h.ever = heard[s].ever \cup {new}
    BY <1>3 DEF Hashes, SavedIInv, SavedTypes
  <1> HIDE DEF x, h
  <1>7. /\ run' \in [Evaluations -> SearchRun]
        /\ \A q \in Evaluations : run'[q] = IF q = r THEN x ELSE run[q]
    BY <1>4, <1>5, RunMoved DEF SavedIInv
  <1>8. /\ heard' \in [Searches -> [last : Hashes, ever : SUBSET ResultSets]]
        /\ \A t \in Searches : heard'[t] = IF t = s THEN h ELSE heard[t]
        /\ \A t \in Searches : heard[t].ever \subseteq heard'[t].ever
    BY <1>3, <1>4, <1>6 DEF SavedIInv, SavedTypes
  <1>9. SavedTypes'
    BY <1>3, <1>7, <1>8 DEF SavedIInv, SavedTypes
  <1>10. s \in DOMAIN run[r].seen /\ s \in Created /\ Created' = Created
    BY <1>1, <1>3 DEF RunSound, Created, Hand
  <1>11. RowsSound'
    <2>1. \A t \in DOMAIN saved : t \in Created /\ saved[t].hash \in heard'[t].ever \cup {NoResult}
      BY <1>8 DEF SavedIInv, RowsSound, Told, Created
    <2>2. \A t \in Searches \ Created : heard'[t].last = NoResult
      BY <1>8, <1>10 DEF SavedIInv, RowsSound
    <2>3. Unraced' = Unraced
      BY <1>3 DEF Unraced
    <2>4. QED
      BY <1>3, <1>10, <2>1, <2>2, <2>3 DEF SavedIInv, RowsSound, Told
  <1>12. ASSUME NEW q \in Evaluations PROVE RunSound(run[q])'
    <2>1. RunSound(run[q]) /\ run[q] \in SearchRun
      BY DEF SavedIInv, SavedTypes
    <2>2. CASE q # r
      <3>1. run'[q] = run[q] /\ Hand(run[q])' = Hand(run[q])
        BY <1>7, <2>2 DEF Hand
      <3>2. run[q].sent => run[q].search \in Searches
        BY <2>1 DEF RunSound
      <3>3. \A t \in DOMAIN run[q].seen : t \in Searches
        BY <2>1 DEF RunSound, Created
      <3>4. QED
        BY <1>8, <1>10, <2>1, <3>1, <3>2, <3>3 DEF RunSound, Told
    <2>3. CASE q = r
      <3>1. run'[q] = x /\ Hand(run[q])' = Hand(run[q])
        BY <1>1, <1>5, <1>7, <2>3 DEF Hand
      <3>2. \A t \in DOMAIN run[q].seen : t \in Searches
        BY <2>1 DEF RunSound, Created
      <3>3. QED
        BY <1>3, <1>5, <1>6, <1>8, <1>10, <2>1, <2>3, <3>1, <3>2 DEF RunSound, Told
    <2>4. QED
      BY <2>2, <2>3
  <1>13. ASSUME NEW t \in Searches \ crossed' PROVE Uncrossed(t)'
    <2>1. Uncrossed(t)
      BY <1>3, <1>13 DEF SavedIInv
    <2>2. /\ Hand(x) = Hand(run[r]) /\ x.seen = run[r].seen /\ ~SentFor(run[r], t)
          /\ SentFor(x, t) <=> t = s
      BY <1>1, <1>3, <1>5 DEF Hand, SentFor, RunSound
    <2>3. \A p, q \in Evaluations : t \in Hand(run'[p]) /\ t \in Hand(run'[q]) => p = q
      BY <1>7, <2>1, <2>2 DEF Uncrossed
    <2>4. ASSUME NEW q \in Evaluations
          PROVE  /\ SentFor(run'[q], t) => heard'[t].last = run'[q].new
                 /\ t \in Hand(run'[q]) /\ t \in DOMAIN saved /\ ~SentFor(run'[q], t) =>
                        run'[q].seen[t] = saved[t].hash
      <3>1. CASE q = r
        BY <1>5, <1>6, <1>7, <1>8, <2>1, <2>2, <3>1 DEF Uncrossed
      <3>2. CASE q # r
        <4>1. run'[q] = run[q]
          BY <1>7, <3>2
        <4>2. SentFor(run[q], t) => t # s
          <5>1. s \in Hand(run[r])
            BY <1>1, <1>3 DEF Hand
          <5>2. SentFor(run[q], t) => t \in Hand(run[q])
            BY <1>13 DEF SentFor, Hand
          <5>3. QED
            BY <2>1, <3>2, <5>1, <5>2 DEF Uncrossed
        <4>3. QED
          BY <1>8, <1>13, <2>1, <4>1, <4>2 DEF Uncrossed
      <3>3. QED
        BY <3>1, <3>2
    <2>5. t \in DOMAIN saved =>
            (\E q \in Evaluations : SentFor(run'[q], t)) \/ saved[t].hash = heard'[t].last
      <3>1. CASE t = s
        BY <1>7, <2>2, <3>1
      <3>2. CASE t # s
        <4>1. heard'[t] = heard[t]
          BY <1>8, <1>13, <3>2
        <4>2. ASSUME NEW q \in Evaluations, SentFor(run[q], t) PROVE SentFor(run'[q], t)
          BY <1>7, <2>2, <4>2
        <4>3. QED
          BY <2>1, <4>1, <4>2 DEF Uncrossed
      <3>3. QED
        BY <3>1, <3>2
    <2>6. QED
      BY <1>3, <2>3, <2>4, <2>5 DEF Uncrossed, Hand, SentFor
  <1>14. QED
    BY <1>9, <1>11, <1>12, <1>13 DEF SavedIInv

LEMMA StoreHashKeeps ==
    ASSUME SavedIInv, NEW r \in Evaluations, StoreHash(r)
    PROVE  SavedIInv'
  <1>1. PICK s : s = run[r].search
    OBVIOUS
  <1>2. PICK x : x = Turned(r)
    OBVIOUS
  <1> DEFINE row == [hash |-> run[r].new, evaluated |-> run[r].now]
  <1>3. /\ run[r] \in SearchRun /\ RunSound(run[r]) /\ run[r].at \in {"compare", "store"}
        /\ s \in Searches /\ run[r].new \in ResultSets /\ s \notin run[r].left
        /\ ~run[r].sent => run[r].new = run[r].seen[s]
        /\ UNCHANGED <<result, searchTime, creator, heard, crossed>>
    BY <1>1 DEF StoreHash, SavedIInv, SavedTypes, RunSound
  <1>4. /\ x \in SearchRun /\ RunSound(x) /\ Hand(x) = run[r].left /\ ~x.sent
        /\ run[r].left # {} => x.seen = run[r].seen
    BY <1>2, <1>3, TurnedSound
  <1>5. run' = [run EXCEPT ![r] = x]
    BY <1>2 DEF StoreHash
  <1>6. /\ run' \in [Evaluations -> SearchRun]
        /\ \A q \in Evaluations : run'[q] = IF q = r THEN x ELSE run[q]
    BY <1>4, <1>5, RunMoved DEF SavedIInv
  <1>7. row \in SearchRow /\ row.hash = run[r].new
    <2>1. run[r].now \in 0..Never
      BY <1>3, SearchBounds DEF SearchRun, Never
    <2>2. QED
      BY <1>3, <2>1 DEF SearchRow, Hashes
  <1> HIDE DEF row
  <1>8. /\ DOMAIN saved' = DOMAIN saved
        /\ \A t \in DOMAIN saved : saved'[t] = IF t = s THEN row ELSE saved[t]
    BY <1>1 DEF StoreHash, row
  <1>9. SavedTypes'
    BY <1>3, <1>6, <1>7, <1>8 DEF SavedIInv, SavedTypes
  <1>10. s \in Hand(run[r]) /\ s \in DOMAIN run[r].seen /\ Created' = Created
    BY <1>1, <1>3 DEF RunSound, Created, Hand
  <1>11. run[r].new \in Told(s) /\ Told(s)' = Told(s)
    BY <1>1, <1>3, <1>10 DEF RunSound, Told
  <1>12. RowsSound'
    <2>1. \A t \in DOMAIN saved : t \in Created /\ saved'[t].hash \in heard[t].ever \cup {NoResult}
      BY <1>7, <1>8, <1>11 DEF SavedIInv, RowsSound, Told
    <2>2. Unraced' = Unraced
      BY <1>3, <1>8 DEF Unraced
    <2>3. QED
      BY <1>3, <1>8, <1>10, <2>1, <2>2 DEF SavedIInv, RowsSound, Told
  <1>13. ASSUME NEW q \in Evaluations PROVE RunSound(run[q])'
    <2>1. RunSound(run'[q])
      BY <1>4, <1>6 DEF SavedIInv
    <2>2. QED
      BY <1>3, <2>1 DEF RunSound, Created, Told, Hand
  <1>14. ASSUME NEW t \in Searches \ crossed' PROVE Uncrossed(t)'
    <2>1. Uncrossed(t)
      BY <1>3, <1>14 DEF SavedIInv
    <2>2. /\ ~SentFor(x, t) /\ (t \in Hand(x) => t \in Hand(run[r]) /\ t # s)
          /\ t \in Hand(x) => x.seen = run[r].seen
          /\ SentFor(run[r], t) => t = s
      BY <1>1, <1>3, <1>4 DEF Hand, SentFor
    <2>3. \A p, q \in Evaluations : t \in Hand(run'[p]) /\ t \in Hand(run'[q]) => p = q
      BY <1>6, <2>1, <2>2 DEF Uncrossed
    <2>4. t = s => \A q \in Evaluations : q # r => t \notin Hand(run[q])
      BY <1>10, <2>1 DEF Uncrossed
    <2>5. ASSUME NEW q \in Evaluations
          PROVE  /\ SentFor(run'[q], t) => heard[t].last = run'[q].new
                 /\ t \in Hand(run'[q]) /\ t \in DOMAIN saved /\ ~SentFor(run'[q], t) =>
                        run'[q].seen[t] = saved'[t].hash
      <3>1. CASE q = r
        BY <1>6, <1>8, <2>1, <2>2, <3>1 DEF Uncrossed
      <3>2. CASE q # r
        BY <1>6, <1>8, <2>1, <2>4, <3>2 DEF Uncrossed
      <3>3. QED
        BY <3>1, <3>2
    <2>6. t \in DOMAIN saved =>
            (\E q \in Evaluations : SentFor(run'[q], t)) \/ saved'[t].hash = heard[t].last
      <3> SUFFICES ASSUME t \in DOMAIN saved
                   PROVE  (\E q \in Evaluations : SentFor(run'[q], t)) \/ saved'[t].hash = heard[t].last
        OBVIOUS
      <3>1. CASE t # s
        <4>1. saved'[t] = saved[t]
          BY <1>8, <3>1
        <4>2. \A q \in Evaluations : SentFor(run[q], t) => SentFor(run'[q], t)
          BY <1>6, <2>2, <3>1
        <4>3. QED
          BY <2>1, <4>1, <4>2 DEF Uncrossed
      <3>2. CASE t = s
        <4>1. saved'[t].hash = run[r].new
          BY <1>7, <1>8, <3>2
        <4>2. CASE run[r].sent
          BY <1>1, <2>1, <3>2, <4>1, <4>2 DEF Uncrossed, SentFor
        <4>3. CASE ~run[r].sent
          <5>1. ~SentFor(run[r], t) /\ run[r].seen[t] = saved[t].hash
            BY <1>10, <2>1, <3>2, <4>3 DEF Uncrossed, SentFor
          <5>2. \A q \in Evaluations : ~SentFor(run[q], t)
            BY <1>14, <2>4, <3>2, <5>1 DEF SentFor, Hand
          <5>3. QED
            BY <1>3, <2>1, <3>2, <4>1, <4>3, <5>1, <5>2 DEF Uncrossed
        <4>4. QED
          BY <4>2, <4>3
      <3>3. QED
        BY <3>1, <3>2
    <2>7. QED
      BY <1>3, <1>8, <2>3, <2>5, <2>6 DEF Uncrossed, Hand, SentFor
  <1>15. QED
    BY <1>9, <1>12, <1>13, <1>14 DEF SavedIInv

\* What stays of a run's soundness when a request is created, or a row goes.
LEMMA RunsStay ==
    ASSUME SavedIInv, UNCHANGED <<run, heard>>, Created \subseteq Created'
    PROVE  \A r \in Evaluations : RunSound(run[r])'
  <1> SUFFICES ASSUME NEW r \in Evaluations PROVE RunSound(run[r])'
    OBVIOUS
  <1>1. RunSound(run[r])
    BY DEF SavedIInv
  <1>2. QED
    BY <1>1 DEF RunSound, Told, Hand

LEMMA InsertSearchKeeps ==
    ASSUME SavedIInv, NEW s \in Searches, InsertSearch(s)
    PROVE  SavedIInv'
  <1> DEFINE row == [hash |-> NoResult, evaluated |-> Never]
             D == DOMAIN saved
  <1>1. /\ creator[s].at = "counted" /\ creator \in [Searches -> Creator]
        /\ UNCHANGED <<result, searchTime, run, heard, crossed>>
    BY DEF InsertSearch, SavedIInv, SavedTypes
  <1>2. s \notin D /\ s \notin Created
    BY <1>1 DEF SavedIInv, RowsSound, Created
  <1>3. row \in SearchRow /\ row.hash = NoResult
    BY SearchBounds DEF SearchRow, Hashes
  <1>4. /\ DOMAIN saved' = D \cup {s} /\ saved'[s] = row
        /\ \A t \in D : saved'[t] = saved[t]
    BY <1>2 DEF InsertSearch
  <1> HIDE DEF row
  <1>5. /\ creator' \in [Searches -> Creator] /\ creator'[s].at = "created"
        /\ creator'[s].raced = creator[s].raced
        /\ \A t \in Searches \ {s} :
             /\ creator'[t].at = creator[t].at
             /\ creator[t].at = "counted" => creator'[t].raced
             /\ creator[t].at # "counted" => creator'[t] = creator[t]
    BY <1>1 DEF InsertSearch, Creator
  <1>6. Created' = Created \cup {s}
    BY <1>5 DEF Created
  <1>7. IsFiniteSet(D) /\ IsFiniteSet(D \cup {s}) /\ Cardinality(D \cup {s}) = Cardinality(D) + 1
        /\ Cardinality(D) \in Nat /\ D \subseteq Searches
    BY <1>2, FS_AddElement, FS_CardinalityType DEF SavedIInv, SavedTypes
  <1>8. SavedTypes'
    BY <1>1, <1>3, <1>4, <1>5, <1>7 DEF SavedIInv, SavedTypes
  <1>9. Unraced' = IF creator[s].raced THEN Unraced ELSE Unraced \cup {s}
    <2>1. \A t \in D : t # s /\ t \in Searches /\ creator'[t] = creator[t]
      BY <1>2, <1>5, <1>7 DEF SavedIInv, RowsSound, Created
    <2>2. QED
      BY <1>4, <1>5, <2>1 DEF Unraced
  <1>10. Cardinality(Unraced') <= MaxSearches
    <2>1. CASE creator[s].raced
      BY <1>9, <2>1 DEF SavedIInv, RowsSound
    <2>2. CASE ~creator[s].raced
      <3>1. Cardinality(D) < MaxSearches
        BY <1>1, <2>2 DEF SavedIInv, RowsSound
      <3>2. Unraced' \subseteq D \cup {s}
        BY <1>4 DEF Unraced
      <3>3. IsFiniteSet(Unraced') /\ Cardinality(Unraced') <= Cardinality(D \cup {s})
        BY <1>7, <3>2, FS_Subset
      <3>4. Cardinality(Unraced') \in Nat
        BY <3>3, FS_CardinalityType
      <3>5. QED
        BY <1>7, <3>1, <3>3, <3>4, CapAssumption
    <2>3. QED
      BY <2>1, <2>2
  <1>11. RowsSound'
    <2>1. \A t \in DOMAIN saved' : t \in Created' /\ saved'[t].hash \in heard[t].ever \cup {NoResult}
      BY <1>3, <1>4, <1>6 DEF SavedIInv, RowsSound, Told
    <2>2. \A t \in Searches \ Created' : heard[t].last = NoResult
      BY <1>6 DEF SavedIInv, RowsSound
    <2>3. \A t \in Searches : ~(creator'[t].at = "counted" /\ ~creator'[t].raced)
      BY <1>5
    <2>4. QED
      BY <1>1, <1>10, <2>1, <2>2, <2>3 DEF RowsSound, Told
  <1>12. \A r \in Evaluations : RunSound(run[r])'
    BY <1>1, <1>6, RunsStay
  <1>13. ASSUME NEW t \in Searches \ crossed' PROVE Uncrossed(t)'
    <2>1. Uncrossed(t)
      BY <1>1, <1>13 DEF SavedIInv
    <2>2. CASE t # s
      BY <1>1, <1>4, <2>1, <2>2 DEF Uncrossed, Hand, SentFor
    <2>3. CASE t = s
      <3>1. \A r \in Evaluations : s \notin Hand(run[r])
        BY <1>2 DEF SavedIInv, RunSound
      <3>2. saved'[s].hash = heard[s].last
        BY <1>2, <1>3, <1>4 DEF SavedIInv, RowsSound
      <3>3. QED
        BY <1>1, <2>1, <2>3, <3>1, <3>2 DEF Uncrossed, Hand, SentFor
    <2>4. QED
      BY <2>2, <2>3
  <1>14. QED
    BY <1>8, <1>11, <1>12, <1>13 DEF SavedIInv

LEMMA DeleteKeeps ==
    ASSUME SavedIInv, NEW s \in Searches, DeleteSearch(s)
    PROVE  SavedIInv'
  <1>1. /\ DOMAIN saved' = DOMAIN saved \ {s}
        /\ \A t \in DOMAIN saved \ {s} : saved'[t] = saved[t]
        /\ UNCHANGED <<result, searchTime, creator, run, heard, crossed>>
    BY DEF DeleteSearch
  <1>2. /\ IsFiniteSet(DOMAIN saved') /\ Cardinality(DOMAIN saved') <= Cardinality(DOMAIN saved)
        /\ Cardinality(DOMAIN saved') \in Nat /\ Cardinality(DOMAIN saved) \in Nat
    BY <1>1, FS_Subset, FS_CardinalityType DEF SavedIInv, SavedTypes
  <1>3. SavedTypes'
    BY <1>1, <1>2 DEF SavedIInv, SavedTypes
  <1>4. Created' = Created
    BY <1>1 DEF Created
  <1>5. Cardinality(Unraced') <= MaxSearches
    <2>1. Unraced' \subseteq Unraced /\ Unraced \subseteq DOMAIN saved
      BY <1>1 DEF Unraced
    <2>2. IsFiniteSet(Unraced)
      BY <2>1, FS_Subset DEF SavedIInv, SavedTypes
    <2>3. IsFiniteSet(Unraced') /\ Cardinality(Unraced') <= Cardinality(Unraced)
      BY <2>1, <2>2, FS_Subset
    <2>4. Cardinality(Unraced') \in Nat /\ Cardinality(Unraced) \in Nat
      BY <2>2, <2>3, FS_CardinalityType
    <2>5. QED
      BY <2>3, <2>4, CapAssumption DEF SavedIInv, RowsSound
  <1>6. RowsSound'
    <2>1. \A t \in DOMAIN saved' : t \in Created /\ saved'[t].hash \in heard[t].ever \cup {NoResult}
      BY <1>1 DEF SavedIInv, RowsSound, Told
    <2>2. \A t \in Searches : creator[t].at = "counted" /\ ~creator[t].raced =>
                                  Cardinality(DOMAIN saved') < MaxSearches
      BY <1>2, CapAssumption DEF SavedIInv, RowsSound
    <2>3. QED
      BY <1>1, <1>4, <1>5, <2>1, <2>2 DEF SavedIInv, RowsSound, Told
  <1>7. \A r \in Evaluations : RunSound(run[r])'
    BY <1>1, <1>4, RunsStay
  <1>8. ASSUME NEW t \in Searches \ crossed' PROVE Uncrossed(t)'
    <2>1. Uncrossed(t)
      BY <1>1, <1>8 DEF SavedIInv
    <2>2. QED
      BY <1>1, <2>1 DEF Uncrossed, Hand, SentFor
  <1>9. QED
    BY <1>3, <1>6, <1>7, <1>8 DEF SavedIInv

\* A request that is counted or refused.
LEMMA CreatorKeeps ==
    ASSUME SavedIInv, NEW s \in Searches, CountSearches(s) \/ RefuseSearch(s)
    PROVE  SavedIInv'
  <1>1. /\ creator[s].at = "idle" /\ creator \in [Searches -> Creator]
        /\ UNCHANGED <<saved, result, searchTime, run, heard, crossed>>
    BY DEF CountSearches, RefuseSearch, SavedIInv, SavedTypes
  <1>2. /\ creator' \in [Searches -> Creator]
        /\ creator'[s].at \in {"counted", "refused"}
        /\ creator'[s].at = "counted" => HasRoom
        /\ \A t \in Searches : creator'[t].raced = creator[t].raced
        /\ \A t \in Searches \ {s} : creator'[t].at = creator[t].at
    BY <1>1 DEF CountSearches, RefuseSearch, Creator
  <1>3. Created' = Created /\ Unraced' = Unraced
    BY <1>1, <1>2 DEF Created, Unraced, SavedIInv, SavedTypes
  <1>4. SavedTypes'
    BY <1>1, <1>2 DEF SavedIInv, SavedTypes
  <1>5. RowsSound'
    <2>1. \A t \in Searches : creator'[t].at = "counted" /\ ~creator'[t].raced =>
                                  Cardinality(DOMAIN saved) < MaxSearches
      BY <1>2 DEF SavedIInv, RowsSound, HasRoom
    <2>2. QED
      BY <1>1, <1>3, <2>1 DEF SavedIInv, RowsSound, Told
  <1>6. \A r \in Evaluations : RunSound(run[r])'
    BY <1>1, <1>3, RunsStay
  <1>7. ASSUME NEW t \in Searches \ crossed' PROVE Uncrossed(t)'
    <2>1. Uncrossed(t)
      BY <1>1, <1>7 DEF SavedIInv
    <2>2. QED
      BY <1>1, <2>1 DEF Uncrossed, Hand, SentFor
  <1>8. QED
    BY <1>4, <1>5, <1>6, <1>7 DEF SavedIInv

\* The clock ticks, the result of the query changes, or nothing happens.
LEMMA OutsideKeeps ==
    ASSUME SavedIInv, result' \in ResultSets, searchTime' \in 0..LastSearchTime,
           UNCHANGED <<saved, creator, run, heard, crossed>>
    PROVE  SavedIInv'
  <1>1. SavedTypes'
    BY DEF SavedIInv, SavedTypes
  <1>2. RowsSound' /\ Created' = Created
    BY DEF SavedIInv, RowsSound, Created, Unraced, Told
  <1>3. \A r \in Evaluations : RunSound(run[r])'
    BY <1>2, RunsStay
  <1>4. ASSUME NEW t \in Searches \ crossed' PROVE Uncrossed(t)'
    <2>1. Uncrossed(t)
      BY <1>4 DEF SavedIInv
    <2>2. QED
      BY <2>1 DEF Uncrossed, Hand, SentFor
  <1>5. QED
    BY <1>1, <1>2, <1>3, <1>4 DEF SavedIInv

LEMMA SavedInitOK == SavedInit => SavedIInv
  <1> SUFFICES ASSUME SavedInit PROVE SavedIInv
    OBVIOUS
  <1>1. NoRun \in SearchRun /\ NoRun.at = "waiting" /\ Hand(NoRun) = {} /\ RunSound(NoRun)
        /\ NoRun.sent = FALSE
    <2>1. Hand(NoRun) = {}
      BY NoRunIs, NoResultAssumption DEF Hand
    <2>2. QED
      BY NoRunIs, <2>1 DEF RunSound
  <1>2. run \in [Evaluations -> SearchRun]
        /\ \A r \in Evaluations : run[r] = NoRun
    BY <1>1 DEF SavedInit
  <1>3. DOMAIN saved = {} /\ IsFiniteSet(DOMAIN saved) /\ Unraced = {} /\ Cardinality({}) = 0
    BY FS_EmptySet DEF SavedInit, Unraced
  <1>4. SavedTypes
    BY <1>2, <1>3, CapAssumption DEF SavedInit, SavedTypes, Creator, Hashes
  <1>5. RowsSound
    BY <1>3, CapAssumption DEF SavedInit, RowsSound
  <1>6. \A s \in Searches : Uncrossed(s)
    BY <1>1, <1>2, <1>3 DEF Uncrossed, SentFor
  <1>7. QED
    BY <1>1, <1>2, <1>4, <1>5, <1>6 DEF SavedIInv

LEMMA SavedStep == SavedIInv /\ [SavedNext]_savedVars => SavedIInv'
  <1> SUFFICES ASSUME SavedIInv, [SavedNext]_savedVars PROVE SavedIInv'
    OBVIOUS
  <1>0. result \in ResultSets /\ searchTime \in 0..LastSearchTime
        /\ \A r \in Evaluations : RunSound(run[r])
    BY DEF SavedIInv, SavedTypes
  <1>1. CASE SearchClockTicks
    <2>1. searchTime' \in 0..LastSearchTime
      BY <1>0, <1>1, SearchBounds DEF SearchClockTicks
    <2>2. QED
      BY <1>0, <1>1, <2>1, OutsideKeeps DEF SearchClockTicks
  <1>2. CASE ResultChanges
    BY <1>0, <1>2, OutsideKeeps DEF ResultChanges
  <1>3. CASE UNCHANGED savedVars
    BY <1>0, <1>3, OutsideKeeps DEF savedVars
  <1>4. ASSUME NEW r \in Evaluations, SearchFails(r) PROVE SavedIInv'
    <2>1. PICK x : x = Turned(r)
      OBVIOUS
    <2>2. /\ x \in SearchRun /\ RunSound(x) /\ Hand(x) = run[r].left /\ ~x.sent
          /\ run[r].left # {} => x.seen = run[r].seen
      BY <1>4, <2>1, TurnedSound DEF SearchFails
    <2>3. QED
      BY <1>4, <2>1, <2>2, DropKeeps DEF SearchFails
  <1>5. ASSUME NEW r \in Evaluations, EvaluationDies(r) PROVE SavedIInv'
    BY <1>5, EndedSound, DropKeeps DEF EvaluationDies
  <1>6. QED
    BY <1>1, <1>2, <1>3, <1>4, <1>5, BeginKeeps, QueryKeeps, AlertKeeps, StoreHashKeeps,
       InsertSearchKeeps, DeleteKeeps, CreatorKeeps DEF SavedNext

\* The hash in a row is one the recipient was told of, the last one unless two runs
\* had the search at once or one ended between its alert and its update
\* (jobs/handlers.ts), and an organisation has more searches than the cap only when
\* a create was raced between its count and its insert (routes/orgVaults.ts).
THEOREM SearchesAreAccounted == SavedSpec => []SearchesAccounted
  <1>1. ASSUME SavedIInv PROVE SearchesAccounted
    <2>1. HashWasTold
      BY <1>1 DEF SavedIInv, SavedTypes, RowsSound, Uncrossed, Told, HashWasTold, BetweenAlertAndHash,
             SentFor
    <2>2. CapOnlyRaced
      <3> SUFFICES ASSUME \A s \in DOMAIN saved : ~creator[s].raced
                   PROVE  ~(Cardinality(DOMAIN saved) > MaxSearches)
        BY DEF CapOnlyRaced
      <3>1. Unraced = DOMAIN saved
        BY DEF Unraced
      <3>2. Cardinality(DOMAIN saved) <= MaxSearches /\ Cardinality(DOMAIN saved) \in Nat
        BY <1>1, <3>1, FS_CardinalityType DEF SavedIInv, SavedTypes, RowsSound
      <3>3. QED
        BY <3>2, CapAssumption
    <2>3. QED
      BY <2>1, <2>2 DEF SearchesAccounted
  <1>2. QED
    BY <1>1, SavedInitOK, SavedStep, PTL DEF SavedSpec
-----------------------------------------------------------------------------
(* The audit chain.                                                        *)

Entry == [at : {"none", "stamped", "linked", "stored", "failed"},
          created_at : 0..MaxTime, prev : Entries \cup {Genesis}]

Chained(e) == {d \in Entries \ {e} : ChainOf[d] = ChainOf[e]}
Earlier(e) == {d \in Log(ChainOf[e]) : Before(d, e)}

\* An entry that was alone in its creation has found all rows of its chain there,
\* and all that come later are stamped later.
AuditSound(e) ==
    /\ record[e].at \in InCreation =>
         \A d \in Chained(e) :
             /\ record[d].at \notin InCreation
             /\ record[d].at = "stored" => record[d].created_at <= record[e].created_at
    /\ record[e].at = "linked" =>
         \E S \in SUBSET Entries : S = Log(ChainOf[e]) /\ record[e].prev = Latest(S)
    /\ record[e].at = "stored" =>
         /\ \A d \in Chained(e) :
              record[d].at \in InCreation => record[e].created_at <= record[d].created_at
         /\ \/ SameMoment(e)
            \/ \E S \in SUBSET Entries : S = Earlier(e) /\ record[e].prev = Latest(S)

Begun == {e \in Entries : record[e].at # "none"}

AuditIInv ==
    /\ AuditTypeOK
    /\ IsFiniteSet(Begun)
    /\ \A e \in Entries \ overlapped : AuditSound(e)

\* The newest row of a set of rows that stay as they are stays the newest.
LEMMA LatestKept ==
    ASSUME NEW S, \A d \in S : record'[d].created_at = record[d].created_at
    PROVE  Latest(S)' = Latest(S)
  <1>1. Newest(S)' = Newest(S)
    BY DEF Newest, Before
  <1>2. QED
    BY <1>1 DEF Latest

LEMMA AuditTypes ==
    ASSUME AuditTypeOK
    PROVE  /\ record \in [Entries -> Entry] /\ overlapped \subseteq Entries
           /\ \A e \in Entries : record[e].created_at \in Int
           /\ MaxTime \in Nat /\ Entries \subseteq Int
           /\ \A c : Log(c) \in SUBSET Entries
           /\ \A e \in Entries : Chained(e) \subseteq Entries /\ Earlier(e) \in SUBSET Entries
  BY AuditAssumption DEF AuditTypeOK, Entry, Log, Chained, Earlier

\* Finitely many rows have a newest one: of the least number of rows that had none,
\* the newest of all but one, or that one, would be newest.
LEMMA NewestExists ==
    ASSUME AuditTypeOK, NEW R \in SUBSET Entries, IsFiniteSet(R), R # {}
    PROVE  Newest(R) # {}
  <1> DEFINE less == {p \in Nat \X Nat : p[1] < p[2]}
             Without == {S \in SUBSET Entries : IsFiniteSet(S) /\ S # {} /\ Newest(S) = {}}
             Sizes == {n \in Nat : \E S \in Without : Cardinality(S) = n}
  <1> SUFFICES ASSUME R \in Without PROVE FALSE
    OBVIOUS
  <1>1. IsWellFoundedOn(less, Nat)
    BY NatLessThanWellFounded DEF OpToRel
  <1>2. \A k, l \in Nat : k < l => <<k, l>> \in less
    OBVIOUS
  <1>3. Sizes \subseteq Nat /\ Cardinality(R) \in Sizes
    BY FS_CardinalityType
  <1> HIDE DEF less
  <1>4. PICK n \in Sizes : \A k \in Sizes : <<k, n>> \notin less
    BY <1>1, <1>3, WFMin
  <1>5. PICK S \in Without : Cardinality(S) = n
    BY <1>4
  <1>6. PICK e \in S : TRUE
    BY <1>5
  <1>7. IsFiniteSet(S \ {e}) /\ Cardinality(S \ {e}) = n - 1 /\ n \in Nat /\ n - 1 \in Nat
    <2>1. IsFiniteSet(S \ {e}) /\ Cardinality(S \ {e}) = Cardinality(S) - 1
      BY <1>5, <1>6, FS_RemoveElement
    <2>2. Cardinality(S \ {e}) \in Nat /\ Cardinality(S) \in Nat
      BY <1>5, <2>1, FS_CardinalityType
    <2>3. QED
      BY <1>5, <2>1, <2>2
  <1>8. \A d \in Entries : record[d].created_at \in Int /\ d \in Int
    BY AuditTypes
  <1>9. CASE S \ {e} = {}
    <2>1. ~Before(e, e)
      BY <1>6, <1>8 DEF Before
    <2>2. e \in Newest(S)
      BY <1>6, <1>9, <2>1 DEF Newest
    <2>3. QED
      BY <1>5, <2>2
  <1>10. CASE S \ {e} # {}
    <2>1. n - 1 \notin Sizes
      <3>1. n - 1 < n
        BY <1>7
      <3>2. <<n - 1, n>> \in less
        BY <1>2, <1>7, <3>1
      <3>3. QED
        BY <1>4, <3>2
    <2>2. Newest(S \ {e}) # {}
      BY <1>5, <1>7, <1>10, <2>1
    <2>3. PICK m \in S \ {e} : \A d \in S \ {e} : ~Before(m, d)
      BY <2>2 DEF Newest
    <2>4. CASE Before(m, e)
      <3>1. \A d \in S : ~Before(e, d)
        BY <1>6, <1>8, <2>3, <2>4 DEF Before
      <3>2. QED
        BY <1>5, <1>6, <3>1 DEF Newest
    <2>5. CASE ~Before(m, e)
      BY <1>5, <2>3, <2>5 DEF Newest
    <2>6. QED
      BY <2>4, <2>5
  <1>11. QED
    BY <1>9, <1>10

\* An entry stays sound while its chain stores nothing and starts nothing that
\* could come before it.
LEMMA SoundKept ==
    ASSUME AuditTypeOK, NEW f \in Entries, AuditSound(f), record'[f] = record[f],
           Log(ChainOf[f])' = Log(ChainOf[f]),
           \A d \in Log(ChainOf[f]) : record'[d] = record[d],
           record[f].at \in InCreation =>
               \A d \in Chained(f) : record'[d].at \notin InCreation,
           record[f].at = "stored" =>
               \A d \in Chained(f) :
                   record'[d].at \in InCreation => record[f].created_at <= record'[d].created_at
    PROVE  AuditSound(f)'
  <1>1. record'[f].at \in InCreation =>
          \A d \in Chained(f) :
              /\ record'[d].at \notin InCreation
              /\ record'[d].at = "stored" => record'[d].created_at <= record'[f].created_at
    <2> SUFFICES ASSUME record[f].at \in InCreation, NEW d \in Chained(f), record'[d].at = "stored"
                 PROVE  record'[d].created_at <= record'[f].created_at
      OBVIOUS
    <2>1. d \in Log(ChainOf[f])
      BY DEF Log, Chained
    <2>2. record'[d] = record[d]
      BY <2>1
    <2>3. QED
      BY <2>2 DEF AuditSound
  <1>2. ASSUME record'[f].at = "linked"
        PROVE  \E S \in SUBSET Entries : S = Log(ChainOf[f])' /\ record'[f].prev = Latest(S)'
    <2>1. PICK S \in SUBSET Entries : S = Log(ChainOf[f]) /\ record[f].prev = Latest(S)
      BY <1>2 DEF AuditSound
    <2>2. Latest(S)' = Latest(S)
      BY <2>1, LatestKept
    <2>3. QED
      BY <2>1, <2>2
  <1>3. ASSUME record'[f].at = "stored"
        PROVE  SameMoment(f)' \/ \E S \in SUBSET Entries : S = Earlier(f)' /\ record'[f].prev = Latest(S)'
    <2>1. CASE SameMoment(f)
      BY <2>1 DEF SameMoment
    <2>2. CASE \E S \in SUBSET Entries : S = Earlier(f) /\ record[f].prev = Latest(S)
      <3>1. PICK S \in SUBSET Entries : S = Earlier(f) /\ record[f].prev = Latest(S)
        BY <2>2
      <3>2. Latest(S)' = Latest(S)
        BY <3>1, LatestKept DEF Earlier
      <3>3. Earlier(f)' = Earlier(f)
        BY DEF Earlier, Before
      <3>4. QED
        BY <3>1, <3>2, <3>3
    <2>3. QED
      BY <1>3, <2>1, <2>2 DEF AuditSound
  <1>4. Chained(f)' = Chained(f) /\ InCreation' = InCreation
    BY DEF Chained, InCreation
  <1>5. QED
    BY <1>1, <1>2, <1>3, <1>4 DEF AuditSound

\* A step of one entry.
LEMMA EntryMoves ==
    ASSUME AuditTypeOK, NEW e \in Entries, NEW x \in Entry, record' = [record EXCEPT ![e] = x]
    PROVE  /\ record' \in [Entries -> Entry]
           /\ \A d \in Entries : record'[d] = IF d = e THEN x ELSE record[d]
           /\ record[e].at # "stored" =>
                \A c : Log(c)' = IF x.at = "stored" /\ ChainOf[e] = c THEN Log(c) \cup {e} ELSE Log(c)
  <1>1. /\ record' \in [Entries -> Entry]
        /\ \A d \in Entries : record'[d] = IF d = e THEN x ELSE record[d]
    BY AuditTypes
  <1>2. QED
    BY <1>1 DEF Log

\* The other entries, when one moves on to a stage in which it is not stored.
LEMMA OthersSound ==
    ASSUME AuditIInv, NEW e \in Entries, NEW x \in Entry, record' = [record EXCEPT ![e] = x],
           record[e].at # "stored", x.at # "stored",
           NEW f \in Entries \ overlapped, f # e,
           x.at \in InCreation =>
               /\ record[f].at \in InCreation => e \notin Chained(f)
               /\ record[f].at = "stored" /\ e \in Chained(f) =>
                      record[f].created_at <= x.created_at
    PROVE  AuditSound(f)'
  <1>1. /\ \A d \in Entries : record'[d] = IF d = e THEN x ELSE record[d]
        /\ \A c : Log(c)' = Log(c)
    BY EntryMoves DEF AuditIInv
  <1>2. AuditSound(f) /\ AuditTypeOK
    BY DEF AuditIInv
  <1>3. \A d \in Log(ChainOf[f]) : record'[d] = record[d]
    BY <1>1 DEF Log
  <1>4. ASSUME NEW d \in Chained(f)
        PROVE  /\ record[f].at \in InCreation => record'[d].at \notin InCreation
               /\ record[f].at = "stored" /\ record'[d].at \in InCreation =>
                      record[f].created_at <= record'[d].created_at
    <2>1. d \in Entries
      BY DEF Chained
    <2>2. QED
      BY <1>1, <1>2, <2>1 DEF AuditSound
  <1>5. QED
    BY <1>1, <1>2, <1>3, <1>4, SoundKept

LEMMA AuditInitOK == AuditInit => AuditIInv
  <1> SUFFICES ASSUME AuditInit PROVE AuditIInv
    OBVIOUS
  <1>1. NoRecord \in Entry /\ NoRecord.at = "none"
    BY AuditAssumption DEF NoRecord, Entry
  <1>2. record \in [Entries -> Entry] /\ \A e \in Entries : record[e].at = "none"
    BY <1>1 DEF AuditInit
  <1>3. Begun = {} /\ IsFiniteSet(Begun)
    BY <1>2, FS_EmptySet DEF Begun
  <1>4. QED
    BY <1>2, <1>3, AuditAssumption
       DEF AuditInit, AuditIInv, AuditTypeOK, Entry, AuditSound, InCreation

LEMMA StampKeeps ==
    ASSUME AuditIInv, NEW e \in Entries, NEW t \in 0..MaxTime, Stamp(e, t)
    PROVE  AuditIInv'
  <1> DEFINE others == {d \in Entries :
                          /\ ChainOf[d] = ChainOf[e]
                          /\ \/ record[d].at \in InCreation
                             \/ record[d].at = "stored" /\ record[d].created_at > t}
             x == [at |-> "stamped", created_at |-> t, prev |-> Genesis]
  <1>0. AuditTypeOK /\ MaxTime \in Nat /\ \A d \in Entries : record[d].created_at \in Int
    BY AuditTypes DEF AuditIInv
  <1>1. /\ record[e].at = "none" /\ record' = [record EXCEPT ![e] = x]
        /\ overlapped' = IF others = {} THEN overlapped ELSE overlapped \cup others \cup {e}
    BY DEF Stamp
  <1>2. x \in Entry /\ x.at = "stamped" /\ x.created_at = t
    BY <1>0 DEF Entry
  <1> HIDE DEF x
  <1>3. /\ record' \in [Entries -> Entry]
        /\ \A d \in Entries : record'[d] = IF d = e THEN x ELSE record[d]
        /\ \A c : Log(c)' = Log(c)
    BY <1>0, <1>1, <1>2, EntryMoves
  <1>4. AuditTypeOK'
    BY <1>0, <1>1, <1>3 DEF AuditTypeOK, Entry
  <1>6. ASSUME NEW f \in Entries \ overlapped', f # e PROVE AuditSound(f)'
    <2>1. f \notin overlapped /\ f \notin others
      BY <1>1, <1>6
    <2>2. record[f].at \in InCreation => e \notin Chained(f)
      BY <1>6, <2>1 DEF Chained
    <2>3. record[f].at = "stored" /\ e \in Chained(f) => record[f].created_at <= x.created_at
      BY <1>0, <1>2, <1>6, <2>1 DEF Chained
    <2>4. QED
      BY <1>1, <1>2, <1>6, <2>1, <2>2, <2>3, OthersSound
  <1>7. ASSUME e \notin overlapped' PROVE AuditSound(e)'
    <2>1. others = {}
      BY <1>1, <1>7
    <2>2. ASSUME NEW d \in Chained(e)
          PROVE  /\ record'[d].at \notin InCreation
                 /\ record'[d].at = "stored" => record'[d].created_at <= t
      <3>1. d \in Entries /\ d # e /\ ChainOf[d] = ChainOf[e]
        BY <2>2 DEF Chained
      <3>2. QED
        BY <1>0, <1>3, <2>1, <3>1
    <2>3. Chained(e)' = Chained(e) /\ record'[e] = x /\ InCreation' = InCreation
      BY <1>3 DEF Chained, InCreation
    <2>4. QED
      BY <1>2, <2>2, <2>3 DEF AuditSound
  <1>8. IsFiniteSet(Begun')
    <2>1. Begun' = Begun \cup {e}
      BY <1>2, <1>3 DEF Begun
    <2>2. QED
      BY <2>1, FS_AddElement DEF AuditIInv
  <1>9. QED
    BY <1>4, <1>6, <1>7, <1>8 DEF AuditIInv

LEMMA PreviousKeeps == ASSUME AuditIInv, NEW e \in Entries, GetPreviousHash(e) PROVE AuditIInv'
  <1>0. AuditTypeOK /\ record \in [Entries -> Entry]
    BY AuditTypes DEF AuditIInv
  <1>1. PICK S \in SUBSET Entries : S = Log(ChainOf[e])
    BY DEF Log
  <1>2. PICK p \in Entries \cup {Genesis} : p = Latest(S)
    <2>1. IsFiniteSet(S)
      <3>1. S \subseteq Begun /\ IsFiniteSet(Begun)
        BY <1>1 DEF AuditIInv, Begun, Log
      <3>2. QED
        BY <3>1, FS_Subset
    <2>2. S # {} => Newest(S) # {}
      BY <1>0, <2>1, NewestExists
    <2>3. Newest(S) \subseteq Entries
      BY DEF Newest
    <2>4. QED
      BY <2>2, <2>3 DEF Latest
  <1> DEFINE x == [record[e] EXCEPT !.at = "linked", !.prev = p]
  <1>3. /\ record[e].at = "stamped" /\ record' = [record EXCEPT ![e] = x]
        /\ overlapped' = overlapped
    BY <1>0, <1>1, <1>2 DEF GetPreviousHash
  <1>4. x \in Entry /\ x.at = "linked" /\ x.prev = p /\ x.created_at = record[e].created_at
    BY <1>0 DEF Entry
  <1> HIDE DEF x
  <1>5. /\ record' \in [Entries -> Entry]
        /\ \A d \in Entries : record'[d] = IF d = e THEN x ELSE record[d]
        /\ \A c : Log(c)' = Log(c)
    BY <1>0, <1>3, <1>4, EntryMoves
  <1>6. AuditTypeOK'
    BY <1>0, <1>3, <1>5 DEF AuditTypeOK, Entry
  <1>8. ASSUME NEW f \in Entries \ overlapped', f # e PROVE AuditSound(f)'
    <2>1. AuditSound(f) /\ f \notin overlapped /\ record[e].at \in InCreation
      BY <1>3, <1>8 DEF AuditIInv, InCreation
    <2>2. record[f].at \in InCreation => e \notin Chained(f)
      BY <2>1 DEF AuditSound
    <2>3. record[f].at = "stored" /\ e \in Chained(f) => record[f].created_at <= x.created_at
      BY <1>4, <2>1 DEF AuditSound
    <2>4. QED
      BY <1>3, <1>4, <1>8, <2>1, <2>2, <2>3, OthersSound
  <1>9. ASSUME e \notin overlapped' PROVE AuditSound(e)'
    <2>1. AuditSound(e) /\ record[e].at \in InCreation
      BY <1>3, <1>9 DEF AuditIInv, InCreation
    <2>2. ASSUME NEW d \in Chained(e)
          PROVE  /\ record'[d].at \notin InCreation
                 /\ record'[d].at = "stored" => record'[d].created_at <= x.created_at
      <3>1. d \in Entries /\ d # e
        BY <2>2 DEF Chained
      <3>2. QED
        BY <1>4, <1>5, <2>1, <3>1, <2>2 DEF AuditSound
    <2>3. Chained(e)' = Chained(e) /\ record'[e] = x /\ InCreation' = InCreation
      BY <1>5 DEF Chained, InCreation
    <2>4. Latest(S)' = Latest(S)
      <3>1. \A d \in S : record'[d].created_at = record[d].created_at
        BY <1>1, <1>3, <1>5 DEF Log
      <3>2. QED
        BY <3>1, LatestKept
    <2>5. \E T \in SUBSET Entries : T = Log(ChainOf[e])' /\ record'[e].prev = Latest(T)'
      BY <1>1, <1>2, <1>4, <1>5, <2>3, <2>4
    <2>6. QED
      BY <1>4, <2>2, <2>3, <2>5 DEF AuditSound
  <1>10. Begun' = Begun
    BY <1>3, <1>4, <1>5 DEF Begun
  <1>11. QED
    BY <1>6, <1>8, <1>9, <1>10 DEF AuditIInv

LEMMA InsertKeeps == ASSUME AuditIInv, NEW e \in Entries, InsertRow(e) PROVE AuditIInv'
  <1> DEFINE x == [record[e] EXCEPT !.at = "stored"]
  <1>0. AuditTypeOK /\ record \in [Entries -> Entry]
    BY AuditTypes DEF AuditIInv
  <1>3. /\ record[e].at = "linked" /\ record' = [record EXCEPT ![e] = x]
        /\ overlapped' = overlapped
    BY <1>0 DEF InsertRow
  <1>4. x \in Entry /\ x.at = "stored" /\ x.prev = record[e].prev
        /\ x.created_at = record[e].created_at
    BY <1>0 DEF Entry
  <1> HIDE DEF x
  <1>5. /\ record' \in [Entries -> Entry]
        /\ \A d \in Entries : record'[d] = IF d = e THEN x ELSE record[d]
        /\ \A c : Log(c)' = IF ChainOf[e] = c THEN Log(c) \cup {e} ELSE Log(c)
    BY <1>0, <1>3, <1>4, EntryMoves
  <1>6. AuditTypeOK'
    BY <1>0, <1>3, <1>5 DEF AuditTypeOK, Entry
  <1>8. ASSUME NEW f \in Entries \ overlapped', f # e PROVE AuditSound(f)'
    <2>0. AuditSound(f) /\ f \notin overlapped /\ record[e].at \in InCreation
          /\ record'[f] = record[f] /\ record[f] \in Entry
      BY <1>0, <1>3, <1>5, <1>8 DEF AuditIInv, InCreation
    <2>1. ASSUME NEW d \in Chained(f)
          PROVE  /\ d \in Entries
                 /\ record'[d].at \in InCreation => record'[d] = record[d]
      BY <1>4, <1>5, <2>1 DEF Chained, InCreation
    <2>2. CASE ChainOf[f] # ChainOf[e]
      <3>1. Log(ChainOf[f])' = Log(ChainOf[f])
        BY <1>5, <2>2
      <3>2. \A d \in Log(ChainOf[f]) : record'[d] = record[d]
        BY <1>5, <2>2 DEF Log
      <3>3. QED
        BY <1>0, <2>0, <2>1, <3>1, <3>2, SoundKept DEF AuditSound
    <2>3. CASE ChainOf[f] = ChainOf[e]
      <3>1. e \in Chained(f)
        BY <1>8, <2>3 DEF Chained
      <3>2. record[f].at \notin InCreation
        BY <2>0, <3>1 DEF AuditSound
      <3>3. CASE record[f].at # "stored"
        BY <2>0, <3>2, <3>3 DEF AuditSound, InCreation
      <3>4. CASE record[f].at = "stored"
        <4>1. record[f].created_at <= x.created_at
          BY <1>4, <2>0, <3>1, <3>4 DEF AuditSound
        <4>2. f \in Log(ChainOf[f]) /\ Log(ChainOf[f])' = Log(ChainOf[f]) \cup {e}
              /\ record'[e] = x /\ e \notin Log(ChainOf[f])
          BY <1>3, <1>5, <2>3, <3>4 DEF Log
        <4>3. \A d \in Log(ChainOf[f]) : record'[d] = record[d] /\ d \in Entries
          BY <1>3, <1>5 DEF Log
        <4>4. CASE SameMoment(f)
          BY <2>0, <3>4, <4>2, <4>3, <4>4, <2>1 DEF AuditSound, SameMoment, InCreation, Chained
        <4>5. CASE record[f].created_at = x.created_at
          <5>1. SameMoment(f)'
            BY <1>8, <2>0, <4>2, <4>5 DEF SameMoment
          <5>2. QED
            BY <2>0, <2>1, <3>4, <5>1 DEF AuditSound, InCreation, Chained
        <4>6. CASE ~SameMoment(f) /\ record[f].created_at # x.created_at
          <5>1. PICK S \in SUBSET Entries : S = Earlier(f) /\ record[f].prev = Latest(S)
            BY <2>0, <3>4, <4>6 DEF AuditSound
          <5>2. ~Before(e, f)'
            BY <1>0, <1>4, <2>0, <4>1, <4>2, <4>6, AuditTypes DEF Before, Entry
          <5>3. Earlier(f)' = Earlier(f)
            BY <2>0, <4>2, <4>3, <5>2 DEF Earlier, Before
          <5>4. Latest(S)' = Latest(S)
            BY <4>3, <5>1, LatestKept DEF Earlier
          <5>5. QED
            BY <2>0, <2>1, <3>4, <5>1, <5>3, <5>4 DEF AuditSound, InCreation, Chained
        <4>7. QED
          BY <4>4, <4>5, <4>6
      <3>5. QED
        BY <3>3, <3>4
    <2>4. QED
      BY <2>2, <2>3
  <1>9. ASSUME e \notin overlapped' PROVE AuditSound(e)'
    <2>1. AuditSound(e) /\ record[e].at \in InCreation
      BY <1>3, <1>9 DEF AuditIInv, InCreation
    <2>2. ASSUME NEW d \in Chained(e) PROVE record'[d].at \notin InCreation
      <3>1. d \in Entries /\ d # e
        BY <2>2 DEF Chained
      <3>2. QED
        BY <1>5, <2>1, <2>2, <3>1 DEF AuditSound
    <2>3. PICK S \in SUBSET Entries : S = Log(ChainOf[e]) /\ record[e].prev = Latest(S)
      BY <1>3, <2>1 DEF AuditSound
    <2>4. Log(ChainOf[e])' = S \cup {e} /\ e \notin S /\ record'[e] = x
      BY <1>3, <1>5, <2>3 DEF Log
    <2>5. \A d \in S : /\ record'[d] = record[d] /\ d \in Entries
                       /\ record[d].created_at <= record[e].created_at
      <3>1. \A d \in S : d \in Chained(e) /\ record[d].at = "stored"
        BY <2>3, <2>4 DEF Log, Chained
      <3>2. QED
        BY <1>5, <2>1, <2>4, <3>1 DEF AuditSound
    <2>6. CASE SameMoment(e)'
      BY <1>4, <2>2, <2>4, <2>6 DEF AuditSound, InCreation, Chained
    <2>7. CASE ~SameMoment(e)'
      <3>1. \A d \in S : record'[d].created_at < record'[e].created_at
        <4> SUFFICES ASSUME NEW d \in S PROVE record'[d].created_at < record'[e].created_at
          OBVIOUS
        <4>1. record'[d].created_at # record'[e].created_at
          BY <2>4, <2>7 DEF SameMoment
        <4>2. record[d].created_at \in Int /\ record[e].created_at \in Int
          BY <1>0, <2>5, AuditTypes
        <4>3. QED
          BY <1>4, <2>4, <2>5, <4>1, <4>2
      <3>2. ~Before(e, e)'
        BY <1>0, <1>4, <2>4, AuditTypes DEF Before
      <3>3. Earlier(e)' = S
        BY <2>4, <3>1, <3>2 DEF Earlier, Before
      <3>4. Latest(S)' = Latest(S)
        BY <2>5, LatestKept
      <3>5. QED
        BY <1>4, <2>2, <2>3, <2>4, <3>3, <3>4 DEF AuditSound, InCreation, Chained
    <2>8. QED
      BY <2>6, <2>7
  <1>10. Begun' = Begun
    BY <1>3, <1>4, <1>5 DEF Begun
  <1>11. QED
    BY <1>6, <1>8, <1>9, <1>10 DEF AuditIInv

LEMMA LoseKeeps == ASSUME AuditIInv, NEW e \in Entries, LoseEntry(e) PROVE AuditIInv'
  <1> DEFINE x == [record[e] EXCEPT !.at = "failed"]
  <1>0. AuditTypeOK /\ record \in [Entries -> Entry]
    BY AuditTypes DEF AuditIInv
  <1>1. /\ record[e].at \in InCreation /\ record' = [record EXCEPT ![e] = x]
        /\ overlapped' = overlapped
    BY <1>0 DEF LoseEntry
  <1>2. x \in Entry /\ x.at = "failed" /\ x.created_at = record[e].created_at
    BY <1>0 DEF Entry
  <1> HIDE DEF x
  <1>3. /\ record' \in [Entries -> Entry]
        /\ \A d \in Entries : record'[d] = IF d = e THEN x ELSE record[d]
    BY <1>0, <1>1, <1>2, EntryMoves
  <1>4. AuditTypeOK'
    BY <1>0, <1>1, <1>3 DEF AuditTypeOK, Entry
  <1>6. ASSUME NEW f \in Entries \ overlapped', f # e PROVE AuditSound(f)'
    BY <1>1, <1>2, <1>6, OthersSound DEF InCreation
  <1>7. AuditSound(e)'
    BY <1>2, <1>3 DEF AuditSound, InCreation
  <1>8. Begun' = Begun
    BY <1>1, <1>2, <1>3 DEF Begun, InCreation
  <1>9. QED
    BY <1>4, <1>6, <1>7, <1>8 DEF AuditIInv

\* Something happens that is not of the log.
LEMMA LogStays ==
    ASSUME AuditIInv, record' = record, overlapped' = overlapped
    PROVE  AuditIInv'
  <1>1. AuditTypeOK /\ AuditTypeOK'
    BY DEF AuditIInv, AuditTypeOK
  <1>2. ASSUME NEW f \in Entries \ overlapped' PROVE AuditSound(f)'
    <2>1. AuditSound(f) /\ Log(ChainOf[f])' = Log(ChainOf[f])
      BY DEF AuditIInv, Log
    <2>2. QED
      BY <1>1, <2>1, SoundKept DEF AuditSound
  <1>3. Begun' = Begun
    BY DEF Begun
  <1>4. QED
    BY <1>1, <1>2, <1>3 DEF AuditIInv

LEMMA AuditStep == AuditIInv /\ [AuditNext]_auditVars => AuditIInv'
  <1> SUFFICES ASSUME AuditIInv, [AuditNext]_auditVars PROVE AuditIInv'
    OBVIOUS
  <1>1. CASE UNCHANGED auditVars
    BY <1>1, LogStays DEF auditVars
  <1>2. QED
    BY <1>1, StampKeeps, PreviousKeeps, InsertKeeps, LoseKeeps DEF AuditNext, CreateAuditLog
-----------------------------------------------------------------------------
(* Verifiers.                                                              *)

Changes == Statuses \cup {"none"}
RequestRow == [at : {"idle", "read", "holding", "deciding", "added",
                     "repeated", "done", "failed"},
               from : Changes \cup Results, to : Changes \cup Results]

\* What a request in stage x still knows, unless a commit has overtaken it.
RequestSound(r, x) ==
    /\ x.at \in {"read", "holding"} => canTransition(x.from, x.to) /\ x.to \in Changes
    /\ x.at = "read" /\ x.from # "none" /\ r \notin outdated => x.from = status
    /\ x.at = "holding" /\ r \notin outdated => x.from = status
    /\ x.at \in {"deciding", "added"} =>
         x.to \in Results /\ (r \notin outdated => Decided = {})
    /\ x.at = "repeated" => x.to \in Results

VerifierIInv ==
    /\ AuditIInv
    /\ status \in Changes
    /\ decisions \in [Entries -> Results \cup {"none"}]
    /\ request \in [Entries -> RequestRow]
    /\ outdated \subseteq Entries
    /\ \A r \in Entries : RequestSound(r, request[r])
    /\ \A q, r \in InStage("holding") : q = r
    /\ OneDecision

\* A stored entry stays stored.
LEMMA StoredStays ==
    ASSUME AuditTypeOK, NEW e \in Entries,
           (\E t \in 0..MaxTime : Stamp(e, t)) \/ CreateAuditLog(e)
    PROVE  \A d \in Entries : record[d].at = "stored" => record'[d].at = "stored"
  <1>2. record \in [Entries -> Entry]
    BY AuditTypes
  <1>3. CASE \E t \in 0..MaxTime : Stamp(e, t)
    BY <1>2, <1>3 DEF Stamp
  <1>4. CASE GetPreviousHash(e)
    BY <1>2, <1>4 DEF GetPreviousHash
  <1>5. CASE InsertRow(e)
    BY <1>2, <1>5 DEF InsertRow
  <1>6. CASE LoseEntry(e)
    BY <1>2, <1>6 DEF LoseEntry, InCreation
  <1>7. QED
    BY <1>3, <1>4, <1>5, <1>6 DEF CreateAuditLog

\* A request that moves and commits nothing.
LEMMA RequestMoves ==
    ASSUME VerifierIInv, NEW r \in Entries, NEW x \in RequestRow,
           request' = [request EXCEPT ![r] = x], StaysPut,
           RequestSound(r, x), x.at = "holding" => InStage("holding") = {}
    PROVE  VerifierIInv'
  <1>1. /\ request' \in [Entries -> RequestRow]
        /\ \A q \in Entries : request'[q] = IF q = r THEN x ELSE request[q]
    BY DEF VerifierIInv
  <1>2. /\ status' = status /\ decisions' = decisions /\ outdated' = outdated
        /\ record' = record /\ overlapped' = overlapped
    BY DEF StaysPut, auditVars
  <1>3. AuditIInv'
    <2>1. AuditIInv /\ [AuditNext]_auditVars
      BY DEF VerifierIInv, StaysPut
    <2>2. QED
      BY <2>1, AuditStep
  <1>4. Decided' = Decided
    BY <1>2 DEF Decided
  <1>5. ASSUME NEW q \in Entries PROVE RequestSound(q, request[q])'
    <2>1. RequestSound(q, request'[q])
      BY <1>1 DEF VerifierIInv
    <2>2. QED
      BY <1>2, <1>4, <2>1 DEF RequestSound
  <1>6. \A p, q \in InStage("holding")' : p = q
    BY <1>1 DEF VerifierIInv, InStage
  <1>7. OneDecision'
    BY <1>2, <1>4 DEF VerifierIInv, OneDecision
  <1>8. QED
    BY <1>1, <1>2, <1>3, <1>5, <1>6, <1>7 DEF VerifierIInv

\* A step of the log alone.
LEMMA LogMoves ==
    ASSUME VerifierIInv, AuditNext \/ UNCHANGED auditVars,
           UNCHANGED <<status, decisions, request, outdated>>
    PROVE  VerifierIInv'
  <1>1. AuditIInv'
    <2>1. AuditIInv /\ [AuditNext]_auditVars
      BY DEF VerifierIInv
    <2>2. QED
      BY <2>1, AuditStep
  <1>2. \A d \in Entries : record[d].at = "stored" => record'[d].at = "stored"
    BY StoredStays DEF VerifierIInv, AuditIInv, AuditNext, auditVars
  <1>3. Decided' = Decided /\ InStage("holding")' = InStage("holding")
    BY DEF Decided, InStage
  <1>4. \A q \in Entries : RequestSound(q, request[q])'
    BY <1>3 DEF VerifierIInv, RequestSound
  <1>5. OneDecision'
    BY <1>2, <1>3 DEF VerifierIInv, OneDecision, Decided
  <1>6. QED
    BY <1>1, <1>3, <1>4, <1>5 DEF VerifierIInv

LEMMA CommitProfileKeeps ==
    ASSUME VerifierIInv, NEW r \in Entries, CommitProfile(r)
    PROVE  /\ VerifierIInv'
           /\ request'[r].at = "done" /\ status' = request[r].to
           /\ r \notin outdated => request[r].from = status
           /\ canTransition(request[r].from, request[r].to)
  <1> DEFINE x == [request[r] EXCEPT !.at = "done"]
  <1>1. request[r] \in RequestRow /\ request[r].at = "holding" /\ RequestSound(r, request[r])
    BY DEF VerifierIInv, CommitProfile
  <1>2. x \in RequestRow /\ x.at = "done"
    BY <1>1 DEF RequestRow
  <1>3. /\ request' = [request EXCEPT ![r] = x]
        /\ status' = request[r].to
        /\ decisions' \in {NoDecisions, decisions}
        /\ outdated' = outdated \cup InStage("read")
        /\ record' = record /\ overlapped' = overlapped
    BY DEF CommitProfile, MovesTo, VerifierIInv, auditVars
  <1> HIDE DEF x
  <1>4. /\ request' \in [Entries -> RequestRow]
        /\ \A q \in Entries : request'[q] = IF q = r THEN x ELSE request[q]
    BY <1>2, <1>3 DEF VerifierIInv
  <1>5. AuditIInv'
    <2>1. AuditIInv /\ [AuditNext]_auditVars
      BY <1>3 DEF VerifierIInv, auditVars
    <2>2. QED
      BY <2>1, AuditStep
  <1>6. NoDecisions \in [Entries -> Results \cup {"none"}] /\ Decided' \subseteq Decided
    BY <1>3 DEF NoDecisions, Decided
  <1>7. outdated' \subseteq Entries /\ status' \in Changes
    BY <1>1, <1>3 DEF VerifierIInv, InStage, RequestSound
  <1>8. \A q \in InStage("holding") : q = r
    BY <1>1 DEF VerifierIInv, InStage
  <1>9. ASSUME NEW q \in Entries PROVE RequestSound(q, request[q])'
    <2>1. CASE q = r
      BY <1>2, <1>4, <2>1 DEF RequestSound
    <2>2. CASE q # r
      <3>1. request'[q] = request[q] /\ RequestSound(q, request[q])
        BY <1>4, <2>2 DEF VerifierIInv
      <3>2. request[q].at # "holding" /\ (request[q].at = "read" => q \in outdated')
        BY <1>3, <1>8, <2>2 DEF InStage
      <3>3. outdated \subseteq outdated'
        BY <1>3
      <3>4. QED
        BY <1>6, <3>1, <3>2, <3>3 DEF RequestSound
    <2>3. QED
      BY <2>1, <2>2
  <1>10. \A p, q \in InStage("holding")' : p = q
    BY <1>2, <1>4, <1>8 DEF InStage
  <1>11. OneDecision'
    BY <1>3, <1>6 DEF VerifierIInv, OneDecision
  <1>12. VerifierIInv'
    BY <1>3, <1>4, <1>5, <1>6, <1>7, <1>9, <1>10, <1>11 DEF VerifierIInv
  <1>13. QED
    BY <1>1, <1>2, <1>3, <1>4, <1>12 DEF RequestSound

LEMMA CommitDecisionKeeps ==
    ASSUME VerifierIInv, NEW r \in Entries, CommitDecision(r)
    PROVE  VerifierIInv'
  <1> DEFINE x == [request[r] EXCEPT !.at = "done"]
  <1>1. /\ request[r] \in RequestRow /\ request[r].at \in {"added", "repeated"}
        /\ RequestSound(r, request[r]) /\ record[r].at = "stored"
    BY DEF VerifierIInv, CommitDecision
  <1>2. x \in RequestRow /\ x.at = "done"
    BY <1>1 DEF RequestRow
  <1>3. /\ request' = [request EXCEPT ![r] = x] /\ status' = status
        /\ record' = record /\ overlapped' = overlapped
    BY DEF CommitDecision, MovesTo, VerifierIInv, auditVars
  <1> HIDE DEF x
  <1>4. /\ request' \in [Entries -> RequestRow]
        /\ \A q \in Entries : request'[q] = IF q = r THEN x ELSE request[q]
    BY <1>2, <1>3 DEF VerifierIInv
  <1>5. CASE request[r].at = "repeated"
    <2>1. StaysPut
      BY <1>3, <1>5 DEF CommitDecision, StaysPut, auditVars
    <2>2. RequestSound(r, x)
      BY <1>2 DEF RequestSound
    <2>3. QED
      BY <1>2, <1>3, <2>1, <2>2, RequestMoves
  <1>6. CASE request[r].at = "added"
    <2>1. /\ decisions' = [decisions EXCEPT ![r] = request[r].to]
          /\ outdated' = outdated \cup ((InStage("deciding") \cup InStage("added")) \ {r})
          /\ request[r].to \in Results
      BY <1>1, <1>6 DEF CommitDecision, RequestSound
    <2>2. /\ decisions' \in [Entries -> Results \cup {"none"}]
          /\ Decided' \subseteq Decided \cup {r} /\ outdated' \subseteq Entries
      BY <2>1 DEF VerifierIInv, Decided, InStage
    <2>3. AuditIInv'
      <3>1. AuditIInv /\ [AuditNext]_auditVars
        BY <1>3 DEF VerifierIInv, auditVars
      <3>2. QED
        BY <3>1, AuditStep
    <2>4. ASSUME NEW q \in Entries PROVE RequestSound(q, request[q])'
      <3>1. CASE q = r
        BY <1>2, <1>4, <3>1 DEF RequestSound
      <3>2. CASE q # r
        <4>1. request'[q] = request[q] /\ RequestSound(q, request[q])
          BY <1>4, <3>2 DEF VerifierIInv
        <4>2. request[q].at \in {"deciding", "added"} => q \in outdated'
          BY <2>1, <3>2 DEF InStage
        <4>3. outdated \subseteq outdated'
          BY <2>1
        <4>4. QED
          BY <1>3, <4>1, <4>2, <4>3 DEF RequestSound
      <3>3. QED
        BY <3>1, <3>2
    <2>5. \A p, q \in InStage("holding")' : p = q
      BY <1>2, <1>4 DEF VerifierIInv, InStage
    <2>6. OneDecision'
      <3>1. r \notin outdated => Decided = {}
        BY <1>1, <1>6 DEF RequestSound
      <3>2. \A p, q \in Decided : p = q \/ p \in outdated \/ q \in outdated
        BY DEF VerifierIInv, OneDecision
      <3>3. \A p, q \in Decided' : p = q \/ p \in outdated' \/ q \in outdated'
        BY <2>1, <2>2, <3>1, <3>2
      <3>4. \A q \in Decided' : record'[q].at = "stored"
        BY <1>1, <1>3, <2>2 DEF VerifierIInv, OneDecision
      <3>5. QED
        BY <3>3, <3>4 DEF OneDecision
    <2>7. QED
      BY <1>3, <1>4, <2>2, <2>3, <2>4, <2>5, <2>6 DEF VerifierIInv
  <1>7. QED
    BY <1>1, <1>5, <1>6

LEMMA VerifierInitOK == VerifierInit => VerifierIInv
  <1> SUFFICES ASSUME VerifierInit PROVE VerifierIInv
    OBVIOUS
  <1>1. AuditIInv
    BY AuditInitOK DEF VerifierInit
  <1>2. NoRequest \in RequestRow /\ NoRequest.at = "idle"
    BY DEF NoRequest, RequestRow, Changes
  <1>3. request \in [Entries -> RequestRow] /\ \A r \in Entries : request[r].at = "idle"
    BY <1>2 DEF VerifierInit
  <1>4. Decided = {} /\ decisions \in [Entries -> Results \cup {"none"}]
    BY DEF VerifierInit, NoDecisions, Decided
  <1>5. QED
    BY <1>1, <1>3, <1>4
       DEF VerifierInit, VerifierIInv, RequestSound, InStage, OneDecision, Changes, Statuses

LEMMA VerifierStep ==
    ASSUME VerifierIInv, VerifierNext
    PROVE  /\ VerifierIInv'
           /\ status' # status => \E r \in Entries : CommitProfile(r)
  <1>0. \A r \in Entries : request[r] \in RequestRow /\ RequestSound(r, request[r])
    BY DEF VerifierIInv
  <1>1. ASSUME NEW r \in Entries, NEW stage \in {"read", "deciding", "repeated"},
               NEW from \in Changes \cup Results, NEW to \in Changes \cup Results,
               Becomes(r, stage, from, to), StaysPut,
               RequestSound(r, [at |-> stage, from |-> from, to |-> to])
        PROVE  VerifierIInv' /\ status' = status
    <2> DEFINE x == [at |-> stage, from |-> from, to |-> to]
    <2>1. x \in RequestRow /\ x.at # "holding" /\ RequestSound(r, x)
      BY <1>1 DEF RequestRow
    <2>2. request' = [request EXCEPT ![r] = x]
      BY <1>1 DEF Becomes
    <2> HIDE DEF x
    <2>3. QED
      BY <1>1, <2>1, <2>2, RequestMoves DEF StaysPut
  <1>2. ASSUME NEW r \in Entries, NEW stage \in {"holding", "added", "failed"},
               MovesTo(r, stage), StaysPut,
               RequestSound(r, [request[r] EXCEPT !.at = stage]),
               stage = "holding" => InStage("holding") = {}
        PROVE  VerifierIInv' /\ status' = status
    <2> DEFINE x == [request[r] EXCEPT !.at = stage]
    <2>1. x \in RequestRow /\ x.at = stage /\ RequestSound(r, x)
      BY <1>0, <1>2 DEF RequestRow
    <2>2. request' = [request EXCEPT ![r] = x]
      BY <1>2 DEF MovesTo, VerifierIInv
    <2> HIDE DEF x
    <2>3. QED
      BY <1>2, <2>1, <2>2, RequestMoves DEF StaysPut
  <1>3. ASSUME NEW r \in Entries, NEW to \in Statuses, CreateProfile(r, to)
        PROVE  VerifierIInv' /\ status' = status
    <2>1. RequestSound(r, [at |-> "read", from |-> "none", to |-> to])
      BY DEF RequestSound, canTransition, Changes
    <2>2. QED
      BY <1>1, <1>3, <2>1 DEF CreateProfile, Changes
  <1>4. ASSUME NEW r \in Entries, NEW to \in Statuses \cup {"none"}, ReadProfile(r, to)
        PROVE  VerifierIInv' /\ status' = status
    <2>1. RequestSound(r, [at |-> "read", from |-> status, to |-> to])
      BY <1>4 DEF RequestSound, ReadProfile, Changes
    <2>2. status \in Changes
      BY DEF VerifierIInv
    <2>3. QED
      BY <1>1, <1>4, <2>1, <2>2 DEF ReadProfile, Changes
  <1>5. ASSUME NEW r \in Entries, NEW verdict \in Results, LookUpDecision(r, verdict)
        PROVE  VerifierIInv' /\ status' = status
    <2>1. CASE Decided = {} /\ Becomes(r, "deciding", "none", verdict)
      <3>1. RequestSound(r, [at |-> "deciding", from |-> "none", to |-> verdict])
        BY <2>1 DEF RequestSound
      <3>2. QED
        BY <1>1, <1>5, <2>1, <3>1 DEF LookUpDecision, Changes
    <2>2. CASE Becomes(r, "repeated", verdict, verdict)
      <3>1. RequestSound(r, [at |-> "repeated", from |-> verdict, to |-> verdict])
        BY DEF RequestSound
      <3>2. QED
        BY <1>1, <1>5, <2>2, <3>1 DEF LookUpDecision
    <2>3. QED
      BY <1>5, <2>1, <2>2 DEF LookUpDecision
  <1>6. ASSUME NEW r \in Entries, WriteProfile(r) PROVE VerifierIInv' /\ status' = status
    <2>1. request[r].at = "read" /\ InStage("holding") = {} /\ StaysPut
      BY <1>6 DEF WriteProfile
    <2>2. CASE (request[r].from = "none") = (status = "none")
      <3>1. r \notin outdated => request[r].from = status
        BY <1>0, <2>1, <2>2 DEF RequestSound
      <3>2. RequestSound(r, [request[r] EXCEPT !.at = "holding"])
        BY <1>0, <2>1, <3>1 DEF RequestSound, RequestRow
      <3>3. QED
        BY <1>2, <1>6, <2>1, <2>2, <3>2 DEF WriteProfile
    <2>3. CASE (request[r].from = "none") # (status = "none")
      <3>1. RequestSound(r, [request[r] EXCEPT !.at = "failed"])
        BY <1>0 DEF RequestSound, RequestRow
      <3>2. QED
        BY <1>2, <1>6, <2>1, <2>3, <3>1 DEF WriteProfile
    <2>4. QED
      BY <2>2, <2>3
  <1>7. ASSUME NEW r \in Entries, InsertDecision(r) PROVE VerifierIInv' /\ status' = status
    <2>1. request[r].at = "deciding" /\ StaysPut
      BY <1>7 DEF InsertDecision
    <2>2. RequestSound(r, [request[r] EXCEPT !.at = "added"])
      BY <1>0, <2>1 DEF RequestSound, RequestRow
    <2>3. RequestSound(r, [request[r] EXCEPT !.at = "failed"])
      BY <1>0 DEF RequestSound, RequestRow
    <2>4. QED
      BY <1>2, <1>7, <2>1, <2>2, <2>3 DEF InsertDecision
  <1>8. ASSUME NEW r \in Entries, RollBack(r) PROVE VerifierIInv' /\ status' = status
    <2>1. RequestSound(r, [request[r] EXCEPT !.at = "failed"])
      BY <1>0 DEF RequestSound, RequestRow
    <2>2. QED
      BY <1>2, <1>8, <2>1 DEF RollBack
  <1>9. ASSUME NEW r \in Entries, NEW t \in 0..MaxTime, StampEntry(r, t)
        PROVE  VerifierIInv' /\ status' = status
    BY <1>9, LogMoves DEF StampEntry, AuditNext
  <1>10. ASSUME NEW r \in Entries, CreateAuditLog(r),
                UNCHANGED <<status, decisions, request, outdated>>
         PROVE  VerifierIInv' /\ status' = status
    BY <1>10, LogMoves DEF AuditNext
  <1>11. ASSUME NEW r \in Entries, CommitDecision(r) PROVE VerifierIInv' /\ status' = status
    BY <1>11, CommitDecisionKeeps DEF CommitDecision
  <1>12. QED
    BY <1>3, <1>4, <1>5, <1>6, <1>7, <1>8, <1>9, <1>10, <1>11, CommitProfileKeeps
       DEF VerifierNext

LEMMA VerifierStays ==
    ASSUME VerifierIInv, UNCHANGED <<verifierVars, auditVars>> PROVE VerifierIInv'
  BY LogMoves DEF verifierVars

LEMMA VerifierAlways == VerifierSpec => []VerifierIInv
  BY VerifierInitOK, VerifierStep, VerifierStays, PTL DEF VerifierSpec

\* A target gets a second decision only from a request that had looked before the
\* first was stored, every decision has its audit entry (services/verifiers.ts), and
\* of the rows of the log only those do not verify whose creation overlapped another
\* of their chain, shares its millisecond or had a clock that differed from its
\* (lib/audit-logs.ts).
THEOREM DecisionsAreOnRecord == VerifierSpec => []DecisionsOnRecord
  <1>1. ASSUME VerifierIInv PROVE DecisionsOnRecord
    <2>1. ASSUME NEW e \in Entries, e \in PrevHashMismatches(ChainOf[e]), e \notin overlapped
          PROVE  SameMoment(e)
      <3>1. record[e].at = "stored" /\ record[e].prev # Latest(Earlier(e))
        BY <2>1 DEF PrevHashMismatches, Log, Earlier
      <3>2. QED
        BY <1>1, <2>1, <3>1 DEF VerifierIInv, AuditIInv, AuditSound
    <2>2. QED
      BY <1>1, <2>1 DEF DecisionsOnRecord, ChainVerifies, VerifierIInv
  <1>2. QED
    BY <1>1, VerifierAlways, PTL

\* A profile changes its status only with a stored audit entry that names the status
\* it leaves, and along the matrix, unless a commit has overtaken the request since
\* it had read the profile (services/verifiers.ts).
THEOREM ProfileLogTellsHistory == VerifierSpec => LogTellsHistory
  <1>1. ASSUME VerifierIInv, [VerifierNext]_<<verifierVars, auditVars>>
        PROVE  [status' # status =>
                  \E r \in InStage("holding") :
                      /\ request'[r].at = "done" /\ record[r].at = "stored"
                      /\ r \notin outdated =>
                             request[r].from = status /\ canTransition(status, status')
               ]_<<verifierVars, auditVars>>
    <2> SUFFICES ASSUME VerifierNext, status' # status
                 PROVE  \E r \in InStage("holding") :
                            /\ request'[r].at = "done" /\ record[r].at = "stored"
                            /\ r \notin outdated =>
                                   request[r].from = status /\ canTransition(status, status')
      BY <1>1
    <2>1. PICK r \in Entries : CommitProfile(r)
      BY <1>1, VerifierStep
    <2>2. r \in InStage("holding") /\ record[r].at = "stored"
      BY <2>1 DEF CommitProfile, InStage
    <2>3. QED
      BY <1>1, <2>1, <2>2, CommitProfileKeeps
  <1>2. QED
    BY <1>1, VerifierAlways, PTL DEF VerifierSpec, LogTellsHistory

-----------------------------------------------------------------------------
(* The monitor of suspicious requests *)

ClientState == [requests : SUBSET past, events : SUBSET past, logins : SUBSET past,
                lastAlert : [Patterns -> Nat], lastSeen : Nat]

Requests(ip) == {e \in past : e.ip = ip /\ e.what = "request"}
Responses(ip) == {e \in past : e.ip = ip /\ e.what \in Outcomes}
AlertsOf(ip, p) == {a \in alerted : a.ip = ip /\ a.pattern = p}

\* What is kept of some events, when at least their window is.
Covers(kept, events, window) == kept \subseteq events /\ Since(events, window) \subseteq kept

\* The windows of a client hold what they should, its events are not younger than it
\* was seen, or out of every window; and its alerts not younger than the one it
\* remembers, or past their cooldown.
ClientOK(ip) ==
    /\ Covers(ipStates[ip].requests, Requests(ip), RateWindow)
    /\ Covers(ipStates[ip].events, Responses(ip), SuspiciousWindow)
    /\ Covers(ipStates[ip].logins, Are(Responses(ip), {"login"}), LoginWindow)
    /\ \A e \in past : e.ip = ip => e.ts <= ipStates[ip].lastSeen \/ e.ts + StaleAfter < clock
    /\ \A p \in Patterns :
           /\ ipStates[ip].lastAlert[p] <= ipStates[ip].lastSeen
           /\ ipStates[ip].lastAlert[p] = 0 \/ \E a \in AlertsOf(ip, p) : a.ts = ipStates[ip].lastAlert[p]
           /\ \A a \in AlertsOf(ip, p) : a.ts <= ipStates[ip].lastAlert[p] \/ a.ts + Cooldown <= clock

PastOK ==
    /\ IsFiniteSet(past)
    /\ \A e \in past : /\ e.ip \in Ips /\ e.what \in Outcomes \cup {"request"}
                       /\ e.n \in 1 .. Cardinality(past) /\ e.ts \in Nat /\ e.ts <= clock
    /\ IsFiniteSet(alerted)
    /\ \A a \in alerted : a.ip \in Ips /\ a.pattern \in Patterns /\ a.ts \in Nat /\ a.ts <= clock

MonitorIInv ==
    /\ clock \in Nat /\ clock >= Cooldown
    /\ PastOK
    /\ ipStates \in [Ips -> ClientState]
    /\ \A ip \in Ips : ClientOK(ip)
    /\ refused \in Nat /\ alerts \in [Patterns -> Nat]
    /\ ForgettingChangesNothing

LEMMA LargestOfThree ==
    ASSUME NEW a \in Nat, NEW b \in Nat, NEW c \in Nat
    PROVE  /\ Max({a, b, c}) \in Nat
           /\ a <= Max({a, b, c}) /\ b <= Max({a, b, c}) /\ c <= Max({a, b, c})
  <1> DEFINE S == {a, b, c}
             good(x) == x \in S /\ \A y \in S : x >= y
  <1>1. \E x : good(x)
    <2>1. CASE a >= b /\ a >= c
      <3>1. good(a) BY <2>1
      <3>2. QED BY <3>1
    <2>2. CASE b >= a /\ b >= c
      <3>1. good(b) BY <2>2
      <3>2. QED BY <3>1
    <2>3. CASE c >= a /\ c >= b
      <3>1. good(c) BY <2>3
      <3>2. QED BY <3>1
    <2>4. QED BY <2>1, <2>2, <2>3
  <1>2. good(Max(S))
    BY <1>1 DEF Max
  <1>3. QED BY <1>2

\* A client is forgotten only when every window and every cooldown has passed.
LEMMA Stale ==
    /\ StaleAfter \in Nat
    /\ RateWindow \in Nat \ {0} /\ SuspiciousWindow \in Nat \ {0} /\ LoginWindow \in Nat \ {0}
    /\ Cooldown \in Nat \ {0}
    /\ RateWindow + Cooldown <= StaleAfter /\ SuspiciousWindow + Cooldown <= StaleAfter
    /\ LoginWindow + Cooldown <= StaleAfter
  <1> DEFINE m == Max({RateWindow, SuspiciousWindow, LoginWindow})
  <1>1. /\ RateWindow \in Nat \ {0} /\ SuspiciousWindow \in Nat \ {0} /\ LoginWindow \in Nat \ {0}
        /\ Cooldown \in Nat \ {0}
    BY MonitorAssumption
  <1>2. m \in Nat /\ RateWindow <= m /\ SuspiciousWindow <= m /\ LoginWindow <= m
    BY <1>1, LargestOfThree
  <1>3. StaleAfter = m + Cooldown
    BY DEF StaleAfter
  <1> HIDE DEF m
  <1>4. QED
    BY <1>1, <1>2, <1>3

-----------------------------------------------------------------------------
\* A new event is one more, and of its client.
LEMMA NewEvent ==
    ASSUME PastOK, clock \in Nat, NEW ip \in Ips, NEW what \in Outcomes \cup {"request"},
           past' = past \cup {Event(ip, what)}
    PROVE  /\ Event(ip, what) \notin past
           /\ Event(ip, what).ip = ip /\ Event(ip, what).what = what /\ Event(ip, what).ts = clock
           /\ IsFiniteSet(past') /\ Cardinality(past') = Cardinality(past) + 1
           /\ Event(ip, what).n = Cardinality(past')
           /\ \A e \in past : e.n < Cardinality(past')
           /\ \A e \in past' : /\ e.ip \in Ips /\ e.what \in Outcomes \cup {"request"}
                               /\ e.n \in 1 .. Cardinality(past') /\ e.ts \in Nat /\ e.ts <= clock
  <1> DEFINE c == Cardinality(past)
             event == Event(ip, what)
  <1>1. c \in Nat
    BY FS_CardinalityType DEF PastOK
  <1>2. event.ip = ip /\ event.what = what /\ event.ts = clock /\ event.n = c + 1
    BY DEF Event
  <1>3. \A e \in past : e.n \in 1 .. c
    BY DEF PastOK
  <1>4. event \notin past
    <2> SUFFICES ASSUME event \in past PROVE FALSE
      OBVIOUS
    <2>1. event.n \in 1 .. c
      BY <1>3
    <2> HIDE DEF c, event
    <2>2. QED
      BY <1>1, <1>2, <2>1
  <1>5. IsFiniteSet(past') /\ Cardinality(past') = c + 1
    <2>1. IsFiniteSet(past) /\ past' = past \cup {event}
      BY DEF PastOK
    <2> HIDE DEF event
    <2>2. QED
      BY <1>4, <2>1, FS_AddElement
  <1>6. \A e \in past : e.ip \in Ips /\ e.what \in Outcomes \cup {"request"} /\ e.ts \in Nat /\ e.ts <= clock
    BY DEF PastOK
  <1>7. past' = past \cup {event}
    OBVIOUS
  <1> HIDE DEF c, event
  <1>8. \A e \in past' : /\ e.ip \in Ips /\ e.what \in Outcomes \cup {"request"}
                         /\ e.n \in 1 .. c + 1 /\ e.ts \in Nat /\ e.ts <= clock
    <2> TAKE e \in past'
    <2>1. CASE e \in past
      BY <1>1, <1>3, <1>6, <2>1
    <2>2. CASE e = event
      BY <1>1, <1>2, <2>2
    <2>3. QED
      BY <1>7, <2>1, <2>2
  <1>9. \A e \in past : e.n < c + 1
    BY <1>1, <1>3
  <1>10. QED
    BY <1>2, <1>4, <1>5, <1>8, <1>9 DEF event, c

\* Pruning leaves what is in the window, so that what was covered is there exactly.
LEMMA Pruned ==
    ASSUME NEW kept, NEW events, NEW window, Covers(kept, events, window)
    PROVE  Since(kept, window) = Since(events, window)
  BY DEF Covers, Since

LEMMA CoverShrinks ==
    ASSUME NEW kept, NEW events, NEW window \in Nat, Covers(kept, events, window),
           clock \in Nat, clock' \in Nat, clock' >= clock, \A e \in events : e.ts \in Nat
    PROVE  /\ kept \subseteq events /\ Since(kept, window) \subseteq events
           /\ \A e \in events : e.ts + window >= clock' => e \in kept /\ e \in Since(kept, window)
  <1>1. kept \subseteq events /\ Since(events, window) \subseteq kept
    BY DEF Covers
  <1>2. ASSUME NEW e \in events, e.ts + window >= clock' PROVE e \in kept /\ e \in Since(kept, window)
    <2>1. e.ts \in Nat
      OBVIOUS
    <2>2. e.ts + window >= clock
      BY <1>2, <2>1
    <2>3. QED
      BY <1>1, <2>2 DEF Since
  <1>3. QED
    BY <1>1, <1>2 DEF Since

\* A new event in a window that is counted exactly.
LEMMA CoverGrows ==
    ASSUME NEW kept, NEW events, NEW window \in Nat, Covers(kept, events, window), NEW event,
           clock \in Nat, event.ts = clock
    PROVE  /\ Since(kept, window) \cup {event} \subseteq events \cup {event}
           /\ \A e \in events \cup {event} :
                  e.ts + window >= clock => e \in Since(kept, window) \cup {event}
           /\ Since(kept, window) \cup {event} = Since(events \cup {event}, window)
  <1>1. kept \subseteq events /\ Since(events, window) \subseteq kept
    BY DEF Covers
  <1>2. event.ts + window >= clock
    OBVIOUS
  <1>3. Since(kept, window) \cup {event} = {e \in events \cup {event} : e.ts + window >= clock}
    BY <1>1, <1>2 DEF Since
  <1>4. QED
    BY <1>3 DEF Since

\* A client to whom nothing happens, except that it is pruned, or forgotten.
LEMMA ClientStays ==
    ASSUME clock \in Nat, clock >= Cooldown, PastOK, NEW ip \in Ips, ipStates[ip] \in ClientState, ClientOK(ip),
           clock' \in Nat, clock' >= clock,
           past \subseteq past', \A e \in past' : e.ip = ip => e \in past,
           alerted \subseteq alerted', \A a \in alerted' : a.ip = ip => a \in alerted,
           \/ ipStates'[ip] = ipStates[ip]
           \/ ipStates'[ip] = PruneState(ipStates[ip])
           \/ ipStates'[ip] = Unknown /\ clock' > ipStates[ip].lastSeen + StaleAfter
    PROVE  ipStates'[ip] \in ClientState' /\ ClientOK(ip)'
  <1> DEFINE s == ipStates[ip]
             t == ipStates'[ip]
  <1>1. /\ s.requests \subseteq past /\ s.events \subseteq past /\ s.logins \subseteq past
        /\ s.lastAlert \in [Patterns -> Nat] /\ s.lastSeen \in Nat
        /\ s = [requests |-> s.requests, events |-> s.events, logins |-> s.logins,
                lastAlert |-> s.lastAlert, lastSeen |-> s.lastSeen]
    BY DEF ClientState
  <1>2. \A e \in past : e.ts \in Nat
    BY DEF PastOK
  <1>3. \A a \in alerted : a.ts \in Nat
    BY DEF PastOK
  <1>4. Requests(ip)' = Requests(ip) /\ Responses(ip)' = Responses(ip)
    BY DEF Requests, Responses
  <1>5. Are(Responses(ip), {"login"})' = Are(Responses(ip), {"login"})
    BY <1>4 DEF Are
  <1>6. \A p \in Patterns : AlertsOf(ip, p)' = AlertsOf(ip, p)
    BY DEF AlertsOf
  <1>7. /\ Covers(s.requests, Requests(ip), RateWindow)
        /\ Covers(s.events, Responses(ip), SuspiciousWindow)
        /\ Covers(s.logins, Are(Responses(ip), {"login"}), LoginWindow)
        /\ \A e \in past : e.ip = ip => e.ts <= s.lastSeen \/ e.ts + StaleAfter < clock
        /\ \A p \in Patterns :
              /\ s.lastAlert[p] <= s.lastSeen
              /\ s.lastAlert[p] = 0 \/ \E a \in AlertsOf(ip, p) : a.ts = s.lastAlert[p]
              /\ \A a \in AlertsOf(ip, p) : a.ts <= s.lastAlert[p] \/ a.ts + Cooldown <= clock
    BY DEF ClientOK
  <1>8. /\ \A e \in Requests(ip) : e.ts \in Nat /\ e \in past /\ e.ip = ip
        /\ \A e \in Responses(ip) : e.ts \in Nat /\ e \in past /\ e.ip = ip
        /\ \A e \in Are(Responses(ip), {"login"}) : e.ts \in Nat /\ e \in past /\ e.ip = ip
    BY <1>2 DEF Requests, Responses, Are
  <1> HIDE DEF s
  <1>9. CASE t = s \/ t = PruneState(s)
    <2>1. /\ t.lastAlert = s.lastAlert /\ t.lastSeen = s.lastSeen
          /\ t.requests = s.requests \/ t.requests = Since(s.requests, RateWindow)
          /\ t.events = s.events \/ t.events = Since(s.events, SuspiciousWindow)
          /\ t.logins = s.logins \/ t.logins = Since(s.logins, LoginWindow)
          /\ t = [requests |-> t.requests, events |-> t.events, logins |-> t.logins,
                  lastAlert |-> t.lastAlert, lastSeen |-> t.lastSeen]
      <3> HIDE DEF t
      <3>1. CASE t = s
        BY <1>1, <3>1
      <3>2. CASE t = PruneState(s)
        <4>1. t = [requests |-> Since(s.requests, RateWindow), events |-> Since(s.events, SuspiciousWindow),
                   logins |-> Since(s.logins, LoginWindow), lastAlert |-> s.lastAlert, lastSeen |-> s.lastSeen]
          BY <1>1, <3>2 DEF PruneState
        <4>2. QED
          BY <4>1
      <3>3. QED
        BY <1>9, <3>1, <3>2
    <2>2. /\ t.requests \subseteq Requests(ip)
          /\ \A e \in Requests(ip) : e.ts + RateWindow >= clock' => e \in t.requests
      BY <1>7, <1>8, <2>1, Stale, CoverShrinks
    <2>3. /\ t.events \subseteq Responses(ip)
          /\ \A e \in Responses(ip) : e.ts + SuspiciousWindow >= clock' => e \in t.events
      BY <1>7, <1>8, <2>1, Stale, CoverShrinks
    <2>4. /\ t.logins \subseteq Are(Responses(ip), {"login"})
          /\ \A e \in Are(Responses(ip), {"login"}) : e.ts + LoginWindow >= clock' => e \in t.logins
      BY <1>7, <1>8, <2>1, Stale, CoverShrinks
    <2>5. t \in ClientState'
      <3>1. t.requests \subseteq past' /\ t.events \subseteq past' /\ t.logins \subseteq past'
        BY <1>8, <2>2, <2>3, <2>4
      <3>2. t.lastAlert \in [Patterns -> Nat] /\ t.lastSeen \in Nat
        BY <1>1, <2>1
      <3> HIDE DEF t
      <3>3. QED
        BY <2>1, <3>1, <3>2 DEF ClientState
    <2>6. /\ Covers(ipStates[ip].requests, Requests(ip), RateWindow)'
          /\ Covers(ipStates[ip].events, Responses(ip), SuspiciousWindow)'
          /\ Covers(ipStates[ip].logins, Are(Responses(ip), {"login"}), LoginWindow)'
      BY <1>4, <1>5, <2>2, <2>3, <2>4 DEF Covers, Since
    <2>7. \A e \in past' : e.ip = ip => e.ts <= t.lastSeen \/ e.ts + StaleAfter < clock'
      BY <1>2, <1>7, <2>1, Stale
    <2>8. ASSUME NEW p \in Patterns
          PROVE  /\ t.lastAlert[p] <= t.lastSeen
                 /\ t.lastAlert[p] = 0 \/ \E a \in AlertsOf(ip, p)' : a.ts = t.lastAlert[p]
                 /\ \A a \in AlertsOf(ip, p)' : a.ts <= t.lastAlert[p] \/ a.ts + Cooldown <= clock'
      <3>1. AlertsOf(ip, p)' = AlertsOf(ip, p) /\ \A a \in AlertsOf(ip, p) : a.ts \in Nat
        BY <1>3, <1>6 DEF AlertsOf
      <3>2. t.lastAlert = s.lastAlert /\ t.lastSeen = s.lastSeen
        BY <2>1
      <3> HIDE DEF t
      <3>3. QED
        BY <1>7, <3>1, <3>2, Stale
    <2>9. QED
      BY <2>5, <2>6, <2>7, <2>8 DEF ClientOK
  <1>10. CASE t = Unknown /\ clock' > s.lastSeen + StaleAfter
    <2>1. /\ t.requests = {} /\ t.events = {} /\ t.logins = {} /\ t.lastSeen = 0
          /\ t.lastAlert \in [Patterns -> Nat] /\ \A p \in Patterns : t.lastAlert[p] = 0
          /\ t = [requests |-> t.requests, events |-> t.events, logins |-> t.logins,
                  lastAlert |-> t.lastAlert, lastSeen |-> t.lastSeen]
      BY <1>10 DEF Unknown
    <2>2. t \in ClientState'
      <3> HIDE DEF t
      <3>1. QED
        BY <2>1 DEF ClientState
    <2>3. \A e \in past' : e.ip = ip => e \in past /\ e.ts \in Nat /\ e.ts + StaleAfter < clock'
      BY <1>1, <1>2, <1>7, <1>10, Stale
    <2>4. /\ \A e \in Requests(ip) : ~(e.ts + RateWindow >= clock')
          /\ \A e \in Responses(ip) : ~(e.ts + SuspiciousWindow >= clock')
          /\ \A e \in Are(Responses(ip), {"login"}) : ~(e.ts + LoginWindow >= clock')
      <3>1. ASSUME NEW e \in past, e.ip = ip
            PROVE  /\ ~(e.ts + RateWindow >= clock') /\ ~(e.ts + SuspiciousWindow >= clock')
                   /\ ~(e.ts + LoginWindow >= clock')
        BY <2>3, <3>1, Stale
      <3>2. QED
        BY <1>8, <3>1
    <2>5. /\ Covers(ipStates[ip].requests, Requests(ip), RateWindow)'
          /\ Covers(ipStates[ip].events, Responses(ip), SuspiciousWindow)'
          /\ Covers(ipStates[ip].logins, Are(Responses(ip), {"login"}), LoginWindow)'
      BY <1>4, <1>5, <2>1, <2>4 DEF Covers, Since
    <2>6. ASSUME NEW p \in Patterns
          PROVE  /\ t.lastAlert[p] <= t.lastSeen /\ t.lastAlert[p] = 0
                 /\ \A a \in AlertsOf(ip, p)' : a.ts + Cooldown <= clock'
      <3>1. AlertsOf(ip, p)' = AlertsOf(ip, p) /\ \A a \in AlertsOf(ip, p) : a.ts \in Nat
        BY <1>3, <1>6 DEF AlertsOf
      <3>2. s.lastAlert[p] \in Nat
        BY <1>1
      <3>3. \A a \in AlertsOf(ip, p) : a.ts + Cooldown <= clock'
        BY <1>1, <1>7, <1>10, <3>1, <3>2, Stale
      <3>4. QED
        BY <2>1, <3>1, <3>3
    <2>7. QED
      BY <2>2, <2>3, <2>5, <2>6 DEF ClientOK
  <1>11. QED
    BY <1>9, <1>10 DEF s

\* A client who has just been seen.
LEMMA ClientActs ==
    ASSUME clock \in Nat, clock >= Cooldown, PastOK, NEW ip \in Ips, ipStates[ip] \in ClientState, ClientOK(ip),
           clock' = clock, PastOK', past \subseteq past',
           NEW R, NEW E, NEW L, NEW A \in [Patterns -> Nat],
           ipStates'[ip] = [requests |-> R, events |-> E, logins |-> L, lastAlert |-> A, lastSeen |-> clock],
           R \subseteq Requests(ip)',
           \A e \in Requests(ip)' : e.ts + RateWindow >= clock => e \in R,
           E \subseteq Responses(ip)',
           \A e \in Responses(ip)' : e.ts + SuspiciousWindow >= clock => e \in E,
           L \subseteq Are(Responses(ip), {"login"})',
           \A e \in Are(Responses(ip), {"login"})' : e.ts + LoginWindow >= clock => e \in L,
           \A p \in Patterns :
               \/ A[p] = ipStates[ip].lastAlert[p] /\ AlertsOf(ip, p)' = AlertsOf(ip, p)
               \/ A[p] = clock /\ \E a \in AlertsOf(ip, p)' : a.ts = clock
    PROVE  ipStates'[ip] \in ClientState' /\ ClientOK(ip)'
  <1>1. /\ ipStates'[ip].requests = R /\ ipStates'[ip].events = E /\ ipStates'[ip].logins = L
        /\ ipStates'[ip].lastAlert = A /\ ipStates'[ip].lastSeen = clock
    OBVIOUS
  <1>2. /\ \A e \in past' : e.ts \in Nat /\ e.ts <= clock
        /\ \A a \in alerted : a.ts \in Nat /\ a.ts <= clock
        /\ \A a \in alerted' : a.ts \in Nat /\ a.ts <= clock
    BY DEF PastOK
  <1>3. ipStates'[ip] \in ClientState'
    <2>1. R \subseteq past' /\ E \subseteq past' /\ L \subseteq past'
      BY DEF Requests, Responses, Are
    <2>2. QED
      BY <2>1 DEF ClientState
  <1>4. /\ Covers(ipStates[ip].requests, Requests(ip), RateWindow)'
        /\ Covers(ipStates[ip].events, Responses(ip), SuspiciousWindow)'
        /\ Covers(ipStates[ip].logins, Are(Responses(ip), {"login"}), LoginWindow)'
    BY <1>1 DEF Covers, Since
  <1>5. ASSUME NEW p \in Patterns
        PROVE  /\ A[p] <= clock
               /\ A[p] = 0 \/ \E a \in AlertsOf(ip, p)' : a.ts = A[p]
               /\ \A a \in AlertsOf(ip, p)' : a.ts <= A[p] \/ a.ts + Cooldown <= clock
    <2>1. CASE A[p] = clock /\ \E a \in AlertsOf(ip, p)' : a.ts = clock
      BY <1>2, <2>1 DEF AlertsOf
    <2>2. CASE A[p] = ipStates[ip].lastAlert[p] /\ AlertsOf(ip, p)' = AlertsOf(ip, p)
      <3>1. /\ A[p] = 0 \/ \E a \in AlertsOf(ip, p) : a.ts = A[p]
            /\ \A a \in AlertsOf(ip, p) : a.ts <= A[p] \/ a.ts + Cooldown <= clock
        BY <2>2 DEF ClientOK
      <3>2. \A a \in AlertsOf(ip, p) : a.ts <= clock
        BY <1>2 DEF AlertsOf
      <3>3. A[p] <= clock
        BY <3>1, <3>2
      <3>4. QED
        BY <2>2, <3>1, <3>3
    <2>3. QED
      BY <2>1, <2>2
  <1>6. \A e \in past' : e.ip = ip => e.ts <= clock
    BY <1>2
  <1>7. QED
    BY <1>1, <1>3, <1>4, <1>5, <1>6 DEF ClientOK

\* What happens to a client moves the requests and results of that client only.
LEMMA Happened ==
    ASSUME PastOK, clock \in Nat, NEW ip \in Ips, NEW what \in Outcomes \cup {"request"},
           past' = past \cup {Event(ip, what)}
    PROVE  /\ Requests(ip)' = IF what = "request" THEN Requests(ip) \cup {Event(ip, what)} ELSE Requests(ip)
           /\ Responses(ip)' = IF what = "request" THEN Responses(ip) ELSE Responses(ip) \cup {Event(ip, what)}
           /\ Are(Responses(ip), {"login"})' =
                  IF what = "login" THEN Are(Responses(ip), {"login"}) \cup {Event(ip, what)}
                  ELSE Are(Responses(ip), {"login"})
           /\ \A j \in Ips \ {ip} : \A e \in past' : e.ip = j => e \in past
  <1> DEFINE event == Event(ip, what)
  <1>1. event.ip = ip /\ event.what = what
    BY DEF Event
  <1>2. past' = past \cup {event}
    OBVIOUS
  <1>3. "request" \notin Outcomes /\ "login" \in Outcomes /\ "login" # "request"
    BY DEF Outcomes
  <1> HIDE DEF event
  <1>4. Requests(ip)' = {e \in past \cup {event} : e.ip = ip /\ e.what = "request"}
    BY <1>2 DEF Requests
  <1>5. Responses(ip)' = {e \in past \cup {event} : e.ip = ip /\ e.what \in Outcomes}
    BY <1>2 DEF Responses
  <1>6. Are(Responses(ip), {"login"})' = {e \in past \cup {event} : e.ip = ip /\ e.what = "login"}
    BY <1>3, <1>5 DEF Are
  <1>7. Are(Responses(ip), {"login"}) = {e \in past : e.ip = ip /\ e.what = "login"}
    BY <1>3 DEF Are, Responses
  <1>8. Requests(ip)' = IF what = "request" THEN Requests(ip) \cup {event} ELSE Requests(ip)
    BY <1>1, <1>4 DEF Requests
  <1>9. Responses(ip)' = IF what = "request" THEN Responses(ip) ELSE Responses(ip) \cup {event}
    BY <1>1, <1>3, <1>5 DEF Responses
  <1>10. Are(Responses(ip), {"login"})' =
             IF what = "login" THEN Are(Responses(ip), {"login"}) \cup {event}
             ELSE Are(Responses(ip), {"login"})
    BY <1>1, <1>6, <1>7
  <1>11. \A j \in Ips \ {ip} : \A e \in past' : e.ip = j => e \in past
    BY <1>1, <1>2
  <1>12. QED
    BY <1>8, <1>9, <1>10, <1>11 DEF event

-----------------------------------------------------------------------------
\* The requests of e's client, up to e, that were in its window.
CameWith(e) ==
    {f \in Are(past, {"request"}) : /\ f.ip = e.ip /\ f.n <= e.n
                                    /\ f.ts + RateWindow >= e.ts}

\* One more event changes nothing of the requests that came before; whether it is itself
\* one too many is counted in the window of its client.
LEMMA RequestsCounted ==
    ASSUME PastOK, clock \in Nat, NEW ip \in Ips, NEW what \in Outcomes \cup {"request"},
           past' = past \cup {Event(ip, what)}, refused \in Nat, refused = Cardinality(TooMany)
    PROVE  /\ what # "request" => refused = Cardinality(TooMany')
           /\ what = "request" =>
                 IF Cardinality(Since(Requests(ip) \cup {Event(ip, what)}, RateWindow)) > RateMax
                 THEN refused + 1 = Cardinality(TooMany') ELSE refused = Cardinality(TooMany')
  <1> DEFINE n == Cardinality(past)
  <1>0. PICK event : event = Event(ip, what)
    OBVIOUS
  <1>1. event.ip = ip /\ event.what = what /\ event.ts = clock /\ event.n = n + 1
    BY <1>0 DEF Event
  <1>2. past' = past \cup {event} /\ event \notin past
    BY <1>0, NewEvent
  <1>3. n \in Nat /\ \A e \in past : e.n \in 1 .. n /\ e.ts \in Nat
    BY FS_CardinalityType DEF PastOK
  <1> HIDE DEF n
  <1>4. /\ event.n \in Nat /\ \A e \in past : e.n \in Nat /\ e.n <= event.n /\ ~(event.n <= e.n)
    BY <1>1, <1>3
  <1>5. ASSUME NEW e \in past PROVE CameWith(e)' = CameWith(e)
    <2>1. CameWith(e) = {f \in past : /\ f.what = "request" /\ f.ip = e.ip /\ f.n <= e.n
                                      /\ f.ts + RateWindow >= e.ts}
      BY DEF CameWith, Are
    <2>2. CameWith(e)' = {f \in past \cup {event} : /\ f.what = "request" /\ f.ip = e.ip /\ f.n <= e.n
                                                     /\ f.ts + RateWindow >= e.ts}
      BY <1>2 DEF CameWith, Are
    <2>3. ~(event.n <= e.n)
      BY <1>4
    <2>4. ASSUME NEW f PROVE f \in CameWith(e)' <=> f \in CameWith(e)
      <3>1. CASE f = event
        BY ONLY <1>2, <2>1, <2>2, <2>3, <3>1
      <3>2. CASE f # event
        BY ONLY <2>1, <2>2, <3>2
      <3>3. QED
        BY <3>1, <3>2
    <2>5. CameWith(e)' \subseteq past \cup {event} /\ CameWith(e) \subseteq past
      BY ONLY <2>1, <2>2
    <2>6. QED
      BY ONLY <2>4, <2>5
  <1>6. ASSUME what = "request"
        PROVE  CameWith(event)' = Since(Requests(ip) \cup {event}, RateWindow)
    <2>1. CameWith(event)' = {f \in past \cup {event} : f.what = "request" /\ f.ip = ip /\ f.n <= event.n
                                                      /\ f.ts + RateWindow >= clock}
      BY <1>1, <1>2 DEF CameWith, Are
    <2>2. Since(Requests(ip) \cup {event}, RateWindow) =
              {f \in past \cup {event} : f.what = "request" /\ f.ip = ip /\ f.ts + RateWindow >= clock}
      BY <1>1, <1>6 DEF Since, Requests
    <2>3. \A f \in past \cup {event} : f.n <= event.n
      BY <1>4
    <2>4. QED
      BY <2>1, <2>2, <2>3
  <1>7. TooMany = {e \in past : e.what = "request" /\ Cardinality(CameWith(e)) > RateMax}
    BY DEF TooMany, CameWith, Are
  <1>8. TooMany' = {e \in past' : e.what = "request" /\ Cardinality(CameWith(e)') > RateMax}
    BY DEF TooMany, CameWith, Are
  <1>9. event \notin TooMany /\ IsFiniteSet(TooMany)
    BY <1>2, <1>7, FS_Subset DEF PastOK
  <1>10. CASE what # "request"
    <2>1. TooMany' = TooMany
      BY <1>1, <1>2, <1>5, <1>7, <1>8, <1>10
    <2>2. QED
      BY <1>10, <2>1
  <1>11. CASE what = "request"
    <2> DEFINE Excess == Cardinality(Since(Requests(ip) \cup {event}, RateWindow)) > RateMax
    <2>1. /\ \A e \in past : e \in TooMany' <=> e \in TooMany
          /\ event \in TooMany' <=> Excess
      <3>1. \A e \in past : Cardinality(CameWith(e)') = Cardinality(CameWith(e))
        BY <1>5
      <3>2. Cardinality(CameWith(event)') > RateMax <=> Excess
        BY <1>6, <1>11
      <3> HIDE DEF Excess
      <3>3. \A e \in past : e \in TooMany' <=> e \in TooMany
        <4>1. ASSUME NEW e \in past PROVE e \in TooMany' <=> e \in TooMany
          <5>1. e \in TooMany <=> e.what = "request" /\ Cardinality(CameWith(e)) > RateMax
            BY ONLY <1>7
          <5>2. e \in past'
            BY ONLY <1>2
          <5>3. e \in TooMany' <=> e.what = "request" /\ Cardinality(CameWith(e)') > RateMax
            BY ONLY <1>8, <5>2
          <5>4. QED
            BY ONLY <3>1, <5>1, <5>3
        <4>2. QED
          BY <4>1
      <3>4. event \in past' /\ event.what = "request"
        BY <1>1, <1>2, <1>11
      <3>5. event \in TooMany' <=> Excess
        BY ONLY <1>8, <3>2, <3>4
      <3>6. QED
        BY <3>3, <3>5
    <2>2. TooMany \subseteq past /\ TooMany' \subseteq past \cup {event}
      BY <1>2, <1>7, <1>8
    <2>3. CASE Cardinality(Since(Requests(ip) \cup {event}, RateWindow)) > RateMax
      <3>1. TooMany' = TooMany \cup {event}
        BY <2>1, <2>2, <2>3
      <3>2. Cardinality(TooMany \cup {event}) = Cardinality(TooMany) + 1
        BY <1>9, FS_AddElement
      <3>3. QED
        BY <1>0, <1>11, <2>3, <3>1, <3>2
    <2>4. CASE ~(Cardinality(Since(Requests(ip) \cup {event}, RateWindow)) > RateMax)
      <3>1. TooMany' = TooMany
        BY <2>1, <2>2, <2>4
      <3>2. QED
        BY <1>0, <1>11, <2>4, <3>1
    <2>5. QED
      BY <2>3, <2>4
  <1>12. QED
    BY <1>0, <1>10, <1>11

-----------------------------------------------------------------------------
\* A client's remembered alert says of the cooldown what all of its alerts say.
LEMMA CooledIsDue ==
    ASSUME clock \in Nat, clock >= Cooldown, PastOK, NEW ip \in Ips, ipStates[ip] \in ClientState, ClientOK(ip),
           NEW p \in Patterns
    PROVE  clock >= ipStates[ip].lastAlert[p] + Cooldown <=>
               \A a \in alerted : a.ip = ip /\ a.pattern = p => clock >= a.ts + Cooldown
  <1> DEFINE latest == ipStates[ip].lastAlert[p]
  <1>1. latest \in Nat
    BY DEF ClientState
  <1>2. /\ latest = 0 \/ \E a \in AlertsOf(ip, p) : a.ts = latest
        /\ \A a \in AlertsOf(ip, p) : a.ts <= latest \/ a.ts + Cooldown <= clock
    BY DEF ClientOK
  <1>3. \A a \in alerted : a.ts \in Nat
    BY DEF PastOK
  <1>4. \A a : a \in AlertsOf(ip, p) <=> a \in alerted /\ a.ip = ip /\ a.pattern = p
    BY DEF AlertsOf
  <1> HIDE DEF latest
  <1>5. ASSUME clock >= latest + Cooldown, NEW a \in alerted, a.ip = ip, a.pattern = p
        PROVE  clock >= a.ts + Cooldown
    BY <1>1, <1>2, <1>3, <1>4, <1>5, Stale
  <1>6. ASSUME \A a \in alerted : a.ip = ip /\ a.pattern = p => clock >= a.ts + Cooldown
        PROVE  clock >= latest + Cooldown
    <2>1. CASE latest = 0
      BY <2>1, Stale
    <2>2. CASE \E a \in AlertsOf(ip, p) : a.ts = latest
      BY <1>4, <1>6, <2>2
    <2>3. QED
      BY <1>2, <2>1, <2>2
  <1>7. QED
    BY <1>5, <1>6 DEF latest

\* Each alert that is due is a new one of its pattern.
LEMMA AlertsCounted ==
    ASSUME clock \in Nat, PastOK, NEW ip \in Ips, NEW D \in SUBSET Patterns,
           \A p \in D : \A a \in alerted : a.ip = ip /\ a.pattern = p => clock >= a.ts + Cooldown,
           alerted' = alerted \cup {[ip |-> ip, pattern |-> p, ts |-> clock] : p \in D},
           alerts \in [Patterns -> Nat],
           alerts' = [p \in Patterns |-> IF p \in D THEN alerts[p] + 1 ELSE alerts[p]],
           \A p \in Patterns : alerts[p] = Cardinality({a \in alerted : a.pattern = p})
    PROVE  /\ alerts' \in [Patterns -> Nat]
           /\ \A p \in Patterns : alerts'[p] = Cardinality({a \in alerted' : a.pattern = p})
           /\ IsFiniteSet(alerted')
           /\ \A a \in alerted' : a.ip \in Ips /\ a.pattern \in Patterns /\ a.ts \in Nat /\ a.ts <= clock
  <1> DEFINE new(p) == [ip |-> ip, pattern |-> p, ts |-> clock]
             N == {new(p) : p \in D}
             f == [p \in D |-> new(p)]
  <1>1. \A p \in D : new(p) \notin alerted
    <2> SUFFICES ASSUME NEW p \in D, new(p) \in alerted PROVE FALSE
      OBVIOUS
    <2>1. clock >= new(p).ts + Cooldown /\ new(p).ts = clock
      OBVIOUS
    <2>2. QED
      BY <2>1, Stale
  <1>2. IsFiniteSet(D)
    <2>1. IsFiniteSet({"endpoint_scan"})
      BY FS_Singleton
    <2>2. IsFiniteSet({"endpoint_scan"} \cup {"high_volume"})
      BY <2>1, FS_AddElement
    <2>3. IsFiniteSet({"endpoint_scan"} \cup {"high_volume"} \cup {"repeated_bad_requests"})
      BY <2>2, FS_AddElement
    <2>4. IsFiniteSet({"endpoint_scan"} \cup {"high_volume"} \cup {"repeated_bad_requests"}
                          \cup {"failed_login_burst"})
      BY <2>3, FS_AddElement
    <2>5. D \subseteq {"endpoint_scan"} \cup {"high_volume"} \cup {"repeated_bad_requests"}
                          \cup {"failed_login_burst"}
      BY DEF Patterns
    <2>6. QED
      BY <2>4, <2>5, FS_Subset
  <1>3. IsFiniteSet(N)
    <2>1. f \in Surjection(D, N)
      BY DEF Surjection
    <2> HIDE DEF f, N
    <2>2. QED
      BY <1>2, <2>1, FS_Surjection
  <1>4. IsFiniteSet(alerted')
    <2>1. IsFiniteSet(alerted) /\ alerted' = alerted \cup N
      BY DEF PastOK
    <2> HIDE DEF N
    <2>2. QED
      BY ONLY <1>3, <2>1, FS_Union
  <1>5. \A a \in alerted' : a.ip \in Ips /\ a.pattern \in Patterns /\ a.ts \in Nat /\ a.ts <= clock
    <2>1. \A a \in alerted : a.ip \in Ips /\ a.pattern \in Patterns /\ a.ts \in Nat /\ a.ts <= clock
      BY DEF PastOK
    <2>2. \A a \in N : a.ip \in Ips /\ a.pattern \in Patterns /\ a.ts \in Nat /\ a.ts <= clock
      <3>1. \A p \in D : new(p).ip \in Ips /\ new(p).pattern \in Patterns /\ new(p).ts \in Nat /\ new(p).ts <= clock
        OBVIOUS
      <3> HIDE DEF new
      <3>2. QED
        BY <3>1
    <2>3. alerted' = alerted \cup N
      OBVIOUS
    <2> HIDE DEF N
    <2>4. QED
      BY <2>1, <2>2, <2>3
  <1>6. alerts' \in [Patterns -> Nat]
    OBVIOUS
  <1>7. ASSUME NEW p \in Patterns
        PROVE  alerts'[p] = Cardinality({a \in alerted' : a.pattern = p})
    <2> DEFINE A == {a \in alerted : a.pattern = p}
    <2>1. IsFiniteSet(A) /\ alerts[p] = Cardinality(A)
      BY FS_Subset DEF PastOK
    <2>2. CASE p \in D
      <3>1. {a \in alerted' : a.pattern = p} = A \cup {new(p)}
        <4>1. alerted' = alerted \cup N /\ new(p) \in N /\ new(p).pattern = p
          BY <2>2
        <4>2. \A a \in N : a.pattern = p => a = new(p)
          OBVIOUS
        <4> HIDE DEF N, new
        <4>3. QED
          BY <4>1, <4>2
      <3>2. new(p) \notin A /\ alerts'[p] = alerts[p] + 1
        BY <1>1, <2>2
      <3> HIDE DEF A, new
      <3>3. QED
        BY ONLY <2>1, <3>1, <3>2, FS_AddElement
    <2>3. CASE p \notin D
      <3>1. {a \in alerted' : a.pattern = p} = A
        BY <2>3
      <3>2. alerts'[p] = alerts[p]
        BY <2>3
      <3>3. QED
        BY <2>1, <3>1, <3>2
    <2>4. QED
      BY <2>2, <2>3
  <1>8. QED
    BY <1>4, <1>5, <1>6, <1>7

-----------------------------------------------------------------------------
\* The clock and the snapshots, which prune every client.
LEMMA NothingHappens ==
    ASSUME MonitorIInv, clock' \in Nat, clock' >= clock, UNCHANGED <<refused, alerts, past, alerted>>,
           \/ ipStates' = ipStates
           \/ ipStates' = [ip \in Ips |-> PruneState(ipStates[ip])]
    PROVE  MonitorIInv'
  <1>1. /\ clock \in Nat /\ clock >= Cooldown /\ PastOK /\ ipStates \in [Ips -> ClientState]
        /\ \A ip \in Ips : ClientOK(ip)
        /\ refused \in Nat /\ alerts \in [Patterns -> Nat] /\ ForgettingChangesNothing
    BY DEF MonitorIInv
  <1>2. PastOK'
    <2>1. /\ IsFiniteSet(past') /\ IsFiniteSet(alerted')
          /\ \A e \in past' : /\ e.ip \in Ips /\ e.what \in Outcomes \cup {"request"}
                              /\ e.n \in 1 .. Cardinality(past') /\ e.ts \in Nat /\ e.ts <= clock
          /\ \A a \in alerted' : a.ip \in Ips /\ a.pattern \in Patterns /\ a.ts \in Nat /\ a.ts <= clock
      BY <1>1 DEF PastOK
    <2>2. /\ \A e \in past' : e.ts <= clock'
          /\ \A a \in alerted' : a.ts <= clock'
      BY <1>1, <2>1
    <2>3. QED
      BY <2>1, <2>2 DEF PastOK
  <1>3. ASSUME NEW ip \in Ips PROVE ipStates'[ip] \in ClientState' /\ ClientOK(ip)'
    <2>1. ipStates[ip] \in ClientState /\ ClientOK(ip)
      BY <1>1
    <2>2. ipStates'[ip] = ipStates[ip] \/ ipStates'[ip] = PruneState(ipStates[ip])
      OBVIOUS
    <2>3. QED
      BY <1>1, <2>1, <2>2, ClientStays
  <1>4. ForgettingChangesNothing'
    BY <1>1 DEF ForgettingChangesNothing, TooMany, Are
  <1>5. ipStates' \in [Ips -> ClientState']
    BY <1>1, <1>3
  <1>6. clock' >= Cooldown
    BY <1>1, Stale
  <1>7. QED
    BY <1>1, <1>2, <1>3, <1>4, <1>5, <1>6 DEF MonitorIInv

LEMMA SomethingHappens ==
    ASSUME MonitorIInv, NEW ip \in Ips, NEW what \in Outcomes \cup {"request"},
           past' = past \cup {Event(ip, what)}, clock' = clock, PastOK',
           alerted \subseteq alerted', \A a \in alerted' : a \in alerted \/ a.ip = ip,
           ipStates' = [j \in Ips |-> ipStates'[j]],
           ipStates'[ip] \in ClientState', ClientOK(ip)',
           \A j \in Ips \ {ip} :
               \/ ipStates'[j] = ipStates[j]
               \/ ipStates'[j] = Unknown /\ clock > ipStates[j].lastSeen + StaleAfter,
           refused' \in Nat, alerts' \in [Patterns -> Nat], ForgettingChangesNothing'
    PROVE  MonitorIInv'
  <1>1. /\ clock \in Nat /\ clock >= Cooldown /\ PastOK /\ ipStates \in [Ips -> ClientState]
        /\ \A j \in Ips : ClientOK(j)
    BY DEF MonitorIInv
  <1>2. ASSUME NEW j \in Ips PROVE ipStates'[j] \in ClientState' /\ ClientOK(j)'
    <2>1. CASE j = ip
      BY <2>1
    <2>2. CASE j # ip
      <3>1. ipStates[j] \in ClientState /\ ClientOK(j)
        BY <1>1
      <3>2. past \subseteq past' /\ \A e \in past' : e.ip = j => e \in past
        BY <1>1, <2>2, Happened
      <3>3. \A a \in alerted' : a.ip = j => a \in alerted
        BY <2>2
      <3>4. clock' \in Nat /\ clock' >= clock
        BY <1>1
      <3>5. \/ ipStates'[j] = ipStates[j]
            \/ ipStates'[j] = Unknown /\ clock' > ipStates[j].lastSeen + StaleAfter
        BY <2>2
      <3>6. QED
        BY <1>1, <3>1, <3>2, <3>3, <3>4, <3>5, ClientStays
    <2>3. QED
      BY <2>1, <2>2
  <1>3. ipStates' \in [Ips -> ClientState']
    BY <1>2
  <1>4. QED
    BY <1>1, <1>2, <1>3 DEF MonitorIInv

LEMMA PrunedState ==
    ASSUME NEW s \in ClientState
    PROVE  PruneState(s) = [requests |-> Since(s.requests, RateWindow), events |-> Since(s.events, SuspiciousWindow),
                            logins |-> Since(s.logins, LoginWindow),
                            lastAlert |-> s.lastAlert, lastSeen |-> s.lastSeen]
  <1>1. s = [requests |-> s.requests, events |-> s.events, logins |-> s.logins,
             lastAlert |-> s.lastAlert, lastSeen |-> s.lastSeen]
    BY DEF ClientState
  <1>2. PICK t : t = PruneState(s)
    OBVIOUS
  <1>3. t = [requests |-> Since(s.requests, RateWindow), events |-> Since(s.events, SuspiciousWindow),
             logins |-> Since(s.logins, LoginWindow), lastAlert |-> s.lastAlert, lastSeen |-> s.lastSeen]
    BY ONLY <1>1, <1>2 DEF PruneState
  <1>4. QED
    BY ONLY <1>2, <1>3

LEMMA LimitRequestOK == ASSUME MonitorIInv, NEW ip \in Ips, LimitRequest(ip) PROVE MonitorIInv'
  <1>1. /\ clock \in Nat /\ clock >= Cooldown /\ PastOK /\ ipStates[ip] \in ClientState /\ ClientOK(ip)
        /\ ipStates \in [Ips -> ClientState]
        /\ refused \in Nat /\ alerts \in [Patterns -> Nat] /\ ForgettingChangesNothing
    BY DEF MonitorIInv
  <1>2. PICK s : s = ipStates[ip]
    OBVIOUS
  <1>3. PICK event : event = Event(ip, "request")
    OBVIOUS
  <1>4. PICK R : R = Since(s.requests, RateWindow) \cup {event}
    OBVIOUS
  <1>5. /\ past' = past \cup {event} /\ clock' = clock /\ alerts' = alerts /\ alerted' = alerted
        /\ refused' = IF Cardinality(R) > RateMax THEN refused + 1 ELSE refused
    BY <1>2, <1>3, <1>4 DEF LimitRequest, Happens, PruneState, ClientState
  <1>6. ipStates' = [ipStates EXCEPT ![ip] =
            [requests |-> R, events |-> Since(s.events, SuspiciousWindow), logins |-> Since(s.logins, LoginWindow),
             lastAlert |-> s.lastAlert, lastSeen |-> clock]]
    <2>1. PICK old : old = PruneState(s) /\ old = [requests |-> Since(s.requests, RateWindow),
                           events |-> Since(s.events, SuspiciousWindow), logins |-> Since(s.logins, LoginWindow),
                           lastAlert |-> s.lastAlert, lastSeen |-> s.lastSeen]
      BY <1>1, <1>2, PrunedState
    <2>2. R = old.requests \cup {event}
      BY <1>4, <2>1
    <2>3. PICK new : new = [old EXCEPT !.requests = R, !.lastSeen = clock]
      OBVIOUS
    <2>4. ipStates' = [ipStates EXCEPT ![ip] = new]
      BY <1>2, <1>3, <2>1, <2>2, <2>3 DEF LimitRequest
    <2>5. PICK r, e, l, a, n : /\ old = [requests |-> r, events |-> e, logins |-> l, lastAlert |-> a, lastSeen |-> n]
                               /\ e = Since(s.events, SuspiciousWindow) /\ l = Since(s.logins, LoginWindow)
                               /\ a = s.lastAlert
      BY ONLY <2>1
    <2>6. new = [requests |-> R, events |-> e, logins |-> l, lastAlert |-> a, lastSeen |-> clock]
      BY ONLY <2>3, <2>5
    <2>7. QED
      BY ONLY <2>4, <2>5, <2>6
  <1>7. "request" \notin Outcomes /\ "request" \in Outcomes \cup {"request"}
    BY DEF Outcomes
  <1>8. Requests(ip)' = Requests(ip) \cup {event} /\ Responses(ip)' = Responses(ip)
        /\ Are(Responses(ip), {"login"})' = Are(Responses(ip), {"login"})
    BY <1>1, <1>3, <1>5, <1>7, Happened
  <1>9. PastOK' /\ past \subseteq past' /\ event.ts = clock
    <2>1. /\ IsFiniteSet(past') /\ Event(ip, "request").ts = clock
          /\ \A e \in past' : /\ e.ip \in Ips /\ e.what \in Outcomes \cup {"request"}
                              /\ e.n \in 1 .. Cardinality(past') /\ e.ts \in Nat /\ e.ts <= clock
      <3>1. PastOK /\ clock \in Nat /\ past' = past \cup {Event(ip, "request")}
        BY <1>1, <1>3, <1>5
      <3>2. PICK what : what = "request"
        OBVIOUS
      <3>3. /\ what \in Outcomes \cup {"request"} /\ PastOK /\ clock \in Nat
            /\ past' = past \cup {Event(ip, what)}
        BY ONLY <1>7, <3>1, <3>2
      <3>4. /\ IsFiniteSet(past') /\ Event(ip, what).ts = clock
            /\ \A e \in past' : /\ e.ip \in Ips /\ e.what \in Outcomes \cup {"request"}
                                /\ e.n \in 1 .. Cardinality(past') /\ e.ts \in Nat /\ e.ts <= clock
        BY ONLY <3>3, ip \in Ips, NewEvent
      <3>5. QED
        BY ONLY <3>2, <3>4
    <2>2. QED
      BY <1>1, <1>3, <1>5, <2>1 DEF PastOK
  <1>10. /\ Covers(s.requests, Requests(ip), RateWindow)
         /\ Covers(s.events, Responses(ip), SuspiciousWindow)
         /\ Covers(s.logins, Are(Responses(ip), {"login"}), LoginWindow)
    BY <1>1, <1>2 DEF ClientOK
  <1>11. /\ R \subseteq Requests(ip)' /\ \A e \in Requests(ip)' : e.ts + RateWindow >= clock => e \in R
         /\ R = Since(Requests(ip) \cup {event}, RateWindow)
    <2>1. RateWindow \in Nat
      BY Stale
    <2>2. QED
      BY ONLY <1>1, <1>4, <1>8, <1>9, <1>10, <2>1, CoverGrows, SMTT(30)
  <1>12. /\ Since(s.events, SuspiciousWindow) \subseteq Responses(ip)'
         /\ \A e \in Responses(ip)' : e.ts + SuspiciousWindow >= clock => e \in Since(s.events, SuspiciousWindow)
         /\ Since(s.logins, LoginWindow) \subseteq Are(Responses(ip), {"login"})'
         /\ \A e \in Are(Responses(ip), {"login"})' : e.ts + LoginWindow >= clock => e \in Since(s.logins, LoginWindow)
    BY <1>8, <1>10 DEF Covers, Since
  <1>13. ipStates'[ip] \in ClientState' /\ ClientOK(ip)'
    <2>1. ipStates'[ip] = [requests |-> R, events |-> Since(s.events, SuspiciousWindow),
                           logins |-> Since(s.logins, LoginWindow),
                           lastAlert |-> s.lastAlert, lastSeen |-> clock]
      BY <1>1, <1>6
    <2>2. s.lastAlert \in [Patterns -> Nat]
      BY <1>1, <1>2 DEF ClientState
    <2>3. \A p \in Patterns : s.lastAlert[p] = ipStates[ip].lastAlert[p] /\ AlertsOf(ip, p)' = AlertsOf(ip, p)
      BY <1>2, <1>5 DEF AlertsOf
    <2>4. PICK E, L, A : /\ E = Since(s.events, SuspiciousWindow) /\ L = Since(s.logins, LoginWindow)
                         /\ A = s.lastAlert
      OBVIOUS
    <2>5. /\ ipStates'[ip] = [requests |-> R, events |-> E, logins |-> L, lastAlert |-> A, lastSeen |-> clock]
          /\ E \subseteq Responses(ip)'
          /\ \A e \in Responses(ip)' : e.ts + SuspiciousWindow >= clock => e \in E
          /\ L \subseteq Are(Responses(ip), {"login"})'
          /\ \A e \in Are(Responses(ip), {"login"})' : e.ts + LoginWindow >= clock => e \in L
          /\ A \in [Patterns -> Nat]
          /\ \A p \in Patterns : A[p] = ipStates[ip].lastAlert[p] /\ AlertsOf(ip, p)' = AlertsOf(ip, p)
      BY ONLY <1>12, <2>1, <2>2, <2>3, <2>4
    <2>6. \A p \in Patterns :
              \/ A[p] = ipStates[ip].lastAlert[p] /\ AlertsOf(ip, p)' = AlertsOf(ip, p)
              \/ A[p] = clock /\ \E a \in AlertsOf(ip, p)' : a.ts = clock
      BY ONLY <2>5
    <2>7. /\ clock \in Nat /\ clock >= Cooldown /\ PastOK /\ ipStates[ip] \in ClientState /\ ClientOK(ip)
          /\ clock' = clock /\ PastOK' /\ past \subseteq past' /\ A \in [Patterns -> Nat]
          /\ ipStates'[ip] = [requests |-> R, events |-> E, logins |-> L, lastAlert |-> A, lastSeen |-> clock]
          /\ R \subseteq Requests(ip)' /\ E \subseteq Responses(ip)' /\ L \subseteq Are(Responses(ip), {"login"})'
      BY ONLY <1>1, <1>5, <1>9, <1>11, <2>5
    <2>8. /\ \A e \in Requests(ip)' : e.ts + RateWindow >= clock => e \in R
          /\ \A e \in Responses(ip)' : e.ts + SuspiciousWindow >= clock => e \in E
          /\ \A e \in Are(Responses(ip), {"login"})' : e.ts + LoginWindow >= clock => e \in L
      BY ONLY <1>11, <2>5
    <2>9. QED
      BY ONLY <2>6, <2>7, <2>8, ip \in Ips, ClientActs
  <1>14. ForgettingChangesNothing' /\ refused' \in Nat
    <2>1. refused = Cardinality(TooMany) /\ \A p \in Patterns : alerts[p] = Cardinality({a \in alerted : a.pattern = p})
      BY <1>1 DEF ForgettingChangesNothing
    <2>2. refused' = Cardinality(TooMany')
      BY <1>1, <1>3, <1>5, <1>7, <1>11, <2>1, RequestsCounted
    <2>3. refused' \in Nat
      BY <1>1, <1>5
    <2>4. QED
      BY <1>5, <2>1, <2>2, <2>3 DEF ForgettingChangesNothing
  <1>15. /\ ipStates' = [j \in Ips |-> ipStates'[j]]
         /\ \A j \in Ips \ {ip} : ipStates'[j] = ipStates[j]
    BY <1>1, <1>6
  <1>16. QED
    BY <1>1, <1>3, <1>5, <1>7, <1>9, <1>13, <1>14, <1>15, SomethingHappens

LEMMA FinishRequestOK == ASSUME MonitorIInv, NEW ip \in Ips, NEW outcome \in Outcomes, FinishRequest(ip, outcome)
                         PROVE  MonitorIInv'
  <1>1. /\ clock \in Nat /\ clock >= Cooldown /\ PastOK /\ ipStates[ip] \in ClientState /\ ClientOK(ip)
        /\ ipStates \in [Ips -> ClientState]
        /\ refused \in Nat /\ alerts \in [Patterns -> Nat] /\ ForgettingChangesNothing
    BY DEF MonitorIInv
  <1>2. PICK s : s = ipStates[ip]
    OBVIOUS
  <1>3. PICK event : event = Event(ip, outcome)
    OBVIOUS
  <1>4. PICK old : old = PruneState(s) /\ old = [requests |-> Since(s.requests, RateWindow),
                       events |-> Since(s.events, SuspiciousWindow), logins |-> Since(s.logins, LoginWindow),
                       lastAlert |-> s.lastAlert, lastSeen |-> s.lastSeen]
    BY <1>1, <1>2, PrunedState
  <1>5. PICK E, L : /\ E = Since(s.events, SuspiciousWindow) \cup {event}
                    /\ L = IF outcome = "login" THEN Since(s.logins, LoginWindow) \cup {event}
                           ELSE Since(s.logins, LoginWindow)
    OBVIOUS
  <1>6. PICK raised : raised = Cool(SuspiciousPatterns(E, L), s.lastAlert)
    OBVIOUS
  <1>7. PICK A : A = [p \in Patterns |-> IF p \in raised THEN clock ELSE s.lastAlert[p]]
    OBVIOUS
  <1>8. PICK new : new = [old EXCEPT !.events = E, !.logins = L, !.lastSeen = clock, !.lastAlert = A]
    OBVIOUS
  <1>9. /\ E = old.events \cup {event}
        /\ L = IF outcome = "login" THEN old.logins \cup {event} ELSE old.logins
        /\ raised = Cool(SuspiciousPatterns(E, L), old.lastAlert)
        /\ A = [p \in Patterns |-> IF p \in raised THEN clock ELSE old.lastAlert[p]]
    BY ONLY <1>4, <1>5, <1>6, <1>7
  <1>10. PICK states : /\ states = [ipStates EXCEPT ![ip] = new]
                       /\ ipStates' = IF processed' % CleanupEvery = 0 THEN CleanUp(states) ELSE states
    BY <1>2, <1>3, <1>4, <1>8, <1>9 DEF FinishRequest
  <1>11. /\ Happens(event) /\ Remember(ip) /\ clock' = clock /\ refused' = refused
         /\ alerts' = [p \in Patterns |-> IF p \in raised THEN alerts[p] + 1 ELSE alerts[p]]
    BY <1>2, <1>3, <1>4, <1>9 DEF FinishRequest
  <1>12. past' = past \cup {event}
    BY <1>11 DEF Happens
  <1>13. outcome \in Outcomes \cup {"request"} /\ outcome # "request"
    BY DEF Outcomes
  <1>14. /\ Requests(ip)' = Requests(ip) /\ Responses(ip)' = Responses(ip) \cup {event}
         /\ Are(Responses(ip), {"login"})' = IF outcome = "login" THEN Are(Responses(ip), {"login"}) \cup {event}
                                           ELSE Are(Responses(ip), {"login"})
    BY <1>1, <1>3, <1>12, <1>13, Happened
  <1>15. /\ IsFiniteSet(past') /\ event.ts = clock /\ past \subseteq past'
         /\ \A e \in past' : /\ e.ip \in Ips /\ e.what \in Outcomes \cup {"request"}
                             /\ e.n \in 1 .. Cardinality(past') /\ e.ts \in Nat /\ e.ts <= clock
    BY <1>1, <1>3, <1>12, <1>13, NewEvent
  <1>16. /\ Covers(s.requests, Requests(ip), RateWindow)
         /\ Covers(s.events, Responses(ip), SuspiciousWindow)
         /\ Covers(s.logins, Are(Responses(ip), {"login"}), LoginWindow)
    BY <1>1, <1>2 DEF ClientOK
  <1>17. /\ E \subseteq Responses(ip)' /\ \A e \in Responses(ip)' : e.ts + SuspiciousWindow >= clock => e \in E
         /\ E = Since(Responses(ip) \cup {event}, SuspiciousWindow)
    <2>1. SuspiciousWindow \in Nat
      BY Stale
    <2>2. clock \in Nat /\ event.ts = clock
      BY <1>1, <1>15
    <2>3. QED
      BY ONLY <1>5, <1>14, <1>16, <2>1, <2>2, CoverGrows
  <1>18. PICK logins : logins = Are(Responses(ip), {"login"})'
    OBVIOUS
  <1>19. L \subseteq logins /\ (\A e \in logins : e.ts + LoginWindow >= clock => e \in L) /\ L = Since(logins, LoginWindow)
    <2>1. LoginWindow \in Nat
      BY Stale
    <2>2. CASE outcome = "login"
      <3>1. logins = Are(Responses(ip), {"login"}) \cup {event} /\ L = Since(s.logins, LoginWindow) \cup {event}
        BY <1>5, <1>14, <1>18, <2>2
      <3>2. QED
        BY <1>1, <1>15, <1>16, <2>1, <3>1, CoverGrows
    <2>3. CASE outcome # "login"
      <3>1. logins = Are(Responses(ip), {"login"}) /\ L = Since(s.logins, LoginWindow)
        BY <1>5, <1>14, <1>18, <2>3
      <3>2. QED
        BY <1>16, <3>1 DEF Covers, Since
    <2>4. QED
      BY <2>2, <2>3
  <1>20. /\ raised \subseteq Patterns
         /\ \A p \in raised : \A a \in alerted : a.ip = ip /\ a.pattern = p => clock >= a.ts + Cooldown
         /\ alerted' = alerted \cup {[ip |-> ip, pattern |-> p, ts |-> clock] : p \in raised}
    <2>1. PICK all : all = {e \in past' : e.ip = ip /\ e.what \in Outcomes}
      OBVIOUS
    <2>2. all = Responses(ip) \cup {event} /\ Are(all, {"login"}) = logins
      BY <1>14, <1>18, <2>1 DEF Responses, Are
    <2>3. PICK due : due = {p \in SuspiciousPatterns(E, L) :
                               \A a \in alerted : a.ip = ip /\ a.pattern = p => clock >= a.ts + Cooldown}
      OBVIOUS
    <2>4. E = Since(all, SuspiciousWindow) /\ L = Since(Are(all, {"login"}), LoginWindow)
      BY <1>17, <1>19, <2>2
    <2>5. alerted' = alerted \cup {[ip |-> ip, pattern |-> p, ts |-> clock] : p \in due}
      BY <1>11, <2>1, <2>3, <2>4 DEF Remember
    <2>6. SuspiciousPatterns(E, L) \subseteq Patterns
      BY DEF SuspiciousPatterns
    <2>7. raised = {p \in SuspiciousPatterns(E, L) : clock >= s.lastAlert[p] + Cooldown}
      BY <1>6 DEF Cool
    <2>8. \A p \in Patterns : clock >= s.lastAlert[p] + Cooldown <=>
                 \A a \in alerted : a.ip = ip /\ a.pattern = p => clock >= a.ts + Cooldown
      BY <1>1, <1>2, CooledIsDue
    <2>9. raised = due
      BY ONLY <2>3, <2>6, <2>7, <2>8
    <2>10. QED
      BY ONLY <2>3, <2>5, <2>6, <2>9
  <1>21. /\ alerts' \in [Patterns -> Nat]
         /\ \A p \in Patterns : alerts'[p] = Cardinality({a \in alerted' : a.pattern = p})
         /\ IsFiniteSet(alerted')
         /\ \A a \in alerted' : a.ip \in Ips /\ a.pattern \in Patterns /\ a.ts \in Nat /\ a.ts <= clock
    <2>1. \A p \in Patterns : alerts[p] = Cardinality({a \in alerted : a.pattern = p})
      BY <1>1 DEF ForgettingChangesNothing
    <2>2. QED
      BY <1>1, <1>11, <1>20, <2>1, AlertsCounted
  <1>22. PastOK'
    BY <1>11, <1>15, <1>21 DEF PastOK
  <1>23. PICK r, e, l, a, n : /\ old = [requests |-> r, events |-> e, logins |-> l, lastAlert |-> a, lastSeen |-> n]
                              /\ r = Since(s.requests, RateWindow)
    BY ONLY <1>4
  <1>24. new = [requests |-> r, events |-> E, logins |-> L, lastAlert |-> A, lastSeen |-> clock]
    BY ONLY <1>8, <1>23
  <1>25. /\ r \subseteq Requests(ip)'
         /\ \A f \in Requests(ip)' : f.ts + RateWindow >= clock => f \in r
    BY <1>14, <1>16, <1>23 DEF Covers, Since
  <1>26. A \in [Patterns -> Nat]
    BY <1>1, <1>2, <1>7 DEF ClientState
  <1>27. ASSUME NEW p \in Patterns
         PROVE  \/ A[p] = ipStates[ip].lastAlert[p] /\ AlertsOf(ip, p)' = AlertsOf(ip, p)
                \/ A[p] = clock /\ \E b \in AlertsOf(ip, p)' : b.ts = clock
    <2>1. CASE p \in raised
      <3>1. PICK b : b = [ip |-> ip, pattern |-> p, ts |-> clock]
        OBVIOUS
      <3>2. b \in alerted' /\ b.ip = ip /\ b.pattern = p /\ b.ts = clock
        BY <1>20, <2>1, <3>1
      <3>3. QED
        BY <1>7, <2>1, <3>2 DEF AlertsOf
    <2>2. CASE p \notin raised
      <3>1. A[p] = ipStates[ip].lastAlert[p]
        BY <1>2, <1>7, <2>2
      <3>2. \A b : b \in alerted' /\ b.pattern = p <=> b \in alerted /\ b.pattern = p
        BY <1>20, <2>2
      <3>3. QED
        BY <3>1, <3>2 DEF AlertsOf
    <2>3. QED
      BY <2>1, <2>2
  <1>28. /\ \A j \in Ips : \/ ipStates'[j] = states[j]
                           \/ ipStates'[j] = Unknown /\ clock > states[j].lastSeen + StaleAfter
         /\ ipStates' = [j \in Ips |-> ipStates'[j]]
         /\ \A j \in Ips \ {ip} : states[j] = ipStates[j]
         /\ states[ip] = new
    BY <1>1, <1>10 DEF CleanUp
  <1>29. ipStates'[ip] = new
    <2>1. new.lastSeen = clock
      BY <1>24
    <2>2. ~(clock > clock + StaleAfter)
      BY <1>1, Stale
    <2>3. QED
      BY <1>28, <2>1, <2>2
  <1>30. ipStates'[ip] \in ClientState' /\ ClientOK(ip)'
    <2>1. /\ clock \in Nat /\ clock >= Cooldown /\ PastOK /\ ipStates[ip] \in ClientState /\ ClientOK(ip)
          /\ clock' = clock /\ PastOK' /\ past \subseteq past' /\ A \in [Patterns -> Nat]
          /\ ipStates'[ip] = [requests |-> r, events |-> E, logins |-> L, lastAlert |-> A, lastSeen |-> clock]
          /\ r \subseteq Requests(ip)' /\ E \subseteq Responses(ip)' /\ L \subseteq Are(Responses(ip), {"login"})'
      BY ONLY <1>1, <1>11, <1>15, <1>17, <1>18, <1>19, <1>22, <1>24, <1>25, <1>26, <1>29
    <2>2. /\ \A f \in Requests(ip)' : f.ts + RateWindow >= clock => f \in r
          /\ \A f \in Responses(ip)' : f.ts + SuspiciousWindow >= clock => f \in E
          /\ \A f \in Are(Responses(ip), {"login"})' : f.ts + LoginWindow >= clock => f \in L
      BY ONLY <1>17, <1>18, <1>19, <1>25
    <2>3. QED
      BY ONLY <1>27, <2>1, <2>2, ip \in Ips, ClientActs
  <1>31. ForgettingChangesNothing' /\ refused' \in Nat
    <2>1. refused = Cardinality(TooMany)
      BY <1>1 DEF ForgettingChangesNothing
    <2>2. refused' = Cardinality(TooMany')
      BY <1>1, <1>3, <1>11, <1>12, <1>13, <2>1, RequestsCounted
    <2>3. QED
      BY <1>1, <1>11, <1>21, <2>2 DEF ForgettingChangesNothing
  <1>32. alerted \subseteq alerted' /\ \A b \in alerted' : b \in alerted \/ b.ip = ip
    BY <1>20
  <1>33. QED
    BY <1>1, <1>3, <1>11, <1>12, <1>13, <1>21, <1>22, <1>28, <1>30, <1>31, <1>32, SomethingHappens

LEMMA MonitorInitOK == MonitorInit => MonitorIInv
  <1> SUFFICES ASSUME MonitorInit PROVE MonitorIInv
    OBVIOUS
  <1>1. /\ clock = Cooldown /\ past = {} /\ alerted = {} /\ refused = 0 /\ alerts = [p \in Patterns |-> 0]
        /\ ipStates = [ip \in Ips |-> Unknown]
    BY DEF MonitorInit
  <1>2. PastOK
    BY <1>1, FS_EmptySet DEF PastOK
  <1>3. Unknown \in ClientState
    <2>1. Unknown = [requests |-> {}, events |-> {}, logins |-> {},
                     lastAlert |-> [p \in Patterns |-> 0], lastSeen |-> 0]
      BY DEF Unknown
    <2>2. [p \in Patterns |-> 0] \in [Patterns -> Nat]
      OBVIOUS
    <2>3. QED
      BY <2>1, <2>2 DEF ClientState
  <1>4. ASSUME NEW ip \in Ips PROVE ClientOK(ip)
    <2>1. /\ ipStates[ip].requests = {} /\ ipStates[ip].events = {} /\ ipStates[ip].logins = {}
          /\ ipStates[ip].lastSeen = 0 /\ \A p \in Patterns : ipStates[ip].lastAlert[p] = 0
      BY <1>1 DEF Unknown
    <2>2. QED
      BY <1>1, <2>1 DEF ClientOK, Covers, Since, Requests, Responses, Are, AlertsOf
  <1>5. ForgettingChangesNothing
    <2>1. TooMany = {} /\ \A p \in Patterns : {a \in alerted : a.pattern = p} = {}
      BY <1>1 DEF TooMany, Are
    <2>2. QED
      BY <1>1, <2>1, FS_EmptySet DEF ForgettingChangesNothing
  <1>6. QED
    BY <1>1, <1>2, <1>3, <1>4, <1>5, Stale DEF MonitorIInv

LEMMA MonitorStep == MonitorIInv /\ [MonitorNext]_monitorVars => MonitorIInv'
  <1> SUFFICES ASSUME MonitorIInv, [MonitorNext]_monitorVars PROVE MonitorIInv'
    OBVIOUS
  <1>1. clock \in Nat
    BY DEF MonitorIInv
  <1>2. CASE Tick
    BY <1>1, <1>2, NothingHappens DEF Tick
  <1>3. CASE TakeSnapshot
    BY <1>1, <1>3, NothingHappens DEF TakeSnapshot
  <1>4. CASE UNCHANGED monitorVars
    BY <1>1, <1>4, NothingHappens DEF monitorVars
  <1>5. QED
    BY <1>2, <1>3, <1>4, LimitRequestOK, FinishRequestOK DEF MonitorNext

\* abuse-monitor.ts: for any clients, windows, thresholds, cooldown and pace of the
\* clean-up, the windows are exact, and the pruning and forgetting of clients lose no
\* alert, raise none twice within its cooldown, and refuse no other requests.
THEOREM NothingIsForgotten == MonitorSpec => []ForgettingChangesNothing
  <1>1. MonitorIInv => ForgettingChangesNothing
    BY DEF MonitorIInv
  <1>2. QED
    BY <1>1, MonitorInitOK, MonitorStep, PTL DEF MonitorSpec
=============================================================================
