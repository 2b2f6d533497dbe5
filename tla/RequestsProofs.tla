--------------------------- MODULE RequestsProofs ---------------------------
(***************************************************************************)
(* TLAPS proofs about what serves the requests for vaults: idempotent      *)
(* creation, the submission of transactions to Soroban, the vault store    *)
(* with its cache and slash jobs, and its reconciliation and overrides.    *)
(* Each has an inductive invariant of its own.                             *)
(***************************************************************************)
EXTENDS VaultCreation, SorobanSubmit, VaultOversight,
        SequenceTheorems, NaturalsInduction, WellFoundedInduction, TLAPS

-----------------------------------------------------------------------------
(* VaultCreation *)

\* What is pending or stored under a key belongs to it; a stored answer is one
\* that was given.
KeyOK(k) ==
    /\ pendingKeys[k] # Nobody => KeyOf[pendingKeys[k]] = k
    /\ entries[k] # Nobody =>
         /\ KeyOf[entries[k]] = k /\ entries[k] \in created
         /\ RequestAt(entries[k], "made") /\ request[entries[k]].vault = entries[k]

\* A request that works is the owner of its key, one that waits has an owner
\* with its body to wait for, and an answer of success names a vault of its own.
RequestOK(r) ==
    /\ request[r].at \in {"owner", "inserting", "committed"} => pendingKeys[KeyOf[r]] = r
    /\ RequestAt(r, "committed") => r \in created
    /\ RequestAt(r, "waiting") =>
         /\ pendingKeys[KeyOf[r]] # Nobody
         /\ BodyOf[pendingKeys[KeyOf[r]]] = BodyOf[r]
    /\ request[r].at \in {"made", "replayed"} =>
         /\ request[r].vault \in created
         /\ KeyOf[request[r].vault] = KeyOf[r] /\ BodyOf[request[r].vault] = BodyOf[r]

\* A vault that the memory of its key has not lost is the pending one or the
\* stored one, so there is one for a key.
Remembered(r) ==
    \/ RequestAt(r, "committed") /\ pendingKeys[KeyOf[r]] = r
    \/ RequestAt(r, "made") /\ pendingKeys[KeyOf[r]] = Nobody /\ entries[KeyOf[r]] = r

CreationIInv ==
    /\ CreationTypeOK
    /\ \A k \in Keys : KeyOK(k)
    /\ \A r \in Requests : RequestOK(r)
    /\ \A r \in created \ forgotten : Remembered(r)

\* A request joins its key, is answered from it, or becomes its owner.
LEMMA ArriveKeeps ==
    ASSUME CreationIInv, NEW r \in Requests, Arrive(r)
    PROVE  CreationIInv'
  <1> USE CreationAssumption
  <1> DEFINE k == KeyOf[r]
  <1>0. /\ k \in Keys /\ KeyOK(k) /\ RequestOK(r) /\ CreationTypeOK
        /\ UNCHANGED <<entries, created, forgotten>> /\ RequestAt(r, "new")
        /\ pendingKeys[k] \in Requests \cup {Nobody} /\ entries[k] \in Requests \cup {Nobody}
        /\ request \in [Requests -> [at : Stages, vault : Requests \cup {Nobody}]]
    BY DEF CreationIInv, CreationTypeOK, Arrive
  <1>1. PICK new \in [at : Stages, vault : Requests \cup {Nobody}] :
          /\ request' = [request EXCEPT ![r] = new]
          /\ \/ /\ pendingKeys' = pendingKeys /\ new.at \in {"waiting", "replayed", "conflict"}
                /\ new.at = "waiting" => /\ pendingKeys[k] # Nobody
                                         /\ BodyOf[pendingKeys[k]] = BodyOf[r]
                /\ new.at = "replayed" => /\ entries[k] # Nobody /\ BodyOf[entries[k]] = BodyOf[r]
                                          /\ new.vault = entries[k]
             \/ /\ pendingKeys[k] = Nobody /\ entries[k] = Nobody
                /\ pendingKeys' = [pendingKeys EXCEPT ![k] = r] /\ new.at = "owner"
    <2>1. \A stage \in Stages : /\ [request[r] EXCEPT !.at = stage] \in [at : Stages, vault : Requests \cup {Nobody}]
                                /\ [request[r] EXCEPT !.at = stage].at = stage
      BY <1>0
    <2>2. CASE pendingKeys[k] # Nobody
      <3> DEFINE stage == IF BodyOf[r] = BodyOf[pendingKeys[k]] THEN "waiting" ELSE "conflict"
      <3>1. request' = [request EXCEPT ![r] = [request[r] EXCEPT !.at = stage]]
            /\ pendingKeys' = pendingKeys
        BY <1>0, <2>2 DEF Arrive, Step
      <3>2. stage \in Stages /\ stage \in {"waiting", "conflict"}
            /\ (stage = "waiting" => BodyOf[r] = BodyOf[pendingKeys[k]])
        BY DEF Stages
      <3> HIDE DEF stage
      <3>3. QED
        BY <2>1, <2>2, <3>1, <3>2
    <2>3. CASE pendingKeys[k] = Nobody /\ entries[k] # Nobody
      <3>1. CASE BodyOf[r] = BodyOf[entries[k]]
        <4> DEFINE new == [at |-> "replayed", vault |-> request[entries[k]].vault]
        <4>1. request' = [request EXCEPT ![r] = new] /\ pendingKeys' = pendingKeys
          BY <2>3, <3>1 DEF Arrive
        <4>2. new.vault = entries[k] /\ new \in [at : Stages, vault : Requests \cup {Nobody}]
          BY <1>0, <2>3 DEF KeyOK, Stages
        <4>3. QED
          BY <2>3, <3>1, <4>1, <4>2
      <3>2. CASE BodyOf[r] # BodyOf[entries[k]]
        <4>1. request' = [request EXCEPT ![r] = [request[r] EXCEPT !.at = "conflict"]]
              /\ pendingKeys' = pendingKeys
          BY <1>0, <2>3, <3>2 DEF Arrive
        <4>2. "conflict" \in Stages
          BY DEF Stages
        <4>3. QED
          BY <2>1, <4>1, <4>2
      <3>3. QED BY <3>1, <3>2
    <2>4. CASE pendingKeys[k] = Nobody /\ entries[k] = Nobody
      <3>1. request' = [request EXCEPT ![r] = [request[r] EXCEPT !.at = "owner"]]
            /\ pendingKeys' = [pendingKeys EXCEPT ![k] = r]
        BY <1>0, <2>4 DEF Arrive, Own, Step
      <3>2. "owner" \in Stages
        BY DEF Stages
      <3>3. QED
        BY <2>1, <2>4, <3>1, <3>2
    <2>5. QED BY <2>2, <2>3, <2>4
  <1>2. /\ request'[r] = new /\ \A q \in Requests \ {r} : request'[q] = request[q]
        /\ \A j \in Keys \ {k} : pendingKeys'[j] = pendingKeys[j]
        /\ pendingKeys'[k] = pendingKeys[k] \/ (pendingKeys[k] = Nobody /\ pendingKeys'[k] = r)
    BY <1>0, <1>1 DEF CreationTypeOK
  <1>3. CreationTypeOK'
    BY <1>0, <1>1 DEF CreationTypeOK
  <1>4. ASSUME NEW j \in Keys PROVE KeyOK(j)'
    <2>1. KeyOK(j)
      BY DEF CreationIInv
    <2>2. pendingKeys'[j] # Nobody => KeyOf[pendingKeys'[j]] = j
      BY <1>2, <2>1 DEF KeyOK
    <2>3. entries[j] # Nobody => entries[j] # r
      BY <1>0, <2>1 DEF KeyOK, RequestAt
    <2>4. entries[j] \in Requests \cup {Nobody}
      BY <1>0 DEF CreationTypeOK
    <2>5. QED
      BY <1>0, <1>2, <2>1, <2>2, <2>3, <2>4 DEF KeyOK, RequestAt
  <1>5. ASSUME NEW q \in Requests PROVE RequestOK(q)'
    <2>1. CASE q = r
      <3>1. CASE pendingKeys[k] = Nobody /\ new.at = "owner"
        <4>1. pendingKeys'[k] = r
          BY <1>0, <1>1, <3>1 DEF CreationTypeOK
        <4>2. QED
          BY <1>0, <1>2, <2>1, <3>1, <4>1 DEF RequestOK, RequestAt
      <3>2. CASE new.at = "waiting"
        BY <1>0, <1>1, <1>2, <2>1, <3>2 DEF RequestOK, RequestAt
      <3>3. CASE new.at = "replayed"
        <4>1. entries[k] \in created /\ KeyOf[entries[k]] = k /\ BodyOf[entries[k]] = BodyOf[r]
              /\ new.vault = entries[k]
          BY <1>0, <1>1, <3>3 DEF KeyOK
        <4>2. QED
          BY <1>0, <1>2, <2>1, <3>3, <4>1 DEF RequestOK, RequestAt
      <3>4. CASE new.at = "conflict"
        BY <1>0, <1>1, <1>2, <2>1, <3>4 DEF RequestOK, RequestAt
      <3>5. QED BY <1>1, <3>1, <3>2, <3>3, <3>4
    <2>2. CASE q # r
      <3>1. RequestOK(q) /\ request'[q] = request[q] /\ KeyOf[q] \in Keys
        BY <1>2, <2>2 DEF CreationIInv
      <3>2. pendingKeys[KeyOf[q]] # Nobody => pendingKeys'[KeyOf[q]] = pendingKeys[KeyOf[q]]
        BY <1>2, <3>1
      <3>3. QED
        BY <1>0, <3>1, <3>2 DEF RequestOK, RequestAt
    <2>3. QED BY <2>1, <2>2
  <1>6. ASSUME NEW q \in created' \ forgotten' PROVE Remembered(q)'
    <2>1. Remembered(q) /\ q \in Requests /\ KeyOf[q] \in Keys
      BY <1>0, <1>6 DEF CreationIInv, CreationTypeOK
    <2>2. request'[q] = request[q]
      BY <1>0, <1>2, <2>1 DEF Remembered, RequestAt
    <2>3. pendingKeys'[KeyOf[q]] = pendingKeys[KeyOf[q]]
      BY <1>1, <1>2, <2>1 DEF Remembered
    <2>4. QED
      BY <1>0, <2>1, <2>2, <2>3 DEF Remembered, RequestAt
  <1>7. QED
    BY <1>3, <1>4, <1>5, <1>6 DEF CreationIInv

\* A request moves to a stage in which it keeps its key, or gives up its work.
LEMMA StepKeeps ==
    ASSUME CreationIInv, NEW r \in Requests, NEW stage \in Stages, Step(r, stage),
           request[r].at \in {"owner", "inserting"},
           stage \in {"invalid", "inserting", "committed"},
           stage = "committed" => created' = created \cup {r},
           stage # "committed" => created' = created,
           UNCHANGED <<pendingKeys, entries, forgotten>>
    PROVE  CreationIInv'
  <1> USE CreationAssumption
  <1>0. CreationTypeOK /\ request \in [Requests -> [at : Stages, vault : Requests \cup {Nobody}]]
        /\ pendingKeys[KeyOf[r]] = r
    BY DEF CreationIInv, CreationTypeOK, RequestOK
  <1>1. /\ request' \in [Requests -> [at : Stages, vault : Requests \cup {Nobody}]]
        /\ request'[r].at = stage
        /\ \A q \in Requests \ {r} : request'[q] = request[q]
    BY <1>0 DEF Step
  <1>2. CreationTypeOK'
    BY <1>0, <1>1 DEF CreationTypeOK
  <1>3. ASSUME NEW k \in Keys PROVE KeyOK(k)'
    BY <1>0, <1>1, <1>3 DEF CreationIInv, CreationTypeOK, KeyOK, RequestAt
  <1>4. ASSUME NEW q \in Requests PROVE RequestOK(q)'
    BY <1>0, <1>1 DEF CreationIInv, RequestOK, RequestAt
  <1>5. ASSUME NEW q \in created' \ forgotten' PROVE Remembered(q)'
    <2>1. CASE q = r
      <3>1. stage = "committed"
        <4>1. CASE r \in created
          BY <1>5, <2>1, <4>1 DEF CreationIInv, Remembered, RequestAt
        <4>2. CASE r \notin created
          BY <1>5, <2>1, <4>2
        <4>3. QED BY <4>1, <4>2
      <3>2. QED
        BY <1>0, <1>1, <2>1, <3>1 DEF Remembered, RequestAt
    <2>2. CASE q # r
      BY <1>1, <1>5, <2>2 DEF CreationIInv, CreationTypeOK, Remembered, RequestAt
    <2>3. QED BY <2>1, <2>2
  <1>6. QED
    BY <1>2, <1>3, <1>4, <1>5 DEF CreationIInv

\* The answer takes the place of the promise, and reaches whoever waited for it.
LEMMA RespondKeeps ==
    ASSUME CreationIInv, NEW r \in Requests, Respond(r)
    PROVE  CreationIInv'
  <1> USE CreationAssumption
  <1>0. /\ CreationTypeOK /\ RequestAt(r, "committed") /\ pendingKeys[KeyOf[r]] = r
        /\ r \in created /\ KeyOf[r] \in Keys /\ UNCHANGED <<created, forgotten>>
    BY DEF CreationIInv, RequestOK, Respond, RequestAt
  <1>1. /\ pendingKeys' = [pendingKeys EXCEPT ![KeyOf[r]] = Nobody]
        /\ entries' = [entries EXCEPT ![KeyOf[r]] = r]
        /\ \A q \in Requests :
             request'[q] = IF q = r THEN [at |-> "made", vault |-> r]
                           ELSE IF q \in Waiters(r) THEN [at |-> "replayed", vault |-> r]
                           ELSE request[q]
    BY DEF Respond
  <1>2. CreationTypeOK'
    <2>1. /\ [at |-> "made", vault |-> r] \in [at : Stages, vault : Requests \cup {Nobody}]
          /\ [at |-> "replayed", vault |-> r] \in [at : Stages, vault : Requests \cup {Nobody}]
      BY DEF Stages
    <2>2. request' \in [Requests -> [at : Stages, vault : Requests \cup {Nobody}]]
      BY <1>0, <2>1 DEF CreationTypeOK, Respond
    <2>3. QED
      BY <1>0, <1>1, <2>2 DEF CreationTypeOK
  <1>3. ASSUME NEW k \in Keys PROVE KeyOK(k)'
    <2>1. KeyOK(k) /\ entries[k] \in Requests \cup {Nobody}
      BY <1>0 DEF CreationIInv, CreationTypeOK
    <2>2. CASE k = KeyOf[r]
      BY <1>0, <1>1, <2>2 DEF KeyOK, RequestAt, CreationTypeOK
    <2>3. CASE k # KeyOf[r]
      <3>1. entries'[k] = entries[k] /\ pendingKeys'[k] = pendingKeys[k]
        BY <1>0, <1>1, <2>3 DEF CreationTypeOK
      <3>2. entries[k] # Nobody => entries[k] # r /\ entries[k] \notin Waiters(r)
        BY <2>1, <2>3 DEF KeyOK, RequestAt, Waiters
      <3>3. entries[k] # Nobody => request'[entries[k]] = request[entries[k]]
        BY <1>1, <2>1, <3>2
      <3>4. QED
        BY <1>0, <2>1, <3>1, <3>3 DEF KeyOK, RequestAt
    <2>4. QED BY <2>2, <2>3
  <1>4. ASSUME NEW q \in Requests PROVE RequestOK(q)'
    <2>1. RequestOK(q) /\ KeyOf[q] \in Keys
      BY DEF CreationIInv
    <2>2. CASE q = r
      BY <1>0, <1>1, <2>2 DEF RequestOK, RequestAt
    <2>3. CASE q # r /\ q \in Waiters(r)
      BY <1>0, <1>1, <2>1, <2>3 DEF RequestOK, RequestAt, Waiters
    <2>4. CASE q # r /\ q \notin Waiters(r)
      <3>1. request'[q] = request[q]
        BY <1>1, <2>4
      <3>2. request[q].at \in {"owner", "inserting", "committed", "waiting"} => KeyOf[q] # KeyOf[r]
        BY <1>0, <2>1, <2>4 DEF RequestOK, RequestAt, Waiters
      <3>3. KeyOf[q] # KeyOf[r] => pendingKeys'[KeyOf[q]] = pendingKeys[KeyOf[q]]
        BY <1>0, <1>1, <2>1 DEF CreationTypeOK
      <3>4. QED
        BY <1>0, <2>1, <3>1, <3>2, <3>3 DEF RequestOK, RequestAt
    <2>5. QED BY <2>2, <2>3, <2>4
  <1>5. ASSUME NEW q \in created' \ forgotten' PROVE Remembered(q)'
    <2>1. Remembered(q) /\ q \in Requests /\ KeyOf[q] \in Keys
      BY <1>0, <1>5 DEF CreationIInv, CreationTypeOK
    <2>2. CASE q = r
      BY <1>0, <1>1, <2>2 DEF Remembered, RequestAt, CreationTypeOK
    <2>3. CASE q # r
      <3>1. KeyOf[q] # KeyOf[r] /\ q \notin Waiters(r)
        BY <1>0, <2>1, <2>3 DEF Remembered, RequestAt, Waiters
      <3>2. request'[q] = request[q] /\ pendingKeys'[KeyOf[q]] = pendingKeys[KeyOf[q]]
            /\ entries'[KeyOf[q]] = entries[KeyOf[q]]
        BY <1>0, <1>1, <2>1, <2>3, <3>1 DEF CreationTypeOK
      <3>3. QED
        BY <2>1, <3>2 DEF Remembered, RequestAt
    <2>4. QED BY <2>2, <2>3
  <1>6. QED
    BY <1>2, <1>3, <1>4, <1>5 DEF CreationIInv

\* A process that dies forgets every vault with its keys; its answers remain.
LEMMA DieKeeps ==
    ASSUME CreationIInv, NEW told \in SUBSET Requests,
           \A r \in told : RequestAt(r, "inserting"), Die(told)
    PROVE  CreationIInv'
  <1> USE CreationAssumption
  <1>0. CreationTypeOK
    BY DEF CreationIInv
  <1>1. /\ created \subseteq created' /\ created' \subseteq Requests /\ forgotten' = created'
        /\ \A k \in Keys : pendingKeys'[k] = Nobody /\ entries'[k] = Nobody
        /\ pendingKeys' \in [Keys -> Requests \cup {Nobody}]
        /\ entries' \in [Keys -> Requests \cup {Nobody}]
    BY <1>0 DEF Die, CreationTypeOK
  <1>2. ASSUME NEW q \in Requests
        PROVE  /\ request'[q] \in [at : Stages, vault : Requests \cup {Nobody}]
               /\ request'[q].at \notin InProgress
               /\ request'[q].at \in {"made", "replayed"} => request'[q] = request[q]
    <2>1. request[q] \in [at : Stages, vault : Requests \cup {Nobody}]
      BY <1>0 DEF CreationTypeOK
    <2>2. request'[q] = IF q \in told THEN [request[q] EXCEPT !.at = "failed"]
                        ELSE IF request[q].at \in InProgress THEN [request[q] EXCEPT !.at = "gone"]
                        ELSE request[q]
      BY DEF Die
    <2>3. QED
      BY <2>1, <2>2 DEF Stages, InProgress
  <1>3. CreationTypeOK'
    <2>1. request' \in [Requests -> [at : Stages, vault : Requests \cup {Nobody}]]
      <3>1. request' = [q \in Requests |-> request'[q]]
        BY DEF Die
      <3>2. QED BY <1>2, <3>1
    <2>2. QED
      BY <1>1, <2>1 DEF CreationTypeOK
  <1>4. \A k \in Keys : KeyOK(k)'
    BY <1>1 DEF KeyOK
  <1>5. ASSUME NEW q \in Requests PROVE RequestOK(q)'
    <2>1. request'[q].at \notin {"owner", "inserting", "committed", "waiting"}
      BY <1>2 DEF InProgress
    <2>2. QED
      BY <1>1, <1>2, <2>1 DEF CreationIInv, RequestOK, RequestAt
  <1>6. QED
    BY <1>1, <1>3, <1>4, <1>5 DEF CreationIInv

\* The key of an answer that expires forgets its vault.
LEMMA ExpireEntryKeeps ==
    ASSUME CreationIInv, NEW k \in Keys, ExpireEntry(k)
    PROVE  CreationIInv'
  <1> USE CreationAssumption
  <1>0. /\ CreationTypeOK /\ UNCHANGED <<request, pendingKeys, created>>
        /\ entries' = [entries EXCEPT ![k] = Nobody]
        /\ forgotten' = forgotten \cup {r \in created : KeyOf[r] = k}
    BY DEF CreationIInv, ExpireEntry
  <1>1. CreationTypeOK'
    BY <1>0 DEF CreationTypeOK
  <1>2. \A j \in Keys : KeyOK(j)'
    BY <1>0 DEF CreationIInv, CreationTypeOK, KeyOK, RequestAt
  <1>3. \A r \in Requests : RequestOK(r)'
    BY <1>0 DEF CreationIInv, RequestOK, RequestAt
  <1>4. ASSUME NEW r \in created' \ forgotten' PROVE Remembered(r)'
    <2>1. Remembered(r) /\ r \in Requests /\ KeyOf[r] \in Keys /\ KeyOf[r] # k
      BY <1>0, <1>4 DEF CreationIInv, CreationTypeOK
    <2>2. entries'[KeyOf[r]] = entries[KeyOf[r]]
      BY <1>0, <2>1 DEF CreationTypeOK
    <2>3. QED
      BY <1>0, <2>1, <2>2 DEF Remembered, RequestAt
  <1>5. QED
    BY <1>1, <1>2, <1>3, <1>4 DEF CreationIInv

\* A key creates one vault, and every answer of success with it names that
\* vault, unless the answer expired or the process died in between.
THEOREM KeysCreateOneVault == CreationSpec => []OneVaultPerKey
  <1>1. CreationInit => CreationIInv
    BY CreationAssumption DEF CreationInit, CreationIInv, CreationTypeOK, KeyOK, RequestOK,
       Remembered, RequestAt, Stages
  <1>2. CreationIInv /\ [CreationNext]_creationVars => CreationIInv'
    <2> SUFFICES ASSUME CreationIInv, [CreationNext]_creationVars PROVE CreationIInv'
      OBVIOUS
    <2>1. ASSUME NEW r \in Requests, Reject(r) \/ Accept(r) \/ CommitVault(r) PROVE CreationIInv'
      <3>1. PICK stage \in {"invalid", "inserting", "committed"} :
              /\ Step(r, stage) /\ request[r].at \in {"owner", "inserting"}
              /\ UNCHANGED <<pendingKeys, entries, forgotten>>
              /\ stage = "committed" => created' = created \cup {r}
              /\ stage # "committed" => created' = created
        BY <2>1 DEF Reject, Accept, CommitVault, RequestAt
      <3>2. stage \in Stages
        BY DEF Stages
      <3>3. QED
        BY <3>1, <3>2, StepKeeps
    <2>2. ASSUME NEW r \in Requests, FailCreation(r) PROVE CreationIInv'
      BY <2>2, DieKeeps DEF FailCreation
    <2>3. CASE CrashRequests
      BY <2>3, DieKeeps DEF CrashRequests
    <2>4. CASE UNCHANGED creationVars
      BY <2>4 DEF creationVars, CreationIInv, CreationTypeOK, KeyOK, RequestOK, Remembered, RequestAt
    <2>5. QED
      BY <2>1, <2>2, <2>3, <2>4, ArriveKeeps, RespondKeeps, ExpireEntryKeeps
      DEF CreationNext, Handle
  <1>3. CreationIInv => OneVaultPerKey
    BY CreationAssumption DEF CreationIInv, CreationTypeOK, OneVaultPerKey, RequestOK, Remembered, RequestAt
  <1>4. QED
    BY <1>1, <1>2, <1>3, PTL DEF CreationSpec

-----------------------------------------------------------------------------
(* SorobanSubmit *)

\* The network holds nothing beyond the next sequence number, and of a call that
\* sends nothing newer than what it sends.
Sent == mempool \cup applied
NetworkOK ==
    /\ \A u \in mempool : u.seq <= sequence + 1
    /\ \A u \in applied : u.seq <= sequence

Unsent == {"idle", "not_requested", "not_configured"}
CallOK(c) ==
    /\ call[c].at \in {"building", "sending"} => call[c].url \in Urls
    /\ call[c].at = "sending" => /\ call[c].seq <= sequence + 1
                                 /\ \A u \in Sent : u.call = c => u.seq <= call[c].seq
    /\ call[c].at = "succeeded" => Tx(c) \in applied
    /\ call[c].at \in Unsent => \A u \in Sent : u.call # c

\* A transaction with an answered send is the last of its call.
AnswerOK(t) ==
    /\ call[t.call].at \in {"polling", "succeeded", "failed"} /\ Tx(t.call) = t
    /\ \A u \in Sent : u.call = t.call => u.seq <= t.seq

SubmitIInv ==
    /\ SubmitTypeOK /\ NetworkOK
    /\ \A c \in Calls : CallOK(c)
    /\ \A t \in answered : AnswerOK(t)

CallRecord == [at : CallStages, url : 0 .. Endpoints, rest : Seq(Urls),
               seq : Nat, sends : 0 .. SendAttempts - 1]

\* A set of positions has a first one.
LEMMA FirstPosition ==
    ASSUME NEW S \in SUBSET Nat, S # {}
    PROVE  (CHOOSE i \in S : \A j \in S : i <= j) \in S
  <1> DEFINE less == {p \in Nat \X Nat : p[1] < p[2]}
  <1>1. IsWellFoundedOn(less, Nat)
    BY NatLessThanWellFounded DEF OpToRel
  <1>2. \A k, l \in Nat : <<k, l>> \notin less => l <= k
    OBVIOUS
  <1> HIDE DEF less
  <1>3. \E l \in S : \A k \in S : <<k, l>> \notin less
    BY <1>1, WFMin
  <1>4. \E l \in S : \A k \in S : l <= k
    BY <1>2, <1>3
  <1>5. QED
    BY <1>4

\* The endpoint a call goes on to, if any, and what is left to try.
LEMMA AdvanceEffect ==
    ASSUME SubmitTypeOK, NEW c \in Calls, NEW urls \in Seq(Urls), NEW unavailable,
           Advance(c, urls, unavailable)
    PROVE  \E new \in CallRecord : /\ call' = [call EXCEPT ![c] = new]
                                   /\ \/ new.at = "failed"
                                      \/ new.at = "building" /\ new.url \in Urls
  <1> DEFINE open == {i \in 1 .. Len(urls) : urls[i] \notin unavailable}
             i == CHOOSE i \in open : \A j \in open : i <= j
  <1>0. call[c] \in CallRecord
    BY DEF SubmitTypeOK, CallRecord
  <1>1. CASE open = {}
    <2>1. call' = [call EXCEPT ![c] = [call[c] EXCEPT !.at = "failed"]]
      BY <1>1 DEF Advance, SubmitTypeOK
    <2>2. [call[c] EXCEPT !.at = "failed"] \in CallRecord
          /\ [call[c] EXCEPT !.at = "failed"].at = "failed"
      BY <1>0 DEF CallRecord, CallStages
    <2>3. QED BY <2>1, <2>2
  <1>2. CASE open # {}
    <2> DEFINE new == [at |-> "building", url |-> urls[i], seq |-> 0, sends |-> 0,
                       rest |-> SubSeq(urls, i + 1, Len(urls))]
    <2>1. i \in 1 .. Len(urls)
      <3>1. open \in SUBSET Nat /\ open \subseteq 1 .. Len(urls)
        BY LenProperties
      <3> HIDE DEF open
      <3>2. i \in open
        BY <1>2, <3>1, FirstPosition
      <3>3. QED BY <3>1, <3>2
    <2>2. call' = [call EXCEPT ![c] = new]
      BY <1>2 DEF Advance
    <2> HIDE DEF i
    <2>3. /\ urls[i] \in Urls /\ SubSeq(urls, i + 1, Len(urls)) \in Seq(Urls)
      BY <2>1, LenProperties, ElementOfSeq, SubSeqProperties
    <2>4. new \in CallRecord
      BY <2>3, SubmitAssumption DEF CallRecord, CallStages, Urls
    <2>5. new.at = "building" /\ new.url \in Urls
      BY <2>3
    <2> HIDE DEF new
    <2>6. QED BY <2>2, <2>4, <2>5
  <1>3. QED BY <1>1, <1>2

\* A step of a call that sends nothing and is answered nothing.
LEMMA QuietKeeps ==
    ASSUME SubmitIInv, NEW c \in Calls, NEW new \in CallRecord, call' = [call EXCEPT ![c] = new],
           failures' \in [Urls -> 0 .. FailureThreshold],
           UNCHANGED <<probing, network, answered>>,
           \/ new.at = "failed" /\ new.url = call[c].url /\ new.seq = call[c].seq
           \/ new.at = "failed" /\ \A t \in answered : t.call # c
           \/ /\ new.at \in Unsent /\ call[c].at = "idle"
              /\ \A t \in answered : t.call # c
           \/ new.at = "building" /\ new.url \in Urls /\ \A t \in answered : t.call # c
           \/ /\ new.at = "sending" /\ new.url \in Urls /\ new.seq = sequence + 1
              /\ \A t \in answered : t.call # c
           \/ /\ call[c].at = "polling" /\ new.at = "succeeded" /\ Tx(c) \in applied
              /\ new.url = call[c].url /\ new.seq = call[c].seq
    PROVE  SubmitIInv'
  <1>0. SubmitTypeOK /\ UNCHANGED <<mempool, applied, failedTxs, sequence>> /\ Sent' = Sent
        /\ sequence \in Nat
    BY DEF SubmitIInv, network, Sent, SubmitTypeOK
  <1>1. /\ call'[c] = new /\ \A x \in Calls \ {c} : call'[x] = call[x] /\ Tx(x)' = Tx(x)
        /\ Tx(c)' = [call |-> c, url |-> new.url, seq |-> new.seq]
    BY <1>0 DEF SubmitTypeOK, Tx
  <1>2. SubmitTypeOK'
    BY <1>0 DEF SubmitTypeOK, CallRecord
  <1>3. NetworkOK'
    BY <1>0 DEF SubmitIInv, NetworkOK
  <1>4. ASSUME NEW x \in Calls PROVE CallOK(x)'
    <2>1. CASE x # c
      BY <1>0, <1>1, <2>1 DEF SubmitIInv, CallOK
    <2>2. CASE x = c /\ new.at = "sending"
      <3>1. \A u \in Sent : u.seq <= sequence + 1
        <4>1. \A u \in Sent : u.seq \in Nat
          BY <1>0 DEF SubmitTypeOK, Sent, Txs
        <4>2. \A u \in Sent : u.seq <= sequence + 1 \/ u.seq <= sequence
          BY DEF SubmitIInv, NetworkOK, Sent
        <4>3. QED BY <1>0, <4>1, <4>2
      <3>2. QED
        BY <1>0, <1>1, <2>2, <3>1 DEF CallOK, Unsent
    <2>3. CASE x = c /\ new.at \in Unsent
      <3>1. \A u \in Sent : u.call # c
        BY <2>3 DEF SubmitIInv, CallOK, Unsent
      <3>2. QED
        BY <1>0, <1>1, <2>3, <3>1 DEF CallOK, Unsent
    <2>4. CASE x = c /\ new.at # "sending" /\ new.at \notin Unsent
      BY <1>0, <1>1, <2>4 DEF CallOK, Tx
    <2>5. QED BY <2>1, <2>2, <2>3, <2>4
  <1>5. ASSUME NEW t \in answered' PROVE AnswerOK(t)'
    <2>1. AnswerOK(t) /\ t \in answered /\ t.call \in Calls
      BY <1>0, <1>5 DEF SubmitIInv, SubmitTypeOK, Txs
    <2>2. CASE t.call # c
      BY <1>0, <1>1, <2>1, <2>2 DEF AnswerOK
    <2>3. CASE t.call = c
      <3>1. new.at \in {"failed", "succeeded"} /\ new.url = call[c].url /\ new.seq = call[c].seq
        BY <2>1, <2>3 DEF AnswerOK
      <3>2. Tx(c)' = Tx(c)
        BY <1>1, <3>1 DEF Tx
      <3>3. QED
        BY <1>0, <1>1, <2>1, <2>3, <3>1, <3>2 DEF AnswerOK
    <2>4. QED BY <2>2, <2>3
  <1>6. QED
    BY <1>2, <1>3, <1>4, <1>5 DEF SubmitIInv

\* A call that has yet to build or send has no answered send.
LEMMA Unanswered ==
    ASSUME SubmitIInv, NEW c \in Calls, call[c].at \in {"idle", "building", "sending"}
    PROVE  \A t \in answered : t.call # c
  BY DEF SubmitIInv, AnswerOK

\* Giving up leaves a call where it was.
LEMMA AbortEffect ==
    ASSUME SubmitIInv, NEW c \in Calls, Abort(c)
    PROVE  \E new \in CallRecord :
             /\ call' = [call EXCEPT ![c] = new]
             /\ new.at = "failed" /\ new.url = call[c].url /\ new.seq = call[c].seq
  <1>1. call[c] \in CallRecord /\ call \in [Calls -> CallRecord]
    BY DEF SubmitIInv, SubmitTypeOK, CallRecord
  <1> DEFINE new == [call[c] EXCEPT !.at = "failed"]
  <1>2. call' = [call EXCEPT ![c] = new]
    BY <1>1 DEF Abort
  <1>3. new \in CallRecord /\ new.at = "failed" /\ new.url = call[c].url /\ new.seq = call[c].seq
    BY <1>1 DEF CallRecord, CallStages
  <1>4. QED BY <1>2, <1>3

\* A failed call moves the endpoint's count within its bounds.
LEMMA FailuresTyped ==
    ASSUME SubmitTypeOK, NEW u \in 0 .. Endpoints, RecordFailure(u)
    PROVE  failures' \in [Urls -> 0 .. FailureThreshold]
  <1> DEFINE more(v) == IF failures[v] < FailureThreshold THEN failures[v] + 1 ELSE failures[v]
  <1>1. \A v \in Urls : more(v) \in 0 .. FailureThreshold
    <2>1. FailureThreshold \in Nat /\ \A v \in Urls : failures[v] \in 0 .. FailureThreshold
      BY SubmitAssumption DEF SubmitTypeOK
    <2>2. QED BY <2>1
  <1>2. failures' = [failures EXCEPT ![u] = more(u)]
    BY DEF RecordFailure
  <1> HIDE DEF more
  <1>3. QED
    BY <1>1, <1>2 DEF SubmitTypeOK

\* What a send adds to the network is what the call sends.
LEMMA SendKeeps ==
    ASSUME SubmitIInv, NEW c \in Calls, NEW new \in CallRecord, call[c].at = "sending",
           call' = [call EXCEPT ![c] = new],
           failures' \in [Urls -> 0 .. FailureThreshold],
           UNCHANGED <<probing, applied, failedTxs, sequence>>,
           mempool' \in {mempool, mempool \cup {Tx(c)}},
           \/ answered' = answered /\ new.at = "failed"
           \/ answered' = answered /\ new.at = "building" /\ new.url \in Urls
           \/ /\ answered' = answered /\ new.at = "sending"
              /\ new.url = call[c].url /\ new.seq = call[c].seq
           \/ /\ answered' = answered \cup {Tx(c)} /\ new.at \in {"polling", "failed"}
              /\ new.url = call[c].url /\ new.seq = call[c].seq
    PROVE  SubmitIInv'
  <1>0. /\ SubmitTypeOK /\ sequence \in Nat /\ call[c].seq \in Nat /\ call[c].seq <= sequence + 1
        /\ \A t \in answered : t.call # c
        /\ \A u \in Sent : u.call = c => u.seq <= call[c].seq
        /\ call[c].url \in Urls
    BY Unanswered DEF SubmitIInv, SubmitTypeOK, CallOK
  <1>1. /\ call'[c] = new /\ \A x \in Calls \ {c} : call'[x] = call[x] /\ Tx(x)' = Tx(x)
        /\ Tx(c)' = [call |-> c, url |-> new.url, seq |-> new.seq]
    BY <1>0 DEF SubmitTypeOK, Tx
  <1>2. Tx(c) \in Txs /\ Tx(c).call = c /\ Tx(c).seq = call[c].seq /\ Tx(c).url = call[c].url
    BY <1>0 DEF Tx, Txs
  <1>3. Sent' \subseteq Sent \cup {Tx(c)}
    BY DEF Sent
  <1>4. SubmitTypeOK'
    BY <1>0, <1>2 DEF SubmitTypeOK, CallRecord
  <1>5. NetworkOK'
    BY <1>0, <1>2 DEF SubmitIInv, NetworkOK
  <1>6. \A u \in Sent' : u.call = c => u.seq <= call[c].seq
    BY <1>0, <1>2, <1>3
  <1>7. ASSUME NEW x \in Calls PROVE CallOK(x)'
    <2>1. CASE x # c
      <3>1. \A u \in Sent' : u.call = x => u \in Sent
        BY <1>2, <1>3, <2>1
      <3>2. QED
        BY <1>1, <2>1, <3>1 DEF SubmitIInv, CallOK
    <2>2. CASE x = c
      BY <1>0, <1>1, <1>6, <2>2 DEF CallOK, Unsent
    <2>3. QED BY <2>1, <2>2
  <1>8. ASSUME NEW t \in answered' PROVE AnswerOK(t)'
    <2>1. CASE t \in answered
      <3>1. AnswerOK(t) /\ t.call \in Calls \ {c}
        BY <1>0, <2>1 DEF SubmitIInv, SubmitTypeOK, Txs
      <3>2. \A u \in Sent' : u.call = t.call => u \in Sent
        BY <1>2, <1>3, <3>1
      <3>3. QED
        BY <1>1, <3>1, <3>2 DEF AnswerOK
    <2>2. CASE t \notin answered
      <3>1. /\ t = Tx(c) /\ new.at \in {"polling", "failed"}
            /\ new.url = call[c].url /\ new.seq = call[c].seq
        BY <1>8, <2>2
      <3>2. Tx(c)' = Tx(c) /\ t.call = c /\ t.seq = call[c].seq
        BY <1>1, <1>2, <3>1 DEF Tx
      <3>3. QED
        BY <1>1, <1>6, <3>1, <3>2 DEF AnswerOK
    <2>3. QED BY <2>1, <2>2
  <1>9. QED
    BY <1>4, <1>5, <1>7, <1>8 DEF SubmitIInv

\* Moving on to another endpoint, before a send is answered.
LEMMA FailOverEffect ==
    ASSUME SubmitIInv, NEW c \in Calls, FailOver(c)
    PROVE  /\ failures' \in [Urls -> 0 .. FailureThreshold]
           /\ \E new \in CallRecord :
                /\ call' = [call EXCEPT ![c] = new]
                /\ \/ new.at = "failed"
                   \/ new.at = "building" /\ new.url \in Urls
  <1>1. SubmitTypeOK /\ call[c].url \in 0 .. Endpoints /\ call[c].rest \in Seq(Urls)
    BY DEF SubmitIInv, SubmitTypeOK
  <1>2. failures' \in [Urls -> 0 .. FailureThreshold]
    BY <1>1, FailuresTyped DEF FailOver
  <1>3. QED
    BY <1>1, <1>2, AdvanceEffect DEF FailOver

\* A transaction is built on the next sequence number, or the call moves on.
LEMMA BuildKeeps ==
    ASSUME SubmitIInv, NEW c \in Calls, Build(c)
    PROVE  SubmitIInv'
  <1>0. /\ SubmitTypeOK /\ call[c].at = "building" /\ call[c].url \in Urls
        /\ UNCHANGED <<probing, network, answered>>
        /\ failures \in [Urls -> 0 .. FailureThreshold] /\ call \in [Calls -> CallRecord]
        /\ \A t \in answered : t.call # c
    BY Unanswered DEF SubmitIInv, SubmitTypeOK, CallOK, CallRecord, Build
  <1>1. CASE /\ call' = [call EXCEPT ![c].at = "sending", ![c].seq = sequence + 1]
             /\ UNCHANGED failures
    <2> DEFINE new == [[call[c] EXCEPT !.at = "sending"] EXCEPT !.seq = sequence + 1]
    <2>1. call' = [call EXCEPT ![c] = new]
      BY <1>0, <1>1
    <2>2. new \in CallRecord /\ new.at = "sending" /\ new.seq = sequence + 1
          /\ new.url = call[c].url
      <3>1. call[c] \in CallRecord /\ sequence + 1 \in Nat
        BY <1>0 DEF SubmitTypeOK
      <3>2. QED
        BY <3>1 DEF CallRecord, CallStages
    <2> HIDE DEF new
    <2>3. QED
      BY <1>0, <1>1, <2>1, <2>2, QuietKeeps
  <1>2. CASE FailOver(c)
    BY <1>0, <1>2, FailOverEffect, QuietKeeps
  <1>3. CASE Abort(c) /\ UNCHANGED failures
    BY <1>0, <1>3, AbortEffect, QuietKeeps
  <1>4. QED
    BY <1>1, <1>2, <1>3 DEF Build

\* A call that begins goes to the first endpoint in order that is not down.
LEMMA BeginKeeps ==
    ASSUME SubmitIInv, NEW c \in Calls, Begin(c)
    PROVE  SubmitIInv'
  <1>1. PICK urls \in [Urls -> Urls] : Advance(c, urls, {u \in Urls : Down(u)})
    BY DEF Begin
  <1>2. urls \in Seq(Urls)
    BY <1>1, SubmitAssumption, IsASeq DEF Urls
  <1>3. PICK new \in CallRecord : /\ call' = [call EXCEPT ![c] = new]
                                  /\ \/ new.at = "failed"
                                     \/ new.at = "building" /\ new.url \in Urls
    BY <1>1, <1>2, AdvanceEffect DEF SubmitIInv
  <1>4. failures' \in [Urls -> 0 .. FailureThreshold]
        /\ \A t \in answered : t.call # c
    BY Unanswered DEF Begin, SubmitIInv, SubmitTypeOK
  <1>5. QED
    BY <1>3, <1>4, QuietKeeps DEF Begin

\* A call that is not to submit stays out of the network.
LEMMA DeclineKeeps ==
    ASSUME SubmitIInv, NEW c \in Calls, BuildOnly(c) \/ NotConfigured(c) \/ NoSuchMethod(c)
    PROVE  SubmitIInv'
  <1>0. /\ call[c].at = "idle" /\ call \in [Calls -> CallRecord]
        /\ failures' \in [Urls -> 0 .. FailureThreshold]
        /\ UNCHANGED <<probing, network, answered>>
        /\ \A t \in answered : t.call # c
    BY Unanswered
    DEF SubmitIInv, SubmitTypeOK, CallRecord, BuildOnly, NotConfigured, NoSuchMethod
  <1>1. CASE NoSuchMethod(c)
    BY <1>0, <1>1, AbortEffect, QuietKeeps DEF NoSuchMethod
  <1>2. ASSUME NEW at \in Unsent \ {"idle"}, call' = [call EXCEPT ![c].at = at]
        PROVE  SubmitIInv'
    <2> DEFINE new == [call[c] EXCEPT !.at = at]
    <2>1. call' = [call EXCEPT ![c] = new]
      BY <1>0, <1>2
    <2>2. new \in CallRecord /\ new.at = at
      <3>1. call[c] \in CallRecord /\ at \in CallStages
        BY <1>0 DEF CallStages, Unsent
      <3>2. QED
        BY <3>1 DEF CallRecord
    <2> HIDE DEF new
    <2>3. QED
      BY <1>0, <2>1, <2>2, QuietKeeps
  <1>3. QED
    BY <1>1, <1>2 DEF BuildOnly, NotConfigured, Unsent

\* A send that is answered, or refused, ties the call to its transaction.
LEMMA AnsweredKeeps ==
    ASSUME SubmitIInv, NEW c \in Calls, SendAnswered(c) \/ SendRefused(c)
    PROVE  SubmitIInv'
  <1>0. /\ SubmitTypeOK /\ call \in [Calls -> CallRecord] /\ call[c].at = "sending"
        /\ call[c].url \in 0 .. Endpoints
        /\ failures \in [Urls -> 0 .. FailureThreshold]
        /\ answered' = answered \cup {Tx(c)}
        /\ mempool' \in {mempool, mempool \cup {Tx(c)}}
        /\ UNCHANGED <<probing, applied, failedTxs, sequence>>
    BY DEF SubmitIInv, SubmitTypeOK, CallRecord, SendAnswered, SendRefused, network
  <1>1. CASE SendAnswered(c)
    <2> DEFINE new == [call[c] EXCEPT !.at = "polling"]
    <2>1. call' = [call EXCEPT ![c] = new] /\ failures' = failures
      BY <1>0, <1>1 DEF SendAnswered
    <2>2. new \in CallRecord /\ new.at = "polling" /\ new.seq = call[c].seq
          /\ new.url = call[c].url
      <3>1. call[c] \in CallRecord
        BY <1>0
      <3>2. QED
        BY <3>1 DEF CallRecord, CallStages
    <2> HIDE DEF new
    <2>3. QED
      BY <1>0, <2>1, <2>2, SendKeeps
  <1>2. CASE SendRefused(c)
    <2>1. failures' \in [Urls -> 0 .. FailureThreshold]
      BY <1>0, <1>2, FailuresTyped DEF SendRefused
    <2>2. PICK new \in CallRecord :
             /\ call' = [call EXCEPT ![c] = new]
             /\ new.at = "failed" /\ new.url = call[c].url /\ new.seq = call[c].seq
      BY <1>2, AbortEffect DEF SendRefused
    <2>3. QED
      BY <1>0, <2>1, <2>2, SendKeeps
  <1>3. QED BY <1>1, <1>2

\* A send without an answer is repeated, or left for another endpoint.
LEMMA UnansweredKeeps ==
    ASSUME SubmitIInv, NEW c \in Calls, SendUnanswered(c)
    PROVE  SubmitIInv'
  <1>0. /\ SubmitTypeOK /\ call \in [Calls -> CallRecord] /\ call[c].at = "sending"
        /\ failures \in [Urls -> 0 .. FailureThreshold]
        /\ answered' = answered
        /\ mempool' \in {mempool, mempool \cup {Tx(c)}}
        /\ UNCHANGED <<probing, applied, failedTxs, sequence>>
    BY DEF SubmitIInv, SubmitTypeOK, CallRecord, SendUnanswered
  <1>1. CASE /\ call[c].sends + 1 < SendAttempts
             /\ call' = [call EXCEPT ![c].sends = @ + 1]
             /\ UNCHANGED failures
    <2> DEFINE new == [call[c] EXCEPT !.sends = call[c].sends + 1]
    <2>1. call' = [call EXCEPT ![c] = new] /\ failures' = failures
      BY <1>0, <1>1
    <2>2. new \in CallRecord /\ new.at = "sending" /\ new.seq = call[c].seq
          /\ new.url = call[c].url
      <3>1. call[c] \in CallRecord /\ call[c].sends + 1 \in 0 .. SendAttempts - 1
        <4>1. call[c] \in CallRecord /\ call[c].sends \in 0 .. SendAttempts - 1
          BY <1>0 DEF CallRecord
        <4>2. QED
          BY <1>1, <4>1, SubmitAssumption
      <3>2. QED
        BY <1>0, <3>1 DEF CallRecord
    <2> HIDE DEF new
    <2>3. QED
      BY <1>0, <2>1, <2>2, SendKeeps
  <1>2. CASE FailOver(c)
    BY <1>0, <1>2, FailOverEffect, SendKeeps
  <1>3. QED
    BY <1>1, <1>2 DEF SendUnanswered

\* Polling ends with what became of the transaction.
LEMMA PollKeeps ==
    ASSUME SubmitIInv, NEW c \in Calls, Confirm(c) \/ PollFails(c) \/ SendThrows(c)
    PROVE  SubmitIInv'
  <1>0. /\ SubmitTypeOK /\ call \in [Calls -> CallRecord]
        /\ failures \in [Urls -> 0 .. FailureThreshold]
        /\ UNCHANGED <<probing, network, answered>>
    BY DEF SubmitIInv, SubmitTypeOK, CallRecord, Confirm, PollFails, SendThrows
  <1>1. CASE Confirm(c)
    <2> DEFINE new == [call[c] EXCEPT !.at = "succeeded"]
    <2>1. call' = [call EXCEPT ![c] = new] /\ failures' \in [Urls -> 0 .. FailureThreshold]
      <3>1. 0 \in 0 .. FailureThreshold
        BY SubmitAssumption
      <3>2. call' = [call EXCEPT ![c] = new]
        BY <1>0, <1>1 DEF Confirm
      <3>3. failures' = [failures EXCEPT ![call[c].url] = 0]
        BY <1>1 DEF Confirm
      <3>4. failures' \in [Urls -> 0 .. FailureThreshold]
        BY <1>0, <3>1, <3>3
      <3>5. QED BY <3>2, <3>4
    <2>2. new \in CallRecord /\ new.at = "succeeded" /\ new.seq = call[c].seq
          /\ new.url = call[c].url
      <3>1. call[c] \in CallRecord
        BY <1>0
      <3>2. QED
        BY <3>1 DEF CallRecord, CallStages
    <2> HIDE DEF new
    <2>3. QED
      BY <1>0, <1>1, <2>1, <2>2, QuietKeeps DEF Confirm
  <1>2. CASE PollFails(c) \/ SendThrows(c)
    BY <1>0, <1>2, AbortEffect, QuietKeeps DEF PollFails, SendThrows
  <1>3. QED BY <1>1, <1>2

\* Only the transaction with the next sequence number takes effect.
LEMMA ApplyKeeps ==
    ASSUME SubmitIInv, NEW t \in mempool, ApplyTx(t) \/ ExpireTx(t)
    PROVE  SubmitIInv'
  <1>0. /\ SubmitTypeOK /\ sequence \in Nat /\ t \in Txs
        /\ UNCHANGED <<failures, probing, call, answered>>
        /\ sequence' \in Nat /\ sequence <= sequence' /\ Sent' \subseteq Sent
        /\ applied \subseteq applied' /\ mempool' \subseteq mempool
        /\ \A u \in applied' : u \in applied \/ u.seq = sequence'
    <2>1. SubmitTypeOK /\ sequence \in Nat /\ t \in Txs /\ t.seq \in Nat
      BY DEF SubmitIInv, SubmitTypeOK, Txs
    <2>2. CASE ApplyTx(t)
      <3>1. /\ t.seq = sequence + 1 /\ sequence' = t.seq
            /\ mempool' = mempool \ {t} /\ applied' \in {applied, applied \cup {t}}
            /\ UNCHANGED <<failures, probing, call, answered>>
        BY <2>2 DEF ApplyTx
      <3>2. sequence <= sequence'
        BY <2>1, <3>1
      <3>3. QED
        BY <2>1, <3>1, <3>2 DEF Sent
    <2>3. CASE ExpireTx(t)
      BY <2>1, <2>3 DEF ExpireTx, Sent
    <2>4. QED BY <2>2, <2>3
  <1>1. SubmitTypeOK'
    BY <1>0 DEF SubmitTypeOK, ApplyTx, ExpireTx
  <1>2. NetworkOK'
    <2>1. \A u \in mempool \cup applied : u.seq \in Nat
      BY <1>0 DEF SubmitTypeOK, Txs
    <2>2. \A u \in mempool' : u.seq <= sequence + 1
      BY <1>0 DEF SubmitIInv, NetworkOK
    <2>3. \A u \in mempool' : u.seq <= sequence' + 1
      BY <1>0, <2>1, <2>2
    <2>4. \A u \in applied' : u.seq <= sequence'
      BY <1>0, <2>1 DEF SubmitIInv, NetworkOK
    <2>5. QED BY <2>3, <2>4 DEF NetworkOK
  <1>3. ASSUME NEW c \in Calls PROVE CallOK(c)'
    <2>1. CallOK(c) /\ call[c].seq \in Nat /\ Tx(c)' = Tx(c)
      BY <1>0 DEF SubmitIInv, SubmitTypeOK, Tx
    <2>2. QED
      BY <1>0, <2>1 DEF CallOK
  <1>4. ASSUME NEW x \in answered' PROVE AnswerOK(x)'
    BY <1>0 DEF SubmitIInv, AnswerOK, Tx
  <1>5. QED
    BY <1>1, <1>2, <1>3, <1>4 DEF SubmitIInv

\* Probes of endpoints change only their counts of failures.
LEMMA ProbeKeeps ==
    ASSUME SubmitIInv, UNCHANGED <<call, network, answered>>,
           probing' \subseteq Urls, failures' \in [Urls -> 0 .. FailureThreshold]
    PROVE  SubmitIInv'
  BY DEF SubmitIInv, SubmitTypeOK, NetworkOK, CallOK, AnswerOK, Sent, Tx, network

\* Once a send is answered the call builds no other transaction: none of its
\* later transactions takes effect next to an answered one, a call that reports
\* success has taken effect, and one that reports it did not submit never does.
THEOREM CallsSubmittedOnce == SubmitSpec => []SubmittedOnce
  <1>1. SubmitInit => SubmitIInv
    <2> SUFFICES ASSUME SubmitInit PROVE SubmitIInv
      OBVIOUS
    <2>1. /\ [at |-> "idle", url |-> 0, rest |-> <<>>, seq |-> 0, sends |-> 0] \in CallRecord
          /\ 0 \in 0 .. FailureThreshold
      BY SubmitAssumption DEF CallRecord, CallStages
    <2>2. SubmitTypeOK
      BY <2>1 DEF SubmitInit, SubmitTypeOK, CallRecord
    <2>3. QED
      BY <2>2 DEF SubmitInit, SubmitIInv, NetworkOK, CallOK, Sent
  <1>2. SubmitIInv /\ [SubmitNext]_submitVars => SubmitIInv'
    <2> SUFFICES ASSUME SubmitIInv, [SubmitNext]_submitVars PROVE SubmitIInv'
      OBVIOUS
    <2>0. SubmitTypeOK
      BY DEF SubmitIInv
    <2>1. ASSUME NEW u \in Urls, StartProbing(u) \/ EndProbing(u) PROVE SubmitIInv'
      <3>1. UNCHANGED <<call, network, answered>> /\ probing' \subseteq Urls
        BY <2>0, <2>1 DEF SubmitTypeOK, StartProbing, EndProbing
      <3>2. failures' \in [Urls -> 0 .. FailureThreshold]
        BY <2>0, <2>1, SubmitAssumption DEF SubmitTypeOK, StartProbing, EndProbing
      <3>3. QED
        BY <3>1, <3>2, ProbeKeeps
    <2>2. CASE UNCHANGED submitVars
      BY <2>0, <2>2, ProbeKeeps DEF SubmitTypeOK, submitVars, network
    <2>3. QED
      BY <2>1, <2>2, DeclineKeeps, BeginKeeps, BuildKeeps, AnsweredKeeps, UnansweredKeeps, PollKeeps, ApplyKeeps
      DEF SubmitNext
  <1>3. SubmitIInv => SubmittedOnce
    <2> SUFFICES ASSUME SubmitIInv PROVE SubmittedOnce
      OBVIOUS
    <2>1. ASSUME NEW t \in applied, NEW u \in applied, t.call = u.call, t.seq < u.seq, t \in answered
          PROVE  FALSE
      <3>1. u.seq <= t.seq
        BY <2>1 DEF SubmitIInv, AnswerOK, Sent
      <3>2. u.seq \in Nat /\ t.seq \in Nat
        BY DEF SubmitIInv, SubmitTypeOK, Txs
      <3>3. QED BY <2>1, <3>1, <3>2
    <2>2. \A c \in Calls : Response(c) = "success" => Tx(c) \in applied
      BY DEF Response, SubmitIInv, CallOK
    <2>3. ASSUME NEW t \in mempool \cup applied
          PROVE  Response(t.call) \notin {"not_requested", "not_configured"}
      <3>1. t.call \in Calls /\ t \in Sent
        BY <2>3 DEF SubmitIInv, SubmitTypeOK, Txs, Sent
      <3>2. call[t.call].at \notin Unsent
        BY <3>1 DEF SubmitIInv, CallOK
      <3>3. QED
        BY <3>2 DEF Response, Unsent
    <2>4. QED
      BY <2>1, <2>2, <2>3 DEF SubmittedOnce
  <1>4. QED
    BY <1>1, <1>2, <1>3, PTL DEF SubmitSpec

-----------------------------------------------------------------------------
(* VaultStore *)

\* A reason why the copy of v may be older than its row.
Excused(v) == v \in unannounced \cup late \/ \E w \in Writers : writing[w].vault = v

Reads == [at : {"idle", "fill", "tag"}, vault : Vaults \cup {Absent},
          body : Revision \cup {Absent}]
Writes == [at : {"idle", "reread", "refill", "invalidate"},
           vault : Vaults \cup {Absent}, body : Revision \cup {Absent}]
CacheTypeOK ==
    /\ row \in [Vaults -> [rev : Revision, status : Status]]
    /\ cached \in [Vaults -> Revision \cup {Absent}]
    /\ reading \in [Readers -> Reads]
    /\ writing \in [Writers -> Writes]
    /\ unannounced \subseteq Vaults /\ late \subseteq Vaults
    /\ \A r \in Readers : reading[r].at # "idle" => reading[r].vault \in Vaults
    /\ \A w \in Writers : IF writing[w].at = "idle" THEN writing[w].vault = Absent
                           ELSE writing[w].vault \in Vaults

CacheIInv == CacheTypeOK /\ StaleOnlyForAReason

\* What a step must keep: no vault loses its excuse while its copy is old.
LEMMA CacheKept ==
    ASSUME CacheIInv, CacheTypeOK',
           \A v \in Vaults : \/ cached'[v] = cached[v] /\ row'[v] = row[v] /\ (Excused(v) => Excused(v)')
                             \/ cached'[v] \in {Absent, row'[v].rev}
                             \/ Excused(v)'
    PROVE  CacheIInv'
  <1>1. ASSUME NEW v \in Vaults PROVE cached'[v] \in {Absent, row'[v].rev} \/ Excused(v)'
    BY DEF CacheIInv, StaleOnlyForAReason, Excused
  <1>2. StaleOnlyForAReason'
    BY <1>1 DEF StaleOnlyForAReason, Excused
  <1>3. QED
    BY <1>2 DEF CacheIInv

\* Readers fill the cache with what they have read.
LEMMA ReadersKeep ==
    ASSUME CacheIInv, NEW r \in Readers, (\E v \in Vaults : Get(r, v)) \/ Fill(r) \/ Tag(r)
    PROVE  CacheIInv'
  <1>0. CacheTypeOK /\ reading \in [Readers -> Reads] /\ reading[r] \in Reads
        /\ UNCHANGED <<row, writing, unannounced>>
    BY DEF CacheIInv, CacheTypeOK, Get, Fill, Tag
  <1>1. ASSUME NEW v \in Vaults, Get(r, v) PROVE CacheIInv'
    <2>1. PICK new \in Reads : /\ reading' = [reading EXCEPT ![r] = new] /\ new.vault = v
                               /\ UNCHANGED <<cached, late>>
      <3>1. row[v].rev \in Revision /\ cached[v] \in Revision \cup {Absent}
        BY <1>0 DEF CacheTypeOK
      <3>2. CASE cached[v] # Absent
        <4> DEFINE new == [at |-> "tag", vault |-> v, body |-> cached[v]]
        <4>1. new \in Reads /\ new.vault = v /\ reading' = [reading EXCEPT ![r] = new]
          BY <1>1, <3>1, <3>2 DEF Get, Reads
        <4>2. QED BY <1>1, <4>1 DEF Get
      <3>3. CASE cached[v] = Absent
        <4> DEFINE new == [at |-> "fill", vault |-> v, body |-> row[v].rev]
        <4>1. new \in Reads /\ new.vault = v /\ reading' = [reading EXCEPT ![r] = new]
          BY <1>1, <3>1, <3>3 DEF Get, Reads
        <4>2. QED BY <1>1, <4>1 DEF Get
      <3>4. QED BY <3>2, <3>3
    <2>2. CacheTypeOK'
      BY <1>0, <2>1 DEF CacheTypeOK
    <2>3. QED
      BY <1>0, <2>1, <2>2, CacheKept DEF Excused
  <1>2. CASE Fill(r)
    <2> DEFINE v == reading[r].vault
    <2>0. v \in Vaults /\ reading[r].body \in Revision \cup {Absent}
      BY <1>0, <1>2 DEF CacheTypeOK, Fill, Reads
    <2>1. /\ reading' \in [Readers -> Reads] /\ reading'[r].vault = v
          /\ \A q \in Readers \ {r} : reading'[q] = reading[q]
      <3>1. [reading[r] EXCEPT !.at = "tag"] \in Reads /\ [reading[r] EXCEPT !.at = "tag"].vault = v
        BY <1>0 DEF Reads
      <3>2. reading' = [reading EXCEPT ![r] = [reading[r] EXCEPT !.at = "tag"]]
        BY <1>0, <1>2 DEF Fill
      <3>3. QED BY <1>0, <3>1, <3>2
    <2>2. \/ /\ cached' = [cached EXCEPT ![v] = reading[r].body]
             /\ late' = IF reading[r].body = row[v].rev THEN late ELSE late \cup {v}
          \/ UNCHANGED <<cached, late>>
      BY <1>2 DEF Fill
    <2>3. cached' \in [Vaults -> Revision \cup {Absent}] /\ late' \subseteq Vaults /\ late \subseteq late'
      BY <1>0, <2>0, <2>2 DEF CacheTypeOK
    <2>4. CacheTypeOK'
      BY <1>0, <2>0, <2>1, <2>3 DEF CacheTypeOK
    <2>5. ASSUME NEW x \in Vaults
          PROVE  cached'[x] = cached[x] \/ (x \in late' \/ cached'[x] = row'[x].rev)
      <3>1. cached \in [Vaults -> Revision \cup {Absent}]
        BY <1>0 DEF CacheTypeOK
      <3>2. QED
        BY <1>0, <2>2, <3>1
    <2>6. QED
      BY <1>0, <2>3, <2>4, <2>5, CacheKept DEF Excused
  <1>3. CASE Tag(r)
    <2>1. NoRead \in Reads /\ NoRead.at = "idle" /\ reading' = [reading EXCEPT ![r] = NoRead]
          /\ UNCHANGED <<cached, late>>
      BY <1>3 DEF Tag, NoRead, Reads
    <2>2. CacheTypeOK'
      BY <1>0, <2>1 DEF CacheTypeOK
    <2>3. QED
      BY <1>0, <2>1, <2>2, CacheKept DEF Excused
  <1>4. QED
    BY <1>1, <1>2, <1>3

\* A write gives one row its next revision.
LEMMA WriteTyped ==
    ASSUME CacheTypeOK, NEW v \in Vaults, NEW s \in Status, Write(v, s)
    PROVE  /\ row' \in [Vaults -> [rev : Revision, status : Status]]
           /\ \A x \in Vaults \ {v} : row'[x] = row[x]
  <1>1. row[v].rev + 1 \in Revision
    BY StoreAssumption DEF CacheTypeOK, Write, Revision
  <1>2. [rev |-> row[v].rev + 1, status |-> s] \in [rev : Revision, status : Status]
    BY <1>1
  <1>3. QED
    BY <1>2 DEF CacheTypeOK, Write

\* An announced write is an excuse until it has invalidated the copy.
LEMMA WritersStart ==
    ASSUME CacheIInv, NEW w \in Writers, NEW v \in Vaults,
           (\E n \in 0 .. MaxRevision, s \in Status : Patch(w, v, n, s)) \/ Cancel(w, v)
    PROVE  CacheIInv'
  <1>0. CacheTypeOK /\ writing \in [Writers -> Writes] /\ writing[w].at = "idle"
        /\ UNCHANGED <<cached, reading, late, unannounced>>
    BY DEF CacheIInv, CacheTypeOK, Patch, Cancel, cacheVars
  <1>1. PICK s \in Status : Write(v, s)
    BY DEF Patch, Cancel, Status
  <1>2. PICK stage \in {"invalidate", "reread"} :
          writing' = [writing EXCEPT ![w] = [at |-> stage, vault |-> v, body |-> Absent]]
    BY DEF Patch, Cancel
  <1>3. [at |-> stage, vault |-> v, body |-> Absent] \in Writes
    BY DEF Writes
  <1>4. /\ writing' \in [Writers -> Writes] /\ writing'[w].vault = v /\ writing'[w].at = stage
        /\ \A x \in Writers \ {w} : writing'[x] = writing[x]
    BY <1>0, <1>2, <1>3
  <1>5. row' \in [Vaults -> [rev : Revision, status : Status]]
        /\ \A x \in Vaults \ {v} : row'[x] = row[x]
    BY <1>0, <1>1, WriteTyped
  <1>6. CacheTypeOK'
    BY <1>0, <1>4, <1>5 DEF CacheTypeOK
  <1>7. ASSUME NEW x \in Vaults, x # v, Excused(x) PROVE Excused(x)'
    <2>1. writing[w].vault = Absent /\ Absent \notin Vaults
      BY <1>0, StoreAssumption DEF CacheTypeOK
    <2>2. QED
      BY <1>0, <1>4, <1>7, <2>1 DEF Excused
  <1>8. Excused(v)'
    BY <1>4 DEF Excused
  <1>9. QED
    BY <1>0, <1>5, <1>6, <1>7, <1>8, CacheKept

\* The later steps of an announced write: it reads through the cache, may fill
\* it, and takes its copy out.
LEMMA WritersEnd ==
    ASSUME CacheIInv, NEW w \in Writers, Reread(w) \/ Refill(w) \/ Invalidate(w)
    PROVE  CacheIInv'
  <1>0. /\ CacheTypeOK /\ writing \in [Writers -> Writes] /\ writing[w].at # "idle"
        /\ UNCHANGED <<row, reading>>
    BY DEF CacheIInv, CacheTypeOK, Reread, Refill, Invalidate, cacheVars
  <1> DEFINE v == writing[w].vault
  <1>1. v \in Vaults /\ row[v].rev \in Revision /\ cached \in [Vaults -> Revision \cup {Absent}]
    BY <1>0 DEF CacheTypeOK
  <1>2. NoWrite \in Writes /\ NoWrite.at = "idle" /\ NoWrite.vault = Absent
    BY DEF NoWrite, Writes
  <1>3. ASSUME NEW new \in Writes, new.vault = v, new.at # "idle",
               writing' = [writing EXCEPT ![w] = new],
               cached' \in [Vaults -> Revision \cup {Absent}],
               \A x \in Vaults \ {v} : cached'[x] = cached[x],
               UNCHANGED <<late, unannounced>>
        PROVE  CacheIInv'
    <2>1. CacheTypeOK'
      BY <1>0, <1>1, <1>3 DEF CacheTypeOK
    <2>2. \A q \in Writers : writing'[q].vault = writing[q].vault
      BY <1>0, <1>3
    <2>3. \A x \in Vaults : Excused(x) => Excused(x)'
      BY <1>3, <2>2 DEF Excused
    <2>4. ASSUME NEW x \in Vaults, x = v PROVE Excused(x)'
      BY <2>2, <2>4 DEF Excused
    <2>5. QED
      BY <1>0, <1>3, <2>1, <2>3, <2>4, CacheKept
  <1>4. ASSUME writing' = [writing EXCEPT ![w] = NoWrite],
               cached' \in [Vaults -> Revision \cup {Absent}],
               \A x \in Vaults \ {v} : cached'[x] = cached[x],
               unannounced' \subseteq Vaults, late' \subseteq Vaults,
               \A x \in Vaults \ {v} : x \in unannounced \cup late => x \in unannounced' \cup late',
               v \in unannounced' \/ cached'[v] = Absent
        PROVE  CacheIInv'
    <2>1. CacheTypeOK'
      BY <1>0, <1>1, <1>2, <1>4 DEF CacheTypeOK
    <2>2. ASSUME NEW x \in Vaults, x # v, Excused(x) PROVE Excused(x)'
      <3>1. \A q \in Writers : writing[q].vault = x => writing'[q].vault = x
        BY <1>0, <1>4, <2>2
      <3>2. QED
        BY <1>4, <2>2, <3>1 DEF Excused
    <2> HIDE DEF v
    <2>4. ASSUME NEW x \in Vaults
          PROVE  \/ cached'[x] = cached[x] /\ row'[x] = row[x] /\ (Excused(x) => Excused(x)')
                 \/ cached'[x] \in {Absent, row'[x].rev}
                 \/ Excused(x)'
      <3>1. CASE x = v
        BY <1>4, <3>1 DEF Excused
      <3>2. CASE x # v
        BY <1>0, <1>4, <2>2, <3>2
      <3>3. QED BY <3>1, <3>2
    <2>5. QED
      BY <2>1, <2>4, CacheKept
  <1>5. CASE Reread(w)
    <2>1. UNCHANGED <<cached, late>>
      BY <1>5 DEF Reread, cacheVars
    <2>2. CASE writing' = [writing EXCEPT ![w] = NoWrite] /\ unannounced' = unannounced \cup {v}
      <3>1. unannounced' \subseteq Vaults /\ late \subseteq Vaults
        BY <1>0, <1>1, <2>2 DEF CacheTypeOK
      <3>2. QED BY <1>1, <1>4, <2>1, <2>2, <3>1
    <2>3. ASSUME writing' = [writing EXCEPT ![w] =
                    IF cached[v] # Absent THEN [@ EXCEPT !.at = "invalidate"]
                    ELSE [@ EXCEPT !.at = "refill", !.body = row[v].rev]],
                 UNCHANGED unannounced
          PROVE  CacheIInv'
      <3>1. writing[w] \in Writes
        BY <1>0
      <3>2. CASE cached[v] # Absent
        <4> DEFINE new == [writing[w] EXCEPT !.at = "invalidate"]
        <4>1. new \in Writes /\ new.vault = v /\ new.at # "idle"
          BY <3>1 DEF Writes
        <4>2. writing' = [writing EXCEPT ![w] = new]
          BY <2>3, <3>2
        <4> HIDE DEF new
        <4>3. QED BY <1>1, <1>3, <2>1, <2>3, <4>1, <4>2
      <3>3. CASE cached[v] = Absent
        <4> DEFINE new == [writing[w] EXCEPT !.at = "refill", !.body = row[v].rev]
        <4>1. new \in Writes /\ new.vault = v /\ new.at # "idle"
          BY <1>1, <3>1 DEF Writes
        <4>2. writing' = [writing EXCEPT ![w] = new]
          BY <2>3, <3>3
        <4> HIDE DEF new
        <4>3. QED BY <1>1, <1>3, <2>1, <2>3, <4>1, <4>2
      <3>4. QED BY <3>2, <3>3
    <2>4. QED
      BY <1>5, <2>2, <2>3 DEF Reread
  <1>6. CASE Refill(w)
    <2> DEFINE new == [writing[w] EXCEPT !.at = "invalidate", !.body = Absent]
    <2>1. new \in Writes /\ new.vault = v /\ new.at # "idle" /\ writing[w].body \in Revision \cup {Absent}
      BY <1>0 DEF Writes
    <2>2. writing' = [writing EXCEPT ![w] = new] /\ UNCHANGED <<late, unannounced>>
      BY <1>0, <1>6 DEF Refill
    <2>3. cached' \in {cached, [cached EXCEPT ![v] = writing[w].body]}
      BY <1>6 DEF Refill
    <2>4. cached' \in [Vaults -> Revision \cup {Absent}] /\ \A x \in Vaults \ {v} : cached'[x] = cached[x]
      BY <1>1, <2>1, <2>3
    <2> HIDE DEF new
    <2>5. QED BY <1>3, <2>1, <2>2, <2>4
  <1>7. CASE Invalidate(w)
    <2>1. writing' = [writing EXCEPT ![w] = NoWrite]
      BY <1>7 DEF Invalidate
    <2>2. unannounced \subseteq Vaults /\ late \subseteq Vaults
      BY <1>0 DEF CacheTypeOK
    <2>3. CASE cached' = [cached EXCEPT ![v] = Absent] /\ unannounced' = unannounced \ {v}
               /\ late' = late \ {v}
      <3>1. cached' \in [Vaults -> Revision \cup {Absent}] /\ cached'[v] = Absent
            /\ \A x \in Vaults \ {v} : cached'[x] = cached[x]
        BY <1>1, <2>3
      <3>2. QED BY <1>4, <2>1, <2>2, <2>3, <3>1
    <2>4. CASE unannounced' = unannounced \cup {v} /\ UNCHANGED <<cached, late>>
      BY <1>1, <1>4, <2>1, <2>2, <2>4
    <2>5. QED
      BY <1>7, <2>3, <2>4 DEF Invalidate
  <1>8. QED
    BY <1>5, <1>6, <1>7

\* A write that says nothing to the cache is an excuse until an invalidation.
LEMMA UnannouncedKeep ==
    ASSUME CacheIInv, NEW v \in Vaults,
           UNCHANGED <<cacheVars, writing>>,
           \/ (\E s \in Status : Write(v, s)) /\ unannounced' = unannounced \cup {v}
           \/ UNCHANGED <<row, unannounced>>
    PROVE  CacheIInv'
  <1>0. CacheTypeOK /\ UNCHANGED <<cached, reading, late, writing>>
    BY DEF CacheIInv, cacheVars
  <1>1. CASE UNCHANGED <<row, unannounced>>
    BY <1>0, <1>1 DEF CacheIInv, CacheTypeOK, StaleOnlyForAReason
  <1>2. ASSUME NEW s \in Status, Write(v, s), unannounced' = unannounced \cup {v}
        PROVE  CacheIInv'
    <2>1. row' \in [Vaults -> [rev : Revision, status : Status]]
          /\ \A x \in Vaults \ {v} : row'[x] = row[x]
      BY <1>0, <1>2, WriteTyped
    <2>2. CacheTypeOK'
      BY <1>0, <1>2, <2>1 DEF CacheTypeOK
    <2>3. QED
      BY <1>0, <1>2, <2>1, <2>2, CacheKept DEF Excused
  <1>3. QED
    BY <1>1, <1>2

\* A copy that expires is no longer old.
LEMMA ExpiryKeeps ==
    ASSUME CacheIInv, NEW v \in Vaults, ExpireCached(v)
    PROVE  CacheIInv'
  <1>0. CacheTypeOK /\ UNCHANGED <<row, reading, late, writing, unannounced>>
    BY DEF CacheIInv, ExpireCached
  <1>1. cached \in [Vaults -> Revision \cup {Absent}] /\ cached' = [cached EXCEPT ![v] = Absent]
    BY <1>0 DEF CacheTypeOK, ExpireCached
  <1>2. cached' \in [Vaults -> Revision \cup {Absent}] /\ \A x \in Vaults : cached'[x] \in {cached[x], Absent}
    BY <1>1
  <1>3. CacheTypeOK'
    BY <1>0, <1>2 DEF CacheTypeOK
  <1>4. QED
    BY <1>0, <1>2, <1>3, CacheKept DEF Excused

\* A crash ends the writes under way; what they wrote is then unannounced.
LEMMA CrashKeeps ==
    ASSUME CacheIInv, CrashStore
    PROVE  CacheIInv'
  <1>0. CacheTypeOK /\ UNCHANGED <<row, late>>
    BY DEF CacheIInv, CrashStore
  <1>1. NoRead \in Reads /\ NoRead.at = "idle" /\ NoWrite \in Writes
        /\ NoWrite.at = "idle" /\ NoWrite.vault = Absent
    BY DEF NoRead, NoWrite, Reads, Writes
  <1>2. cached' \in [Vaults -> Revision \cup {Absent}] /\ \A x \in Vaults : cached'[x] \in {cached[x], Absent}
    BY <1>0 DEF CacheTypeOK, CrashStore
  <1>3. \A w \in Writers : writing[w].vault \in Vaults \cup {Absent}
    BY <1>0 DEF CacheTypeOK
  <1>4. unannounced' = unannounced \cup ({writing[w].vault : w \in Writers} \ {Absent})
    BY DEF CrashStore
  <1>5. unannounced' \subseteq Vaults
    BY <1>0, <1>3, <1>4 DEF CacheTypeOK
  <1>6. CacheTypeOK'
    BY <1>0, <1>1, <1>2, <1>5 DEF CacheTypeOK, CrashStore
  <1>7. ASSUME NEW v \in Vaults, Excused(v) PROVE Excused(v)'
    <2>1. v # Absent
      BY StoreAssumption
    <2>2. QED
      BY <1>0, <1>4, <1>7, <2>1 DEF Excused
  <1>8. QED
    BY <1>0, <1>2, <1>6, <1>7, CacheKept

\* Every step of the store keeps the invariant.
LEMMA CacheSteps == CacheIInv /\ [StoreNext]_storeVars => CacheIInv'
  <1> SUFFICES ASSUME CacheIInv, [StoreNext]_storeVars PROVE CacheIInv'
    OBVIOUS
  <1>1. CASE \E r \in Readers : (\E v \in Vaults : Get(r, v)) \/ Fill(r) \/ Tag(r)
    BY <1>1, ReadersKeep
  <1>2. CASE \E v \in Vaults : ExpireCached(v) \/ WriteUnannounced(v) \/ ExpireKey(v)
    <2>1. PICK v \in Vaults : ExpireCached(v) \/ WriteUnannounced(v) \/ ExpireKey(v)
      BY <1>2
    <2>2. CASE ExpireCached(v)
      BY <2>2, ExpiryKeeps
    <2>3. CASE WriteUnannounced(v)
      BY <2>3, UnannouncedKeep DEF WriteUnannounced
    <2>4. CASE ExpireKey(v)
      BY <2>4, UnannouncedKeep DEF ExpireKey
    <2>5. QED BY <2>1, <2>2, <2>3, <2>4
  <1>3. CASE \E w \in Writers, v \in Vaults :
               (\E n \in 0 .. MaxRevision, s \in Status : Patch(w, v, n, s)) \/ Cancel(w, v)
    BY <1>3, WritersStart
  <1>4. CASE \E w \in Writers : Reread(w) \/ Refill(w) \/ Invalidate(w)
    BY <1>4, WritersEnd
  <1>5. CASE \E c \in Checks : \E S \in SUBSET Vaults : Select(c, S)
    BY <1>5 DEF Select, CacheIInv, CacheTypeOK, StaleOnlyForAReason, cacheVars
  <1>6. CASE \E c \in Checks, v \in Vaults : Mark(c, v) \/ EnqueueSlash(c, v)
    <2>1. PICK c \in Checks, v \in Vaults : Mark(c, v) \/ EnqueueSlash(c, v)
      BY <1>6
    <2>2. CASE Mark(c, v)
      <3>1. \/ Write(v, "failed") /\ unannounced' = unannounced \cup {v}
            \/ UNCHANGED <<row, unannounced>>
        BY <2>2 DEF Mark
      <3>2. "failed" \in Status /\ UNCHANGED <<cacheVars, writing>>
        BY <2>2 DEF Mark, Status
      <3>3. QED BY <3>1, <3>2, UnannouncedKeep
    <2>3. CASE EnqueueSlash(c, v)
      BY <2>3, UnannouncedKeep DEF EnqueueSlash
    <2>4. QED BY <2>1, <2>2, <2>3
  <1>7. CASE CrashStore
    BY <1>7, CrashKeeps
  <1>8. CASE UNCHANGED storeVars
    BY <1>8 DEF storeVars, CacheIInv, CacheTypeOK, StaleOnlyForAReason
  <1>9. QED
    BY <1>1, <1>2, <1>3, <1>4, <1>5, <1>6, <1>7, <1>8 DEF StoreNext

\* A cached copy of a vault is older than its row for one of three reasons only,
\* whatever the numbers of readers, writers and checks.
THEOREM CopiesAreOldForAReason == StoreSpec => []StaleOnlyForAReason
  <1>1. StoreInit => CacheIInv
    BY StoreAssumption DEF StoreInit, CacheIInv, CacheTypeOK, StaleOnlyForAReason, NoRead, NoWrite,
       Reads, Writes, Revision, Status
  <1>2. CacheIInv /\ [StoreNext]_storeVars => CacheIInv'
    BY CacheSteps
  <1>3. CacheIInv => StaleOnlyForAReason
    BY DEF CacheIInv
  <1>4. QED
    BY <1>1, <1>2, <1>3, PTL DEF StoreSpec

-----------------------------------------------------------------------------
(* Slash jobs *)

\* Outside what was dropped, a slash job is enqueued exactly when its key is there.
SlashIInv ==
    /\ check \in [Checks -> [mark : SUBSET Vaults, slash : SUBSET Vaults]]
    /\ slashes \in [Vaults -> Nat]
    /\ slashKeys \subseteq Vaults /\ marked \subseteq Vaults
    /\ \A v \in Vaults \ dropped : slashes[v] = IF v \in slashKeys THEN 1 ELSE 0
    /\ SlashesAccounted

\* A check that loses nothing it has to slash, whatever it still has to mark.
LEMMA ChecksGrow ==
    ASSUME SlashIInv, NEW c \in Checks, NEW x \in [mark : SUBSET Vaults, slash : SUBSET Vaults],
           check' = [check EXCEPT ![c] = x], check[c].slash \subseteq x.slash,
           UNCHANGED <<slashes, slashKeys, dryRun>>,
           marked \subseteq marked', marked' \subseteq Vaults, dropped \subseteq dropped',
           \A v \in marked' \ marked : v \in x.slash \/ v \in dropped'
    PROVE  SlashIInv'
  <1>1. /\ check' \in [Checks -> [mark : SUBSET Vaults, slash : SUBSET Vaults]]
        /\ check'[c] = x /\ \A d \in Checks \ {c} : check'[d] = check[d]
    BY DEF SlashIInv
  <1>2. \A v \in Vaults, d \in Checks : v \in check[d].slash => v \in check'[d].slash
    BY <1>1
  <1>3. ASSUME NEW v \in Vaults \ dropped', v \in marked'
        PROVE  slashes[v] = 1 \/ \E d \in Checks : v \in check'[d].slash
    <2>1. CASE v \in marked
      <3>1. slashes[v] = 1 \/ \E d \in Checks : v \in check[d].slash
        BY <1>3, <2>1 DEF SlashIInv, SlashesAccounted
      <3>2. QED
        BY <1>2, <3>1
    <2>2. CASE v \notin marked
      BY <1>1, <1>3, <2>2
    <2>3. QED
      BY <2>1, <2>2
  <1>4. SlashesAccounted'
    BY <1>3 DEF SlashIInv, SlashesAccounted
  <1>5. QED
    BY <1>1, <1>4 DEF SlashIInv

\* The types that checks rely on.
LEMMA CheckMoved ==
    ASSUME SlashIInv, NEW c \in Checks, NEW v \in Vaults, NEW pushed \in BOOLEAN, MoveOn(c, v, pushed)
    PROVE  \E x \in [mark : SUBSET Vaults, slash : SUBSET Vaults] :
               /\ check' = [check EXCEPT ![c] = x]
               /\ check[c].slash \subseteq x.slash
               /\ pushed => v \in x.slash
  <1> DEFINE x == [check[c] EXCEPT !.mark = @ \ {v}, !.slash = IF pushed THEN @ \cup {v} ELSE @]
  <1>1. check[c] \in [mark : SUBSET Vaults, slash : SUBSET Vaults]
    BY DEF SlashIInv
  <1>2. x \in [mark : SUBSET Vaults, slash : SUBSET Vaults]
        /\ check[c].slash \subseteq x.slash /\ (pushed => v \in x.slash)
    BY <1>1
  <1>3. check' = [check EXCEPT ![c] = x]
    BY DEF MoveOn, SlashIInv
  <1> HIDE DEF x
  <1>4. QED
    BY <1>2, <1>3

LEMMA MarkSlashes ==
    ASSUME SlashIInv, NEW c \in Checks, NEW v \in Vaults, Mark(c, v)
    PROVE  SlashIInv'
  <1>1. UNCHANGED <<slashes, slashKeys, dryRun>>
    BY DEF Mark
  <1>2. CASE UNCHANGED <<marked, dropped>> /\ \E pushed \in BOOLEAN : MoveOn(c, v, pushed)
    <2>1. PICK pushed \in BOOLEAN : MoveOn(c, v, pushed)
      BY <1>2
    <2>2. QED
      BY <1>1, <1>2, <2>1, CheckMoved, ChecksGrow DEF SlashIInv
  <1>3. CASE /\ marked' = marked \cup {v}
             /\ \E pushed \in BOOLEAN :
                   /\ MoveOn(c, v, pushed)
                   /\ dropped' = IF pushed THEN dropped ELSE dropped \cup {v}
    <2>1. PICK pushed \in BOOLEAN :
            /\ MoveOn(c, v, pushed)
            /\ dropped' = IF pushed THEN dropped ELSE dropped \cup {v}
      BY <1>3
    <2>2. PICK x \in [mark : SUBSET Vaults, slash : SUBSET Vaults] :
            /\ check' = [check EXCEPT ![c] = x]
            /\ check[c].slash \subseteq x.slash
            /\ pushed => v \in x.slash
      BY <2>1, CheckMoved
    <2>3. \A u \in marked' \ marked : u \in x.slash \/ u \in dropped'
      BY <1>3, <2>1, <2>2
    <2>4. /\ marked \subseteq marked' /\ marked' \subseteq Vaults /\ dropped \subseteq dropped'
      BY <1>3, <2>1 DEF SlashIInv
    <2>5. QED
      BY <1>1, <2>2, <2>3, <2>4, ChecksGrow
  <1>4. QED
    BY <1>2, <1>3 DEF Mark

LEMMA EnqueueSlashes ==
    ASSUME SlashIInv, NEW c \in Checks, NEW v \in Vaults, EnqueueSlash(c, v)
    PROVE  SlashIInv'
  <1> DEFINE x == [check[c] EXCEPT !.slash = @ \ {v}]
  <1>1. /\ check[c] \in [mark : SUBSET Vaults, slash : SUBSET Vaults]
        /\ UNCHANGED <<marked, dryRun>>
    BY DEF SlashIInv, EnqueueSlash
  <1>2. x \in [mark : SUBSET Vaults, slash : SUBSET Vaults] /\ x.slash = check[c].slash \ {v}
    BY <1>1
  <1>3. check' = [check EXCEPT ![c] = x]
    BY DEF EnqueueSlash, SlashIInv
  <1> HIDE DEF x
  <1>4. /\ check' \in [Checks -> [mark : SUBSET Vaults, slash : SUBSET Vaults]]
        /\ \A u \in Vaults \ {v}, d \in Checks : u \in check[d].slash => u \in check'[d].slash
    BY <1>2, <1>3 DEF SlashIInv
  <1>5. CASE dryRun
    <2>1. UNCHANGED <<slashes, slashKeys>> /\ dropped' = dropped \cup {v}
      BY <1>5 DEF EnqueueSlash
    <2>2. SlashesAccounted'
      BY <1>1, <1>4, <2>1 DEF SlashIInv, SlashesAccounted
    <2>3. QED
      BY <1>1, <1>4, <2>1, <2>2 DEF SlashIInv
  <1>6. CASE ~dryRun
    <2>1. /\ slashKeys' = slashKeys \cup {v} /\ dropped' = dropped
          /\ slashes' = IF v \in slashKeys THEN slashes ELSE [slashes EXCEPT ![v] = @ + 1]
      BY <1>6 DEF EnqueueSlash
    <2>2. /\ slashes' \in [Vaults -> Nat] /\ \A u \in Vaults \ {v} : slashes'[u] = slashes[u]
          /\ v \notin dropped => slashes'[v] = 1
      BY <2>1 DEF SlashIInv
    <2>3. \A u \in Vaults \ dropped' : slashes'[u] = IF u \in slashKeys' THEN 1 ELSE 0
      BY <2>1, <2>2 DEF SlashIInv
    <2>4. SlashesAccounted'
      BY <1>1, <1>4, <1>6, <2>1, <2>2 DEF SlashIInv, SlashesAccounted
    <2>5. QED
      BY <1>1, <1>4, <2>1, <2>2, <2>3, <2>4 DEF SlashIInv
  <1>7. QED
    BY <1>5, <1>6

LEMMA SlashStep == SlashIInv /\ [StoreNext]_storeVars => SlashIInv'
  <1> SUFFICES ASSUME SlashIInv, [StoreNext]_storeVars PROVE SlashIInv'
    OBVIOUS
  <1>1. CASE UNCHANGED expiryVars
    BY <1>1 DEF SlashIInv, SlashesAccounted, expiryVars
  <1>2. ASSUME NEW c \in Checks, NEW S \in SUBSET Vaults, Select(c, S) PROVE SlashIInv'
    <2> DEFINE x == [check[c] EXCEPT !.mark = S]
    <2>1. check[c] \in [mark : SUBSET Vaults, slash : SUBSET Vaults]
      BY DEF SlashIInv
    <2>2. x \in [mark : SUBSET Vaults, slash : SUBSET Vaults] /\ x.slash = check[c].slash
      BY <2>1
    <2>3. check' = [check EXCEPT ![c] = x] /\ UNCHANGED <<slashes, slashKeys, dryRun, marked, dropped>>
      BY <1>2 DEF Select, SlashIInv
    <2> HIDE DEF x
    <2>4. QED
      BY <2>2, <2>3, ChecksGrow DEF SlashIInv
  <1>3. ASSUME NEW v \in Vaults, ExpireKey(v) PROVE SlashIInv'
    BY <1>3 DEF ExpireKey, SlashIInv, SlashesAccounted
  <1>4. CASE CrashStore
    <2>1. /\ check' \in [Checks -> [mark : SUBSET Vaults, slash : SUBSET Vaults]]
          /\ slashes' \in [Vaults -> Nat] /\ \A v \in Vaults : slashes'[v] = 0
          /\ slashKeys' = {} /\ marked' = marked /\ marked \subseteq dropped'
      BY <1>4 DEF CrashStore, NoCheck
    <2>2. QED
      BY <2>1 DEF SlashIInv, SlashesAccounted
  <1>5. ASSUME NEW r \in Readers, NEW v \in Vaults, Get(r, v) \/ Fill(r) \/ Tag(r) PROVE SlashIInv'
    BY <1>1, <1>5 DEF Get, Fill, Tag
  <1>6. ASSUME NEW v \in Vaults, ExpireCached(v) \/ WriteUnannounced(v) PROVE SlashIInv'
    BY <1>1, <1>6 DEF ExpireCached, WriteUnannounced
  <1>7. ASSUME NEW w \in Writers, NEW v \in Vaults, NEW n, NEW s, Patch(w, v, n, s) \/ Cancel(w, v)
        PROVE SlashIInv'
    BY <1>1, <1>7 DEF Patch, Cancel
  <1>8. ASSUME NEW w \in Writers, Reread(w) \/ Refill(w) \/ Invalidate(w) PROVE SlashIInv'
    BY <1>1, <1>8 DEF Reread, Refill, Invalidate
  <1>9. ASSUME NEW r \in Readers, Fill(r) \/ Tag(r) PROVE SlashIInv'
    BY <1>1, <1>9 DEF Fill, Tag
  <1>10. CASE UNCHANGED storeVars
    BY <1>1, <1>10 DEF storeVars, expiryVars
  <1>11. QED
    BY <1>2, <1>3, <1>4, <1>5, <1>6, <1>7, <1>8, <1>9, <1>10, MarkSlashes, EnqueueSlashes DEF StoreNext

LEMMA SlashInit == StoreInit => SlashIInv
  BY DEF StoreInit, SlashIInv, SlashesAccounted, NoCheck

\* expirationScheduler.ts: however many checks overlap, a vault that a check has
\* failed gets one slash job, unless the process dies or makes a dry run, the update
\* is not pushed or the key expires.
THEOREM SlashesAreAccounted == StoreSpec => []SlashesAccounted
  <1>1. SlashIInv => SlashesAccounted
    BY DEF SlashIInv
  <1>2. QED
    BY <1>1, SlashInit, SlashStep, PTL DEF StoreSpec

-----------------------------------------------------------------------------
(* VaultOversight *)

Job == [left : SUBSET Vaults, rows : [Vaults -> Status]]

\* While nothing has changed, the rows are as the reconciliation has read them, and
\* it has reported on those it has asked for.
ReconcileIInv ==
    /\ row \in [Vaults -> [rev : Revision, status : Status]]
    /\ job \in Job /\ report \in [Vaults -> {"none", "missing", "error", "drift", "agrees"}]
    /\ calm \subseteq Vaults
    /\ \A v \in calm : job.rows[v] = row[v].status
    /\ DriftAccounted

\* Changes of other vaults than those that stay calm.
LEMMA CalmKept ==
    ASSUME ReconcileIInv, calm' \subseteq calm, job'.rows = job.rows, job' \in Job,
           job.left \cap calm' \subseteq job'.left,
           row' \in [Vaults -> [rev : Revision, status : Status]], report' = report,
           \A v \in calm' : row'[v].status = row[v].status /\ chain'[v] = chain[v]
    PROVE  ReconcileIInv'
  BY DEF ReconcileIInv, DriftAccounted, compareVaultStates

LEMMA RowWritten ==
    ASSUME row \in [Vaults -> [rev : Revision, status : Status]], NEW v \in Vaults,
           NEW s \in Status, Write(v, s)
    PROVE  /\ row' \in [Vaults -> [rev : Revision, status : Status]]
           /\ \A u \in Vaults \ {v} : row'[u] = row[u]
  <1> DEFINE x == [rev |-> row[v].rev + 1, status |-> s]
  <1>1. x \in [rev : Revision, status : Status]
    BY StoreAssumption DEF Write, Revision
  <1>2. row' = [row EXCEPT ![v] = x]
    BY DEF Write
  <1> HIDE DEF x
  <1>3. QED
    BY <1>1, <1>2

LEMMA ReconcileStep == ReconcileIInv /\ [OversightNext]_<<storeVars, oversightVars>> => ReconcileIInv'
  <1> SUFFICES ASSUME ReconcileIInv, [OversightNext]_<<storeVars, oversightVars>>
               PROVE  ReconcileIInv'
    OBVIOUS
  <1>0. /\ row \in [Vaults -> [rev : Revision, status : Status]]
        /\ job \in Job /\ job.left \subseteq Vaults /\ job.rows \in [Vaults -> Status]
        /\ report \in [Vaults -> {"none", "missing", "error", "drift", "agrees"}]
        /\ calm \subseteq Vaults
    BY DEF ReconcileIInv, Job
  <1>1. ASSUME NEW S \in SUBSET Vaults, StartReconcile(S) PROVE ReconcileIInv'
    <2> DEFINE read == [v \in Vaults |-> row[v].status]
    <2>1. read \in [Vaults -> Status] /\ \A v \in Vaults : read[v] = row[v].status
      BY <1>0
    <2>2. job' = [left |-> S, rows |-> read] /\ calm' = S /\ UNCHANGED <<row, chain>>
          /\ report' \in [Vaults -> {"none", "missing", "error", "drift", "agrees"}]
      BY <1>1 DEF StartReconcile, storeVars
    <2> HIDE DEF read
    <2>3. job' \in Job /\ job'.left = S /\ job'.rows = read
      BY <2>1, <2>2 DEF Job
    <2>4. QED
      BY <1>0, <2>1, <2>2, <2>3 DEF ReconcileIInv, DriftAccounted
  <1>2. ASSUME NEW v \in Vaults, ReconcileVault(v) PROVE ReconcileIInv'
    <2> DEFINE x == [job EXCEPT !.left = @ \ {v}]
    <2>1. x \in Job /\ x.left = job.left \ {v} /\ x.rows = job.rows
      BY <1>0 DEF Job
    <2>2. job' = x /\ UNCHANGED <<row, chain, calm>>
      BY <1>2 DEF ReconcileVault, storeVars
    <2> HIDE DEF x
    <2>3. PICK said \in {"missing", "error", "drift", "agrees"} :
            /\ report' = [report EXCEPT ![v] = said]
            /\ said = "drift" => compareVaultStates(job.rows[v], chain[v])
            /\ said = "agrees" => ~compareVaultStates(job.rows[v], chain[v])
      BY <1>2 DEF ReconcileVault, GetVault
    <2>4. /\ report' \in [Vaults -> {"none", "missing", "error", "drift", "agrees"}]
          /\ report'[v] = said /\ \A u \in Vaults \ {v} : report'[u] = report[u]
      BY <1>0, <2>3
    <2>5. ASSUME NEW u \in calm' \ job'.left
          PROVE  /\ report'[u] # "none"
                 /\ report'[u] = "drift" => compareVaultStates(row[u].status, chain[u])
                 /\ report'[u] = "agrees" => ~compareVaultStates(row[u].status, chain[u])
      <3>1. job.rows[u] = row[u].status /\ u \in Vaults
        BY <1>0, <2>2 DEF ReconcileIInv
      <3>2. CASE u = v
        BY <2>3, <2>4, <3>1, <3>2
      <3>3. CASE u # v
        <4>1. u \in calm \ job.left
          BY <2>1, <2>2, <3>3
        <4>2. QED
          BY <2>4, <3>1, <3>3, <4>1 DEF ReconcileIInv, DriftAccounted
      <3>4. QED
        BY <3>2, <3>3
    <2>6. DriftAccounted'
      BY <2>2, <2>5 DEF DriftAccounted, compareVaultStates
    <2>7. QED
      BY <1>0, <2>1, <2>2, <2>4, <2>6 DEF ReconcileIInv
  <1>3. ASSUME job' = [job EXCEPT !.left = {}], calm' = calm \ job.left,
               UNCHANGED <<row, chain, report>>
        PROVE  ReconcileIInv'
    <2>1. job' \in Job /\ job'.rows = job.rows
      BY <1>0, <1>3 DEF Job
    <2>2. QED
      BY <1>0, <1>3, <2>1, CalmKept
  <1>4. CASE StopReconcile
    BY <1>3, <1>4 DEF StopReconcile, storeVars
  <1>5. CASE CrashOversight
    BY <1>3, <1>5 DEF CrashOversight, storeVars
  <1>6. ASSUME NEW v \in Vaults, ChainMoves(v) PROVE ReconcileIInv'
    BY <1>0, <1>6, CalmKept DEF ChainMoves, storeVars
  <1>7. ASSUME NEW v \in Vaults, WriteUnannounced(v), calm' = calm \ {v},
               UNCHANGED <<chain, job, report>>
        PROVE  ReconcileIInv'
    <2>1. PICK s \in Status : Write(v, s)
      BY <1>7 DEF WriteUnannounced
    <2>2. QED
      BY <1>0, <1>7, <2>1, RowWritten, CalmKept
  <1>8. ASSUME NEW v \in Vaults, RowMoves(v) PROVE ReconcileIInv'
    BY <1>7, <1>8 DEF RowMoves
  <1>9. CASE UNCHANGED <<row, chain, job, report, calm>>
    BY <1>0, <1>9, CalmKept
  <1>10. ASSUME NEW o \in Overrides, NEW v \in Vaults, NEW k \in OverrideKeys, Override(o, v, k)
         PROVE  ReconcileIInv'
    BY <1>7, <1>9, <1>10 DEF Override, storeVars
  <1>11. ASSUME NEW o \in Overrides, RecordOverride(o) \/ OverrideFails(o) PROVE ReconcileIInv'
    BY <1>9, <1>11 DEF RecordOverride, OverrideFails, reconcileVars, storeVars
  <1>12. CASE UNCHANGED <<storeVars, oversightVars>>
    BY <1>9, <1>12 DEF storeVars, oversightVars
  <1>13. QED
    BY <1>1, <1>2, <1>4, <1>5, <1>6, <1>8, <1>10, <1>11, <1>12 DEF OversightNext

LEMMA ReconcileInit == OversightInit => ReconcileIInv
  <1> SUFFICES ASSUME OversightInit PROVE ReconcileIInv
    OBVIOUS
  <1>1. [rev |-> 0, status |-> "draft"] \in [rev : Revision, status : Status]
    BY StoreAssumption DEF Revision, Status
  <1>2. row \in [Vaults -> [rev : Revision, status : Status]]
    BY <1>1 DEF OversightInit, StoreInit
  <1>3. [v \in Vaults |-> "draft"] \in [Vaults -> Status]
    BY DEF Status
  <1>4. job \in Job
    BY <1>3 DEF OversightInit, Job
  <1>5. QED
    BY <1>2, <1>4 DEF OversightInit, ReconcileIInv, DriftAccounted

-----------------------------------------------------------------------------
(* Overrides *)

OverrideRecord == [at : {"idle", "audit", "done", "failed"}, vault : Vaults \cup {Absent},
                   key : OverrideKeys \cup {Absent}, from : Status \cup {"none"}]

\* What an override has left behind when it has ended, and who can still have its
\* key in hand.
OverrideIInv ==
    /\ override \in [Overrides -> OverrideRecord]
    /\ \A o \in Overrides : override[o].at = "failed" => o \in raced
    /\ cancelled \subseteq Overrides
    /\ \A o \in cancelled :
           override[o].at # "idle" /\ override[o].from \in {"draft", "active"}
    /\ \A e \in overrideLog : e.by \in Overrides /\ override[e.by].at \in {"done", "failed"}
    /\ \A e \in overrideLog : e.by \notin raced =>
           e.key \in processed /\ UnderWay(e.key) \subseteq raced
    /\ OverridesOnRecord

LEMMA OverrideStep == OverrideIInv /\ [OversightNext]_<<storeVars, oversightVars>> => OverrideIInv'
  <1> SUFFICES ASSUME OverrideIInv, [OversightNext]_<<storeVars, oversightVars>>
               PROVE  OverrideIInv'
    OBVIOUS
  <1>1. ASSUME NEW o \in Overrides, NEW v \in Vaults, NEW k \in OverrideKeys, Override(o, v, k)
        PROVE  OverrideIInv'
    <2> DEFINE x == [at |-> "audit", vault |-> v, key |-> k, from |-> row[v].status]
    <2>1. /\ override[o].at = "idle" /\ k \notin processed /\ override' = [override EXCEPT ![o] = x]
          /\ UNCHANGED <<processed, overrideLog, raced>>
          /\ \/ row[v].status \in {"draft", "active"} /\ cancelled' = cancelled \cup {o}
             \/ row[v].status = "ended" /\ cancelled' = cancelled
      BY <1>1 DEF Override
    <2>2. x \in OverrideRecord /\ x.at = "audit" /\ x.key = k /\ x.from = row[v].status
      BY <2>1 DEF OverrideRecord, Status
    <2> HIDE DEF x
    <2>3. /\ override' \in [Overrides -> OverrideRecord] /\ override'[o] = x
          /\ \A q \in Overrides \ {o} : override'[q] = override[q]
      BY <2>1, <2>2 DEF OverrideIInv
    <2>4. \A e \in overrideLog : e.by # o
      BY <2>1 DEF OverrideIInv
    <2>5. \A e \in overrideLog : e.by \notin raced => UnderWay(e.key)' \subseteq raced
      BY <2>1, <2>2, <2>3 DEF OverrideIInv, UnderWay
    <2>6. OverridesOnRecord'
      BY <2>1, <2>2, <2>3 DEF OverrideIInv, OverridesOnRecord, Cancels
    <2>7. QED
      BY <2>1, <2>2, <2>3, <2>4, <2>5, <2>6 DEF OverrideIInv
  <1>2. ASSUME NEW o \in Overrides, RecordOverride(o) PROVE OverrideIInv'
    <2> DEFINE x == [override[o] EXCEPT !.at = "done"]
    <2>1. override[o] \in OverrideRecord /\ override[o].at = "audit"
      BY <1>2 DEF OverrideIInv, RecordOverride
    <2>2. /\ x \in OverrideRecord /\ x.at = "done" /\ x.key = override[o].key
          /\ x.from = override[o].from
      BY <2>1 DEF OverrideRecord
    <2>3. override' = [override EXCEPT ![o] = x]
      BY <1>2 DEF RecordOverride, OverrideIInv
    <2> HIDE DEF x
    <2>4. /\ override' \in [Overrides -> OverrideRecord] /\ override'[o] = x
          /\ \A q \in Overrides \ {o} : override'[q] = override[q]
      BY <2>2, <2>3 DEF OverrideIInv
    <2>5. PICK f : /\ f.by = o /\ f.key = override[o].key /\ f.from = override[o].from
                   /\ overrideLog' = overrideLog \cup {f}
      BY <1>2 DEF RecordOverride, EntryOf
    <2>6. /\ processed' = processed \cup {override[o].key} /\ cancelled' = cancelled
          /\ raced' = raced \cup (UnderWay(override[o].key) \ {o})
      BY <1>2 DEF RecordOverride
    <2>7. \A w : UnderWay(w)' \subseteq UnderWay(w) \ {o}
      BY <2>2, <2>4 DEF UnderWay
    <2>8. \A q \in Overrides : override'[q].at = "failed" => q \in raced'
      BY <2>2, <2>4, <2>6 DEF OverrideIInv
    <2>9. \A q \in cancelled : override'[q].at # "idle" /\ override'[q].from \in {"draft", "active"}
      BY <2>2, <2>4 DEF OverrideIInv
    <2>10. \A e \in overrideLog' : e.by \in Overrides /\ override'[e.by].at \in {"done", "failed"}
      BY <2>2, <2>4, <2>5 DEF OverrideIInv
    <2>11. \A e \in overrideLog' : e.by \notin raced' =>
             e.key \in processed' /\ UnderWay(e.key)' \subseteq raced'
      BY <2>5, <2>6, <2>7 DEF OverrideIInv
    <2>12. \A e \in overrideLog : e.key = f.key => e.by \in raced \/ o \in raced
      BY <2>1, <2>5 DEF OverrideIInv, UnderWay
    <2>13. \A d, e \in overrideLog' : d.key = e.key => d.by = e.by \/ {d.by, e.by} \cap raced' # {}
      BY <2>5, <2>6, <2>12 DEF OverrideIInv, OverridesOnRecord, Cancels
    <2>14. \A q \in cancelled \ raced' :
             \/ override'[q].at = "audit"
             \/ \E e \in overrideLog' : e.by = q /\ Cancels(e)
      BY <2>4, <2>5, <2>6 DEF OverrideIInv, OverridesOnRecord, Cancels
    <2>15. QED
      BY <2>4, <2>6, <2>8, <2>9, <2>10, <2>11, <2>13, <2>14 DEF OverrideIInv, OverridesOnRecord, Cancels
  <1>3. ASSUME NEW o \in Overrides, OverrideFails(o) PROVE OverrideIInv'
    <2> DEFINE x == [override[o] EXCEPT !.at = "failed"]
    <2>1. override[o] \in OverrideRecord /\ override[o].at = "audit"
      BY <1>3 DEF OverrideIInv, OverrideFails
    <2>2. /\ x \in OverrideRecord /\ x.at = "failed" /\ x.key = override[o].key
          /\ x.from = override[o].from
      BY <2>1 DEF OverrideRecord
    <2>3. override' = [override EXCEPT ![o] = x]
      BY <1>3 DEF OverrideFails, OverrideIInv
    <2> HIDE DEF x
    <2>4. /\ override' \in [Overrides -> OverrideRecord] /\ override'[o] = x
          /\ \A q \in Overrides \ {o} : override'[q] = override[q]
      BY <2>2, <2>3 DEF OverrideIInv
    <2>5. /\ overrideLog \subseteq overrideLog' /\ \A e \in overrideLog' \ overrideLog : e.by = o
          /\ raced' = raced \cup {o} /\ UNCHANGED <<processed, cancelled>>
      BY <1>3 DEF OverrideFails, EntryOf
    <2>6. \A w : UnderWay(w)' \subseteq UnderWay(w)
      BY <2>2, <2>4 DEF UnderWay
    <2>7. OverridesOnRecord'
      BY <2>4, <2>5 DEF OverrideIInv, OverridesOnRecord, Cancels
    <2>8. QED
      BY <2>2, <2>4, <2>5, <2>6, <2>7 DEF OverrideIInv
  <1>4. CASE CrashOversight
    <2>1. \A q \in Overrides :
            override[q] \in OverrideRecord /\ [override[q] EXCEPT !.at = "failed"] \in OverrideRecord
      BY DEF OverrideIInv, OverrideRecord
    <2>2. \A q \in Overrides :
            override'[q] = IF override[q].at = "audit" THEN [override[q] EXCEPT !.at = "failed"]
                           ELSE override[q]
      BY <1>4 DEF CrashOversight
    <2>3. /\ override' \in [Overrides -> OverrideRecord]
          /\ \A q \in Overrides : /\ override'[q].from = override[q].from
                                  /\ override'[q].key = override[q].key
                                  /\ override'[q].at = IF override[q].at = "audit" THEN "failed"
                                                       ELSE override[q].at
      BY <1>4, <2>1, <2>2 DEF CrashOversight, OverrideRecord
    <2>4. /\ raced' = raced \cup {q \in Overrides : override[q].at # "idle"}
          /\ UNCHANGED <<overrideLog, cancelled>>
      BY <1>4 DEF CrashOversight
    <2>5. \A e \in overrideLog : e.by \in raced'
      BY <2>4 DEF OverrideIInv
    <2>6. cancelled \subseteq raced'
      BY <2>4 DEF OverrideIInv
    <2>7. OverridesOnRecord'
      BY <2>4, <2>5, <2>6 DEF OverridesOnRecord
    <2>8. QED
      BY <2>3, <2>4, <2>5, <2>7 DEF OverrideIInv
  <1>5. CASE UNCHANGED overrideVars
    BY <1>5 DEF overrideVars, OverrideIInv, OverridesOnRecord, UnderWay
  <1>6. ASSUME NEW S \in SUBSET Vaults, StartReconcile(S) PROVE OverrideIInv'
    BY <1>5, <1>6 DEF StartReconcile
  <1>7. ASSUME NEW v \in Vaults, ReconcileVault(v) \/ ChainMoves(v) \/ RowMoves(v)
        PROVE  OverrideIInv'
    BY <1>5, <1>7 DEF ReconcileVault, ChainMoves, RowMoves
  <1>8. CASE StopReconcile
    BY <1>5, <1>8 DEF StopReconcile
  <1>9. CASE UNCHANGED <<storeVars, oversightVars>>
    BY <1>5, <1>9 DEF oversightVars, overrideVars
  <1>10. QED
    BY <1>1, <1>2, <1>3, <1>4, <1>6, <1>7, <1>8, <1>9 DEF OversightNext

LEMMA OverrideInit == OversightInit => OverrideIInv
  BY DEF OversightInit, OverrideIInv, OverridesOnRecord, NoOverride, OverrideRecord

\* Who has cancelled which vault: a vault that an override has cancelled, and nobody
\* revived, is ended, so that no other one cancels it.
CancelIInv ==
    /\ override \in [Overrides -> OverrideRecord]
    /\ row \in [Vaults -> [rev : Revision, status : Status]]
    /\ cancelled \subseteq Overrides
    /\ \A o \in cancelled : override[o].at # "idle" /\ override[o].vault \in Vaults
    /\ \A o \in Overrides : override[o].at # "idle" /\ Cancels(override[o]) => o \in cancelled
    /\ \A o \in cancelled : override[o].vault \in reopened \/ row[override[o].vault].status = "ended"
    /\ \A o, q \in cancelled :
           override[o].vault = override[q].vault => o = q \/ override[o].vault \in reopened
    /\ \A e \in overrideLog : /\ e.by \in Overrides /\ override[e.by].at # "idle"
                              /\ e.vault = override[e.by].vault /\ e.from = override[e.by].from

\* A step of the overrides that have begun, and of rows that stay ended.
LEMMA CancelFrame ==
    ASSUME CancelIInv, override' \in [Overrides -> OverrideRecord], cancelled' = cancelled,
           row' \in [Vaults -> [rev : Revision, status : Status]], reopened \subseteq reopened',
           \A v \in Vaults : row[v].status = "ended" => row'[v].status = "ended" \/ v \in reopened',
           \A q \in Overrides : /\ override'[q].vault = override[q].vault
                                /\ override'[q].from = override[q].from
                                /\ override'[q].at = "idle" <=> override[q].at = "idle",
           \A e \in overrideLog' : \/ e \in overrideLog
                                  \/ /\ e.by \in Overrides /\ override[e.by].at # "idle"
                                     /\ e.vault = override[e.by].vault /\ e.from = override[e.by].from
    PROVE  CancelIInv'
  <1>1. /\ \A o \in cancelled : override'[o].at # "idle" /\ override'[o].vault \in Vaults
        /\ \A o \in Overrides : override'[o].at # "idle" /\ Cancels(override[o]) => o \in cancelled
        /\ \A o \in Overrides : Cancels(override[o])' => Cancels(override[o])
    BY DEF CancelIInv, Cancels
  <1>2. \A o \in cancelled : override'[o].vault \in reopened' \/ row'[override'[o].vault].status = "ended"
    BY DEF CancelIInv
  <1>3. \A o, q \in cancelled :
           override'[o].vault = override'[q].vault => o = q \/ override'[o].vault \in reopened'
    BY DEF CancelIInv
  <1>4. \A e \in overrideLog' : /\ e.by \in Overrides /\ override'[e.by].at # "idle"
                                /\ e.vault = override'[e.by].vault /\ e.from = override'[e.by].from
    BY DEF CancelIInv
  <1>5. QED
    BY <1>1, <1>2, <1>3, <1>4 DEF CancelIInv

LEMMA CancelStep == CancelIInv /\ [OversightNext]_<<storeVars, oversightVars>> => CancelIInv'
  <1> SUFFICES ASSUME CancelIInv, [OversightNext]_<<storeVars, oversightVars>>
               PROVE  CancelIInv'
    OBVIOUS
  <1>0. /\ override \in [Overrides -> OverrideRecord]
        /\ row \in [Vaults -> [rev : Revision, status : Status]]
    BY DEF CancelIInv
  <1>1. ASSUME NEW o \in Overrides, NEW v \in Vaults, NEW k \in OverrideKeys, Override(o, v, k)
        PROVE  CancelIInv'
    <2> DEFINE x == [at |-> "audit", vault |-> v, key |-> k, from |-> row[v].status]
    <2>1. /\ override[o].at = "idle" /\ override' = [override EXCEPT ![o] = x]
          /\ UNCHANGED <<overrideLog, reopened>>
      BY <1>1 DEF Override
    <2>2. row[v].status \in Status
      BY <1>0
    <2>3. x \in OverrideRecord /\ x.at = "audit" /\ x.vault = v /\ x.from = row[v].status
      BY <2>2 DEF OverrideRecord
    <2> HIDE DEF x
    <2>4. /\ override' \in [Overrides -> OverrideRecord] /\ override'[o] = x
          /\ \A q \in Overrides \ {o} : override'[q] = override[q]
      BY <1>0, <2>1, <2>3
    <2>5. /\ o \notin cancelled /\ \A e \in overrideLog : e.by # o
      BY <2>1 DEF CancelIInv
    <2>6. \A e \in overrideLog : /\ e.by \in Overrides /\ override'[e.by].at # "idle"
                                /\ e.vault = override'[e.by].vault /\ e.from = override'[e.by].from
      BY <2>4, <2>5 DEF CancelIInv
    <2>7. CASE row[v].status \in {"draft", "active"}
      <3>1. /\ WriteUnannounced(v) /\ row'[v].status = "ended" /\ cancelled' = cancelled \cup {o}
        BY <1>1, <2>7 DEF Override
      <3>2. PICK s \in Status : Write(v, s)
        BY <3>1 DEF WriteUnannounced
      <3>3. /\ row' \in [Vaults -> [rev : Revision, status : Status]]
            /\ \A u \in Vaults \ {v} : row'[u] = row[u]
        BY <1>0, <3>2, RowWritten
      <3>4. \A q \in cancelled : override[q].vault = v => v \in reopened
        BY <2>7 DEF CancelIInv
      <3>5. \A q \in cancelled' : /\ q \in Overrides /\ override'[q].at # "idle" /\ override'[q].vault \in Vaults
                                  /\ \/ override'[q].vault \in reopened
                                     \/ row'[override'[q].vault].status = "ended"
        BY <2>3, <2>4, <2>5, <3>1, <3>3 DEF CancelIInv
      <3>6. \A p, q \in cancelled' :
               override'[p].vault = override'[q].vault => p = q \/ override'[p].vault \in reopened
        BY <2>3, <2>4, <2>5, <3>1, <3>4 DEF CancelIInv
      <3>7. \A q \in Overrides : override'[q].at # "idle" /\ Cancels(override'[q]) => q \in cancelled'
        BY <2>4, <3>1 DEF CancelIInv
      <3>8. QED
        BY <2>1, <2>4, <2>6, <3>3, <3>5, <3>6, <3>7 DEF CancelIInv, Cancels
    <2>8. CASE row[v].status \notin {"draft", "active"}
      <3>1. UNCHANGED <<row, cancelled>>
        BY <1>1, <2>8 DEF Override, storeVars
      <3>2. \A q \in Overrides : override'[q].at # "idle" /\ Cancels(override'[q]) => q \in cancelled
        BY <2>3, <2>4, <2>8 DEF CancelIInv, Cancels
      <3>3. \A q \in cancelled : override'[q] = override[q]
        BY <2>4, <2>5 DEF CancelIInv
      <3>4. QED
        BY <2>1, <2>4, <2>6, <3>1, <3>2, <3>3 DEF CancelIInv, Cancels
    <2>9. QED
      BY <2>7, <2>8
  <1>2. ASSUME NEW o \in Overrides, NEW at \in {"done", "failed"}, override[o].at = "audit",
               override' = [override EXCEPT ![o].at = at],
               overrideLog' \in {overrideLog, overrideLog \cup {EntryOf(o)}},
               UNCHANGED <<row, reopened, cancelled>>
        PROVE  CancelIInv'
    <2> DEFINE x == [override[o] EXCEPT !.at = at]
    <2>1. x \in OverrideRecord /\ x.at = at /\ x.vault = override[o].vault /\ x.from = override[o].from
      BY <1>0, <1>2 DEF OverrideRecord
    <2>2. override' = [override EXCEPT ![o] = x]
      BY <1>0, <1>2
    <2> HIDE DEF x
    <2>3. override' \in [Overrides -> OverrideRecord] /\ override'[o] = x
          /\ \A q \in Overrides \ {o} : override'[q] = override[q]
      BY <1>0, <2>1, <2>2
    <2>4. PICK f : /\ f.by = o /\ f.vault = override[o].vault /\ f.from = override[o].from
                   /\ overrideLog' \subseteq overrideLog \cup {f}
      <3> DEFINE e == EntryOf(o)
      <3>1. e.by = o /\ e.vault = override[o].vault /\ e.from = override[o].from
        BY DEF EntryOf
      <3>2. overrideLog' \subseteq overrideLog \cup {e}
        BY <1>2
      <3> HIDE DEF e
      <3>3. QED
        BY <3>1, <3>2
    <2>5. \A q \in Overrides : /\ override'[q].vault = override[q].vault
                               /\ override'[q].from = override[q].from
                               /\ override'[q].at = "idle" <=> override[q].at = "idle"
      <3>1. x.at # "idle" /\ override[o].at # "idle"
        BY <1>2, <2>1
      <3>2. QED
        BY <2>1, <2>3, <3>1
    <2>6. \A e \in overrideLog' : \/ e \in overrideLog
                                 \/ /\ e.by \in Overrides /\ override[e.by].at # "idle"
                                    /\ e.vault = override[e.by].vault /\ e.from = override[e.by].from
      BY <1>2, <2>4
    <2>7. QED
      BY <1>0, <1>2, <2>3, <2>5, <2>6, CancelFrame
  <1>3. ASSUME NEW o \in Overrides, RecordOverride(o) PROVE CancelIInv'
    BY <1>2, <1>3 DEF RecordOverride, storeVars
  <1>4. ASSUME NEW o \in Overrides, OverrideFails(o) PROVE CancelIInv'
    BY <1>2, <1>4 DEF OverrideFails, storeVars
  <1>5. CASE CrashOversight
    <2>1. \A q \in Overrides : /\ [override[q] EXCEPT !.at = "failed"] \in OverrideRecord
                               /\ [override[q] EXCEPT !.at = "failed"].vault = override[q].vault
                               /\ [override[q] EXCEPT !.at = "failed"].from = override[q].from
                               /\ [override[q] EXCEPT !.at = "failed"].at = "failed"
      BY <1>0 DEF OverrideRecord
    <2>2. \A q \in Overrides : override'[q] = IF override[q].at = "audit"
                                             THEN [override[q] EXCEPT !.at = "failed"] ELSE override[q]
      BY <1>5 DEF CrashOversight
    <2>3. override' \in [Overrides -> OverrideRecord]
      BY <1>0, <1>5, <2>1 DEF CrashOversight
    <2>4. \A q \in Overrides : /\ override'[q].vault = override[q].vault
                               /\ override'[q].from = override[q].from
                               /\ override'[q].at = "idle" <=> override[q].at = "idle"
      BY <2>1, <2>2
    <2>5. UNCHANGED <<row, reopened, cancelled, overrideLog>>
      BY <1>5 DEF CrashOversight, storeVars
    <2>6. QED
      BY <1>0, <2>3, <2>4, <2>5, CancelFrame
  <1>6. ASSUME NEW v \in Vaults, RowMoves(v) PROVE CancelIInv'
    <2>1. PICK s \in Status : Write(v, s)
      BY <1>6 DEF RowMoves, WriteUnannounced
    <2>2. /\ row' \in [Vaults -> [rev : Revision, status : Status]]
          /\ \A u \in Vaults \ {v} : row'[u] = row[u]
      BY <1>0, <2>1, RowWritten
    <2>3. /\ reopened \subseteq reopened'
          /\ row[v].status = "ended" => row'[v].status = "ended" \/ v \in reopened'
          /\ UNCHANGED <<override, overrideLog, cancelled>>
      BY <1>6 DEF RowMoves, overrideVars
    <2>4. QED
      BY <1>0, <2>2, <2>3, CancelFrame
  <1>7. CASE UNCHANGED <<row, reopened, override, overrideLog, cancelled>>
    BY <1>0, <1>7, CancelFrame
  <1>8. ASSUME NEW S \in SUBSET Vaults, StartReconcile(S) PROVE CancelIInv'
    BY <1>7, <1>8 DEF StartReconcile, overrideVars, storeVars
  <1>9. ASSUME NEW v \in Vaults, ReconcileVault(v) \/ ChainMoves(v) PROVE CancelIInv'
    BY <1>7, <1>9 DEF ReconcileVault, ChainMoves, overrideVars, storeVars
  <1>10. CASE StopReconcile
    BY <1>7, <1>10 DEF StopReconcile, overrideVars, storeVars
  <1>11. CASE UNCHANGED <<storeVars, oversightVars>>
    BY <1>7, <1>11 DEF oversightVars, storeVars
  <1>12. QED
    BY <1>1, <1>3, <1>4, <1>5, <1>6, <1>8, <1>9, <1>10, <1>11 DEF OversightNext

LEMMA CancelInit == OversightInit => CancelIInv
  <1> SUFFICES ASSUME OversightInit PROVE CancelIInv
    OBVIOUS
  <1>1. row \in [Vaults -> [rev : Revision, status : Status]]
    BY ReconcileInit DEF ReconcileIInv
  <1>2. NoOverride \in OverrideRecord /\ NoOverride.at = "idle"
    BY DEF NoOverride, OverrideRecord
  <1>3. QED
    BY <1>1, <1>2 DEF OversightInit, CancelIInv

\* The overrides on record that have cancelled a vault are among those that have.
LEMMA CancelsHold == CancelIInv => CancelledOnce
  <1> SUFFICES ASSUME CancelIInv, NEW d \in overrideLog, NEW e \in overrideLog,
                      d.vault = e.vault, Cancels(d), Cancels(e)
               PROVE  d.by = e.by \/ d.vault \in reopened
    BY DEF CancelledOnce
  <1>1. d.by \in cancelled /\ e.by \in cancelled
    BY DEF CancelIInv, Cancels
  <1>2. QED
    BY <1>1 DEF CancelIInv

\* Of the steps of VaultStore, those of the oversight are the unannounced writes.
LEMMA OversightIsStore == [OversightNext]_<<storeVars, oversightVars>> => [StoreNext]_storeVars
  <1> SUFFICES ASSUME [OversightNext]_<<storeVars, oversightVars>>
               PROVE  UNCHANGED storeVars \/ \E v \in Vaults : WriteUnannounced(v)
    BY DEF StoreNext
  <1>1. QED
    BY DEF OversightNext, StartReconcile, ReconcileVault, StopReconcile, CrashOversight,
       ChainMoves, RowMoves, Override, RecordOverride, OverrideFails

\* vaultStore.ts, transactionETL.ts and admin.ts: operators are told of the drift of
\* a vault that nothing moves meanwhile; what an override has cancelled is on record,
\* once for a key, unless the request failed, another with the key was under way
\* with it or there was a restart; and one override of a vault only has cancelled it,
\* unless another writer has revived it.
THEOREM OversightHolds == OversightSpec => []OversightAccounted
  <1>1. SlashIInv /\ ReconcileIInv /\ OverrideIInv /\ CancelIInv => OversightAccounted
    BY CancelsHold DEF SlashIInv, ReconcileIInv, OverrideIInv, OversightAccounted
  <1>2. OversightInit => StoreInit
    BY DEF OversightInit
  <1>3. QED
    BY <1>1, <1>2, SlashInit, SlashStep, ReconcileInit, ReconcileStep, OverrideInit, OverrideStep,
       CancelInit, CancelStep, OversightIsStore, PTL DEF OversightSpec
=============================================================================
