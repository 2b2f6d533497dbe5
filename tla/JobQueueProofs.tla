---------------------------- MODULE JobQueueProofs ----------------------------
(***************************************************************************)
(* TLAPS proofs about JobQueue: its invariants hold for every number of    *)
(* objects, of worker slots and of attempts.                               *)
(***************************************************************************)
EXTENDS JobQueue, FiniteSetTheorems, TLAPS

\* An object has the id of one that exists, and may be tried.
Identity ==
    /\ \A o \in Used : jobId[o] \in Used /\ maxAttempts[o] > 0
    /\ \A o \in Obj \ Used : attempt[o] = 0

\* activeJobs holds an object under its own id.
ActiveOwned ==
    \A i \in Obj : active[i] # 0 => active[i] \in Used /\ jobId[active[i]] = i

\* Of the objects of an id that no sweep has touched one is alive or can be
\* retried.
Current(o) == pending[o] + inflight[o] + deadLetter[o] > 0
Exclusive ==
    \A o, x \in Used : jobId[o] \notin swept /\ jobId[x] = jobId[o] /\ o # x =>
        ~(Current(o) /\ Current(x))

Registered ==
    \A o \in Used : jobId[o] \notin swept =>
        (inflight[o] > 0 <=> active[jobId[o]] = o)

\* What waits has an attempt left, and a dead letter has none.
Left ==
    \A o \in Used : jobId[o] \notin swept =>
        /\ attempt[o] <= maxAttempts[o]
        /\ pending[o] > 0 => attempt[o] < maxAttempts[o]
        /\ deadLetter[o] > 0 => attempt[o] = maxAttempts[o]

Slots == Cardinality(ActiveIds) <= Concurrency

IInv ==
    /\ TypeOK /\ Custody /\ Identity /\ ActiveOwned
    /\ Exclusive /\ Registered /\ Left /\ Slots

\* What waits, runs or is dead exists, and its id too.
LEMMA PendingIsUsed ==
    ASSUME IInv, NEW o \in Obj, pending[o] > 0 \/ inflight[o] > 0 \/ deadLetter[o] > 0
    PROVE  o \in Used /\ jobId[o] \in Used
  BY DEF IInv, TypeOK, Custody, Copies, Identity

\* The types of the counts, one object at a time.
LEMMA Typed ==
    ASSUME IInv
    PROVE  /\ Used \subseteq Obj /\ 0 \notin Obj
           /\ Obj \subseteq 0 .. MaxObjects /\ 0 \in 0 .. MaxObjects
           /\ \A x \in Obj :
                /\ pending[x] \in Nat /\ inflight[x] \in Nat /\ completed[x] \in Nat
                /\ deadLetter[x] \in Nat /\ taken[x] \in Nat /\ dropped[x] \in Nat
                /\ attempt[x] \in Nat /\ maxAttempts[x] \in Nat
  <1>1. Used \subseteq Obj /\ 0 \notin Obj
    BY QueueAssumption DEF IInv, TypeOK, Used, Obj
  <1>2. Obj \subseteq 0 .. MaxObjects /\ 0 \in 0 .. MaxObjects
    BY QueueAssumption DEF Obj
  <1>3. QED
    BY <1>1, <1>2 DEF IInv, TypeOK

\* An object in one place is nowhere else.
LEMMA OnePlace ==
    ASSUME IInv, NEW o \in Obj, Copies(o) = 1
    PROVE  /\ inflight[o] > 0 => pending[o] = 0 /\ deadLetter[o] = 0
           /\ deadLetter[o] > 0 => pending[o] = 0 /\ inflight[o] = 0 /\ deadLetter[o] = 1
  <1>1. /\ pending[o] \in Nat /\ inflight[o] \in Nat /\ completed[o] \in Nat
        /\ deadLetter[o] \in Nat /\ taken[o] \in Nat /\ dropped[o] \in Nat
    BY Typed
  <1>2. pending[o] + inflight[o] + completed[o] + deadLetter[o] + taken[o] + dropped[o] = 1
    BY DEF Copies
  <1>3. pending[o] + inflight[o] + deadLetter[o] <= 1
    BY <1>1, <1>2
  <1>4. QED
    BY <1>1, <1>3

\* Slots stay respected when an id leaves, and when one enters a free one.
LEMMA ActiveFinite == IsFiniteSet(ActiveIds)
  <1>1. IsFiniteSet(1 .. MaxObjects)
    BY FS_Interval, QueueAssumption
  <1>2. ActiveIds \subseteq 1 .. MaxObjects
    BY DEF ActiveIds, Obj
  <1>3. QED
    BY <1>1, <1>2, FS_Subset

\* Ids that leave activeJobs free their slots.
LEMMA FewerActive == ASSUME IInv, ActiveIds' \subseteq ActiveIds PROVE Slots'
  <1>1. IsFiniteSet(ActiveIds)
    BY ActiveFinite
  <1>2. Cardinality(ActiveIds') <= Cardinality(ActiveIds)
    BY <1>1, FS_Subset
  <1>3. /\ Cardinality(ActiveIds) \in Nat /\ Cardinality(ActiveIds') \in Nat
    BY <1>1, FS_Subset, FS_CardinalityType
  <1>4. QED
    BY <1>2, <1>3, QueueAssumption DEF IInv, Slots

\* An id that enters activeJobs takes a slot that was free.
LEMMA OneMoreActive ==
    ASSUME IInv, NEW i, ActiveIds' \subseteq ActiveIds \cup {i},
           Cardinality(ActiveIds) < Concurrency
    PROVE  Slots'
  <1>1. IsFiniteSet(ActiveIds)
    BY ActiveFinite
  <1>2. /\ IsFiniteSet(ActiveIds \cup {i})
        /\ Cardinality(ActiveIds \cup {i}) <= Cardinality(ActiveIds) + 1
    BY <1>1, FS_AddElement, FS_CardinalityType
  <1>3. /\ Cardinality(ActiveIds') \in Nat /\ Cardinality(ActiveIds) \in Nat
        /\ Cardinality(ActiveIds \cup {i}) \in Nat
        /\ Cardinality(ActiveIds') <= Cardinality(ActiveIds \cup {i})
    BY <1>1, <1>2, FS_Subset, FS_CardinalityType
  <1>4. QED
    BY <1>2, <1>3, QueueAssumption DEF Slots

\* One object o moves on, under an id that stays its own.
LEMMA ObjectMoves ==
    ASSUME IInv, TypeOK', Slots', NEW o \in Used, pending[o] + inflight[o] > 0,
           UNCHANGED <<objects, jobId, maxAttempts, swept>>,
           \A x \in Obj \ {o} :
               /\ pending'[x] = pending[x] /\ inflight'[x] = inflight[x]
               /\ completed'[x] = completed[x] /\ deadLetter'[x] = deadLetter[x]
               /\ taken'[x] = taken[x] /\ dropped'[x] = dropped[x]
               /\ attempt'[x] = attempt[x],
           \A i \in Obj \ {jobId[o]} : active'[i] = active[i],
           active'[jobId[o]] = IF inflight'[o] > inflight[o] THEN o ELSE 0,
           Copies(o)' = Copies(o),
           inflight[o] = 0 => inflight'[o] > 0,
           inflight'[o] > 0 => inflight'[o] > inflight[o] \/ inflight[o] > 1,
           jobId[o] \notin swept =>
               /\ attempt'[o] <= maxAttempts[o]
               /\ pending'[o] > 0 => attempt'[o] < maxAttempts[o]
               /\ deadLetter'[o] > 0 => attempt'[o] = maxAttempts[o]
    PROVE  IInv'
  <1>1. Used' = Used
    BY DEF Used
  <1>2. \A x \in Obj : Copies(x)' = Copies(x)
    BY DEF Copies
  <1>3. Custody' /\ Identity'
    BY <1>1, <1>2, Typed DEF IInv, Custody, Identity
  <1>4. o \in Obj /\ jobId[o] \in Used /\ jobId[o] \in Obj /\ o # 0
    BY Typed DEF IInv, Identity
  <1>5. ActiveOwned'
    BY <1>1, <1>4, Typed DEF IInv, ActiveOwned
  <1>6. \A x \in Used : jobId[x] \notin swept /\ jobId[x] = jobId[o] /\ x # o => ~Current(x)
    BY <1>4, Typed DEF IInv, Exclusive, Current
  <1>7. \A x \in Used \ {o} : Current(x)' <=> Current(x)
    BY Typed DEF Current
  <1>8. Exclusive'
    BY <1>1, <1>6, <1>7 DEF IInv, Exclusive
  <1>9. Registered'
    <2> SUFFICES ASSUME NEW x \in Used, jobId[x] \notin swept
                 PROVE  inflight'[x] > 0 <=> active'[jobId[x]] = x
      BY <1>1 DEF Registered
    <2>1. jobId[x] \in Obj /\ x \in Obj /\ (inflight[x] > 0 <=> active[jobId[x]] = x)
      BY Typed DEF IInv, Registered, Identity
    <2>2. Copies(x) = 1 /\ Copies(x)' = 1
      BY <1>2, <2>1 DEF IInv, Custody
    <2>3. CASE x = o
      <3>1. inflight[o] <= 1 /\ inflight[o] \in Nat
        BY <2>1, <2>2, <2>3, Typed DEF Copies
      <3>2. inflight'[o] \in Nat
        BY <1>4 DEF TypeOK
      <3>3. QED
        BY <1>4, <2>3, <3>1, <3>2
    <2>4. CASE x # o /\ jobId[x] # jobId[o]
      BY <2>1, <2>4
    <2>5. CASE x # o /\ jobId[x] = jobId[o]
      <3>1. inflight[x] = 0
        BY <1>6, <2>1, <2>5, Typed DEF Current
      <3>2. QED
        BY <1>4, <2>1, <2>5, <3>1, Typed
    <2>6. QED
      BY <2>3, <2>4, <2>5
  <1>10. Left'
    BY <1>1, Typed DEF IInv, Left
  <1>11. QED
    BY <1>3, <1>5, <1>8, <1>9, <1>10 DEF IInv

\* drain starts a job of the list: runJob up to its await keeps the invariant.
LEMMA RunJobInv == ASSUME IInv, NEW o \in Obj, RunJob(o) PROVE IInv'
  <1>1. /\ o \in Used /\ jobId[o] \in Obj /\ jobId[o] \in Used
        /\ pending[o] > 0 /\ TypeOK /\ UNCHANGED <<objects, jobId, maxAttempts, swept>>
    BY PendingIsUsed, Typed DEF RunJob, CanRun, identity, IInv
  <1>2. TypeOK'
    <2>1. /\ attempt' \in [Obj -> Nat] /\ pending' \in [Obj -> Nat]
          /\ active' \in [Obj -> 0 .. MaxObjects] /\ inflight' \in [Obj -> Nat]
      BY <1>1, Typed DEF RunJob, CanRun, TypeOK
    <2>2. /\ completed' \in [Obj -> Nat] /\ deadLetter' \in [Obj -> Nat]
          /\ taken' \in [Obj -> Nat] /\ dropped' \in [Obj -> Nat]
      BY <1>1, Typed DEF RunJob, CanRun, TypeOK, outcomes
    <2>3. /\ due' \subseteq Obj /\ draining' \in BOOLEAN /\ crashed' \in BOOLEAN
          /\ UNCHANGED <<running, shuttingDown>>
      BY <1>1 DEF RunJob, CanRun, TypeOK, process
    <2>4. QED
      BY <1>1, <2>1, <2>2, <2>3 DEF TypeOK
  <1>3. \A x \in Obj :
          /\ pending'[x] = IF x = o THEN pending[x] - 1 ELSE pending[x]
          /\ inflight'[x] = IF x = o THEN inflight[x] + 1 ELSE inflight[x]
          /\ completed'[x] = completed[x]
          /\ deadLetter'[x] = deadLetter[x]
          /\ taken'[x] = taken[x]
          /\ dropped'[x] = dropped[x]
          /\ attempt'[x] = IF x = o THEN attempt[x] + 1 ELSE attempt[x]
    BY <1>1 DEF RunJob, CanRun, TypeOK, outcomes
  <1>4. \A i \in Obj : active'[i] = IF i = jobId[o] THEN o ELSE active[i]
    BY <1>1 DEF RunJob, CanRun, TypeOK
  <1>5. Slots'
    <2>1. ActiveIds' \subseteq ActiveIds \cup {jobId[o]}
      BY <1>4 DEF ActiveIds
    <2>2. QED
      BY <2>1, OneMoreActive DEF RunJob, CanRun
  <1>6. jobId[o] \notin swept =>
          /\ attempt'[o] <= maxAttempts[o]
          /\ pending'[o] > 0 => attempt'[o] < maxAttempts[o]
          /\ deadLetter'[o] > 0 => attempt'[o] = maxAttempts[o]
    <2>1. HAVE jobId[o] \notin swept
    <2>2. Copies(o) = 1 /\ attempt[o] <= maxAttempts[o] /\ (pending[o] > 0 => attempt[o] < maxAttempts[o])
      BY <1>1, <2>1 DEF IInv, Left, Custody
    <2>3. QED
      BY <1>1, <1>3, <2>2, Typed DEF Copies
  <1>7. QED
    BY <1>1, <1>2, <1>3, <1>4, <1>5, <1>6, Typed, ObjectMoves DEF Copies

\* runJob's success branch keeps the invariant.
LEMMA CompleteInv == ASSUME IInv, NEW o \in Obj, Complete(o) PROVE IInv'
  <1>1. /\ o \in Used /\ jobId[o] \in Obj /\ jobId[o] \in Used
        /\ inflight[o] > 0 /\ TypeOK /\ UNCHANGED <<objects, jobId, maxAttempts, swept>>
    BY PendingIsUsed, Typed DEF Complete, Leave, identity, IInv
  <1>2. TypeOK'
    <2>1. /\ attempt' \in [Obj -> Nat] /\ pending' \in [Obj -> Nat]
          /\ active' \in [Obj -> 0 .. MaxObjects] /\ inflight' \in [Obj -> Nat]
      BY <1>1, Typed DEF Complete, Leave, TypeOK
    <2>2. /\ completed' \in [Obj -> Nat] /\ deadLetter' \in [Obj -> Nat]
          /\ taken' \in [Obj -> Nat] /\ dropped' \in [Obj -> Nat]
      BY <1>1, Typed DEF Complete, Leave, TypeOK, outcomes
    <2>3. /\ due' \subseteq Obj /\ draining' \in BOOLEAN /\ crashed' \in BOOLEAN
          /\ UNCHANGED <<running, shuttingDown>>
      BY <1>1 DEF Complete, Leave, TypeOK, process
    <2>4. QED
      BY <1>1, <2>1, <2>2, <2>3 DEF TypeOK
  <1>3. \A x \in Obj :
          /\ pending'[x] = pending[x]
          /\ inflight'[x] = IF x = o THEN inflight[x] - 1 ELSE inflight[x]
          /\ completed'[x] = IF x = o THEN completed[x] + 1 ELSE completed[x]
          /\ deadLetter'[x] = deadLetter[x]
          /\ taken'[x] = taken[x]
          /\ dropped'[x] = dropped[x]
          /\ attempt'[x] = attempt[x]
    BY <1>1 DEF Complete, Leave, TypeOK, outcomes
  <1>4. \A i \in Obj : active'[i] = IF i = jobId[o] THEN 0 ELSE active[i]
    BY <1>1 DEF Complete, Leave, TypeOK
  <1>5. Slots'
    BY <1>4, FewerActive DEF ActiveIds
  <1>6. jobId[o] \notin swept =>
          /\ attempt'[o] <= maxAttempts[o]
          /\ pending'[o] > 0 => attempt'[o] < maxAttempts[o]
          /\ deadLetter'[o] > 0 => attempt'[o] = maxAttempts[o]
    <2>1. HAVE jobId[o] \notin swept
    <2>2. Copies(o) = 1 /\ attempt[o] <= maxAttempts[o] /\ (pending[o] > 0 => attempt[o] < maxAttempts[o])
      BY <1>1, <2>1 DEF IInv, Left, Custody
    <2>3. QED
      BY <1>1, <1>3, <2>2, Typed DEF Copies
  <1>7. QED
    BY <1>1, <1>2, <1>3, <1>4, <1>5, <1>6, Typed, ObjectMoves DEF Copies

\* runJob's retry, which puts the object back into the list, keeps the invariant.
LEMMA FailAndRetryInv == ASSUME IInv, NEW o \in Obj, FailAndRetry(o) PROVE IInv'
  <1>1. /\ o \in Used /\ jobId[o] \in Obj /\ jobId[o] \in Used
        /\ inflight[o] > 0 /\ TypeOK /\ UNCHANGED <<objects, jobId, maxAttempts, swept>>
    BY PendingIsUsed, Typed DEF FailAndRetry, Leave, identity, IInv
  <1>2. TypeOK'
    <2>1. /\ attempt' \in [Obj -> Nat] /\ pending' \in [Obj -> Nat]
          /\ active' \in [Obj -> 0 .. MaxObjects] /\ inflight' \in [Obj -> Nat]
      BY <1>1, Typed DEF FailAndRetry, Leave, TypeOK
    <2>2. /\ completed' \in [Obj -> Nat] /\ deadLetter' \in [Obj -> Nat]
          /\ taken' \in [Obj -> Nat] /\ dropped' \in [Obj -> Nat]
      BY <1>1, Typed DEF FailAndRetry, Leave, TypeOK, outcomes
    <2>3. /\ due' \subseteq Obj /\ draining' \in BOOLEAN /\ crashed' \in BOOLEAN
          /\ UNCHANGED <<running, shuttingDown>>
      BY <1>1 DEF FailAndRetry, Leave, TypeOK, process
    <2>4. QED
      BY <1>1, <2>1, <2>2, <2>3 DEF TypeOK
  <1>3. \A x \in Obj :
          /\ pending'[x] = IF x = o THEN pending[x] + 1 ELSE pending[x]
          /\ inflight'[x] = IF x = o THEN inflight[x] - 1 ELSE inflight[x]
          /\ completed'[x] = completed[x]
          /\ deadLetter'[x] = deadLetter[x]
          /\ taken'[x] = taken[x]
          /\ dropped'[x] = dropped[x]
          /\ attempt'[x] = attempt[x]
    BY <1>1 DEF FailAndRetry, Leave, TypeOK, outcomes
  <1>4. \A i \in Obj : active'[i] = IF i = jobId[o] THEN 0 ELSE active[i]
    BY <1>1 DEF FailAndRetry, Leave, TypeOK
  <1>5. Slots'
    BY <1>4, FewerActive DEF ActiveIds
  <1>6. jobId[o] \notin swept =>
          /\ attempt'[o] <= maxAttempts[o]
          /\ pending'[o] > 0 => attempt'[o] < maxAttempts[o]
          /\ deadLetter'[o] > 0 => attempt'[o] = maxAttempts[o]
    <2>1. HAVE jobId[o] \notin swept
    <2>2. Copies(o) = 1 /\ attempt[o] <= maxAttempts[o] /\ (pending[o] > 0 => attempt[o] < maxAttempts[o])
      BY <1>1, <2>1 DEF IInv, Left, Custody
    <2>3. attempt[o] < maxAttempts[o]
      BY DEF FailAndRetry
    <2>4. QED
      BY <1>1, <1>3, <2>2, <2>3, Typed DEF Copies
  <1>7. QED
    BY <1>1, <1>2, <1>3, <1>4, <1>5, <1>6, Typed, ObjectMoves DEF Copies

\* moveToDeadLetter keeps the invariant.
LEMMA FailForGoodInv == ASSUME IInv, NEW o \in Obj, FailForGood(o) PROVE IInv'
  <1>1. /\ o \in Used /\ jobId[o] \in Obj /\ jobId[o] \in Used
        /\ inflight[o] > 0 /\ TypeOK /\ UNCHANGED <<objects, jobId, maxAttempts, swept>>
    BY PendingIsUsed, Typed DEF FailForGood, Leave, identity, IInv
  <1>2. TypeOK'
    <2>1. /\ attempt' \in [Obj -> Nat] /\ pending' \in [Obj -> Nat]
          /\ active' \in [Obj -> 0 .. MaxObjects] /\ inflight' \in [Obj -> Nat]
      BY <1>1, Typed DEF FailForGood, Leave, TypeOK
    <2>2. /\ completed' \in [Obj -> Nat] /\ deadLetter' \in [Obj -> Nat]
          /\ taken' \in [Obj -> Nat] /\ dropped' \in [Obj -> Nat]
      BY <1>1, Typed DEF FailForGood, Leave, TypeOK, outcomes
    <2>3. /\ due' \subseteq Obj /\ draining' \in BOOLEAN /\ crashed' \in BOOLEAN
          /\ UNCHANGED <<running, shuttingDown>>
      BY <1>1 DEF FailForGood, Leave, TypeOK, process
    <2>4. QED
      BY <1>1, <2>1, <2>2, <2>3 DEF TypeOK
  <1>3. \A x \in Obj :
          /\ pending'[x] = pending[x]
          /\ inflight'[x] = IF x = o THEN inflight[x] - 1 ELSE inflight[x]
          /\ completed'[x] = completed[x]
          /\ deadLetter'[x] = IF x = o THEN deadLetter[x] + 1 ELSE deadLetter[x]
          /\ taken'[x] = taken[x]
          /\ dropped'[x] = dropped[x]
          /\ attempt'[x] = attempt[x]
    BY <1>1 DEF FailForGood, Leave, TypeOK, outcomes
  <1>4. \A i \in Obj : active'[i] = IF i = jobId[o] THEN 0 ELSE active[i]
    BY <1>1 DEF FailForGood, Leave, TypeOK
  <1>5. Slots'
    BY <1>4, FewerActive DEF ActiveIds
  <1>6. jobId[o] \notin swept =>
          /\ attempt'[o] <= maxAttempts[o]
          /\ pending'[o] > 0 => attempt'[o] < maxAttempts[o]
          /\ deadLetter'[o] > 0 => attempt'[o] = maxAttempts[o]
    <2>1. HAVE jobId[o] \notin swept
    <2>2. Copies(o) = 1 /\ attempt[o] <= maxAttempts[o] /\ (pending[o] > 0 => attempt[o] < maxAttempts[o])
      BY <1>1, <2>1 DEF IInv, Left, Custody
    <2>3. attempt[o] = maxAttempts[o] /\ maxAttempts[o] \in Nat
      BY <2>2, Typed DEF FailForGood
    <2>4. pending'[o] = 0 /\ attempt'[o] = attempt[o]
      BY <1>1, <1>3, <2>2, OnePlace
    <2>5. QED
      BY <2>3, <2>4
  <1>7. QED
    BY <1>1, <1>2, <1>3, <1>4, <1>5, <1>6, Typed, ObjectMoves DEF Copies

\* The error that ends the process keeps the invariant.
LEMMA FailNonRetryableInv == ASSUME IInv, NEW o \in Obj, FailNonRetryable(o) PROVE IInv'
  <1>1. /\ o \in Used /\ jobId[o] \in Obj /\ jobId[o] \in Used
        /\ inflight[o] > 0 /\ TypeOK /\ UNCHANGED <<objects, jobId, maxAttempts, swept>>
    BY PendingIsUsed, Typed DEF FailNonRetryable, Leave, identity, IInv
  <1>2. TypeOK'
    <2>1. /\ attempt' \in [Obj -> Nat] /\ pending' \in [Obj -> Nat]
          /\ active' \in [Obj -> 0 .. MaxObjects] /\ inflight' \in [Obj -> Nat]
      BY <1>1, Typed DEF FailNonRetryable, Leave, TypeOK
    <2>2. /\ completed' \in [Obj -> Nat] /\ deadLetter' \in [Obj -> Nat]
          /\ taken' \in [Obj -> Nat] /\ dropped' \in [Obj -> Nat]
      BY <1>1, Typed DEF FailNonRetryable, Leave, TypeOK, outcomes
    <2>3. /\ due' \subseteq Obj /\ draining' \in BOOLEAN /\ crashed' \in BOOLEAN
          /\ UNCHANGED <<running, shuttingDown>>
      BY <1>1 DEF FailNonRetryable, Leave, TypeOK, process
    <2>4. QED
      BY <1>1, <2>1, <2>2, <2>3 DEF TypeOK
  <1>3. \A x \in Obj :
          /\ pending'[x] = pending[x]
          /\ inflight'[x] = IF x = o THEN inflight[x] - 1 ELSE inflight[x]
          /\ completed'[x] = completed[x]
          /\ deadLetter'[x] = deadLetter[x]
          /\ taken'[x] = taken[x]
          /\ dropped'[x] = IF x = o THEN dropped[x] + 1 ELSE dropped[x]
          /\ attempt'[x] = attempt[x]
    BY <1>1 DEF FailNonRetryable, Leave, TypeOK, outcomes
  <1>4. \A i \in Obj : active'[i] = IF i = jobId[o] THEN 0 ELSE active[i]
    BY <1>1 DEF FailNonRetryable, Leave, TypeOK
  <1>5. Slots'
    BY <1>4, FewerActive DEF ActiveIds
  <1>6. jobId[o] \notin swept =>
          /\ attempt'[o] <= maxAttempts[o]
          /\ pending'[o] > 0 => attempt'[o] < maxAttempts[o]
          /\ deadLetter'[o] > 0 => attempt'[o] = maxAttempts[o]
    <2>1. HAVE jobId[o] \notin swept
    <2>2. Copies(o) = 1 /\ attempt[o] <= maxAttempts[o] /\ (pending[o] > 0 => attempt[o] < maxAttempts[o])
      BY <1>1, <2>1 DEF IInv, Left, Custody
    <2>3. QED
      BY <1>1, <1>3, <2>2, Typed DEF Copies
  <1>7. QED
    BY <1>1, <1>2, <1>3, <1>4, <1>5, <1>6, Typed, ObjectMoves DEF Copies

\* Only the timers, the drain loop and the system's flags move.
LEMMA FlagsMove ==
    ASSUME IInv, UNCHANGED <<identity, attempt, pending, active, inflight, outcomes, swept>>,
           due' \subseteq Obj, draining' \in BOOLEAN, running' \in BOOLEAN,
           shuttingDown' \in BOOLEAN, crashed' \in BOOLEAN
    PROVE  IInv'
  <1>1. TypeOK'
    BY DEF IInv, TypeOK, identity, outcomes
  <1>2. QED
    BY <1>1 DEF IInv, identity, outcomes, Custody, Copies, Identity, ActiveOwned, Exclusive,
       Current, Registered, Left, Slots, ActiveIds, Used

\* The poll timer, the passing of runAt, start and stop keep the invariant.
LEMMA TimersInv ==
    ASSUME IInv, \/ Poll \/ Start \/ Stop
                 \/ \E o \in Obj : BecomeDue(o) \/ RetryPending(o)
    PROVE  IInv'
  <1>1. /\ due \subseteq Obj /\ running \in BOOLEAN /\ shuttingDown \in BOOLEAN
        /\ crashed \in BOOLEAN
    BY DEF IInv, TypeOK
  <1>2. CASE Poll
    BY <1>1, <1>2, FlagsMove DEF Poll, process
  <1>3. CASE Start
    BY <1>1, <1>3, FlagsMove DEF Start
  <1>4. CASE Stop
    BY <1>1, <1>4, FlagsMove DEF Stop
  <1>5. ASSUME NEW o \in Obj, BecomeDue(o) PROVE IInv'
    BY <1>1, <1>5, FlagsMove DEF BecomeDue, process
  <1>6. ASSUME NEW o \in Obj, RetryPending(o) PROVE IInv'
    BY <1>1, <1>6, FlagsMove DEF RetryPending, process
  <1>7. QED
    BY <1>2, <1>3, <1>4, <1>5, <1>6

\* A new object under an id that is new or has nothing left that is current.
LEMMA PushInv ==
    ASSUME IInv, NEW id, NEW max \in Nat \ {0}, NEW d \in BOOLEAN, Push(id, max, d),
           \/ id = objects + 1 /\ UNCHANGED <<deadLetter, taken>>
           \/ /\ id = objects + 1
              /\ \E o \in Obj : TakeDeadLetter(o)
           \/ \E o \in Obj : TakeDeadLetter(o) /\ id = jobId[o]
    PROVE  IInv'
  <1>0. PICK n : n = objects + 1
    OBVIOUS
  <1>1. /\ n \in Obj \ Used /\ Used' = Used \cup {n} /\ TypeOK
        /\ UNCHANGED <<process, attempt, active, inflight, completed, dropped, swept>>
    <2>1. TypeOK /\ n \in Obj /\ n \notin Used /\ objects' = n
      <3>1. objects \in Nat /\ objects < MaxObjects /\ objects' = n /\ TypeOK
        BY <1>0, QueueAssumption DEF Push, IInv, TypeOK
      <3>2. QED
        BY <1>0, <3>1, QueueAssumption DEF Used, Obj
    <2>2. Used' = Used \cup {n}
      BY <1>0, <2>1, QueueAssumption DEF Used, TypeOK
    <2>3. QED
      BY <1>0, <2>1, <2>2 DEF Push
  <1>2. /\ \A x \in Obj : /\ jobId'[x] = IF x = n THEN id ELSE jobId[x]
                          /\ maxAttempts'[x] = IF x = n THEN max ELSE maxAttempts[x]
                          /\ pending'[x] = IF x = n THEN 1 ELSE pending[x]
    BY <1>0, <1>1 DEF Push, TypeOK
  <1>3. \A x \in Obj : /\ deadLetter'[x] \in Nat /\ taken'[x] \in Nat
                       /\ deadLetter'[x] <= deadLetter[x]
                       /\ deadLetter'[x] + taken'[x] = deadLetter[x] + taken[x]
    BY <1>1, Typed DEF TakeDeadLetter, TypeOK
  <1>4. id \in Used \/ id = n
    BY <1>0, PendingIsUsed DEF TakeDeadLetter
  <1>5. TypeOK'
    <2>1. /\ jobId' \in [Obj -> 0 .. MaxObjects] /\ maxAttempts' \in [Obj -> Nat]
          /\ pending' \in [Obj -> Nat]
      BY <1>1, <1>4, Typed DEF Push, TypeOK
    <2>2. deadLetter' \in [Obj -> Nat] /\ taken' \in [Obj -> Nat]
      BY <1>1, Typed DEF TakeDeadLetter, TypeOK
    <2>3. /\ objects' \in 0 .. MaxObjects /\ due' \subseteq Obj /\ draining' \in BOOLEAN
      BY <1>0, <1>1, QueueAssumption DEF Push, TypeOK
    <2>4. QED
      BY <1>1, <2>1, <2>2, <2>3 DEF TypeOK, process
  <1>6. \A x \in Obj \ Used : /\ pending[x] = 0 /\ inflight[x] = 0 /\ completed[x] = 0
                              /\ deadLetter[x] = 0 /\ taken[x] = 0 /\ dropped[x] = 0
                              /\ attempt[x] = 0
    <2> SUFFICES ASSUME NEW x \in Obj \ Used
                 PROVE  /\ pending[x] = 0 /\ inflight[x] = 0 /\ completed[x] = 0
                        /\ deadLetter[x] = 0 /\ taken[x] = 0 /\ dropped[x] = 0
                        /\ attempt[x] = 0
      OBVIOUS
    <2>1. Copies(x) = 0 /\ attempt[x] = 0
      BY DEF IInv, Custody, Identity
    <2>2. QED
      BY <2>1, Typed DEF Copies
  <1>7. Custody'
    <2>1. \A x \in Obj \ {n} : Copies(x)' = Copies(x)
      BY <1>1, <1>2, <1>3, Typed DEF Copies
    <2>2. Copies(n)' = 1
      <3>1. /\ pending'[n] = 1 /\ inflight'[n] = 0 /\ completed'[n] = 0 /\ dropped'[n] = 0
            /\ deadLetter'[n] + taken'[n] = 0
        BY <1>1, <1>2, <1>3, <1>6
      <3>2. QED
        BY <1>1, <1>3, <3>1 DEF Copies
    <2>3. \A x \in Obj \ {n} : /\ x \in Used' <=> x \in Used
                               /\ jobId'[x] = jobId[x] /\ swept' = swept
      BY <1>1, <1>2
    <2>4. n \in Used'
      BY <1>1
    <2>5. SUFFICES ASSUME NEW x \in Obj
                   PROVE  /\ x \notin Used' => Copies(x)' = 0
                          /\ x \in Used' => Copies(x)' >= 1
                          /\ x \in Used' /\ jobId'[x] \notin swept' => Copies(x)' = 1
      BY DEF Custody
    <2>6. CASE x = n
      BY <2>2, <2>4, <2>6
    <2>7. CASE x # n
      BY <2>1, <2>3, <2>7 DEF IInv, Custody
    <2>8. QED
      BY <2>6, <2>7
  <1>8. Identity'
    BY <1>1, <1>2, <1>4, <1>6, Typed DEF IInv, Identity
  <1>9. ActiveOwned'
    BY <1>1, <1>2, Typed DEF IInv, ActiveOwned
  <1>10. \A x \in Used : id \notin swept /\ jobId[x] = id => ~Current(x)'
    <2> SUFFICES ASSUME NEW x \in Used, id \notin swept, jobId[x] = id PROVE ~Current(x)'
      OBVIOUS
    <2>1. PICK o \in Obj : TakeDeadLetter(o) /\ jobId[o] = id
      BY <1>0, <1>1 DEF IInv, Identity
    <2>2. o \in Used /\ Current(o) /\ deadLetter'[o] = deadLetter[o] - 1 /\ deadLetter[o] > 0
      BY <1>1, <2>1, PendingIsUsed, Typed DEF TakeDeadLetter, Current, TypeOK
    <2>3. CASE x = o
      <3>1. Copies(o) = 1
        BY <2>1, <2>2, Typed DEF IInv, Custody
      <3>2. pending[o] = 0 /\ inflight[o] = 0 /\ deadLetter[o] = 1
        BY <2>2, <3>1, OnePlace
      <3>3. QED
        BY <1>1, <1>2, <2>2, <2>3, <3>2, Typed DEF Current
    <2>4. CASE x # o
      <3>1. ~Current(x)
        BY <2>1, <2>2, <2>4 DEF IInv, Exclusive
      <3>2. QED
        BY <1>1, <1>2, <1>3, <3>1, Typed DEF Current
    <2>5. QED
      BY <2>3, <2>4
  <1>11. \A x \in Used : Current(x)' => Current(x)
    BY <1>1, <1>2, <1>3, Typed DEF Current
  <1>12. Exclusive'
    BY <1>1, <1>2, <1>10, <1>11, Typed DEF IInv, Exclusive
  <1>13. Registered'
    <2> SUFFICES ASSUME NEW x \in Used', jobId'[x] \notin swept
                 PROVE  inflight[x] > 0 <=> active[jobId'[x]] = x
      BY <1>1 DEF Registered
    <2>1. CASE x = n
      <3>1. inflight[n] = 0 /\ id = jobId'[n]
        BY <1>1, <1>2, <1>6
      <3>2. id \in Obj
        BY <1>1, <1>4, Typed
      <3>3. active[id] # n
        BY <1>1, <3>2, Typed DEF IInv, ActiveOwned
      <3>4. QED
        BY <2>1, <3>1, <3>3
    <2>2. CASE x # n
      BY <1>1, <1>2, <2>2, Typed DEF IInv, Registered
    <2>3. QED
      BY <2>1, <2>2
  <1>14. Left'
    <2> SUFFICES ASSUME NEW x \in Used', jobId'[x] \notin swept
                 PROVE  /\ attempt[x] <= maxAttempts'[x]
                        /\ pending'[x] > 0 => attempt[x] < maxAttempts'[x]
                        /\ deadLetter'[x] > 0 => attempt[x] = maxAttempts'[x]
      BY <1>1 DEF Left
    <2>1. CASE x = n
      BY <1>1, <1>2, <1>3, <1>6, <2>1, Typed
    <2>2. CASE x # n
      BY <1>1, <1>2, <1>3, <2>2, Typed DEF IInv, Left
    <2>3. QED
      BY <2>1, <2>2
  <1>15. Slots'
    BY <1>1 DEF IInv, Slots, ActiveIds
  <1>16. QED
    BY <1>5, <1>7, <1>8, <1>9, <1>12, <1>13, <1>14, <1>15 DEF IInv

\* enqueue, replayDeadLetter and retryJob keep the invariant.
LEMMA AddingInv ==
    ASSUME IInv, \/ \E m \in MaxAttempts, d \in BOOLEAN : Enqueue(m, d)
                 \/ \E o \in Obj : ReplayDeadLetter(o) \/ RetryDeadLetter(o)
    PROVE  IInv'
  <1>1. ASSUME NEW m \in MaxAttempts, NEW d \in BOOLEAN, Enqueue(m, d) PROVE IInv'
    BY <1>1, PushInv, QueueAssumption DEF Enqueue
  <1>2. ASSUME NEW o \in Obj, TakeDeadLetter(o) PROVE maxAttempts[o] \in Nat \ {0}
    BY <1>2, PendingIsUsed, Typed DEF TakeDeadLetter, IInv, Identity
  <1>3. ASSUME NEW o \in Obj, ReplayDeadLetter(o) PROVE IInv'
    BY <1>2, <1>3, PushInv DEF ReplayDeadLetter
  <1>4. ASSUME NEW o \in Obj, RetryDeadLetter(o) PROVE IInv'
    BY <1>2, <1>4, PushInv DEF RetryDeadLetter
  <1>5. QED
    BY <1>1, <1>3, <1>4

\* A sweep touches every id of whose objects it makes second copies.
LEMMA SweepInv ==
    ASSUME IInv, NEW S \in SUBSET ActiveObjects, SweepStaleLeases(S)
    PROVE  IInv'
  <1>1. /\ S \subseteq Used /\ TypeOK
        /\ \A o \in S : jobId[o] \in swept'
        /\ swept \subseteq swept'
        /\ UNCHANGED <<process, identity, attempt, inflight, completed, taken, dropped>>
    BY DEF SweepStaleLeases, ActiveObjects, ActiveIds, IInv, ActiveOwned
  <1>2. Used' = Used /\ jobId' = jobId /\ maxAttempts' = maxAttempts
    BY <1>1 DEF identity, Used
  <1>3. \A x \in Obj : /\ pending'[x] \in {pending[x], pending[x] + 1}
                       /\ deadLetter'[x] \in {deadLetter[x], deadLetter[x] + 1}
                       /\ x \notin S => pending'[x] = pending[x] /\ deadLetter'[x] = deadLetter[x]
                       /\ active'[x] = IF active[x] \in S THEN 0 ELSE active[x]
    BY DEF SweepStaleLeases
  <1>4. TypeOK'
    <2>1. /\ pending' \in [Obj -> Nat] /\ deadLetter' \in [Obj -> Nat]
          /\ active' \in [Obj -> 0 .. MaxObjects]
      <3>1. \A x \in Obj : /\ pending'[x] \in Nat /\ deadLetter'[x] \in Nat
                           /\ active'[x] \in 0 .. MaxObjects
        BY <1>1, <1>3, Typed DEF TypeOK
      <3>2. /\ pending' = [x \in Obj |-> pending'[x]] /\ deadLetter' = [x \in Obj |-> deadLetter'[x]]
            /\ active' = [x \in Obj |-> active'[x]]
        BY DEF SweepStaleLeases
      <3>3. QED
        BY <3>1, <3>2
    <2>2. /\ due' \subseteq Obj /\ swept' \subseteq Obj /\ draining' \in BOOLEAN
      BY <1>1, Typed DEF SweepStaleLeases, TypeOK, IInv, Identity
    <2>3. QED
      BY <1>1, <2>1, <2>2 DEF TypeOK, process, identity
  <1>5. Custody'
    <2>1. \A x \in Obj : Copies(x)' >= Copies(x) /\ (x \notin S => Copies(x)' = Copies(x))
      BY <1>1, <1>3, Typed DEF Copies
    <2>2. \A x \in Obj : Copies(x) \in Nat /\ Copies(x)' \in Nat
      <3>1. \A x \in Obj : pending'[x] \in Nat /\ deadLetter'[x] \in Nat
        BY <1>4 DEF TypeOK
      <3>2. QED
        BY <1>1, <3>1, Typed DEF Copies
    <2>3. QED
      BY <1>1, <1>2, <2>1, <2>2, Typed DEF IInv, Custody
  <1>6. Identity' /\ ActiveOwned'
    BY <1>1, <1>2, <1>3, Typed DEF IInv, Identity, ActiveOwned
  <1>7. Exclusive'
    BY <1>1, <1>2, <1>3, Typed DEF IInv, Exclusive, Current
  <1>8. Registered'
    <2> SUFFICES ASSUME NEW x \in Used, jobId[x] \notin swept'
                 PROVE  inflight[x] > 0 <=> active'[jobId[x]] = x
      BY <1>1, <1>2 DEF Registered
    <2>1. x \notin S /\ jobId[x] \in Obj /\ x # 0 /\ (inflight[x] > 0 <=> active[jobId[x]] = x)
      BY <1>1, Typed DEF IInv, Identity, Registered
    <2>2. active[jobId[x]] \in S => active'[jobId[x]] = 0 /\ active[jobId[x]] # x
      BY <1>3, <2>1
    <2>3. QED
      BY <1>3, <2>1, <2>2
  <1>9. Left'
    BY <1>1, <1>2, <1>3, Typed DEF IInv, Left
  <1>10. Slots'
    BY <1>3, FewerActive DEF ActiveIds
  <1>11. QED
    BY <1>4, <1>5, <1>6, <1>7, <1>8, <1>9, <1>10 DEF IInv

-----------------------------------------------------------------------------
\* The constructor establishes the invariant.
LEMMA InitInv == Init => IInv
  <1> SUFFICES ASSUME Init PROVE IInv
    OBVIOUS
  <1>1. TypeOK
    <2>1. 0 \in 0 .. MaxObjects /\ 0 \in Nat
      BY QueueAssumption
    <2>2. QED
      BY <2>1 DEF Init, TypeOK
  <1>2. Used = {} /\ ActiveIds = {}
    BY DEF Init, Used, ActiveIds
  <1>3. Slots
    BY <1>2, FS_EmptySet, QueueAssumption DEF Slots
  <1>4. Custody
    BY <1>2 DEF Init, Custody, Copies
  <1>5. Identity /\ ActiveOwned /\ Exclusive /\ Registered /\ Left
    BY <1>2 DEF Init, Identity, ActiveOwned, Exclusive, Registered, Left
  <1>6. QED
    BY <1>1, <1>3, <1>4, <1>5 DEF IInv

\* Every step keeps the invariant.
LEMMA NextInv == IInv /\ [Next]_vars => IInv'
  <1> SUFFICES ASSUME IInv, [Next]_vars PROVE IInv'
    OBVIOUS
  <1>1. CASE UNCHANGED vars
    BY <1>1, FlagsMove DEF vars, identity, outcomes, IInv, TypeOK
  <1>2. ASSUME NEW o \in Obj, ObjectStep(o) PROVE IInv'
    BY <1>2, RunJobInv, CompleteInv, FailAndRetryInv, FailForGoodInv, FailNonRetryableInv,
       TimersInv, AddingInv DEF ObjectStep, Settle
  <1>3. QED
    BY <1>1, <1>2, TimersInv, AddingInv, SweepInv DEF Next

\* The invariant holds in every reachable state.
THEOREM Invariant == Spec => []IInv
  BY InitInv, NextInv, PTL DEF Spec

\* Every variable keeps its type.
THEOREM TypeCorrect == Spec => []TypeOK
  <1>1. IInv => TypeOK
    BY DEF IInv
  <1>2. QED
    BY <1>1, Invariant, PTL

\* No job is lost, and without a sweep it is in one place.
THEOREM CustodyHolds == Spec => []Custody
  <1>1. IInv => Custody
    BY DEF IInv
  <1>2. QED
    BY <1>1, Invariant, PTL

\* Without a sweep an id has one live object, the one activeJobs holds.
THEOREM IdsExclusive == Spec => []IdsAreExclusive
  <1>1. IInv => IdsAreExclusive
    <2> SUFFICES ASSUME IInv, NEW o \in Used, jobId[o] \notin swept
                 PROVE  /\ inflight[o] = 1 <=> active[jobId[o]] = o
                        /\ \A x \in Used \ {o} : jobId[x] = jobId[o] => ~(Live(o) /\ Live(x))
      BY DEF IdsAreExclusive
    <2>1. inflight[o] <= 1 /\ inflight[o] \in Nat
      BY Typed DEF IInv, Custody, Copies
    <2>2. \A x \in Used : Live(x) => Current(x)
      BY Typed DEF Live, Current
    <2>3. QED
      BY <2>1, <2>2 DEF IInv, Registered, Exclusive
  <1>2. QED
    BY <1>1, Invariant, PTL

\* Without a sweep no job runs more often than it may.
THEOREM AttemptsHold == Spec => []AttemptsRespected
  <1>1. IInv => AttemptsRespected
    BY DEF IInv, Left, AttemptsRespected
  <1>2. QED
    BY <1>1, Invariant, PTL

\* Without a sweep no more handlers run than there are worker slots.
THEOREM SlotsHold == Spec => []SlotsRespected
  <1>1. IInv => SlotsRespected
    <2> DEFINE H == {o \in Used : inflight[o] > 0 /\ jobId[o] \notin swept}
    <2> SUFFICES ASSUME IInv PROVE Cardinality(H) <= Concurrency
      BY DEF SlotsRespected
    <2>1. \A o \in H : jobId[o] \in ActiveIds /\ active[jobId[o]] = o
      BY Typed DEF IInv, Registered, Identity, ActiveIds
    <2>2. [o \in H |-> jobId[o]] \in Injection(H, ActiveIds)
      <3>1. [o \in H |-> jobId[o]] \in [H -> ActiveIds]
        BY <2>1
      <3>2. \A a, b \in H : jobId[a] = jobId[b] => a = b
        BY <2>1
      <3>3. QED
        BY <3>1, <3>2 DEF Injection, IsInjective
    <2>3. Cardinality(H) <= Cardinality(ActiveIds)
      BY <2>2, ActiveFinite, FS_Injection
    <2>4. Cardinality(H) \in Nat /\ Cardinality(ActiveIds) \in Nat
      BY <2>2, ActiveFinite, FS_Injection, FS_CardinalityType
    <2>5. QED
      BY <2>3, <2>4, QueueAssumption DEF IInv, Slots
  <1>2. QED
    BY <1>1, Invariant, PTL

\* Retries, forced retries and replays stay within the limits of the queue.
THEOREM LimitsHold == Spec => []LimitsRespected
  BY IdsExclusive, SlotsHold, AttemptsHold, PTL DEF LimitsRespected
=============================================================================
