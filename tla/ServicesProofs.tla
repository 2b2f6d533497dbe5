--------------------------- MODULE ServicesProofs ---------------------------
(***************************************************************************)
(* TLAPS proofs about the components that keep to themselves: the scheduler*)
(* registry, sessions, the membership of an organisation, the transaction  *)
(* ETL, graceful shutdown and the lists read page by page.  Each has an    *)
(* inductive invariant of its own.                                         *)
(***************************************************************************)
EXTENDS SchedulerLocks, Sessions, Membership, TransactionETL, GracefulShutdown,
        VaultSearch, FiniteSetTheorems, SequenceTheorems, NaturalsInduction,
        WellFoundedInduction, TLAPS

-----------------------------------------------------------------------------
(* SchedulerLocks *)

\* The runs of a replica whose hold of the lock is still there.
Live(r) == Runs(r) \ severed

\* One session holds the lock, at least as often as its replica has live runs.
Held(r) == Live(r) # {} =>
    \E c \in Connections : PoolOf[c] = r /\ holds[c] >= Cardinality(Live(r))
OneSession == \A c, d \in Connections : holds[c] > 0 /\ holds[d] > 0 => c = d
SchedulerIInv == SchedulerTypeOK /\ OneSession /\ \A r \in Replicas : Held(r)

\* A replica has finitely many runs.
LEMMA LiveFinite ==
    ASSUME NEW r
    PROVE  /\ IsFiniteSet(Live(r)) /\ Cardinality(Live(r)) \in Nat
           /\ Live(r) # {} => Cardinality(Live(r)) > 0
  <1>1. Live(r) \subseteq Ticks
    BY DEF Live, Runs
  <1>2. IsFiniteSet(Live(r)) /\ Cardinality(Live(r)) \in Nat
    BY <1>1, SchedulerAssumption, FS_Subset, FS_CardinalityType
  <1>3. Live(r) # {} => Cardinality(Live(r)) # 0
    BY <1>2, FS_EmptySet
  <1>4. QED
    BY <1>2, <1>3

\* A replica that has no more live runs and loses no hold keeps what it needs.
LEMMA HeldKept ==
    ASSUME NEW r \in Replicas, Held(r), SchedulerTypeOK, Live(r)' \subseteq Live(r),
           \A c \in Connections : PoolOf[c] = r /\ holds[c] > 0 => holds'[c] = holds[c]
    PROVE  Held(r)'
  <1>1. SUFFICES ASSUME Live(r)' # {}
                 PROVE  \E c \in Connections : PoolOf[c] = r /\ holds'[c] >= Cardinality(Live(r)')
    BY DEF Held
  <1>2. PICK c \in Connections : PoolOf[c] = r /\ holds[c] >= Cardinality(Live(r))
    BY <1>1 DEF Held
  <1>3. /\ Cardinality(Live(r)) \in Nat /\ Cardinality(Live(r)) > 0
        /\ Cardinality(Live(r)') <= Cardinality(Live(r)) /\ Cardinality(Live(r)') \in Nat
    BY <1>1, LiveFinite, FS_Subset, FS_CardinalityType
  <1>4. holds[c] \in Nat /\ holds[c] > 0
    BY <1>2, <1>3 DEF SchedulerTypeOK
  <1>5. holds'[c] = holds[c]
    BY <1>2, <1>4
  <1>6. QED
    BY <1>2, <1>3, <1>4, <1>5

\* While one session holds the lock no other replica has a live run.
LEMMA OthersHaveNone ==
    ASSUME SchedulerIInv, NEW r \in Replicas, NEW c \in Connections, holds[c] > 0, PoolOf[c] # r
    PROVE  Live(r) = {}
  <1>1. SUFFICES ASSUME Live(r) # {} PROVE FALSE
    OBVIOUS
  <1>2. PICK d \in Connections : PoolOf[d] = r /\ holds[d] >= Cardinality(Live(r))
    BY <1>1 DEF SchedulerIInv, Held
  <1>3. Cardinality(Live(r)) \in Nat /\ Cardinality(Live(r)) > 0 /\ holds[d] \in Nat
    BY <1>1, LiveFinite DEF SchedulerIInv, SchedulerTypeOK
  <1>4. holds[d] > 0
    BY <1>2, <1>3
  <1>5. QED
    BY <1>2, <1>4 DEF SchedulerIInv, OneSession

\* One element makes a set larger by at most one.
LEMMA OneMore ==
    ASSUME NEW S, IsFiniteSet(S), NEW x
    PROVE  /\ IsFiniteSet(S \cup {x}) /\ Cardinality(S \cup {x}) \in Nat
           /\ Cardinality(S \cup {x}) <= Cardinality(S) + 1
  <1>1. Cardinality(S) \in Nat
    BY FS_CardinalityType
  <1>2. /\ IsFiniteSet(S \cup {x})
        /\ Cardinality(S \cup {x}) = IF x \in S THEN Cardinality(S) ELSE Cardinality(S) + 1
    BY FS_AddElement
  <1>3. QED
    BY <1>1, <1>2

\* Taking the lock adds a live run and a hold.
LEMMA AcquireKeeps ==
    ASSUME SchedulerIInv, NEW t \in Ticks, NEW c \in Connections, TryAcquireLock(t, c)
    PROVE  SchedulerIInv'
  <1> DEFINE r == TimerOf[t]
  <1>0. r \in Replicas /\ PoolOf[c] = r /\ SchedulerTypeOK /\ tick[t] = "locking"
    BY SchedulerAssumption DEF SchedulerIInv, TryAcquireLock
  <1>1. CASE holds' = holds
    <2>1. SchedulerTypeOK' /\ OneSession'
      BY <1>0, <1>1 DEF SchedulerIInv, SchedulerTypeOK, OneSession, TryAcquireLock, At
    <2>2. ASSUME NEW x \in Replicas PROVE Held(x)'
      <3>1. tick'[t] = "ended" /\ severed' = severed /\ \A u \in Ticks \ {t} : tick'[u] = tick[u]
        BY <1>0, <1>1 DEF SchedulerTypeOK, TryAcquireLock, At
      <3>2. Live(x)' \subseteq Live(x)
        BY <3>1 DEF Live, Runs
      <3>3. QED
        BY <1>0, <1>1, <3>2, HeldKept DEF SchedulerIInv
    <2>3. QED BY <2>1, <2>2 DEF SchedulerIInv
  <1>2. CASE holds' # holds
    <2>1. /\ \A d \in Connections \ {c} : holds[d] = 0 /\ holds'[d] = 0
          /\ holds[c] \in Nat /\ holds'[c] = holds[c] + 1
          /\ tick'[t] = "executing" /\ \A u \in Ticks \ {t} : tick'[u] = tick[u]
          /\ severed' = severed
      BY <1>0, <1>2 DEF SchedulerTypeOK, TryAcquireLock, At
    <2>2. SchedulerTypeOK'
      BY <1>0, <1>2 DEF SchedulerTypeOK, TryAcquireLock, At
    <2>3. OneSession'
      BY <2>1 DEF OneSession
    <2>4. ASSUME NEW x \in Replicas, x # r PROVE Held(x)'
      <3>1. Live(x)' \subseteq Live(x)
        BY <2>1, <2>4 DEF Live, Runs
      <3>2. \A d \in Connections : PoolOf[d] = x /\ holds[d] > 0 => holds'[d] = holds[d]
        BY <1>0, <2>1, <2>4
      <3>3. QED
        BY <1>0, <3>1, <3>2, HeldKept DEF SchedulerIInv
    <2>5. Held(r)'
      <3>1. Live(r)' \subseteq Live(r) \cup {t}
        BY <2>1 DEF Live, Runs
      <3>2. /\ IsFiniteSet(Live(r)) /\ Cardinality(Live(r)) \in Nat
            /\ IsFiniteSet(Live(r) \cup {t}) /\ Cardinality(Live(r) \cup {t}) \in Nat
            /\ Cardinality(Live(r) \cup {t}) <= Cardinality(Live(r)) + 1
        BY LiveFinite, OneMore
      <3>3. Cardinality(Live(r)') <= Cardinality(Live(r)) + 1 /\ Cardinality(Live(r)') \in Nat
        <4>1. Cardinality(Live(r)') <= Cardinality(Live(r) \cup {t}) /\ Cardinality(Live(r)') \in Nat
          BY <3>1, <3>2, FS_Subset, FS_CardinalityType
        <4>2. QED BY <3>2, <4>1
      <3>4. Cardinality(Live(r)) <= holds[c]
        <4>1. CASE Live(r) = {}
          BY <2>1, <4>1, FS_EmptySet
        <4>2. CASE Live(r) # {}
          <5>1. PICK d \in Connections : PoolOf[d] = r /\ holds[d] >= Cardinality(Live(r))
            BY <1>0, <4>2 DEF SchedulerIInv, Held
          <5>2. Cardinality(Live(r)) > 0
            BY <4>2, LiveFinite
          <5>3. d = c
            BY <2>1, <3>2, <5>1, <5>2
          <5>4. QED BY <2>1, <3>2, <5>1, <5>3
        <4>3. QED BY <4>1, <4>2
      <3>5. holds'[c] >= Cardinality(Live(r)')
        BY <2>1, <3>2, <3>3, <3>4
      <3>6. QED
        BY <1>0, <3>5 DEF Held
    <2>6. QED
      BY <2>2, <2>3, <2>4, <2>5 DEF SchedulerIInv
  <1>3. QED BY <1>1, <1>2

\* The release of a live run gives back its own hold, or none; that of a severed
\* one severs the others of its replica.
LEMMA ReleaseKeeps ==
    ASSUME SchedulerIInv, NEW t \in Ticks, NEW c \in Connections, ReleaseLock(t, c)
    PROVE  SchedulerIInv'
  <1> DEFINE r == TimerOf[t]
  <1>0. r \in Replicas /\ PoolOf[c] = r /\ SchedulerTypeOK /\ t \in Runs(r)
    BY SchedulerAssumption DEF SchedulerIInv, ReleaseLock, Runs
  <1>1. /\ tick'[t] = "ended" /\ \A u \in Ticks \ {t} : tick'[u] = tick[u]
        /\ severed \subseteq severed'
        /\ \A d \in Connections \ {c} : holds'[d] = holds[d]
        /\ holds[c] \in Nat /\ holds'[c] \in Nat
        /\ holds'[c] = holds[c] \/ (holds[c] > 0 /\ holds'[c] = holds[c] - 1)
        /\ holds'[c] # holds[c] /\ t \in severed => Runs(r) \subseteq severed'
    BY <1>0 DEF SchedulerTypeOK, ReleaseLock, At
  <1>2. SchedulerTypeOK'
    BY <1>0 DEF SchedulerTypeOK, ReleaseLock, At, Runs
  <1>3. OneSession'
    <2>1. \A d \in Connections : holds'[d] > 0 => holds[d] > 0
      BY <1>1
    <2>2. QED
      BY <2>1 DEF SchedulerIInv, OneSession
  <1>4. ASSUME NEW x \in Replicas PROVE Held(x)'
    <2>1. Live(x)' \subseteq Live(x) \ {t}
      BY <1>1 DEF Live, Runs
    <2>2. CASE holds'[c] = holds[c] \/ x # r
      <3>1. \A d \in Connections : PoolOf[d] = x /\ holds[d] > 0 => holds'[d] = holds[d]
        BY <1>0, <1>1, <2>2
      <3>2. QED
        BY <1>0, <2>1, <3>1, HeldKept DEF SchedulerIInv
    <2>3. CASE holds'[c] # holds[c] /\ x = r /\ t \in severed
      <3>1. Live(r)' = {}
        BY <1>1, <2>1, <2>3 DEF Live, Runs
      <3>2. QED
        BY <2>3, <3>1 DEF Held
    <2>4. CASE holds'[c] # holds[c] /\ x = r /\ t \notin severed
      <3>1. t \in Live(r)
        BY <1>0, <2>4 DEF Live
      <3>2. PICK d \in Connections : PoolOf[d] = r /\ holds[d] >= Cardinality(Live(r))
        BY <1>0, <3>1 DEF SchedulerIInv, Held
      <3>3. Cardinality(Live(r)) \in Nat /\ Cardinality(Live(r)) > 0 /\ IsFiniteSet(Live(r))
        BY <3>1, LiveFinite
      <3>4. d = c
        <4>1. holds[d] \in Nat
          BY <1>0 DEF SchedulerTypeOK
        <4>2. holds[d] > 0 /\ holds[c] > 0
          BY <1>1, <2>4, <3>2, <3>3, <4>1
        <4>3. QED BY <4>2 DEF SchedulerIInv, OneSession
      <3>5. /\ Cardinality(Live(r) \ {t}) = Cardinality(Live(r)) - 1
            /\ IsFiniteSet(Live(r) \ {t})
        BY <3>1, <3>3, FS_RemoveElement
      <3>6. Cardinality(Live(r)') <= Cardinality(Live(r)) - 1 /\ Cardinality(Live(r)') \in Nat
        BY <2>1, <2>4, <3>5, FS_Subset, FS_CardinalityType
      <3>7. holds'[c] >= Cardinality(Live(r)')
        BY <1>1, <2>4, <3>2, <3>3, <3>4, <3>6
      <3>8. QED
        BY <1>0, <2>4, <3>7 DEF Held
    <2>5. QED BY <2>2, <2>3, <2>4
  <1>5. QED
    BY <1>2, <1>3, <1>4 DEF SchedulerIInv

\* A connection that closes severs the runs of its replica; no other has any.
LEMMA CloseKeeps ==
    ASSUME SchedulerIInv, NEW c \in Connections, Close(c)
    PROVE  SchedulerIInv'
  <1>1. /\ holds[c] > 0 /\ holds'[c] = 0 /\ UNCHANGED <<tick, runningJobs>>
        /\ \A d \in Connections \ {c} : holds'[d] = holds[d]
        /\ severed' = severed \cup Runs(PoolOf[c]) /\ SchedulerTypeOK
    BY DEF SchedulerIInv, SchedulerTypeOK, Close
  <1>2. SchedulerTypeOK'
    BY <1>1 DEF SchedulerTypeOK, Close, Runs
  <1>3. OneSession'
    BY <1>1 DEF SchedulerIInv, OneSession
  <1>4. ASSUME NEW x \in Replicas PROVE Held(x)'
    <2>1. Live(x)' \subseteq Live(x)
      BY <1>1 DEF Live, Runs
    <2>2. CASE x = PoolOf[c]
      BY <1>1, <2>2 DEF Held, Live, Runs
    <2>3. CASE x # PoolOf[c]
      BY <1>1, <2>1, <2>3, OthersHaveNone DEF Held
    <2>4. QED BY <2>2, <2>3
  <1>5. QED
    BY <1>2, <1>3, <1>4 DEF SchedulerIInv

\* A step that neither takes nor gives up the lock.
LEMMA TickKeeps ==
    ASSUME SchedulerIInv, SchedulerTypeOK', holds' = holds,
           \A r \in Replicas : Live(r)' \subseteq Live(r)
    PROVE  SchedulerIInv'
  BY HeldKept DEF SchedulerIInv, OneSession

\* Each step keeps the lock with those who run.
LEMMA SchedulerStep ==
    ASSUME SchedulerIInv, [SchedulerNext]_schedulerVars
    PROVE  SchedulerIInv'
  <1>0. SchedulerTypeOK
    BY DEF SchedulerIInv
  <1>1. ASSUME NEW t \in Ticks, Fire(t) PROVE SchedulerIInv'
    <2>1. SchedulerTypeOK' /\ \A r \in Replicas : Live(r)' \subseteq Live(r)
      BY <1>0, <1>1 DEF SchedulerTypeOK, Fire, At, Live, Runs
    <2>2. QED
      BY <1>1, <2>1, TickKeeps DEF Fire
  <1>2. ASSUME NEW t \in Ticks, EndExecution(t) PROVE SchedulerIInv'
    <2>1. SchedulerTypeOK' /\ \A r \in Replicas : Live(r)' \subseteq Live(r)
      BY <1>0, <1>2 DEF SchedulerTypeOK, EndExecution, At, Live, Runs
    <2>2. QED
      BY <1>2, <2>1, TickKeeps DEF EndExecution
  <1>3. ASSUME NEW t \in Ticks, Rearm(t) PROVE SchedulerIInv'
    <2>1. SchedulerTypeOK' /\ \A r \in Replicas : Live(r)' \subseteq Live(r)
      BY <1>0, <1>3 DEF SchedulerTypeOK, Rearm, At, Live, Runs
    <2>2. QED
      BY <1>3, <2>1, TickKeeps DEF Rearm
  <1>4. CASE UNCHANGED schedulerVars
    <2>1. SchedulerTypeOK' /\ \A r \in Replicas : Live(r)' \subseteq Live(r)
      BY <1>0, <1>4 DEF SchedulerTypeOK, schedulerVars, Live, Runs
    <2>2. QED
      BY <1>4, <2>1, TickKeeps DEF schedulerVars
  <1>5. QED
    BY <1>1, <1>2, <1>3, <1>4, AcquireKeeps, ReleaseKeeps, CloseKeeps DEF SchedulerNext

\* Two replicas execute a job at once only if one of them has lost its hold of
\* the lock, whatever sessions take and release it.
THEOREM ReplicasTakeTurns == SchedulerSpec => []NoOverlap
  <1>1. SchedulerInit => SchedulerIInv
    BY DEF SchedulerInit, SchedulerIInv, SchedulerTypeOK, OneSession, Held, Live, Runs
  <1>2. SchedulerIInv /\ [SchedulerNext]_schedulerVars => SchedulerIInv'
    BY SchedulerStep
  <1>3. SchedulerIInv => NoOverlap
    <2> SUFFICES ASSUME SchedulerIInv, NEW t \in Ticks, NEW u \in Ticks,
                        tick[t] = "executing", tick[u] = "executing", TimerOf[t] # TimerOf[u],
                        t \notin severed, u \notin severed
                 PROVE  FALSE
      BY DEF NoOverlap
    <2>1. /\ TimerOf[t] \in Replicas /\ TimerOf[u] \in Replicas
          /\ Live(TimerOf[t]) # {} /\ Live(TimerOf[u]) # {}
      BY SchedulerAssumption DEF Live, Runs
    <2>2. PICK c \in Connections : PoolOf[c] = TimerOf[t] /\ holds[c] >= Cardinality(Live(TimerOf[t]))
      BY <2>1 DEF SchedulerIInv, Held
    <2>3. /\ Cardinality(Live(TimerOf[t])) \in Nat /\ Cardinality(Live(TimerOf[t])) > 0
          /\ holds[c] \in Nat
      BY <2>1, LiveFinite DEF SchedulerIInv, SchedulerTypeOK
    <2>4. QED
      BY <2>1, <2>2, <2>3, OthersHaveNone
  <1>4. QED
    BY <1>1, <1>2, <1>3, PTL DEF SchedulerSpec

-----------------------------------------------------------------------------
(* Sessions *)

\* A refresh under way has a token, and one that is to create the new token has
\* a pair of its own whose token is not issued.
Underway ==
    \A r \in Refreshes :
        /\ refreshing[r].at # "idle" =>
             refreshing[r].from \in Pairs /\ refreshToken[refreshing[r].from] # "none"
        /\ refreshing[r].at = "recorded" =>
             /\ refreshing[r].pair \in Pairs
             /\ refreshToken[refreshing[r].pair] = "none"
             /\ session[refreshing[r].pair] # "none"
             /\ \A q \in Refreshes : q # r => refreshing[q].pair # refreshing[r].pair

\* Refresh r has revoked the token of p and is about to issue a pair for it.
Exchanging(r, p) == refreshing[r].at = "revoked" /\ refreshing[r].from = p

\* The token of p: valid as long as a refresh holds on to it, revoked once it is
\* closed or exchanged, and exchanged at most once, counting exchanges under way.
TokenOK(p) ==
    /\ p \in closed => refreshToken[p] = "revoked"
    /\ p \notin overtaken =>
         /\ Found(p) # {} => refreshToken[p] = "valid"
         /\ \A s \in Pairs : issuedFrom[s] = p =>
              /\ refreshToken[p] = "revoked" /\ p \notin closed
              /\ \A t \in Pairs : issuedFrom[t] = p => t = s
              /\ \A r \in Refreshes : ~Exchanging(r, p)
         /\ \A r \in Refreshes : Exchanging(r, p) =>
              /\ refreshToken[p] = "revoked" /\ p \notin closed
              /\ \A q \in Refreshes : Exchanging(q, p) => q = r

SessionIInv == SessionTypeOK /\ Underway /\ \A p \in Pairs : TokenOK(p)

\* A login issues a pair of its own.
LEMMA LoginKeeps ==
    ASSUME SessionIInv, NEW n \in Pairs, Login(n)
    PROVE  SessionIInv'
  <1>1. SessionTypeOK'
    BY DEF SessionIInv, SessionTypeOK, Login, Issue
  <1>2. Underway'
    BY DEF SessionIInv, SessionTypeOK, Login, Underway, Unissued
  <1>3. \A p \in Pairs : TokenOK(p)'
    BY DEF SessionIInv, SessionTypeOK, Login, TokenOK, Unissued, Found, Exchanging
  <1>4. QED
    BY <1>1, <1>2, <1>3 DEF SessionIInv

\* A refresh finds a valid token, which nobody has exchanged or closed.
LEMMA FindTokenKeeps ==
    ASSUME SessionIInv, NEW n \in Pairs, NEW r \in Refreshes, FindToken(r, n)
    PROVE  SessionIInv'
  <1>1. SessionTypeOK'
    BY DEF SessionIInv, SessionTypeOK, FindToken
  <1>2. Underway'
    BY SessionAssumption DEF SessionIInv, SessionTypeOK, FindToken, Underway
  <1>3. \A p \in Pairs : TokenOK(p)'
    BY DEF SessionIInv, SessionTypeOK, FindToken, TokenOK, Found, Exchanging
  <1>4. QED
    BY <1>1, <1>2, <1>3 DEF SessionIInv

\* The one refresh that holds on to a token revokes it: it was valid, so nobody
\* has exchanged or closed it.
LEMMA RevokeOldKeeps ==
    ASSUME SessionIInv, NEW r \in Refreshes, RevokeOld(r)
    PROVE  SessionIInv'
  <1> DEFINE o == refreshing[r].from
  <1>1. o \in Pairs
    BY DEF SessionIInv, RevokeOld, Underway
  <1>2. SessionTypeOK'
    BY <1>1 DEF SessionIInv, SessionTypeOK, RevokeOld, Issue
  <1>3. Underway'
    BY <1>1 DEF SessionIInv, SessionTypeOK, RevokeOld, Underway
  <1>4. ASSUME NEW p \in Pairs PROVE TokenOK(p)'
    <2>1. CASE p # o
      BY <2>1 DEF SessionIInv, SessionTypeOK, RevokeOld, TokenOK, Found, Exchanging
    <2>2. CASE p = o /\ Found(p) # {r}
      BY <1>1, <2>2 DEF SessionIInv, SessionTypeOK, RevokeOld, TokenOK, Found, Exchanging
    <2>3. CASE p = o /\ Found(p) = {r}
      <3>1. CASE p \in overtaken
        BY <1>1, <2>3, <3>1 DEF SessionIInv, SessionTypeOK, RevokeOld, TokenOK, Found, Exchanging
      <3>2. CASE p \notin overtaken
        <4>1. TokenOK(p) /\ Found(p) # {}
          BY <1>1, <2>3 DEF SessionIInv
        <4>2. /\ refreshToken[p] = "valid" /\ p \notin closed
              /\ \A s \in Pairs : issuedFrom[s] # p
              /\ \A q \in Refreshes : ~Exchanging(q, p)
          BY <3>2, <4>1 DEF TokenOK
        <4>3. /\ refreshToken'[p] = "revoked" /\ UNCHANGED <<closed, issuedFrom>>
              /\ \A q \in Refreshes : Exchanging(q, p)' => q = r
          BY <1>1, <2>3, <4>2 DEF SessionIInv, SessionTypeOK, RevokeOld, Exchanging
        <4>4. Found(p)' = {}
          BY <2>3 DEF SessionIInv, SessionTypeOK, RevokeOld, Found
        <4>5. TokenOK(p)'
          BY <4>2, <4>3, <4>4 DEF TokenOK
        <4>6. QED
          BY <4>5
      <3>3. QED BY <3>1, <3>2
    <2>4. QED BY <2>1, <2>2, <2>3
  <1>5. QED
    BY <1>2, <1>3, <1>4 DEF SessionIInv

\* An exchange under way becomes the pair it issues.
LEMMA RecordSessionKeeps ==
    ASSUME SessionIInv, NEW n \in Pairs, NEW r \in Refreshes, RecordSession(r, n)
    PROVE  SessionIInv'
  <1>0. refreshing[r].from \in Pairs
    BY DEF SessionIInv, RecordSession, Underway
  <1>1. SessionTypeOK'
    <2>1. refreshing' \in [Refreshes -> [at : {"idle", "found", "revoked", "recorded"},
                                        from : Pairs \cup {NoPair}, pair : Pairs \cup {NoPair}]]
      <3>1. SessionTypeOK /\ refreshing[r].from \in Pairs
        BY <1>0 DEF SessionIInv
      <3>2. refreshing' = [refreshing EXCEPT ![r] =
                 [[refreshing[r] EXCEPT !.at = "recorded"] EXCEPT !.pair = n]]
        BY <3>1 DEF SessionTypeOK, RecordSession
      <3>3. [[refreshing[r] EXCEPT !.at = "recorded"] EXCEPT !.pair = n]
              \in [at : {"idle", "found", "revoked", "recorded"},
                  from : Pairs \cup {NoPair}, pair : Pairs \cup {NoPair}]
        <4>1. refreshing[r] \in [at : {"idle", "found", "revoked", "recorded"},
                  from : Pairs \cup {NoPair}, pair : Pairs \cup {NoPair}]
          BY <3>1 DEF SessionTypeOK
        <4>2. QED
          BY <4>1
      <3>4. QED
        BY <3>1, <3>2, <3>3 DEF SessionTypeOK
    <2>2. QED
      BY <1>0, <2>1 DEF SessionIInv, SessionTypeOK, RecordSession, Issue
  <1>2. Underway'
    BY DEF SessionIInv, SessionTypeOK, RecordSession, Underway, Unissued
  <1>3. ASSUME NEW p \in Pairs PROVE TokenOK(p)'
    <2>1. TokenOK(p)
      BY DEF SessionIInv
    <2>2. \A s \in Pairs : issuedFrom'[s] = IF s = n THEN refreshing[r].from ELSE issuedFrom[s]
      BY DEF SessionIInv, SessionTypeOK, RecordSession
    <2>3. \A q \in Refreshes : Exchanging(q, p)' <=> Exchanging(q, p) /\ q # r
      BY DEF SessionIInv, SessionTypeOK, RecordSession, Exchanging
    <2>4. Found(p)' = Found(p)
      BY DEF SessionIInv, SessionTypeOK, RecordSession, Found
    <2>5. Exchanging(r, p) <=> refreshing[r].from = p
      BY DEF RecordSession, Exchanging
    <2>6. UNCHANGED <<refreshToken, overtaken, closed>>
      BY DEF RecordSession
    <2>7. QED
      BY <2>1, <2>2, <2>3, <2>4, <2>5, <2>6 DEF TokenOK
  <1>4. QED
    BY <1>1, <1>2, <1>3 DEF SessionIInv

\* The pair that gets its token had none: no token is made valid again.
LEMMA CreateTokenKeeps ==
    ASSUME SessionIInv, NEW r \in Refreshes, CreateToken(r)
    PROVE  SessionIInv'
  <1>0. /\ refreshing[r].pair \in Pairs /\ refreshToken[refreshing[r].pair] = "none"
        /\ \A q \in Refreshes : q # r => refreshing[q].pair # refreshing[r].pair
    BY DEF SessionIInv, CreateToken, Underway
  <1>1. SessionTypeOK'
    BY <1>0 DEF SessionIInv, SessionTypeOK, CreateToken, Issue, IdleRefresh
  <1>2. Underway'
    BY <1>0, SessionAssumption DEF SessionIInv, SessionTypeOK, CreateToken, Underway, IdleRefresh
  <1>3. \A p \in Pairs : TokenOK(p)'
    BY <1>0 DEF SessionIInv, SessionTypeOK, CreateToken, TokenOK, Found, Exchanging, IdleRefresh
  <1>4. QED
    BY <1>1, <1>2, <1>3 DEF SessionIInv

\* A refresh that fails lets go of the token it holds on to.
LEMMA AbandonRefreshKeeps ==
    ASSUME SessionIInv, NEW r \in Refreshes, AbandonRefresh(r)
    PROVE  SessionIInv'
  <1>1. SessionTypeOK'
    BY DEF SessionIInv, SessionTypeOK, AbandonRefresh, IdleRefresh
  <1>2. Underway'
    BY SessionAssumption DEF SessionIInv, SessionTypeOK, AbandonRefresh, Underway, IdleRefresh
  <1>3. \A p \in Pairs : TokenOK(p)'
    BY DEF SessionIInv, SessionTypeOK, AbandonRefresh, TokenOK, Found, Exchanging, IdleRefresh
  <1>4. QED
    BY <1>1, <1>2, <1>3 DEF SessionIInv

\* A logout closes a token only where it was valid, and so not exchanged.
LEMMA RevokeRefreshKeeps ==
    ASSUME SessionIInv, NEW l \in Logouts, NEW n \in Pairs, NEW q \in Pairs,
           RevokeRefresh(l, n, q)
    PROVE  SessionIInv'
  <1>1. SessionTypeOK'
    BY DEF SessionIInv, SessionTypeOK, RevokeRefresh, Revoked, CloseToken, Issue
  <1>2. Underway'
    BY DEF SessionIInv, SessionTypeOK, RevokeRefresh, Revoked, Underway
  <1>3. \A p \in Pairs : TokenOK(p)'
    BY DEF SessionIInv, SessionTypeOK, RevokeRefresh, Revoked, CloseToken, TokenOK, Found, Exchanging
  <1>4. QED
    BY <1>1, <1>2, <1>3 DEF SessionIInv

\* A session takes no part in exchanges.
LEMMA RevokeSessionKeeps ==
    ASSUME SessionIInv, NEW l \in Logouts, RevokeSession(l)
    PROVE  SessionIInv'
  <1>1. SessionTypeOK' /\ \A p \in Pairs : session[p] # "none" => session'[p] # "none"
    BY DEF SessionIInv, SessionTypeOK, RevokeSession, Revoked, IdleLogout, Issue
  <1>2. Underway'
    BY <1>1 DEF SessionIInv, SessionTypeOK, RevokeSession, Underway
  <1>3. \A p \in Pairs : TokenOK(p)'
    BY DEF SessionIInv, SessionTypeOK, RevokeSession, TokenOK, Found, Exchanging
  <1>4. QED
    BY <1>1, <1>2, <1>3 DEF SessionIInv

\* Revoking every session leaves the refresh tokens alone.
LEMMA RevokeAllKeeps ==
    ASSUME SessionIInv, RevokeAllUserSessions
    PROVE  SessionIInv'
  <1>1. SessionTypeOK' /\ \A p \in Pairs : session[p] # "none" => session'[p] # "none"
    BY DEF SessionIInv, SessionTypeOK, RevokeAllUserSessions, Issue
  <1>2. Underway'
    BY <1>1 DEF SessionIInv, SessionTypeOK, RevokeAllUserSessions, Underway
  <1>3. \A p \in Pairs : TokenOK(p)'
    BY DEF SessionIInv, SessionTypeOK, RevokeAllUserSessions, TokenOK, Found, Exchanging
  <1>4. QED
    BY <1>1, <1>2, <1>3 DEF SessionIInv

\* A refresh token is exchanged for one pair, and not after a logout has revoked
\* it, except where a refresh had already found it valid.
THEOREM TokensExchangedOnce == SessionSpec => []ExchangedOnce
  <1>1. SessionInit => SessionIInv
    BY SessionAssumption DEF SessionInit, SessionIInv, SessionTypeOK, Underway, TokenOK, Found,
       Exchanging, IdleRefresh, IdleLogout, Issue
  <1>2. SessionIInv /\ [SessionNext]_sessionVars => SessionIInv'
    <2>1. SessionIInv /\ UNCHANGED sessionVars => SessionIInv'
      BY DEF SessionIInv, SessionTypeOK, Underway, TokenOK, Found, Exchanging, sessionVars
    <2>2. SessionIInv /\ SessionNext => SessionIInv'
      BY LoginKeeps, FindTokenKeeps, RevokeOldKeeps, RecordSessionKeeps, CreateTokenKeeps,
         AbandonRefreshKeeps, RevokeRefreshKeeps, RevokeSessionKeeps, RevokeAllKeeps
      DEF SessionNext
    <2>3. QED BY <2>1, <2>2
  <1>3. SessionIInv => ExchangedOnce
    BY DEF SessionIInv, ExchangedOnce, TokenOK
  <1>4. QED
    BY <1>1, <1>2, <1>3, PTL DEF SessionSpec

-----------------------------------------------------------------------------
(* Membership *)

\* An edit under way has a member, and as long as nobody else has written, what
\* it has read is still so: it removes or demotes an owner only next to another.
EditOK(e) ==
    /\ edit[e].at # "idle" => edit[e].who \in Members
    /\ edit[e].at \in {"owners", "admins", "write"} => edit[e].to \in Roles \cup {"none"}
    /\ edit[e].at = "transfer" => edit[e].to \in Members
    /\ e \notin stale =>
         /\ edit[e].at = "owners" => edit[e].from = "owner"
         /\ edit[e].at \in {"admins", "write"} /\ edit[e].from = "owner" => CountOrgOwners > 1
         /\ edit[e].at \in {"admins", "write"} /\ edit[e].from # "owner" =>
              Has(edit[e].who, edit[e].from) /\ edit[e].from # "none"
         /\ edit[e].at = "transfer" =>
              edit[e].from # "none" /\ Has(edit[e].to, edit[e].from)

MemberIInv == MemberTypeOK /\ \A e \in Edits : EditOK(e)

\* Of two rows of owners one is of another member, unless the one has two rows.
LEMMA AnotherOwner ==
    ASSUME NEW m \in Members, CountOrgOwners > 1, ~AddedTwice(m)
    PROVE  \E x \in Members : x # m /\ Has(x, "owner")
  <1> DEFINE rows == RowsWith({"owner"})
  <1>1. SUFFICES ASSUME \A x \in Members : Has(x, "owner") => x = m PROVE FALSE
    OBVIOUS
  <1>2. \A t \in rows : t = <<m, t[2]>> /\ t[2] \in RowNumbers /\ role[m][t[2]] = "owner"
    BY <1>1 DEF RowsWith, Has
  <1>3. \A t, u \in rows : t = u
    BY <1>2 DEF AddedTwice
  <1>4. CASE rows = {}
    BY <1>4, FS_EmptySet DEF CountOrgOwners
  <1>5. CASE rows # {}
    <2>1. PICK t \in rows : rows = {t}
      BY <1>3, <1>5
    <2>2. Cardinality(rows) = 1
      BY <2>1, FS_Singleton
    <2>3. QED
      BY <2>2 DEF CountOrgOwners
  <1>6. QED BY <1>4, <1>5

\* The rows of an organisation are finitely many.
LEMMA OwnersCounted == CountOrgOwners \in Nat
  <1>1. IsFiniteSet(RowNumbers)
    BY MembershipAssumption, FS_Interval DEF RowNumbers
  <1>2. IsFiniteSet(Members \X RowNumbers)
    BY <1>1, MembershipAssumption, FS_Product
  <1>3. RowsWith({"owner"}) \subseteq Members \X RowNumbers
    BY DEF RowsWith
  <1>4. IsFiniteSet(RowsWith({"owner"}))
    BY <1>2, <1>3, FS_Subset
  <1>5. QED
    BY <1>4, FS_CardinalityType DEF CountOrgOwners

\* A write makes every other edit under way stale, and its own ends.
LEMMA WriteKeeps ==
    ASSUME MemberIInv, NEW e \in Edits, Writes(e),
           role' \in [Members -> [RowNumbers -> Roles \cup {"none"}]]
    PROVE  MemberIInv'
  <1>1. edit' = [edit EXCEPT ![e] = NoEdit] /\ stale' = (stale \cup {f \in Edits : edit[f].at # "idle"}) \ {e}
    BY DEF Writes, Drop
  <1>2. MemberTypeOK'
    BY <1>1 DEF MemberIInv, MemberTypeOK, NoEdit
  <1>3. ASSUME NEW f \in Edits PROVE EditOK(f)'
    <2>1. CASE f = e
      BY <1>1, <2>1 DEF MemberIInv, MemberTypeOK, EditOK, NoEdit
    <2>2. CASE f # e
      <3>1. edit'[f] = edit[f] /\ (f \notin stale' => edit[f].at = "idle")
        BY <1>1, <2>2 DEF MemberIInv, MemberTypeOK
      <3>2. QED
        BY <3>1 DEF MemberIInv, EditOK
    <2>3. QED BY <2>1, <2>2
  <1>4. QED
    BY <1>2, <1>3 DEF MemberIInv

\* A new member makes the edits under way stale.
LEMMA AddMemberKeeps ==
    ASSUME MemberIInv, NEW m \in Members, NEW r \in Roles, AddMember(m, r)
    PROVE  MemberIInv'
  <1>1. MemberTypeOK'
    <2>1. PICK n \in RowNumbers : role' = [role EXCEPT ![m][n] = r]
      BY DEF AddMember
    <2>2. QED
      BY <2>1 DEF MemberIInv, MemberTypeOK, AddMember
  <1>2. \A f \in Edits : edit'[f] = edit[f] /\ (f \notin stale' => edit[f].at = "idle")
    BY DEF AddMember
  <1>3. QED
    BY <1>1, <1>2 DEF MemberIInv, EditOK

\* An edit that gives up leaves what the others have read.
LEMMA GivesKeeps ==
    ASSUME MemberIInv, NEW e \in Edits, Gives(e)
    PROVE  MemberIInv'
  <1>1. /\ edit' = [edit EXCEPT ![e] = NoEdit] /\ role' = role /\ stale' = stale \ {e}
        /\ CountOrgOwners' = CountOrgOwners /\ \A m, r : Has(m, r)' <=> Has(m, r)
    BY DEF Gives, Drop, CountOrgOwners, RowsWith, Has
  <1>2. MemberTypeOK'
    BY <1>1 DEF MemberIInv, MemberTypeOK, NoEdit
  <1>3. ASSUME NEW f \in Edits PROVE EditOK(f)'
    <2>1. CASE f = e
      BY <1>1, <2>1 DEF MemberIInv, MemberTypeOK, EditOK, NoEdit
    <2>2. CASE f # e
      <3>1. edit'[f] = edit[f] /\ (f \in stale' <=> f \in stale)
        BY <1>1, <2>2 DEF MemberIInv, MemberTypeOK
      <3>2. QED
        BY <1>1, <3>1 DEF MemberIInv, EditOK
    <2>3. QED BY <2>1, <2>2
  <1>4. QED
    BY <1>2, <1>3 DEF MemberIInv

\* So does one that has read.
LEMMA ReadKeeps ==
    ASSUME MemberIInv, NEW e \in Edits, NEW new, edit' = [edit EXCEPT ![e] = new], Reads,
           new \in [at : {"idle", "owners", "admins", "write", "transfer"},
                    who : Members \cup {NoMember}, from : Roles \cup {"none"},
                    to : Roles \cup {"none"} \cup Members],
           EditOK(e)'
    PROVE  MemberIInv'
  <1>1. /\ role' = role /\ stale' = stale /\ CountOrgOwners' = CountOrgOwners
        /\ \A m, r : Has(m, r)' <=> Has(m, r)
    BY DEF Reads, CountOrgOwners, RowsWith, Has
  <1>2. MemberTypeOK'
    BY <1>1 DEF MemberIInv, MemberTypeOK
  <1>3. ASSUME NEW f \in Edits, f # e PROVE EditOK(f)'
    <2>1. edit'[f] = edit[f]
      BY <1>3 DEF MemberIInv, MemberTypeOK
    <2>2. QED
      BY <1>1, <2>1 DEF MemberIInv, EditOK
  <1>4. QED
    BY <1>2, <1>3 DEF MemberIInv

\* A count sends an edit on with what it has read.
LEMMA GoesKeeps ==
    ASSUME MemberIInv, NEW e \in Edits, NEW stage \in {"admins", "write"}, Goes(e, stage), Reads,
           edit[e].at \in {"owners", "admins"},
           edit[e].at = "owners" => CountOrgOwners > 1
    PROVE  MemberIInv'
  <1> DEFINE Record == [at : {"idle", "owners", "admins", "write", "transfer"},
                        who : Members \cup {NoMember}, from : Roles \cup {"none"},
                        to : Roles \cup {"none"} \cup Members]
  <1>1. edit \in [Edits -> Record]
    BY DEF MemberIInv, MemberTypeOK
  <1>2. edit' = [edit EXCEPT ![e] = [edit[e] EXCEPT !.at = stage]]
    BY <1>1 DEF Goes
  <1>3. [edit[e] EXCEPT !.at = stage] \in Record
    BY <1>1
  <1>4. /\ edit'[e].at = stage /\ edit'[e].who = edit[e].who
        /\ edit'[e].from = edit[e].from /\ edit'[e].to = edit[e].to
    BY <1>1, <1>2
  <1>5. /\ role' = role /\ stale' = stale /\ CountOrgOwners' = CountOrgOwners
        /\ \A m, r : Has(m, r)' <=> Has(m, r)
    BY DEF Reads, CountOrgOwners, RowsWith, Has
  <1>6. EditOK(e)'
    BY <1>4, <1>5 DEF MemberIInv, EditOK
  <1>7. QED
    BY <1>2, <1>3, <1>6, ReadKeeps

\* Reading a membership records the role it has.
LEMMA ReadMembershipKeeps ==
    ASSUME MemberIInv, NEW e \in Edits, NEW m \in Members, NEW from \in Roles,
           NEW to \in Roles \cup {"none"}, ReadMembership(e, m, from, to)
    PROVE  MemberIInv'
  <1> DEFINE new == [at |-> IF from = "owner" THEN "owners"
                           ELSE IF Demotes(from, to) THEN "admins" ELSE "write",
                     who |-> m, from |-> from, to |-> to]
  <1>1. edit' = [edit EXCEPT ![e] = new] /\ Reads
    BY DEF ReadMembership
  <1>2. new \in [at : {"idle", "owners", "admins", "write", "transfer"},
                 who : Members \cup {NoMember}, from : Roles \cup {"none"},
                 to : Roles \cup {"none"} \cup Members]
    OBVIOUS
  <1>3. edit'[e] = new /\ role' = role
    BY <1>1 DEF MemberIInv, MemberTypeOK, Reads
  <1>4. Has(m, from)' /\ from # "none"
    BY <1>3 DEF ReadMembership, Has
  <1>5. EditOK(e)'
    BY <1>3, <1>4 DEF EditOK
  <1> HIDE DEF new
  <1>6. QED
    BY <1>1, <1>2, <1>5, ReadKeeps

\* A transfer records the role of the heir.
LEMMA ReadTransferKeeps ==
    ASSUME MemberIInv, NEW e \in Edits, NEW owner \in Members, NEW heir \in Members,
           NEW from \in Roles, ReadTransfer(e, owner, heir, from)
    PROVE  MemberIInv'
  <1> DEFINE new == [at |-> "transfer", who |-> owner, from |-> from, to |-> heir]
  <1>1. edit' = [edit EXCEPT ![e] = new] /\ Reads
    BY DEF ReadTransfer
  <1>2. new \in [at : {"idle", "owners", "admins", "write", "transfer"},
                 who : Members \cup {NoMember}, from : Roles \cup {"none"},
                 to : Roles \cup {"none"} \cup Members]
    OBVIOUS
  <1>3. edit'[e] = new /\ role' = role
    BY <1>1 DEF MemberIInv, MemberTypeOK, Reads
  <1>4. Has(heir, from)' /\ from # "none"
    BY <1>3 DEF ReadTransfer, Has
  <1>5. EditOK(e)'
    BY <1>3, <1>4 DEF EditOK
  <1> HIDE DEF new
  <1>6. QED
    BY <1>1, <1>2, <1>5, ReadKeeps

\* Each step keeps what edits that are not stale have read.
LEMMA MemberStep ==
    ASSUME MemberIInv, [MemberNext]_memberVars
    PROVE  MemberIInv'
  <1>1. ASSUME NEW e \in Edits, CountOwners(e) PROVE MemberIInv'
    <2>1. CASE Gives(e)
      BY <2>1, GivesKeeps
    <2>2. CASE ~Gives(e)
      <3>1. /\ edit[e].at = "owners" /\ ~(CountOrgOwners <= 1) /\ Reads
            /\ Goes(e, IF edit[e].to = "none" THEN "admins" ELSE "write")
        BY <1>1, <2>2 DEF CountOwners
      <3>2. CountOrgOwners > 1
        BY <3>1, OwnersCounted
      <3>3. QED
        BY <3>1, <3>2, GoesKeeps
    <2>3. QED BY <2>1, <2>2
  <1>2. ASSUME NEW e \in Edits, CountAdmins(e) PROVE MemberIInv'
    BY <1>2, GivesKeeps, GoesKeeps DEF CountAdmins
  <1>3. ASSUME NEW e \in Edits, WriteMembership(e) PROVE MemberIInv'
    <2>1. edit[e].who \in Members /\ edit[e].to \in Roles \cup {"none"}
      BY <1>3 DEF MemberIInv, EditOK, WriteMembership
    <2>2. role' \in [Members -> [RowNumbers -> Roles \cup {"none"}]]
      BY <1>3, <2>1 DEF MemberIInv, MemberTypeOK, WriteMembership, AllRows
    <2>3. QED
      BY <1>3, <2>2, WriteKeeps DEF WriteMembership
  <1>4. ASSUME NEW e \in Edits, CommitTransfer(e) PROVE MemberIInv'
    <2>1. role' \in [Members -> [RowNumbers -> Roles \cup {"none"}]]
      BY <1>4 DEF MemberIInv, MemberTypeOK, CommitTransfer, AllRows, Roles
    <2>2. QED
      BY <1>4, <2>1, WriteKeeps DEF CommitTransfer
  <1>5. ASSUME NEW e \in Edits, AbandonEdit(e) PROVE MemberIInv'
    <2>1. Gives(e)
      BY <1>5 DEF AbandonEdit
    <2>2. QED
      BY <2>1, GivesKeeps
  <1>6. CASE UNCHANGED memberVars
    BY <1>6 DEF memberVars, MemberIInv, MemberTypeOK, EditOK, CountOrgOwners, RowsWith, Has
  <1>7. QED
    BY <1>1, <1>2, <1>3, <1>4, <1>5, <1>6, AddMemberKeeps, ReadMembershipKeeps, ReadTransferKeeps
    DEF MemberNext

\* The last owner of an organisation goes only with an edit that writes although
\* another has since it read, or that is of a member with several rows, or by a
\* transfer to oneself.
THEOREM LastOwnerRemains == MemberSpec => OwnerRemains
  <1>1. MemberInit => MemberIInv
    BY DEF MemberInit, MemberIInv, MemberTypeOK, EditOK, NoEdit, Roles
  <1>2. MemberIInv /\ [MemberNext]_memberVars => MemberIInv'
    BY MemberStep
  <1>3. MemberIInv /\ [MemberNext]_memberVars =>
        [HasOwner =>
            \/ HasOwner'
            \/ \E e \in Edits :
                  /\ Written(e)
                  /\ \/ e \in stale \/ AddedTwice(edit[e].who) \/ edit[e].who = edit[e].to]_memberVars
    <2> DEFINE Excuse(e) == e \in stale \/ AddedTwice(edit[e].who) \/ edit[e].who = edit[e].to
    <2> SUFFICES ASSUME MemberIInv, MemberNext, HasOwner, ~HasOwner'
                 PROVE  \E e \in Edits : Written(e) /\ Excuse(e)
      OBVIOUS
    <2>0. /\ role \in [Members -> [RowNumbers -> Roles \cup {"none"}]]
          /\ \A e \in Edits : EditOK(e)
          /\ edit \in [Edits -> [at : {"idle", "owners", "admins", "write", "transfer"},
                                 who : Members \cup {NoMember}, from : Roles \cup {"none"},
                                 to : Roles \cup {"none"} \cup Members]]
      BY DEF MemberIInv, MemberTypeOK
    <2>1. role' # role
      BY DEF HasOwner, Has
    <2>2. ASSUME NEW m \in Members, NEW r \in Roles, AddMember(m, r) PROVE FALSE
      <3>1. PICK n \in RowNumbers :
              role[m][n] = "none" /\ role' = [role EXCEPT ![m][n] = r]
        <4>1. PICK n \in RowNumbers :
                /\ \A k \in RowNumbers : role[m][k] = "none" <=> k >= n
                /\ role' = [role EXCEPT ![m][n] = r]
          BY <2>2 DEF AddMember
        <4>2. n \in Int /\ n >= n
          BY DEF RowNumbers
        <4>3. QED
          BY <4>1, <4>2
      <3>2. PICK x \in Members : \E k \in RowNumbers : role[x][k] = "owner"
        BY DEF HasOwner, Has
      <3>3. PICK k \in RowNumbers : role[x][k] = "owner"
        BY <3>2
      <3>4. role'[x][k] = "owner"
        <4>1. CASE x = m
          <5>1. k # n /\ role'[m] = [role[m] EXCEPT ![n] = r]
            BY <2>0, <3>1, <3>3, <4>1
          <5>2. QED
            BY <2>0, <3>3, <4>1, <5>1
        <4>2. CASE x # m
          BY <2>0, <3>1, <3>3, <4>2
        <4>3. QED BY <4>1, <4>2
      <3>5. QED
        BY <3>4 DEF HasOwner, Has
    <2>3. ASSUME NEW e \in Edits, WriteMembership(e), ~Excuse(e) PROVE FALSE
      <3>1. /\ edit[e].who \in Members /\ edit[e].at = "write"
            /\ edit[e].from = "owner" => CountOrgOwners > 1
            /\ edit[e].from # "owner" => Has(edit[e].who, edit[e].from) /\ edit[e].from # "none"
        BY <2>0, <2>3 DEF EditOK, WriteMembership
      <3>2. \E x \in Members : x # edit[e].who /\ Has(x, "owner")
        <4>1. CASE edit[e].from = "owner"
          BY <2>3, <3>1, <4>1, AnotherOwner
        <4>2. CASE edit[e].from # "owner"
          <5>1. PICK n \in RowNumbers : role[edit[e].who][n] = edit[e].from
            BY <3>1, <4>2 DEF Has
          <5>2. \A k \in RowNumbers : role[edit[e].who][k] # "owner"
            BY <2>3, <3>1, <4>2, <5>1 DEF AddedTwice
          <5>3. QED
            BY <5>2 DEF HasOwner, Has
        <4>3. QED BY <4>1, <4>2
      <3>3. PICK x \in Members : x # edit[e].who /\ Has(x, "owner")
        BY <3>2
      <3>4. role'[x] = role[x]
        BY <2>0, <2>3, <3>1, <3>3 DEF WriteMembership
      <3>5. QED
        BY <3>3, <3>4 DEF HasOwner, Has
    <2>4. ASSUME NEW e \in Edits, CommitTransfer(e), ~Excuse(e) PROVE FALSE
      <3>1. edit[e].to \in Members /\ edit[e].from # "none" /\ Has(edit[e].to, edit[e].from)
        BY <2>0, <2>4 DEF EditOK, CommitTransfer
      <3>2. PICK n \in RowNumbers : role[edit[e].to][n] = edit[e].from
        BY <3>1 DEF Has
      <3>3. role'[edit[e].to][n] = "owner"
        BY <2>4, <3>1, <3>2 DEF CommitTransfer, AllRows
      <3>4. QED
        BY <3>1, <3>3 DEF HasOwner, Has
    <2>5. ASSUME NEW e \in Edits, WriteMembership(e) \/ CommitTransfer(e) PROVE Written(e)
      BY <2>0, <2>5 DEF WriteMembership, CommitTransfer, Writes, Drop, Written
    <2>6. PICK e \in Edits : WriteMembership(e) \/ CommitTransfer(e)
      BY <2>1, <2>2 DEF MemberNext, ReadMembership, ReadTransfer, CountOwners, CountAdmins,
         AbandonEdit, Gives, Reads
    <2>7. QED
      BY <2>3, <2>4, <2>5, <2>6
  <1>4. QED
    BY <1>1, <1>2, <1>3, PTL DEF MemberSpec, OwnerRemains

-----------------------------------------------------------------------------
(* TransactionETL *)

\* A page is what follows the cursor without a gap, and of what is about to be
\* saved nothing is left out but what needs no row or could not be looked up.
RunOK(w) ==
    /\ run[w].at = "idle" => run[w].cursor = 0
    /\ run[w].at \in {"find", "save"} =>
         \E top \in Operations : /\ run[w].cursor < top
                                 /\ run[w].page = (run[w].cursor + 1) .. top
    /\ run[w].at = "save" =>
         \A o \in run[w].page : o \in run[w].save \cup Foreign \cup skipped[w]

EtlIInv == EtlTypeOK /\ NothingBehindCursor /\ \A w \in EtlWorkers : RunOK(w)

RunRecord == [at : {"idle", "fetch", "find", "save"}, cursor : Nat, count : Nat,
              page : SUBSET Operations, save : SUBSET Operations]

\* A set of operations has a first one.
LEMMA FirstOperation ==
    ASSUME NEW S \in SUBSET Operations, S # {}
    PROVE  \E first \in S : \A q \in S : first <= q
  <1> DEFINE less == {p \in Nat \X Nat : p[1] < p[2]}
  <1>1. S \subseteq Nat
    BY EtlAssumption DEF Operations
  <1>2. IsWellFoundedOn(less, Nat)
    BY NatLessThanWellFounded DEF OpToRel
  <1>3. \A k, l \in Nat : <<k, l>> \notin less => l <= k
    OBVIOUS
  <1> HIDE DEF less
  <1>4. PICK l \in S : \A k \in S : <<k, l>> \notin less
    BY <1>1, <1>2, WFMin
  <1>5. QED
    BY <1>1, <1>3, <1>4

\* The operations of `save` that make a row next to those there are.
Inserted(rows, save) == {o \in save : ~ Stored(o, rows \cup {q \in save : q < o})}

\* What SaveTransactions inserts: a row for every transaction it is given, and
\* no second one.
LEMMA SaveEffect ==
    ASSUME NEW rows \in SUBSET Operations, NEW save \in SUBSET Operations,
           \A o, q \in rows : TxOf[o] = TxOf[q] => o = q
    PROVE  /\ \A o \in save : Stored(o, rows \cup Inserted(rows, save))
           /\ \A o, q \in rows \cup Inserted(rows, save) : TxOf[o] = TxOf[q] => o = q
  <1> DEFINE new == Inserted(rows, save)
  <1>0. new \subseteq save /\ save \subseteq Nat
    BY EtlAssumption DEF Operations, Inserted
  <1>1. ASSUME NEW o \in save PROVE Stored(o, rows \cup new)
    <2>1. CASE Stored(o, rows)
      BY <2>1 DEF Stored
    <2>2. CASE ~Stored(o, rows)
      <3> DEFINE same == {q \in save : TxOf[q] = TxOf[o]}
      <3>1. PICK first \in same : \A q \in same : first <= q
        BY FirstOperation
      <3>2. first \in save /\ TxOf[first] = TxOf[o]
        OBVIOUS
      <3>3. \A q \in save : q < first => TxOf[q] # TxOf[first]
        BY <1>0, <3>1, <3>2
      <3>4. \A q \in rows : TxOf[q] # TxOf[first]
        BY <2>2, <3>2 DEF Stored
      <3>5. first \in new
        BY <3>2, <3>3, <3>4 DEF Stored, Inserted
      <3>6. QED
        BY <3>2, <3>5 DEF Stored
    <2>3. QED BY <2>1, <2>2
  <1>2. ASSUME NEW o \in rows \cup new, NEW q \in rows \cup new, TxOf[o] = TxOf[q] PROVE o = q
    <2>1. \A x \in new : \A y \in rows : TxOf[y] # TxOf[x]
      BY DEF Stored, Inserted
    <2>2. \A x, y \in new : y < x => TxOf[y] # TxOf[x]
      BY <1>0 DEF Stored, Inserted
    <2>3. \A x, y \in new : x < y \/ y < x \/ x = y
      <3>1. new \subseteq Nat
        BY <1>0
      <3> HIDE DEF new
      <3>2. QED
        BY <3>1
    <2>4. QED
      BY <1>2, <2>1, <2>2, <2>3
  <1>3. QED
    BY <1>1, <1>2

\* The size of a page is how far the cursor moves.
LEMMA PageSize ==
    ASSUME NEW c \in Nat, NEW top \in Nat, c < top
    PROVE  c + Cardinality((c + 1) .. top) = top
  BY FS_Interval

\* A save of worker w: its transactions have rows, and those of others stay.
LEMMA SaveKeeps ==
    ASSUME EtlIInv, NEW w \in EtlWorkers, SaveTransactions(w)
    PROVE  EtlIInv'
  <1> DEFINE new == Inserted(stored, run[w].save)
  <1>0. /\ EtlTypeOK /\ run[w] \in RunRecord /\ RunOK(w) /\ run[w].at = "save"
        /\ run[w].save \subseteq Operations /\ stored \subseteq Operations
        /\ run[w].cursor \in Nat /\ run[w].count \in Nat
    BY DEF EtlIInv, EtlTypeOK, SaveTransactions, RunRecord
  <1>1. /\ \A o \in run[w].save : Stored(o, stored \cup new)
        /\ \A o, q \in stored \cup new : TxOf[o] = TxOf[q] => o = q
    <2>1. \A o, q \in stored : TxOf[o] = TxOf[q] => o = q
      BY DEF EtlIInv, NothingBehindCursor
    <2>2. QED
      BY <1>0, <2>1, SaveEffect
  <1>2. new \subseteq Operations
    BY <1>0 DEF Inserted
  <1> HIDE DEF new
  <1>3. stored' \in {stored, stored \cup new} /\ UNCHANGED <<ledger, worker, skipped>>
    BY DEF SaveTransactions, new, Inserted
  <1>4. PICK top \in Operations : /\ run[w].cursor < top
                                  /\ run[w].page = (run[w].cursor + 1) .. top
    BY <1>0 DEF RunOK
  <1>5. top \in Nat /\ run[w].cursor + Cardinality(run[w].page) = top
        /\ Cardinality(run[w].page) \in Nat
    <2>1. top \in Nat
      BY EtlAssumption DEF Operations
    <2>2. run[w].cursor + Cardinality(run[w].page) = top
      BY <1>0, <1>4, <2>1, PageSize
    <2>3. run[w].cursor + 1 \in Int /\ top \in Int
      BY <1>0, <2>1
    <2>4. IsFiniteSet(run[w].page)
      BY <1>4, <2>3, FS_Interval
    <2>5. QED
      BY <2>1, <2>2, <2>4, FS_CardinalityType
  <1>6. \/ EndRun(w)
        \/ stored' = stored \cup new /\ Advance(w)
    BY DEF SaveTransactions, new, Inserted
  <1>7. EtlTypeOK' /\ \A v \in EtlWorkers \ {w} : run'[v] = run[v]
    <2>1. run' \in [EtlWorkers -> RunRecord] /\ \A v \in EtlWorkers \ {w} : run'[v] = run[v]
      <3>1. run \in [EtlWorkers -> RunRecord]
        BY <1>0 DEF EtlTypeOK, RunRecord
      <3>2. NoRun \in RunRecord
        BY DEF NoRun, RunRecord
      <3>3. CASE EndRun(w)
        BY <3>1, <3>2, <3>3 DEF EndRun
      <3>4. CASE Advance(w)
        <4>1. [at |-> "fetch", cursor |-> run[w].cursor + Cardinality(run[w].page),
               count |-> run[w].count + Cardinality(run[w].page), page |-> {}, save |-> {}]
              \in RunRecord
          BY <1>0, <1>5 DEF RunRecord
        <4>2. QED
          BY <3>1, <3>4, <4>1 DEF Advance
      <3>5. QED
        BY <1>6, <3>3, <3>4
    <2>2. QED
      BY <1>0, <1>2, <1>3, <2>1 DEF EtlTypeOK, RunRecord
  <1>8. /\ run'[w].cursor \in {0, top}
        /\ run'[w].at \in {"idle", "fetch"} /\ (run'[w].at = "idle" => run'[w].cursor = 0)
        /\ run'[w].cursor = top => stored' = stored \cup new
    <2>0. run \in [EtlWorkers -> RunRecord] /\ top # 0
      BY <1>0, <1>4, <1>5 DEF EtlTypeOK, RunRecord
    <2>1. CASE EndRun(w)
      BY <2>0, <2>1 DEF EndRun, NoRun
    <2>2. CASE stored' = stored \cup new /\ Advance(w)
      BY <1>5, <2>0, <2>2 DEF Advance
    <2>3. QED
      BY <1>6, <2>1, <2>2
  <1>9. ASSUME NEW v \in EtlWorkers PROVE RunOK(v)'
    BY <1>3, <1>7, <1>8 DEF EtlIInv, RunOK
  <1>10. ASSUME NEW v \in EtlWorkers, NEW o \in Operations, o <= run'[v].cursor
         PROVE  Stored(o, stored') \/ o \in Foreign \cup skipped'[v]
    <2>0. o \in Nat /\ o # 0
      BY EtlAssumption DEF Operations
    <2>1. CASE v # w \/ (v = w /\ o <= run[w].cursor)
      <3>1. o <= run[v].cursor
        BY <1>7, <1>10, <2>1
      <3>2. Stored(o, stored) \/ o \in Foreign \cup skipped[v]
        BY <3>1 DEF EtlIInv, NothingBehindCursor
      <3>3. QED
        BY <1>3, <3>2 DEF Stored
    <2>2. CASE v = w /\ ~(o <= run[w].cursor)
      <3>1. run'[w].cursor = top /\ o \in run[w].page
        BY <1>0, <1>4, <1>5, <1>8, <1>10, <2>0, <2>2
      <3>2. o \in run[w].save \cup Foreign \cup skipped[w]
        BY <1>0, <3>1 DEF RunOK
      <3>3. QED
        BY <1>1, <1>3, <1>8, <2>2, <3>1, <3>2 DEF Stored
    <2>3. QED BY <2>1, <2>2
  <1>11. \A o, q \in stored' : TxOf[o] = TxOf[q] => o = q
    BY <1>1, <1>3 DEF EtlIInv, NothingBehindCursor
  <1>12. QED
    BY <1>7, <1>9, <1>10, <1>11 DEF EtlIInv, NothingBehindCursor

\* A run that ends leaves no cursor behind.
LEMMA EndRunKeeps ==
    ASSUME EtlIInv, NEW w \in EtlWorkers, EndRun(w), stored' = stored, skipped' = skipped,
           ledger' \in 0 .. MaxOperations, worker' \in [EtlWorkers -> BOOLEAN]
    PROVE  EtlIInv'
  <1>1. NoRun \in RunRecord /\ NoRun.at = "idle" /\ NoRun.cursor = 0
    BY DEF NoRun, RunRecord
  <1>2. /\ run' \in [EtlWorkers -> RunRecord] /\ run'[w] = NoRun
        /\ \A v \in EtlWorkers \ {w} : run'[v] = run[v]
    BY <1>1 DEF EtlIInv, EtlTypeOK, RunRecord, EndRun
  <1>3. EtlTypeOK'
    BY <1>2 DEF EtlIInv, EtlTypeOK, RunRecord
  <1>4. \A v \in EtlWorkers : RunOK(v)'
    BY <1>1, <1>2 DEF EtlIInv, RunOK
  <1>5. NothingBehindCursor'
    <2>1. \A o \in Operations : ~(o <= 0)
      BY EtlAssumption DEF Operations
    <2>2. \A v \in EtlWorkers, o \in Operations : o <= run'[v].cursor => o <= run[v].cursor
      BY <1>1, <1>2, <2>1
    <2>3. QED
      BY <2>2 DEF EtlIInv, NothingBehindCursor, Stored
  <1>6. QED
    BY <1>3, <1>4, <1>5 DEF EtlIInv

\* A run starts with an empty record of what it could not look up, and from the
\* configured cursor.
LEMMA ExecuteRunKeeps ==
    ASSUME EtlIInv, NEW w \in EtlWorkers, ExecuteRun(w)
    PROVE  EtlIInv'
  <1>0. /\ run \in [EtlWorkers -> RunRecord] /\ worker \in [EtlWorkers -> BOOLEAN]
        /\ skipped \in [EtlWorkers -> SUBSET Operations]
    BY DEF EtlIInv, EtlTypeOK, RunRecord
  <1>1. /\ run' \in [EtlWorkers -> RunRecord] /\ run'[w].at = "fetch"
        /\ \A v \in EtlWorkers : run'[v].cursor = run[v].cursor
        /\ \A v \in EtlWorkers \ {w} : run'[v] = run[v] /\ skipped'[v] = skipped[v]
        /\ run[w].cursor = 0 /\ UNCHANGED <<ledger, stored>>
    <2>1. run[w].cursor = 0
      BY DEF EtlIInv, RunOK, ExecuteRun
    <2>2. run' \in [EtlWorkers -> RunRecord]
      BY <1>0 DEF ExecuteRun, RunRecord
    <2>3. QED
      BY <1>0, <2>1, <2>2 DEF ExecuteRun
  <1>2. EtlTypeOK'
    BY <1>0, <1>1 DEF EtlIInv, EtlTypeOK, RunRecord, ExecuteRun
  <1>3. \A v \in EtlWorkers : RunOK(v)'
    BY <1>1 DEF EtlIInv, RunOK
  <1>4. NothingBehindCursor'
    <2>1. \A o \in Operations : ~(o <= 0)
      BY EtlAssumption DEF Operations
    <2>2. QED
      BY <1>1, <2>1 DEF EtlIInv, NothingBehindCursor
  <1>5. QED
    BY <1>2, <1>3, <1>4 DEF EtlIInv

\* A page reaches from the cursor to its last operation.
LEMMA FetchKeeps ==
    ASSUME EtlIInv, NEW w \in EtlWorkers, FetchOperations(w)
    PROVE  EtlIInv'
  <1> DEFINE page == {o \in 1 .. ledger : run[w].cursor < o /\ o <= run[w].cursor + BatchSize}
  <1>1. CASE EndRun(w)
    BY <1>1, EndRunKeeps DEF FetchOperations, EtlIInv, EtlTypeOK
  <1>2. CASE ~EndRun(w)
    <2>0. /\ run \in [EtlWorkers -> RunRecord] /\ ledger \in 0 .. MaxOperations
          /\ run[w].cursor \in Nat /\ ledger \in Nat /\ BatchSize \in Nat /\ MaxOperations \in Nat
      BY EtlAssumption DEF EtlIInv, EtlTypeOK, RunRecord
    <2>1. /\ page # {} /\ run' = [run EXCEPT ![w].at = "find", ![w].page = page]
          /\ UNCHANGED <<ledger, stored, worker, skipped>>
      BY <1>2 DEF FetchOperations
    <2>2. \E top \in Operations : run[w].cursor < top /\ page = (run[w].cursor + 1) .. top
      <3>1. CASE ledger <= run[w].cursor + BatchSize
        <4>1. page = (run[w].cursor + 1) .. ledger
          BY <2>0, <3>1
        <4>2. run[w].cursor < ledger /\ ledger \in Operations
          BY <2>0, <2>1, <4>1 DEF Operations
        <4>3. QED
          BY <4>1, <4>2
      <3>2. CASE ~(ledger <= run[w].cursor + BatchSize)
        <4>1. page = (run[w].cursor + 1) .. (run[w].cursor + BatchSize)
          BY <2>0, <3>2
        <4>2. run[w].cursor < run[w].cursor + BatchSize
              /\ run[w].cursor + BatchSize \in Operations
          BY <2>0, <3>2, EtlAssumption DEF Operations
        <4>3. QED
          BY <4>1, <4>2
      <3>3. QED BY <3>1, <3>2
    <2>3. page \in SUBSET Operations
      BY <2>0 DEF Operations
    <2> HIDE DEF page
    <2>4. /\ run' \in [EtlWorkers -> RunRecord]
          /\ run'[w].at = "find" /\ run'[w].page = page
          /\ \A v \in EtlWorkers : run'[v].cursor = run[v].cursor
          /\ \A v \in EtlWorkers \ {w} : run'[v] = run[v]
      <3>1. [[run[w] EXCEPT !.at = "find"] EXCEPT !.page = page] \in RunRecord
        <4>1. run[w] \in RunRecord
          BY <2>0
        <4>2. QED
          BY <2>3, <4>1 DEF RunRecord
      <3>2. run' = [run EXCEPT ![w] = [[run[w] EXCEPT !.at = "find"] EXCEPT !.page = page]]
        BY <2>0, <2>1
      <3>3. run'[w] = [[run[w] EXCEPT !.at = "find"] EXCEPT !.page = page] /\ run[w] \in RunRecord
        BY <2>0, <3>2
      <3>4. run'[w].at = "find" /\ run'[w].page = page /\ run'[w].cursor = run[w].cursor
        BY <3>3 DEF RunRecord
      <3>5. QED
        BY <2>0, <3>1, <3>2, <3>4
    <2>5. EtlTypeOK'
      BY <2>1, <2>4 DEF EtlIInv, EtlTypeOK, RunRecord
    <2>6. \A v \in EtlWorkers : RunOK(v)'
      BY <2>1, <2>2, <2>4 DEF EtlIInv, RunOK
    <2>7. NothingBehindCursor'
      BY <2>1, <2>4 DEF EtlIInv, NothingBehindCursor
    <2>8. QED
      BY <2>5, <2>6, <2>7 DEF EtlIInv
  <1>3. QED BY <1>1, <1>2

\* What is neither saved nor foreign could not be looked up.
LEMMA FilterKeeps ==
    ASSUME EtlIInv, NEW w \in EtlWorkers, FilterOperations(w)
    PROVE  EtlIInv'
  <1>0. /\ run \in [EtlWorkers -> RunRecord] /\ skipped \in [EtlWorkers -> SUBSET Operations]
        /\ run[w] \in RunRecord /\ run[w].page \in SUBSET Operations
        /\ UNCHANGED <<ledger, stored, worker>> /\ run[w].at = "find"
    BY DEF EtlIInv, EtlTypeOK, RunRecord, FilterOperations
  <1>1. PICK missed \in SUBSET (run[w].page \ Foreign) :
          /\ run' = [run EXCEPT ![w].at = "save", ![w].save = run[w].page \ (Foreign \cup missed)]
          /\ skipped' = [skipped EXCEPT ![w] = @ \cup missed]
    BY DEF FilterOperations
  <1> DEFINE save == run[w].page \ (Foreign \cup missed)
  <1>2. /\ run' \in [EtlWorkers -> RunRecord]
        /\ run'[w].at = "save" /\ run'[w].save = save
        /\ \A v \in EtlWorkers : run'[v].cursor = run[v].cursor /\ run'[v].page = run[v].page
        /\ \A v \in EtlWorkers \ {w} : run'[v] = run[v]
    <2>1. [[run[w] EXCEPT !.at = "save"] EXCEPT !.save = save] \in RunRecord
      BY <1>0 DEF RunRecord
    <2> HIDE DEF save
    <2>2. run' = [run EXCEPT ![w] = [[run[w] EXCEPT !.at = "save"] EXCEPT !.save = save]]
      BY <1>0, <1>1 DEF save
    <2>3. run'[w] = [[run[w] EXCEPT !.at = "save"] EXCEPT !.save = save]
      BY <1>0, <2>2
    <2>4. /\ run'[w].at = "save" /\ run'[w].save = save /\ run'[w].cursor = run[w].cursor
          /\ run'[w].page = run[w].page
      BY <1>0, <2>3 DEF RunRecord
    <2>5. QED
      BY <1>0, <2>1, <2>2, <2>4
  <1>3. /\ skipped' \in [EtlWorkers -> SUBSET Operations]
        /\ skipped'[w] = skipped[w] \cup missed
        /\ \A v \in EtlWorkers \ {w} : skipped'[v] = skipped[v]
    BY <1>0, <1>1
  <1>4. EtlTypeOK'
    BY <1>0, <1>2, <1>3 DEF EtlIInv, EtlTypeOK, RunRecord
  <1>5. \A v \in EtlWorkers : RunOK(v)'
    BY <1>0, <1>2, <1>3 DEF EtlIInv, RunOK
  <1>6. NothingBehindCursor'
    BY <1>0, <1>2, <1>3 DEF EtlIInv, NothingBehindCursor
  <1>7. QED
    BY <1>4, <1>5, <1>6 DEF EtlIInv

\* Behind the cursor of a run every vault operation has its transaction's row,
\* except where the lookup failed, and no transaction has two.
THEOREM EtlLeavesNoGap == EtlSpec => []NothingBehindCursor
  <1>1. EtlInit => EtlIInv
    <2> SUFFICES ASSUME EtlInit PROVE EtlIInv
      OBVIOUS
    <2>1. NoRun \in RunRecord /\ NoRun.at = "idle" /\ NoRun.cursor = 0
      BY DEF NoRun, RunRecord
    <2>2. EtlTypeOK
      BY <2>1, EtlAssumption DEF EtlInit, EtlTypeOK, RunRecord
    <2>3. NothingBehindCursor
      BY <2>1, EtlAssumption DEF EtlInit, NothingBehindCursor, Operations
    <2>4. QED
      BY <2>1, <2>2, <2>3 DEF EtlInit, EtlIInv, RunOK
  <1>2. EtlIInv /\ [EtlNext]_etlVars => EtlIInv'
    <2> SUFFICES ASSUME EtlIInv, [EtlNext]_etlVars PROVE EtlIInv'
      OBVIOUS
    <2>1. CASE CloseLedger
      BY <2>1, EtlAssumption DEF CloseLedger, EtlIInv, EtlTypeOK, NothingBehindCursor, RunOK
    <2>2. ASSUME NEW w \in EtlWorkers, StopWorker(w) PROVE EtlIInv'
      BY <2>2 DEF StopWorker, EtlIInv, EtlTypeOK, NothingBehindCursor, RunOK
    <2>3. ASSUME NEW w \in EtlWorkers, CrashEtl(w) PROVE EtlIInv'
      BY <2>3, EndRunKeeps DEF CrashEtl, EtlIInv, EtlTypeOK
    <2>4. CASE UNCHANGED etlVars
      BY <2>4 DEF etlVars, EtlIInv, EtlTypeOK, NothingBehindCursor, RunOK
    <2>5. QED
      BY <2>1, <2>2, <2>3, <2>4, ExecuteRunKeeps, FetchKeeps, FilterKeeps, SaveKeeps
      DEF EtlNext
  <1>3. EtlIInv => NothingBehindCursor
    BY DEF EtlIInv
  <1>4. QED
    BY <1>1, <1>2, <1>3, PTL DEF EtlSpec

-----------------------------------------------------------------------------
(* GracefulShutdown *)

\* What the handler has waited for stays away: nothing starts behind it.
Stopped == {"closing", "exited"}
ShutdownIInv ==
    /\ ShutdownTypeOK
    /\ detached # {} => "drain" \in late
    /\ phase # "serving" => etlRun # "idle"
    /\ phase \notin {"serving", "stopping etl"} /\ etlRun = "running" => "etl" \in late
    /\ phase \in Stopped /\ Active # {} => "jobs" \in late
    /\ phase = "exited" => InFlight = {}

\* Each step keeps what the handler has waited for.
LEMMA ShutdownStep ==
    ASSUME ShutdownIInv, ShutdownNext
    PROVE  ShutdownIInv'
  <1> USE DEF ShutdownIInv, ShutdownTypeOK, Stopped, Phases
  <1>1. ASSUME NEW c \in Clients, Request(c) PROVE ShutdownIInv'
    BY <1>1 DEF Request, Accepts, Client, Active, InFlight
  <1>2. ASSUME NEW c \in Clients, Answer(c) PROVE ShutdownIInv'
    BY <1>2 DEF Answer, Client, Active, InFlight
  <1>3. ASSUME NEW c \in Clients, NEW j \in Tasks, EnqueueTask(c, j) PROVE ShutdownIInv'
    BY <1>3 DEF EnqueueTask, Task, Active, InFlight
  <1>4. ASSUME NEW j \in Tasks, StartTask(j) PROVE ShutdownIInv'
    BY <1>4 DEF StartTask, Task, QueueRuns, Active, InFlight
  <1>5. ASSUME NEW j \in Tasks, EndTask(j) PROVE ShutdownIInv'
    BY <1>5 DEF EndTask, Task, Active, InFlight
  <1>6. CASE EtlTick
    BY <1>6 DEF EtlTick, Active, InFlight
  <1>7. CASE Signal
    BY <1>7 DEF Signal, Active, InFlight
  <1>8. CASE EtlStopped
    BY <1>8 DEF EtlStopped, Active, InFlight
  <1>9. CASE Drained
    <2>1. detached' # {} => "drain" \in late'
      BY <1>9 DEF Drained
    <2>2. ShutdownTypeOK'
      BY <1>9 DEF Drained, InFlight
    <2>3. QED
      BY <1>9, <2>1, <2>2 DEF Drained
  <1>10. CASE JobsStopped
    BY <1>10 DEF JobsStopped, Active, InFlight
  <1>11. CASE Closed
    BY <1>11 DEF Closed, Active, InFlight
  <1>12. QED
    BY <1>1, <1>2, <1>3, <1>4, <1>5, <1>6, <1>7, <1>8, <1>9, <1>10, <1>11
    DEF ShutdownNext

\* A process that exits with 0 has ended its requests, jobs and ETL run, or a
\* deadline to wait for them has passed, whatever comes during the shutdown.
THEOREM ProcessesExitClean == ShutdownSpec => []CleanExit
  <1>1. ShutdownInit => ShutdownIInv
    BY DEF ShutdownInit, ShutdownIInv, ShutdownTypeOK, Phases, Stopped
  <1>2. ShutdownIInv /\ [ShutdownNext]_shutdownVars => ShutdownIInv'
    <2>1. ShutdownIInv /\ UNCHANGED shutdownVars => ShutdownIInv'
      BY DEF ShutdownIInv, ShutdownTypeOK, shutdownVars, Stopped, Active, InFlight
    <2>2. QED
      BY <2>1, ShutdownStep
  <1>3. ShutdownIInv => CleanExit
    BY DEF ShutdownIInv, CleanExit, Stopped
  <1>4. QED
    BY <1>1, <1>2, <1>3, PTL DEF ShutdownSpec

-----------------------------------------------------------------------------
(* The lists, page by page *)

LEMMA WholeAndRest ==
    ASSUME NEW q \in Int, NEW D \in Nat \ {0}, NEW r \in 0 .. D - 1, NEW x \in Int, x = D * q + r
    PROVE  x % D = r
  <1> DEFINE p == x \div D
             s == x % D
  <1>1. x = D * p + s /\ s \in 0 .. D - 1 /\ p \in Int
    OBVIOUS
  <1> HIDE DEF p, s
  <1>2. D * (q - p) = s - r
    BY <1>1
  <1>3. CASE q - p >= 1
    <2>1. D * (q - p) >= D
      BY <1>1, <1>3
    <2>2. QED
      BY <1>1, <1>2, <2>1
  <1>4. CASE p - q >= 1
    <2>1. D * (p - q) >= D /\ D * (p - q) = r - s
      BY <1>1, <1>2, <1>4
    <2>2. QED
      BY <1>1, <2>1
  <1>5. CASE p = q
    <2>1. s = r
      BY <1>1, <1>5
    <2>2. QED
      BY <2>1 DEF s
  <1>6. QED
    BY <1>1, <1>3, <1>4, <1>5

\* What is cut off below the millisecond, and whose time is cut to the same one.
LEMMA CutTime ==
    ASSUME NEW x \in Nat, NEW D \in Nat \ {0}
    PROVE  /\ x - (x % D) \in Nat /\ x - (x % D) <= x
           /\ \A y \in Nat : x - (x % D) <= y /\ y <= x => y - (y % D) = x - (x % D)
  <1> DEFINE q == x \div D
             r == x % D
  <1>1. x = D * q + r /\ r \in 0 .. D - 1 /\ q \in Nat
    OBVIOUS
  <1> HIDE DEF q, r
  <1>2. D * q \in Nat
    BY <1>1
  <1>3. x - r = D * q
    BY <1>1, <1>2
  <1>4. ASSUME NEW y \in Nat, x - r <= y, y <= x PROVE y - (y % D) = x - r
    <2>1. y - D * q \in 0 .. D - 1 /\ y = D * q + (y - D * q)
      BY <1>1, <1>2, <1>3, <1>4
    <2>2. y % D = y - D * q
      BY <1>1, <2>1, WholeAndRest
    <2>3. QED
      BY <1>2, <1>3, <2>2
  <1>5. QED
    BY <1>1, <1>2, <1>3, <1>4 DEF r

RowTypes ==
    /\ DOMAIN rowTime \subseteq RowIds /\ IsFiniteSet(DOMAIN rowTime)
    /\ \A i \in DOMAIN rowTime : rowTime[i] \in 0 .. LastListTime
    /\ matching \subseteq DOMAIN rowTime
    /\ listTime \in 0 .. LastListTime

WalkRecord == [at : {"idle", "page", "done"}, list : Listings, cursor : [at : Nat, id : Nat],
               given : Seq(RowIds), steady : SUBSET RowIds, ends : SUBSET RowIds]

Ordered(rows) == \A k, l \in 1 .. Len(rows) : k < l => Precedes(rows[k], rows[l])
Given(w, i) == \E k \in 1 .. Len(walk[w].given) : walk[w].given[k] = i
\* What a walk was given is in order, and ends at its cursor; a steady row was given, is
\* stepped over, or is still to come.
WalkOK(w) ==
    /\ \A k \in 1 .. Len(walk[w].given) : walk[w].given[k] \in DOMAIN rowTime
    /\ Ordered(walk[w].given)
    /\ walk[w].ends \subseteq DOMAIN rowTime
    /\ walk[w].steady \subseteq matching \cap walk[w].list
    /\ walk[w].at = "page" =>
           /\ Len(walk[w].given) > 0
           /\ walk[w].cursor = EncodeCursor(walk[w].given[Len(walk[w].given)])
    /\ walk[w].at # "idle" => \A i \in walk[w].steady :
           Given(w, i) \/ SteppedOver(w, i) \/ (walk[w].at = "page" /\ After(i, walk[w].cursor))
SearchIInv ==
    /\ RowTypes
    /\ walk \in [Walks -> WalkRecord]
    /\ \A w \in Walks : WalkOK(w)

LEMMA RowFacts ==
    ASSUME RowTypes
    PROVE  /\ RowIds \subseteq Nat /\ PerMs \in Nat \ {0} /\ LastListTime \in Nat
           /\ \A i \in DOMAIN rowTime : i \in Nat /\ rowTime[i] \in Nat /\ rowTime[i] <= LastListTime
  <1>1. RowIds \subseteq Nat /\ PerMs \in Nat \ {0} /\ LastListTime \in Nat
    BY IdsAssumption, LimitsAssumption DEF RowIds
  <1>2. ASSUME NEW i \in DOMAIN rowTime PROVE i \in Nat /\ rowTime[i] \in Nat /\ rowTime[i] <= LastListTime
    <2>1. i \in RowIds /\ rowTime[i] \in 0 .. LastListTime
      BY DEF RowTypes
    <2>2. \A x \in 0 .. LastListTime : x \in Nat /\ x <= LastListTime
      BY ONLY <1>1
    <2>3. i \in Nat
      BY ONLY <1>1, <2>1
    <2>4. QED
      BY ONLY <2>1, <2>2, <2>3
  <1>3. QED
    BY <1>1, <1>2

\* The order of the query is one.
LEMMA PrecedesOrder ==
    ASSUME RowTypes, NEW i \in DOMAIN rowTime, NEW j \in DOMAIN rowTime
    PROVE  /\ ~(Precedes(i, j) /\ Precedes(j, i)) /\ ~Precedes(i, i)
           /\ i # j => Precedes(i, j) \/ Precedes(j, i)
           /\ \A k \in DOMAIN rowTime : Precedes(i, j) /\ Precedes(j, k) => Precedes(i, k)
  BY RowFacts DEF Precedes

\* Every finite set of rows has its order.
LEMMA InOrderIs ==
    ASSUME RowTypes, NEW S \in SUBSET DOMAIN rowTime
    PROVE  /\ Cardinality(S) \in Nat
           /\ InOrder(S) \in [1 .. Cardinality(S) -> S]
           /\ \A k, l \in 1 .. Cardinality(S) : k < l => Precedes(InOrder(S)[k], InOrder(S)[l])
           /\ \A i \in S : \E k \in 1 .. Cardinality(S) : InOrder(S)[k] = i
  <1> DEFINE n == Cardinality(S)
             before(i) == {j \in S : Precedes(j, i)}
             rank == [i \in S |-> Cardinality(before(i)) + 1]
             P(s) == \A k, l \in 1 .. n : k < l => Precedes(s[k], s[l])
  <1>1. IsFiniteSet(S) /\ n \in Nat
    BY FS_Subset, FS_CardinalityType DEF RowTypes
  <1>2. ASSUME NEW i \in S PROVE IsFiniteSet(before(i)) /\ Cardinality(before(i)) \in 0 .. n - 1
    <2>1. before(i) \in SUBSET (S \ {i})
      BY PrecedesOrder
    <2>2. IsFiniteSet(S \ {i}) /\ Cardinality(S \ {i}) = n - 1
      BY <1>1, <1>2, FS_RemoveElement
    <2> HIDE DEF before
    <2>3. IsFiniteSet(before(i)) /\ Cardinality(before(i)) <= n - 1
      BY <2>1, <2>2, FS_Subset
    <2>4. QED
      BY <1>1, <2>3, FS_CardinalityType
  <1>3. rank \in [S -> 1 .. n]
    BY <1>1, <1>2
  <1>4. ASSUME NEW i \in S, NEW j \in S, Precedes(i, j) PROVE rank[i] < rank[j]
    <2>1. before(i) \in SUBSET before(j) /\ i \in before(j) /\ i \notin before(i)
      BY <1>4, PrecedesOrder
    <2>2. /\ IsFiniteSet(before(j))
          /\ Cardinality(before(i)) \in 0 .. n - 1 /\ Cardinality(before(j)) \in 0 .. n - 1
      BY <1>2
    <2>3. rank[i] = Cardinality(before(i)) + 1 /\ rank[j] = Cardinality(before(j)) + 1
      OBVIOUS
    <2> HIDE DEF before, rank
    <2>4. Cardinality(before(i)) <= Cardinality(before(j)) /\ Cardinality(before(i)) # Cardinality(before(j))
      BY <2>1, <2>2, FS_Subset
    <2>5. QED
      BY <1>1, <2>2, <2>3, <2>4
  <1> HIDE DEF rank
  <1>5. \A i, j \in S : rank[i] = rank[j] => i = j
    <2>1. SUFFICES ASSUME NEW i \in S, NEW j \in S, rank[i] = rank[j], i # j PROVE FALSE
      OBVIOUS
    <2>2. Precedes(i, j) \/ Precedes(j, i)
      BY <2>1, PrecedesOrder
    <2>3. rank[i] < rank[j] \/ rank[j] < rank[i]
      BY <1>4, <2>2
    <2>4. rank[i] \in Int /\ rank[j] \in Int
      BY <1>1, <1>3
    <2>5. QED
      BY <2>1, <2>3, <2>4
  <1>6. \A k \in 1 .. n : \E i \in S : rank[i] = k
    <2>1. rank \in Injection(S, 1 .. n)
      BY <1>3, <1>5 DEF Injection, IsInjective
    <2>2. IsFiniteSet(1 .. n) /\ Cardinality(1 .. n) = n
      BY <1>1, FS_Interval
    <2>3. rank \in Surjection(S, 1 .. n)
      BY <2>1, <2>2, FS_Injection
    <2>4. QED
      BY <2>3 DEF Surjection
  <1> DEFINE sorted == [k \in 1 .. n |-> CHOOSE i \in S : rank[i] = k]
  <1>7. \A k \in 1 .. n : sorted[k] \in S /\ rank[sorted[k]] = k
    BY <1>6
  <1>8. sorted \in [1 .. n -> S]
    BY <1>7
  <1> HIDE DEF sorted
  <1>9. P(sorted)
    <2>1. SUFFICES ASSUME NEW k \in 1 .. n, NEW l \in 1 .. n, k < l
                   PROVE  Precedes(sorted[k], sorted[l])
      OBVIOUS
    <2>2. sorted[k] \in S /\ sorted[l] \in S /\ rank[sorted[k]] = k /\ rank[sorted[l]] = l
      BY <1>7
    <2>3. sorted[k] # sorted[l]
      BY <1>1, <2>1, <2>2
    <2>4. ~Precedes(sorted[l], sorted[k])
      BY <1>1, <1>4, <2>1, <2>2
    <2>5. QED
      BY <2>2, <2>3, <2>4, PrecedesOrder
  <1>10. InOrder(S) = CHOOSE s \in [1 .. n -> S] : P(s)
    BY DEF InOrder
  <1> DEFINE found == InOrder(S)
  <1> HIDE DEF P
  <1>11. found \in [1 .. n -> S] /\ P(found)
    BY <1>8, <1>9, <1>10
  <1> HIDE DEF found
  <1>12. \A i \in S : \E k \in 1 .. n : found[k] = i
    <2>1. \A k, l \in 1 .. n : found[k] = found[l] => k = l
      <3>1. SUFFICES ASSUME NEW k \in 1 .. n, NEW l \in 1 .. n, k < l PROVE found[k] # found[l]
        BY <1>1
      <3>2. Precedes(found[k], found[l]) /\ found[k] \in S
        BY <1>11, <3>1 DEF P
      <3>3. QED
        BY <3>2, PrecedesOrder
    <2>2. found \in Injection(1 .. n, S)
      BY <1>11, <2>1 DEF Injection, IsInjective
    <2>3. IsFiniteSet(1 .. n) /\ Cardinality(1 .. n) = n
      BY <1>1, FS_Interval
    <2>4. found \in Surjection(1 .. n, S)
      BY <1>1, <2>2, <2>3, FS_Injection
    <2>5. QED
      BY <2>4 DEF Surjection
  <1>13. QED
    BY <1>1, <1>11, <1>12 DEF P, found

LEMMA SameRows ==
    ASSUME RowTypes, \A j \in DOMAIN rowTime : j \in DOMAIN rowTime' /\ rowTime'[j] = rowTime[j],
           NEW i \in DOMAIN rowTime
    PROVE  /\ EncodeCursor(i)' = EncodeCursor(i)
           /\ \A j \in DOMAIN rowTime : Precedes(i, j)' <=> Precedes(i, j)
           /\ \A cursor : After(i, cursor)' <=> After(i, cursor)
  BY DEF EncodeCursor, Precedes, After

\* A walk that stays where it is, but may count on fewer rows.
LEMMA WalkStays ==
    ASSUME RowTypes, NEW w \in Walks, WalkOK(w), walk \in [Walks -> WalkRecord],
           \A j \in DOMAIN rowTime : j \in DOMAIN rowTime' /\ rowTime'[j] = rowTime[j],
           walk'[w].at = walk[w].at, walk'[w].list = walk[w].list, walk'[w].cursor = walk[w].cursor,
           walk'[w].given = walk[w].given, walk'[w].ends = walk[w].ends,
           walk'[w].steady \subseteq walk[w].steady \cap matching'
    PROVE  WalkOK(w)'
  <1>1. /\ \A k \in 1 .. Len(walk[w].given) : walk[w].given[k] \in DOMAIN rowTime
        /\ Len(walk[w].given) \in Nat
        /\ walk[w].ends \subseteq DOMAIN rowTime /\ walk[w].steady \subseteq DOMAIN rowTime
    <2>1. walk[w].given \in Seq(RowIds)
      BY DEF WalkRecord
    <2>2. QED
      BY <2>1, LenProperties DEF WalkOK, RowTypes
  <1> DEFINE g == walk[w].given
  <1>2. (\A k \in 1 .. Len(walk[w].given) : walk[w].given[k] \in DOMAIN rowTime)'
    BY <1>1
  <1>3. Ordered(walk[w].given)'
    <2>1. \A k, l \in 1 .. Len(g) : k < l => Precedes(g[k], g[l])
      BY DEF WalkOK, Ordered
    <2>2. \A k, l \in 1 .. Len(g) : rowTime'[g[k]] = rowTime[g[k]] /\ rowTime'[g[l]] = rowTime[g[l]]
      BY <1>1
    <2>3. walk'[w].given = g
      OBVIOUS
    <2> HIDE DEF g
    <2>4. QED
      BY <2>1, <2>2, <2>3 DEF Ordered, Precedes
  <1>4. (walk[w].at = "page" => /\ Len(walk[w].given) > 0
                               /\ walk[w].cursor = EncodeCursor(walk[w].given[Len(walk[w].given)]))'
    <2>1. SUFFICES ASSUME walk[w].at = "page"
                   PROVE  /\ Len(g) > 0
                          /\ walk[w].cursor = [at |-> rowTime'[g[Len(g)]] - (rowTime'[g[Len(g)]] % PerMs),
                                               id |-> g[Len(g)]]
      BY DEF EncodeCursor
    <2>2. Len(g) > 0 /\ walk[w].cursor = EncodeCursor(g[Len(g)])
      BY <2>1 DEF WalkOK
    <2>3. Len(g) \in 1 .. Len(g)
      BY <1>1, <2>2
    <2>4. rowTime'[g[Len(g)]] = rowTime[g[Len(g)]]
      BY <1>1, <2>3
    <2> HIDE DEF g
    <2>5. QED
      BY <2>2, <2>4 DEF EncodeCursor
  <1>5. (walk[w].at # "idle" => \A i \in walk[w].steady :
            Given(w, i) \/ SteppedOver(w, i) \/ (walk[w].at = "page" /\ After(i, walk[w].cursor)))'
    <2>1. SUFFICES ASSUME NEW i \in walk'[w].steady, walk[w].at # "idle"
                   PROVE  Given(w, i)' \/ SteppedOver(w, i)' \/ (walk[w].at = "page" /\ After(i, walk[w].cursor)')
      OBVIOUS
    <2>2. i \in walk[w].steady /\ i \in DOMAIN rowTime
      BY <1>1, <2>1
    <2>3. Given(w, i) \/ SteppedOver(w, i) \/ (walk[w].at = "page" /\ After(i, walk[w].cursor))
      BY <2>1, <2>2 DEF WalkOK
    <2>4. Given(w, i) => Given(w, i)'
      BY DEF Given
    <2>5. SteppedOver(w, i) => SteppedOver(w, i)'
      BY <1>1, <2>2, SameRows DEF SteppedOver, EncodeCursor
    <2>6. After(i, walk[w].cursor) => After(i, walk[w].cursor)'
      BY <2>2 DEF After
    <2>7. QED
      BY <2>3, <2>4, <2>5, <2>6
  <1>6. (walk[w].steady \subseteq matching \cap walk[w].list)'
    BY DEF WalkOK
  <1>7. (walk[w].ends \subseteq DOMAIN rowTime)'
    BY <1>1
  <1> HIDE DEF g
  <1>8. QED
    BY <1>2, <1>3, <1>4, <1>5, <1>6, <1>7 DEF WalkOK

\* A row that follows the last one of a page comes after its cursor, or the cut steps over it.
LEMMA AfterCursor ==
    ASSUME RowTypes, NEW e \in DOMAIN rowTime, NEW i \in DOMAIN rowTime, Precedes(e, i)
    PROVE  \/ After(i, EncodeCursor(e))
           \/ EncodeCursor(e).at < rowTime[e] /\ EncodeCursor(i).at = EncodeCursor(e).at
  <1> DEFINE x == rowTime[e]
             y == rowTime[i]
  <1>1. /\ x \in Nat /\ y \in Nat /\ e \in Nat /\ i \in Nat /\ PerMs \in Nat \ {0}
        /\ y < x \/ (y = x /\ i < e)
    BY RowFacts DEF Precedes
  <1>2. EncodeCursor(e).at = x - (x % PerMs) /\ EncodeCursor(e).id = e /\ EncodeCursor(i).at = y - (y % PerMs)
    BY DEF EncodeCursor
  <1> DEFINE b == x - (x % PerMs)
             d == y - (y % PerMs)
  <1>3. b \in Nat /\ b <= x /\ (b <= y /\ y <= x => d = b)
    BY <1>1, CutTime
  <1>4. After(i, EncodeCursor(e)) <=> y < b \/ (y = b /\ i < e)
    BY <1>2 DEF After
  <1> HIDE DEF x, y, b, d
  <1>5. (y < b \/ (y = b /\ i < e)) \/ (b < x /\ d = b)
    BY <1>1, <1>3
  <1>6. QED
    BY <1>2, <1>4, <1>5 DEF x, y, b, d

\* What comes after the cursor of a row follows it.
LEMMA CursorAfter ==
    ASSUME RowTypes, NEW e \in DOMAIN rowTime, NEW i \in DOMAIN rowTime, After(i, EncodeCursor(e))
    PROVE  Precedes(e, i)
  <1> DEFINE x == rowTime[e]
             b == x - (x % PerMs)
  <1>1. /\ x \in Nat /\ rowTime[i] \in Nat /\ e \in Nat /\ i \in Nat /\ PerMs \in Nat \ {0}
    BY RowFacts
  <1>2. b \in Nat /\ b <= x
    BY <1>1, CutTime
  <1>3. rowTime[i] < b \/ (rowTime[i] = b /\ i < e)
    BY DEF After, EncodeCursor
  <1> HIDE DEF b
  <1>4. QED
    BY <1>1, <1>2, <1>3 DEF Precedes

\* A page and the rows before it.
LEMMA PageGiven ==
    ASSUME RowTypes, walk \in [Walks -> WalkRecord], NEW w \in Walks, NEW cursor \in [at : Nat, id : Nat],
           NEW n \in Limits, NEW given \in Seq(RowIds), NEW steady \in SUBSET RowIds,
           \A k \in 1 .. Len(given) : given[k] \in DOMAIN rowTime, Ordered(given),
           \A k \in 1 .. Len(given), i \in DOMAIN rowTime : After(i, cursor) => Precedes(given[k], i),
           walk[w].ends \subseteq DOMAIN rowTime, steady \subseteq matching \cap walk[w].list,
           \A i \in steady : \/ \E k \in 1 .. Len(given) : given[k] = i
                             \/ SteppedOver(w, i) \/ After(i, cursor),
           AnswerPage(w, cursor, n, given, steady), UNCHANGED <<rowTime, matching, listTime>>
    PROVE  walk' \in [Walks -> WalkRecord] /\ WalkOK(w)' /\ \A v \in Walks \ {w} : walk'[v] = walk[v]
  <1> DEFINE S == {i \in walk[w].list \cap DOMAIN rowTime : i \in matching /\ After(i, cursor)}
             found == Matches(walk[w].list, cursor)
             N == Cardinality(S)
             m == IF N < n THEN N ELSE n
             page == Cut(found, n)
             last == page[Len(page)]
             more == Len(found) > n
             new == [at |-> IF more THEN "page" ELSE "done",
                     list |-> walk[w].list,
                     cursor |-> IF more THEN EncodeCursor(last) ELSE walk[w].cursor,
                     given |-> given \o page,
                     steady |-> steady,
                     ends |-> IF more THEN walk[w].ends \cup {last} ELSE walk[w].ends]
  <1>1. /\ N \in Nat /\ found \in [1 .. N -> S]
        /\ \A k, l \in 1 .. N : k < l => Precedes(found[k], found[l])
        /\ \A i \in S : \E k \in 1 .. N : found[k] = i
    <2>1. S \in SUBSET DOMAIN rowTime /\ found = InOrder(S)
      BY DEF Matches
    <2> HIDE DEF S, found
    <2>2. QED
      BY <2>1, InOrderIs
  <1>2. S \subseteq DOMAIN rowTime /\ \A i \in S : After(i, cursor)
    OBVIOUS
  <1>3. steady \subseteq RowIds /\ \A i \in steady : After(i, cursor) => i \in S
    BY DEF RowTypes
  <1>4. n \in Nat /\ n > 0 /\ m \in 0 .. N /\ m <= n
    BY <1>1, LimitsAssumption
  <1>5. walk' = [walk EXCEPT ![w] = new]
    BY DEF AnswerPage
  <1>6. Len(found) = N
    <2> HIDE DEF S, N, found
    <2>1. found \in Seq(S) /\ DOMAIN found = 1 .. N
      BY <1>1
    <2>2. QED
      BY <1>1, <2>1, LenProperties
  <1>7. page = SubSeq(found, 1, m)
    BY <1>6 DEF Cut
  <1> HIDE DEF S, found, N, page
  <1>8. /\ page \in Seq(DOMAIN rowTime) /\ Len(page) = m
        /\ \A k \in 1 .. m : page[k] = found[k] /\ page[k] \in S
    <2>1. \A k \in 1 .. m : found[k] \in S /\ found[k] \in DOMAIN rowTime
      BY <1>1, <1>2, <1>4
    <2> HIDE DEF m
    <2>2. /\ SubSeq(found, 1, m) \in Seq(DOMAIN rowTime)
          /\ Len(SubSeq(found, 1, m)) = m
          /\ \A k \in 1 .. m : SubSeq(found, 1, m)[k] = found[k]
      BY <1>1, <1>4, <2>1, SubSeqProperties
    <2>3. QED
      BY <1>7, <2>1, <2>2
  <1>9. more <=> N > n
    BY <1>6
  <1> HIDE DEF more
  <1>10. more => m = n /\ m > 0 /\ last \in S /\ last \in DOMAIN rowTime /\ last = found[m]
    BY <1>1, <1>2, <1>4, <1>8, <1>9
  <1> DEFINE g == given \o page
             G == Len(given)
  <1>11. /\ g \in Seq(RowIds) /\ Len(g) = G + m /\ G \in Nat
         /\ \A k \in 1 .. G : g[k] = given[k]
         /\ \A k \in 1 .. m : g[G + k] = found[k]
         /\ \A k \in 1 .. G + m : k \in 1 .. G \/ (k - G \in 1 .. m /\ g[k] = found[k - G])
    <2>1. page \in Seq(RowIds)
      <3>1. DOMAIN rowTime \subseteq RowIds
        BY DEF RowTypes
      <3>2. QED
        BY <1>8, <3>1
    <2>2. G \in Nat
      BY LenProperties
    <2> HIDE DEF G, m
    <2>3. /\ g \in Seq(RowIds) /\ Len(g) = G + m
          /\ \A k \in 1 .. G + m : g[k] = IF k <= G THEN given[k] ELSE page[k - G]
      BY <1>8, <2>1, ConcatProperties DEF G
    <2> HIDE DEF g
    <2>4. \A k \in 1 .. G : g[k] = given[k]
      BY <1>4, <2>2, <2>3
    <2>5. ASSUME NEW k \in 1 .. m PROVE g[G + k] = found[k]
      <3>1. G + k \in 1 .. G + m /\ ~(G + k <= G) /\ (G + k) - G = k
        BY <1>4, <2>2
      <3>2. QED
        BY <1>8, <2>3, <3>1
    <2>6. ASSUME NEW k \in 1 .. G + m PROVE k \in 1 .. G \/ (k - G \in 1 .. m /\ g[k] = found[k - G])
      <3>1. k \in 1 .. G \/ (k - G \in 1 .. m /\ ~(k <= G))
        BY <1>4, <2>2
      <3>2. QED
        BY <1>8, <2>3, <3>1
    <2>7. QED
      BY <2>2, <2>3, <2>4, <2>5, <2>6
  <1>12. new \in WalkRecord
    <2>1. walk[w] \in WalkRecord
      OBVIOUS
    <2>2. more => EncodeCursor(last) \in [at : Nat, id : Nat] /\ last \in RowIds
      <3>1. SUFFICES ASSUME more PROVE EncodeCursor(last) \in [at : Nat, id : Nat] /\ last \in RowIds
        OBVIOUS
      <3>2. last \in DOMAIN rowTime
        BY <1>10, <3>1
      <3> HIDE DEF last
      <3>3. last \in RowIds /\ last \in Nat /\ rowTime[last] \in Nat /\ PerMs \in Nat \ {0}
        BY <3>2, RowFacts DEF RowTypes
      <3>4. rowTime[last] - (rowTime[last] % PerMs) \in Nat
        BY <3>3, CutTime
      <3>5. QED
        BY <3>3, <3>4 DEF EncodeCursor
    <2> HIDE DEF last
    <2>3. QED
      BY <1>3, <1>11, <2>1, <2>2 DEF WalkRecord
  <1>13. /\ walk' \in [Walks -> WalkRecord] /\ walk'[w] = new
         /\ \A v \in Walks \ {w} : walk'[v] = walk[v]
    <2> HIDE DEF new
    <2>1. QED
      BY <1>5, <1>12
  <1>14. /\ walk'[w].at = IF more THEN "page" ELSE "done"
         /\ walk'[w].list = walk[w].list
         /\ walk'[w].cursor = IF more THEN EncodeCursor(last) ELSE walk[w].cursor
         /\ walk'[w].given = g /\ walk'[w].steady = steady
         /\ walk'[w].ends = IF more THEN walk[w].ends \cup {last} ELSE walk[w].ends
    BY <1>13
  <1> HIDE DEF new, m, G, g, last
  <1>15. (\A k \in 1 .. Len(walk[w].given) : walk[w].given[k] \in DOMAIN rowTime)'
    <2>1. \A k \in 1 .. Len(g) : g[k] \in DOMAIN rowTime
      BY <1>1, <1>2, <1>4, <1>11 DEF G
    <2>2. QED
      BY <1>14, <2>1
  <1>16. Ordered(walk[w].given)'
    <2>1. ASSUME NEW k \in 1 .. G + m, NEW l \in 1 .. G + m, k < l PROVE Precedes(g[k], g[l])
      <3>1. CASE l \in 1 .. G
        <4>1. k \in 1 .. G
          BY <1>11, <2>1, <3>1
        <4>2. QED
          BY <1>11, <2>1, <3>1, <4>1 DEF Ordered, G
      <3>2. CASE k \in 1 .. G /\ l - G \in 1 .. m /\ g[l] = found[l - G]
        <4>1. found[l - G] \in S
          BY <1>1, <1>4, <3>2
        <4>2. found[l - G] \in DOMAIN rowTime /\ After(found[l - G], cursor)
          BY <1>2, <4>1
        <4>3. QED
          BY <1>11, <3>2, <4>2 DEF G
      <3>3. CASE k - G \in 1 .. m /\ g[k] = found[k - G] /\ l - G \in 1 .. m /\ g[l] = found[l - G]
        <4>1. k - G \in 1 .. N /\ l - G \in 1 .. N /\ k - G < l - G
          BY <1>1, <1>4, <1>11, <2>1, <3>3
        <4>2. QED
          BY <1>1, <3>3, <4>1
      <3>4. QED
        BY <1>4, <1>11, <2>1, <3>1, <3>2, <3>3
    <2>2. walk'[w].given = g /\ Len(g) = G + m /\ rowTime' = rowTime
      BY <1>11, <1>14
    <2>3. QED
      BY <2>1, <2>2 DEF Ordered, Precedes
  <1>17. (walk[w].ends \subseteq DOMAIN rowTime)' /\ (walk[w].steady \subseteq matching \cap walk[w].list)'
    BY <1>10, <1>14
  <1>18. (walk[w].at = "page" => /\ Len(walk[w].given) > 0
                                /\ walk[w].cursor = EncodeCursor(walk[w].given[Len(walk[w].given)]))'
    <2>1. SUFFICES ASSUME more PROVE Len(g) > 0 /\ EncodeCursor(last) = EncodeCursor(g[Len(g)])
      BY <1>14 DEF EncodeCursor
    <2>2. m \in 1 .. m /\ Len(g) = G + m /\ last = found[m] /\ Len(g) > 0
      BY <1>4, <1>10, <1>11, <2>1
    <2>3. g[Len(g)] = last
      BY <1>11, <2>2
    <2>4. QED
      BY <2>2, <2>3
  <1>19. ASSUME NEW i \in steady
         PROVE  \/ \E k \in 1 .. Len(g) : g[k] = i
                \/ \E e \in walk'[w].ends : /\ EncodeCursor(e).at < rowTime[e]
                                            /\ EncodeCursor(i).at = EncodeCursor(e).at
                \/ more /\ After(i, EncodeCursor(last))
    <2>1. CASE \E k \in 1 .. Len(given) : given[k] = i
      <3>1. PICK k \in 1 .. G : given[k] = i
        BY <2>1 DEF G
      <3>2. k \in 1 .. Len(g) /\ g[k] = i
        BY <1>4, <1>11, <3>1
      <3>3. QED
        BY <3>2
    <2>2. CASE SteppedOver(w, i)
      <3>1. walk[w].ends \subseteq walk'[w].ends
        BY <1>14
      <3>2. QED
        BY <2>2, <3>1 DEF SteppedOver
    <2>3. CASE After(i, cursor)
      <3>1. PICK k \in 1 .. N : found[k] = i
        BY <1>1, <1>3, <2>3
      <3>2. CASE k <= m
        <4>1. k \in 1 .. m /\ G + k \in 1 .. Len(g)
          BY <1>1, <1>4, <1>11, <3>1, <3>2
        <4>2. g[G + k] = i
          BY <1>11, <3>1, <4>1
        <4>3. QED
          BY <4>1, <4>2
      <3>3. CASE m < k
        <4>1. more
          BY <1>1, <1>4, <1>9, <3>1, <3>3 DEF m
        <4>2. m \in 1 .. N /\ last = found[m] /\ last \in DOMAIN rowTime
          BY <1>1, <1>4, <1>10, <4>1
        <4>3. Precedes(last, i) /\ i \in DOMAIN rowTime
          BY <1>1, <1>2, <3>1, <3>3, <4>2
        <4>4. \/ After(i, EncodeCursor(last))
              \/ EncodeCursor(last).at < rowTime[last] /\ EncodeCursor(i).at = EncodeCursor(last).at
          BY <4>2, <4>3, AfterCursor
        <4>5. last \in walk'[w].ends
          BY <1>14, <4>1
        <4>6. QED
          BY <4>1, <4>4, <4>5
      <3>4. QED
        BY <1>1, <1>4, <3>1, <3>2, <3>3
    <2>4. QED
      BY <2>1, <2>2, <2>3
  <1>20. (walk[w].at # "idle" => \A i \in walk[w].steady :
             Given(w, i) \/ SteppedOver(w, i) \/ (walk[w].at = "page" /\ After(i, walk[w].cursor)))'
    <2>1. SUFFICES ASSUME NEW i \in steady
                   PROVE  (Given(w, i) \/ SteppedOver(w, i) \/ (walk[w].at = "page" /\ After(i, walk[w].cursor)))'
      BY <1>14
    <2>2. (\E k \in 1 .. Len(g) : g[k] = i) => Given(w, i)'
      BY <1>14 DEF Given
    <2>3. (\E e \in walk'[w].ends : /\ EncodeCursor(e).at < rowTime[e]
                                    /\ EncodeCursor(i).at = EncodeCursor(e).at) => SteppedOver(w, i)'
      BY DEF SteppedOver, EncodeCursor
    <2>4. more /\ After(i, EncodeCursor(last)) => (walk[w].at = "page" /\ After(i, walk[w].cursor))'
      BY <1>14 DEF After
    <2>5. QED
      BY <1>19, <2>2, <2>3, <2>4
  <1>21. WalkOK(w)'
    BY <1>15, <1>16, <1>17, <1>18, <1>20 DEF WalkOK
  <1>22. QED
    BY <1>13, <1>21

\* Rows appear, stop matching or start to, and a walk counts on no more of them.
LEMMA RowsMove ==
    ASSUME SearchIInv, RowTypes', \A j \in DOMAIN rowTime : j \in DOMAIN rowTime' /\ rowTime'[j] = rowTime[j],
           NEW gone, matching \subseteq gone \cup matching',
           walk' = [w \in Walks |-> [walk[w] EXCEPT !.steady = walk[w].steady \ gone]]
    PROVE  SearchIInv'
  <1>1. RowTypes /\ walk \in [Walks -> WalkRecord] /\ \A w \in Walks : WalkOK(w)
    BY DEF SearchIInv
  <1>2. ASSUME NEW w \in Walks
        PROVE  /\ walk'[w] \in WalkRecord
               /\ walk'[w].at = walk[w].at /\ walk'[w].list = walk[w].list /\ walk'[w].cursor = walk[w].cursor
               /\ walk'[w].given = walk[w].given /\ walk'[w].ends = walk[w].ends
               /\ walk'[w].steady = walk[w].steady \ gone
    <2>1. walk[w] \in WalkRecord /\ walk'[w] = [walk[w] EXCEPT !.steady = walk[w].steady \ gone]
      BY <1>1
    <2>2. QED
      BY <2>1 DEF WalkRecord
  <1>3. walk' \in [Walks -> WalkRecord]
    BY <1>2
  <1>4. ASSUME NEW w \in Walks PROVE WalkOK(w)'
    <2>1. WalkOK(w) /\ walk[w].steady \subseteq matching
      BY <1>1 DEF WalkOK
    <2>2. walk'[w].steady \subseteq walk[w].steady \cap matching'
      BY <1>2, <2>1
    <2>3. QED
      BY <1>1, <1>2, <2>1, <2>2, WalkStays
  <1>5. QED
    BY <1>3, <1>4 DEF SearchIInv

LEMMA NobodyGone ==
    ASSUME SearchIInv, UNCHANGED walk
    PROVE  walk' = [w \in Walks |-> [walk[w] EXCEPT !.steady = walk[w].steady \ {}]]
  <1>1. walk \in [Walks -> WalkRecord]
    BY DEF SearchIInv
  <1>2. \A w \in Walks : [walk[w] EXCEPT !.steady = walk[w].steady \ {}] = walk[w]
    BY <1>1 DEF WalkRecord
  <1>3. QED
    BY <1>1, <1>2

LEMMA RowAppearsOK == ASSUME SearchIInv, NEW i \in RowIds, RowAppears(i) PROVE SearchIInv'
  <1>1. RowTypes
    BY DEF SearchIInv
  <1>2. PICK at \in 0 .. listTime :
            rowTime' = [j \in DOMAIN rowTime \cup {i} |-> IF j = i THEN at ELSE rowTime[j]]
    BY DEF RowAppears
  <1>3. i \notin DOMAIN rowTime /\ matching' = matching \cup {i} /\ UNCHANGED <<listTime, walk>>
    BY DEF RowAppears
  <1>4. at \in 0 .. LastListTime
    BY <1>1, <1>2, RowFacts DEF RowTypes
  <1>5. IsFiniteSet(DOMAIN rowTime \cup {i})
    BY <1>1, FS_AddElement DEF RowTypes
  <1>6. DOMAIN rowTime' = DOMAIN rowTime \cup {i}
    BY <1>2
  <1>7. \A j \in DOMAIN rowTime : j \in DOMAIN rowTime' /\ rowTime'[j] = rowTime[j]
    BY <1>2, <1>3, <1>6
  <1>8. RowTypes'
    <2>1. \A j \in DOMAIN rowTime' : rowTime'[j] \in 0 .. LastListTime
      BY <1>1, <1>2, <1>4, <1>6 DEF RowTypes
    <2>2. QED
      BY <1>1, <1>3, <1>5, <1>6, <2>1 DEF RowTypes
  <1>9. walk' = [w \in Walks |-> [walk[w] EXCEPT !.steady = walk[w].steady \ {}]]
    BY <1>3, NobodyGone
  <1>10. matching \subseteq {} \cup matching'
    BY <1>3
  <1>11. QED
    BY <1>7, <1>8, <1>9, <1>10, RowsMove

LEMMA RowHidden ==
    ASSUME SearchIInv, NEW i, Unsteady(i), matching \ {i} \subseteq matching', matching' \subseteq DOMAIN rowTime,
           UNCHANGED <<rowTime, listTime>>
    PROVE  SearchIInv'
  <1>1. walk' = [w \in Walks |-> [walk[w] EXCEPT !.steady = walk[w].steady \ {i}]]
    BY DEF Unsteady
  <1>2. RowTypes'
    BY DEF SearchIInv, RowTypes
  <1>3. /\ matching \subseteq {i} \cup matching'
        /\ \A j \in DOMAIN rowTime : j \in DOMAIN rowTime' /\ rowTime'[j] = rowTime[j]
    OBVIOUS
  <1>4. QED
    BY <1>1, <1>2, <1>3, RowsMove

LEMMA OtherWalks ==
    ASSUME SearchIInv, NEW w \in Walks, walk' \in [Walks -> WalkRecord], WalkOK(w)',
           \A v \in Walks \ {w} : walk'[v] = walk[v], UNCHANGED <<rowTime, matching, listTime>>
    PROVE  SearchIInv'
  <1>1. RowTypes /\ RowTypes' /\ walk \in [Walks -> WalkRecord]
    BY DEF SearchIInv, RowTypes
  <1>2. ASSUME NEW v \in Walks, v # w PROVE WalkOK(v)'
    <2>1. WalkOK(v) /\ walk'[v] = walk[v] /\ walk[v].steady \subseteq matching'
      BY <1>2 DEF SearchIInv, WalkOK
    <2>2. \A j \in DOMAIN rowTime : j \in DOMAIN rowTime' /\ rowTime'[j] = rowTime[j]
      OBVIOUS
    <2>3. QED
      BY <1>1, <2>1, <2>2, WalkStays
  <1>3. QED
    BY <1>1, <1>2 DEF SearchIInv

LEMMA FirstPageOK == ASSUME SearchIInv, NEW w \in Walks, FirstPage(w) PROVE SearchIInv'
  <1>1. RowTypes /\ walk \in [Walks -> WalkRecord] /\ WalkOK(w)
    BY DEF SearchIInv
  <1>2. PICK n \in Limits : AnswerPage(w, NoCursor, n, <<>>, matching \cap walk[w].list)
    BY DEF FirstPage
  <1>3. UNCHANGED <<rowTime, matching, listTime>>
    BY DEF FirstPage
  <1>4. NoCursor \in [at : Nat, id : Nat] /\ \A i \in DOMAIN rowTime : After(i, NoCursor)
    BY <1>1, RowFacts DEF NoCursor, After
  <1> DEFINE steady == matching \cap walk[w].list
             given == <<>>
  <1>5. steady \in SUBSET RowIds /\ steady \subseteq matching \cap walk[w].list /\ steady \subseteq DOMAIN rowTime
    BY <1>1 DEF RowTypes
  <1>6. given \in Seq(RowIds) /\ Len(given) = 0
    OBVIOUS
  <1>7. /\ \A k \in 1 .. Len(given) : given[k] \in DOMAIN rowTime
        /\ Ordered(given)
        /\ \A k \in 1 .. Len(given), i \in DOMAIN rowTime : After(i, NoCursor) => Precedes(given[k], i)
    BY <1>6 DEF Ordered
  <1>8. walk[w].ends \subseteq DOMAIN rowTime
    BY <1>1 DEF WalkOK
  <1>9. AnswerPage(w, NoCursor, n, given, steady)
    BY <1>2
  <1>10. \A i \in steady : After(i, NoCursor)
    BY <1>4, <1>5
  <1> HIDE DEF steady, given
  <1>11. walk' \in [Walks -> WalkRecord] /\ WalkOK(w)' /\ \A v \in Walks \ {w} : walk'[v] = walk[v]
    BY <1>1, <1>3, <1>4, <1>5, <1>6, <1>7, <1>8, <1>9, <1>10, PageGiven
  <1>12. QED
    BY <1>3, <1>11, OtherWalks

LEMMA NextPageOK ==
    ASSUME SearchIInv, NEW w \in Walks, walk[w].at = "page", NEW n \in Limits,
           AnswerPage(w, walk[w].cursor, n, walk[w].given, walk[w].steady), UNCHANGED <<rowTime, matching, listTime>>
    PROVE  SearchIInv'
  <1> DEFINE given == walk[w].given
             steady == walk[w].steady
             cursor == walk[w].cursor
             e == given[Len(given)]
  <1>1. RowTypes /\ walk \in [Walks -> WalkRecord] /\ WalkOK(w)
    BY DEF SearchIInv
  <1>2. given \in Seq(RowIds) /\ steady \in SUBSET RowIds /\ cursor \in [at : Nat, id : Nat] /\ Len(given) \in Nat
    <2>1. walk[w] \in WalkRecord
      BY <1>1
    <2>2. given \in Seq(RowIds) /\ steady \in SUBSET RowIds /\ cursor \in [at : Nat, id : Nat]
      BY <2>1 DEF WalkRecord
    <2>3. QED
      BY <2>2, LenProperties
  <1>3. /\ \A k \in 1 .. Len(given) : given[k] \in DOMAIN rowTime
        /\ Ordered(given) /\ Len(given) > 0 /\ cursor = EncodeCursor(e)
        /\ walk[w].ends \subseteq DOMAIN rowTime /\ steady \subseteq matching \cap walk[w].list
        /\ \A i \in steady : \/ \E k \in 1 .. Len(given) : given[k] = i
                             \/ SteppedOver(w, i) \/ After(i, cursor)
    BY <1>1 DEF WalkOK, Given
  <1>4. AnswerPage(w, cursor, n, given, steady)
    OBVIOUS
  <1> HIDE DEF given, steady, cursor
  <1>5. ASSUME NEW k \in 1 .. Len(given), NEW i \in DOMAIN rowTime, After(i, cursor) PROVE Precedes(given[k], i)
    <2>1. Len(given) \in 1 .. Len(given)
      BY <1>2, <1>3
    <2>2. e \in DOMAIN rowTime /\ Precedes(e, i)
      BY <1>1, <1>3, <1>5, <2>1, CursorAfter
    <2>3. k = Len(given) \/ Precedes(given[k], e)
      BY <1>2, <1>3, <2>1 DEF Ordered
    <2>4. QED
      BY <1>1, <1>3, <2>2, <2>3, PrecedesOrder
  <1> HIDE DEF e
  <1>6. walk' \in [Walks -> WalkRecord] /\ WalkOK(w)' /\ \A v \in Walks \ {w} : walk'[v] = walk[v]
    BY <1>1, <1>2, <1>3, <1>4, <1>5, PageGiven
  <1>7. QED
    BY <1>6, OtherWalks

LEMMA SearchStep == SearchIInv /\ [SearchNext]_searchVars => SearchIInv'
  <1> SUFFICES ASSUME SearchIInv, [SearchNext]_searchVars PROVE SearchIInv'
    OBVIOUS
  <1>1. ASSUME UNCHANGED <<rowTime, matching, walk>>, listTime' \in 0 .. LastListTime PROVE SearchIInv'
    <2>1. RowTypes'
      BY <1>1 DEF SearchIInv, RowTypes
    <2>2. walk' = [w \in Walks |-> [walk[w] EXCEPT !.steady = walk[w].steady \ {}]]
      BY <1>1, NobodyGone
    <2>3. /\ matching \subseteq {} \cup matching'
          /\ \A j \in DOMAIN rowTime : j \in DOMAIN rowTime' /\ rowTime'[j] = rowTime[j]
      BY <1>1
    <2>4. QED
      BY <2>1, <2>2, <2>3, RowsMove
  <1>2. listTime \in 0 .. LastListTime /\ matching \subseteq DOMAIN rowTime
    BY DEF SearchIInv, RowTypes
  <1>3. CASE ListClockTicks
    <2>1. listTime' \in 0 .. LastListTime
      BY <1>2, <1>3, LimitsAssumption DEF ListClockTicks
    <2>2. QED
      BY <1>1, <1>3, <2>1 DEF ListClockTicks
  <1>4. ASSUME NEW i \in RowIds, VaultChanges(i) PROVE SearchIInv'
    <2>1. Unsteady(i) /\ UNCHANGED <<rowTime, listTime>> /\ i \in DOMAIN rowTime
      BY <1>4 DEF VaultChanges
    <2>2. matching \ {i} \subseteq matching' /\ matching' \subseteq DOMAIN rowTime
      BY <1>2, <1>4, <2>1 DEF VaultChanges
    <2>3. QED
      BY <2>1, <2>2, RowHidden
  <1>5. ASSUME NEW i \in RowIds, NoticeRead(i) PROVE SearchIInv'
    <2>1. Unsteady(i) /\ UNCHANGED <<rowTime, listTime>>
      BY <1>5 DEF NoticeRead
    <2>2. matching \ {i} \subseteq matching' /\ matching' \subseteq DOMAIN rowTime
      BY <1>2, <1>5 DEF NoticeRead
    <2>3. QED
      BY <2>1, <2>2, RowHidden
  <1>6. ASSUME NEW w \in Walks, NextSearchPage(w) PROVE SearchIInv'
    BY <1>6, NextPageOK DEF NextSearchPage
  <1>7. ASSUME NEW w \in Walks, NextNoticePage(w) PROVE SearchIInv'
    BY <1>7, NextPageOK DEF NextNoticePage
  <1>8. CASE UNCHANGED searchVars
    BY <1>1, <1>2, <1>8 DEF searchVars
  <1>9. QED
    BY <1>3, <1>4, <1>5, <1>6, <1>7, <1>8, RowAppearsOK, FirstPageOK DEF SearchNext

LEMMA SearchInitOK == SearchInit => SearchIInv
  <1> SUFFICES ASSUME SearchInit PROVE SearchIInv
    OBVIOUS
  <1>1. DOMAIN rowTime = {} /\ matching = {} /\ listTime = 0
    BY DEF SearchInit
  <1>2. RowTypes
    BY <1>1, FS_EmptySet, LimitsAssumption DEF RowTypes
  <1>3. NoCursor \in [at : Nat, id : Nat]
    BY LimitsAssumption DEF NoCursor
  <1>4. ASSUME NEW w \in Walks
        PROVE  /\ walk[w] \in WalkRecord
               /\ walk[w].at = "idle" /\ walk[w].given = <<>> /\ walk[w].steady = {} /\ walk[w].ends = {}
    <2>1. walk[w] \in [at : {"idle"}, list : Listings, cursor : {NoCursor},
                       given : {<<>>}, steady : {{}}, ends : {{}}]
      BY DEF SearchInit
    <2>2. PICK r \in [at : {"idle"}, list : Listings, cursor : {NoCursor},
                      given : {<<>>}, steady : {{}}, ends : {{}}] : walk[w] = r
      BY <2>1
    <2>3. /\ r.at = "idle" /\ r.given = <<>> /\ r.steady = {} /\ r.ends = {}
          /\ r.list \in Listings /\ r.cursor \in [at : Nat, id : Nat]
          /\ r = [at |-> r.at, list |-> r.list, cursor |-> r.cursor, given |-> r.given,
                  steady |-> r.steady, ends |-> r.ends]
      BY <1>3
    <2>4. <<>> \in Seq(RowIds)
      OBVIOUS
    <2>5. r \in WalkRecord
      BY <2>3, <2>4 DEF WalkRecord
    <2>6. QED
      BY <2>2, <2>3, <2>5
  <1>5. walk \in [Walks -> WalkRecord]
    BY <1>4 DEF SearchInit
  <1>6. \A w \in Walks : WalkOK(w)
    BY <1>4 DEF WalkOK, Ordered
  <1>7. QED
    BY <1>2, <1>5, <1>6 DEF SearchIInv

LEMMA ListedInOrder == SearchIInv => ListedOnce
  <1> SUFFICES ASSUME SearchIInv, NEW w \in Walks
               PROVE  /\ IsInjective(walk[w].given)
                      /\ walk[w].at = "done" =>
                           \A i \in walk[w].steady :
                             (\E k \in DOMAIN walk[w].given : walk[w].given[k] = i) \/ SteppedOver(w, i)
    BY DEF ListedOnce
  <1> DEFINE g == walk[w].given
  <1>1. RowTypes /\ WalkOK(w) /\ g \in Seq(RowIds)
    BY DEF SearchIInv, WalkRecord
  <1>2. DOMAIN g = 1 .. Len(g) /\ Len(g) \in Nat
    BY <1>1, LenProperties
  <1>3. /\ \A k \in 1 .. Len(g) : g[k] \in DOMAIN rowTime
        /\ \A k, l \in 1 .. Len(g) : k < l => Precedes(g[k], g[l])
    BY <1>1 DEF WalkOK, Ordered
  <1>4. walk[w].at = "done" => \A i \in walk[w].steady : (\E k \in 1 .. Len(g) : g[k] = i) \/ SteppedOver(w, i)
    BY <1>1 DEF WalkOK, Given
  <1> HIDE DEF g
  <1>5. \A k, l \in 1 .. Len(g) : k < l => g[k] # g[l]
    BY <1>1, <1>3, PrecedesOrder
  <1>6. \A k, l \in 1 .. Len(g) : g[k] = g[l] => k = l
    BY <1>2, <1>5
  <1>7. QED
    BY <1>2, <1>4, <1>6 DEF IsInjective, g

\* orgVaults.ts, GET /:orgId/vaults/search, and notification.ts, listUserNotifications:
\* for any rows, walks, page sizes and clocks, a walk is given no row twice, and at its
\* end every row that stayed, but for those the cursor's truncated time steps over.
THEOREM WalksListOnce == SearchSpec => []ListedOnce
  BY SearchInitOK, SearchStep, ListedInOrder, PTL DEF SearchSpec
=============================================================================
