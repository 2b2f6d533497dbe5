----------------------------- MODULE AccessProofs -----------------------------
(***************************************************************************)
(* TLAPS proofs about what a caller is shown or let through to: the status *)
(* that the contract's events leave in the rows, the cached answers of a   *)
(* feature flag, invitations, the requests for exports and the exports     *)
(* themselves.  Each has an inductive invariant of its own.                *)
(***************************************************************************)
EXTENDS EventParser, Invitations, FeatureFlags, ExportRequests, DataExport, FiniteSetTheorems,
        TLAPS

-----------------------------------------------------------------------------
(* EventParser *)

\* What the row of a vault says whose events were all whole records.
Heard(v) ==
    /\ onChain[v] # "None" => shown[v] # "none"
    /\ IF onChain[v] \in ChainEnds THEN v \in byAdmin \/ shown[v] = RowOf[onChain[v]]
       ELSE shown[v] \in {"none", "draft", "active"}
ParserIInv ==
    /\ ParserTypeOK
    /\ outcome # "unroutable"
    /\ \A v \in ChainVaults \ unheard : Heard(v)

\* The types of the topics that the contract publishes.
LEMMA PublishedTypes ==
    /\ Alias("vault_created") = "vault_created" /\ Alias("vault_completed") = "vault_completed"
    /\ Alias("vault_slashed") = "vault_failed"
    /\ Alias("vault_withdrawn") = "vault_cancelled" /\ Alias("vault_cancelled") = "vault_cancelled"
    /\ \A topic \in {"vault_staked", "milestone_checked_in", "deadline_extended", "vault_paused",
                     "milestone_disputed", "vault_unpaused", "milestone_claimed",
                     "vault_disputed", "vault_dispute_resolved"} : Alias(topic) = "unknown"
  BY DEF Alias, TOPIC_ALIAS

\* A delivered event moves at most the row of its vault, and is routed if it parses.
LEMMA DeliverTypes ==
    ASSUME ParserTypeOK, NEW v \in ChainVaults, NEW raw, Deliver(v, raw)
    PROVE  /\ outcome' \in {"none", "dropped", "unroutable", "processed"}
           /\ outcome' # "unroutable"
           /\ shown' \in [ChainVaults -> {"none", "draft", "active", "completed", "failed",
                                          "cancelled"}]
           /\ \A u \in ChainVaults : u # v => shown'[u] = shown[u]
           /\ shown'[v] = IF Parses(raw) THEN RowAfter(Alias(raw.topic), shown[v]) ELSE shown[v]
  <1>1. Parses(raw) => Alias(raw.topic) # "settlement_summary"
    BY DEF Parses, VaultPayload, MilestonePayload, ValidationPayload
  <1>2. \A type, status : status \in {"none", "draft", "active", "completed", "failed", "cancelled"}
            => RowAfter(type, status) \in {"none", "draft", "active", "completed", "failed",
                                           "cancelled"}
    BY DEF RowAfter
  <1>3. QED
    BY <1>1, <1>2 DEF Deliver, Outcome, ParserTypeOK

\* What an event of the contract leaves in the row of its vault when it is a
\* whole record, by its topic.
LEMMA PublishEffect ==
    ASSUME ParserTypeOK, NEW v \in ChainVaults, NEW value \in EventValues, NEW topic,
           Publish(v, topic, value)
    PROVE  /\ outcome' \in {"none", "dropped", "processed"}
           /\ unheard \subseteq unheard' /\ unheard' \subseteq ChainVaults
           /\ shown' \in [ChainVaults -> {"none", "draft", "active", "completed", "failed",
                                          "cancelled"}]
           /\ \A u \in ChainVaults : u # v => shown'[u] = shown[u]
           /\ v \notin unheard' =>
                /\ shown'[v] = "none" => shown[v] = "none" /\ topic # "vault_created"
                /\ Alias(topic) = "vault_created"
                      => shown'[v] = IF shown[v] = "none" THEN "active" ELSE shown[v]
                /\ Alias(topic) = "vault_completed" /\ shown[v] # "none"
                      => shown'[v] = "completed"
                /\ Alias(topic) = "vault_failed" /\ shown[v] # "none" => shown'[v] = "failed"
                /\ Alias(topic) = "vault_cancelled" /\ shown[v] # "none"
                      => shown'[v] = "cancelled"
                /\ Alias(topic) = "unknown" => shown'[v] = shown[v]
  <1> DEFINE raw == [whole |-> TRUE, topic |-> topic, value |-> value]
  <1>1. Deliver(v, raw)
    BY DEF Publish
  <1>2. raw.whole /\ raw.topic = topic /\ raw.value = value
    OBVIOUS
  <1> HIDE DEF raw
  <1>3. /\ outcome' \in {"none", "dropped", "processed"}
        /\ shown' \in [ChainVaults -> {"none", "draft", "active", "completed", "failed",
                                       "cancelled"}]
        /\ \A u \in ChainVaults : u # v => shown'[u] = shown[u]
        /\ shown'[v] = IF Parses(raw) THEN RowAfter(Alias(topic), shown[v]) ELSE shown[v]
    BY <1>1, <1>2, DeliverTypes
  <1>4. unheard \subseteq unheard' /\ unheard' \subseteq ChainVaults
        /\ (v \notin unheard' => value \in {"complete", "otherStatus"})
    BY DEF Publish, ParserTypeOK
  <1>5. CASE Alias(topic) \in {"vault_created", "vault_completed", "vault_failed",
                               "vault_cancelled"}
    <2>1. v \notin unheard' => Parses(raw)
      BY <1>2, <1>4, <1>5 DEF Parses, VaultPayload
    <2>2. QED
      BY <1>3, <1>4, <1>5, <2>1, PublishedTypes DEF RowAfter
  <1>6. CASE Alias(topic) \notin {"vault_created", "vault_completed", "vault_failed",
                                  "vault_cancelled"}
    <2>1. Alias(topic) = "unknown" => ~Parses(raw)
      BY <1>2 DEF Parses, VaultPayload, MilestonePayload, ValidationPayload
    <2>2. shown'[v] = shown[v]
      BY <1>3, <1>6 DEF RowAfter
    <2>3. QED
      BY <1>3, <1>4, <1>6, <2>2, PublishedTypes
  <1>7. QED
    BY <1>5, <1>6

\* A vault of which nothing has changed is shown as it was.
LEMMA HeardKept ==
    ASSUME NEW u, Heard(u), onChain'[u] = onChain[u], shown'[u] = shown[u],
           u \in byAdmin => u \in byAdmin'
    PROVE  Heard(u)'
  BY DEF Heard

\* A call that moves a vault to another status keeps the invariant when its
\* event leaves the row that the status asks for.
LEMMA MoveKeeps ==
    ASSUME ParserIInv, NEW v \in ChainVaults, NEW value \in EventValues, NEW topic,
           NEW from \in SUBSET ChainStatus, NEW to \in ChainStatus \ {"None"},
           Moves(v, from, to), Publish(v, topic, value),
           \/ topic = "vault_created" /\ from = {"None"} /\ to = "Draft"
           \/ /\ Alias(topic) = "unknown" /\ to \notin ChainEnds
              /\ from \cap (ChainEnds \cup {"None"}) = {}
           \/ /\ Alias(topic) = "vault_completed" /\ to = "Completed" /\ "None" \notin from
           \/ /\ Alias(topic) = "vault_failed" /\ to = "Failed" /\ "None" \notin from
           \/ /\ Alias(topic) = "vault_cancelled" /\ to = "Cancelled" /\ "None" \notin from
    PROVE  ParserIInv'
  <1>1. /\ onChain' \in [ChainVaults -> ChainStatus]
        /\ \A u \in ChainVaults : u # v => onChain'[u] = onChain[u] /\ (u \in byAdmin => u \in byAdmin')
        /\ onChain[v] \in from /\ onChain'[v] = to
        /\ byAdmin' \subseteq ChainVaults
    BY DEF Moves, ParserIInv, ParserTypeOK
  <1>2. ASSUME NEW u \in ChainVaults \ unheard'
        PROVE  Heard(u)'
    <2>1. Heard(u)
      BY <1>2, PublishEffect DEF ParserIInv
    <2>2. CASE u # v
      BY <1>1, <2>1, <2>2, PublishEffect, HeardKept DEF ParserIInv
    <2>3. CASE u = v
      BY <1>1, <1>2, <2>1, <2>3, PublishEffect, PublishedTypes
         DEF ParserIInv, Heard, ChainEnds, ChainStatus, RowOf
    <2>4. QED
      BY <2>2, <2>3
  <1>3. QED
    BY <1>1, <1>2, PublishEffect DEF ParserIInv, ParserTypeOK

\* A call that leaves the status alone leaves the row alone too.
LEMMA StayKeeps ==
    ASSUME ParserIInv, NEW v \in ChainVaults, NEW value \in EventValues, NEW topic, NEW from,
           Stays(v, from), Publish(v, topic, value), Alias(topic) = "unknown"
    PROVE  ParserIInv'
  <1>1. \A u \in ChainVaults \ unheard' : Heard(u)'
    BY PublishEffect, HeardKept DEF ParserIInv, Stays
  <1>2. QED
    BY <1>1, PublishEffect DEF ParserIInv, ParserTypeOK, Stays

LEMMA AdminResolveKeeps ==
    ASSUME ParserIInv, NEW v \in ChainVaults, NEW value \in EventValues,
           NEW to \in {"Active", "Completed", "Failed"}, AdminResolve(v, to, value)
    PROVE  ParserIInv'
  <1>1. /\ Publish(v, "vault_dispute_resolved", value)
        /\ Alias("vault_dispute_resolved") = "unknown"
    BY PublishedTypes DEF AdminResolve
  <1>2. /\ onChain' \in [ChainVaults -> ChainStatus]
        /\ \A u \in ChainVaults : u # v => onChain'[u] = onChain[u]
        /\ onChain[v] = "Disputed" /\ onChain'[v] = to
        /\ byAdmin' = byAdmin \cup {v}
    BY DEF AdminResolve, ParserIInv, ParserTypeOK, ChainStatus, ChainEnds
  <1>3. ASSUME NEW u \in ChainVaults \ unheard'
        PROVE  Heard(u)'
    <2>1. Heard(u) /\ shown'[u] = shown[u]
      BY <1>1, <1>3, PublishEffect DEF ParserIInv
    <2>2. QED
      BY <1>2, <2>1 DEF Heard, ChainEnds
  <1>4. QED
    BY <1>1, <1>2, <1>3, PublishEffect DEF ParserIInv, ParserTypeOK

\* What else the stream brings does not move the row of a vault.
LEMMA StrayKeeps ==
    ASSUME ParserIInv, NEW v \in ChainVaults, NEW raw,
           DeliverStray(v, raw)
    PROVE  ParserIInv'
  <1>1. Parses(raw) => Alias(raw.topic) \notin {"vault_created", "vault_completed",
                                               "vault_failed", "vault_cancelled"}
                       \/ raw.topic = "vault_failed"
    BY DEF Parses, DeliverStray, Alias, TOPIC_ALIAS
  <1>2. Parses(raw) => raw.topic # "vault_failed"
    BY DEF Parses, DeliverStray
  <1>3. \A u \in ChainVaults : shown'[u] = shown[u]
    BY <1>1, <1>2, DeliverTypes DEF DeliverStray, ParserIInv, RowAfter
  <1>4. \A u \in ChainVaults \ unheard' : Heard(u)'
    BY <1>3, HeardKept DEF DeliverStray, ParserIInv
  <1>5. QED
    BY <1>4, DeliverTypes DEF DeliverStray, ParserIInv, ParserTypeOK

LEMMA ParserStep == ParserIInv /\ [ParserNext]_parserVars => ParserIInv'
  <1> SUFFICES ASSUME ParserIInv, [ParserNext]_parserVars PROVE ParserIInv'
    OBVIOUS
  <1>1. CASE UNCHANGED parserVars
    BY <1>1 DEF parserVars, ParserIInv, ParserTypeOK, Heard
  <1>2. CASE ParserNext
    <2> PICK v \in ChainVaults, value \in EventValues :
            \/ CreateVault(v, value) \/ Stake(v, value) \/ CheckIn(v, value)
            \/ ExtendDeadline(v, value) \/ DisputeMilestone(v, value)
            \/ Claim(v, value) \/ ClaimMilestone(v, value) \/ SlashOnMiss(v, value)
            \/ Withdraw(v, value) \/ CancelVault(v, value) \/ AdminDispute(v, value)
            \/ \E topic \in {"vault_paused", "vault_unpaused"} : SetPaused(v, topic, value)
            \/ \E to \in {"Active", "Completed", "Failed"} : AdminResolve(v, to, value)
            \/ \E whole \in BOOLEAN, topic \in DOMAIN TOPIC_ALIAS \cup {"none"} :
                   DeliverStray(v, [whole |-> whole, topic |-> topic, value |-> value])
      BY Zenon, <1>2 DEF ParserNext
    <2>1. CASE CreateVault(v, value)
      BY <2>1, MoveKeeps DEF CreateVault, ChainStatus, ChainEnds
    <2>2. CASE Stake(v, value)
      BY <2>2, MoveKeeps, PublishedTypes DEF Stake, ChainStatus, ChainEnds
    <2>3. CASE Claim(v, value)
      BY <2>3, MoveKeeps, PublishedTypes DEF Claim, ChainStatus, ChainEnds
    <2>4. CASE SlashOnMiss(v, value)
      BY <2>4, MoveKeeps, PublishedTypes DEF SlashOnMiss, ChainStatus, ChainEnds
    <2>5. CASE Withdraw(v, value)
      BY <2>5, MoveKeeps, PublishedTypes DEF Withdraw, ChainStatus, ChainEnds
    <2>6. CASE CancelVault(v, value)
      <3>1. /\ Moves(v, ChainStatus \ {"None"}, "Cancelled") /\ Publish(v, "vault_cancelled", value)
            /\ ChainStatus \ {"None"} \in SUBSET ChainStatus
            /\ "Cancelled" \in ChainStatus \ {"None"} /\ "None" \notin ChainStatus \ {"None"}
        BY <2>6 DEF CancelVault, ChainStatus, ChainEnds
      <3>2. QED
        BY <3>1, MoveKeeps, PublishedTypes
    <2>7. CASE AdminDispute(v, value)
      BY <2>7, MoveKeeps, PublishedTypes DEF AdminDispute, ChainStatus, ChainEnds
    <2>8. CASE \/ CheckIn(v, value) \/ ExtendDeadline(v, value) \/ DisputeMilestone(v, value)
               \/ ClaimMilestone(v, value)
               \/ \E topic \in {"vault_paused", "vault_unpaused"} : SetPaused(v, topic, value)
      BY <2>8, StayKeeps, PublishedTypes
         DEF CheckIn, ExtendDeadline, DisputeMilestone, ClaimMilestone, SetPaused
    <2>9. CASE \E to \in {"Active", "Completed", "Failed"} : AdminResolve(v, to, value)
      BY <2>9, AdminResolveKeeps
    <2>10. CASE \E whole \in BOOLEAN, topic \in DOMAIN TOPIC_ALIAS \cup {"none"} :
                   DeliverStray(v, [whole |-> whole, topic |-> topic, value |-> value])
      BY <2>10, StrayKeeps
    <2>11. QED
      BY <2>1, <2>2, <2>3, <2>4, <2>5, <2>6, <2>7, <2>8, <2>9, <2>10
  <1>3. QED
    BY <1>1, <1>2

\* eventParser.ts and eventProcessor.ts: the row of a vault shows an end exactly
\* when its vault has ended, and the same one, whatever calls the contract takes
\* and whatever else the stream brings.
THEOREM RowsShowEnds == ParserSpec => []EndsAreShown
  <1>1. ParserInit => ParserIInv
    BY DEF ParserInit, ParserIInv, ParserTypeOK, Heard, ChainStatus, ChainEnds
  <1>2. ParserIInv => EndsAreShown
    BY DEF ParserIInv, EndsAreShown, Heard
  <1>3. QED
    BY <1>1, <1>2, ParserStep, PTL DEF ParserSpec

-----------------------------------------------------------------------------
(* FeatureFlags *)

\* What a lookup has read is what the rows say, unless it is late.
LookupOK(g) ==
    LET l == lookup[g]
    IN  /\ l.at # "idle" => l.server \in Servers
        /\ l.at = "org" => ~l.late /\ l.saw = "none"
        /\ l.at \in {"org", "orgRead"} => l.owner # Global
        /\ l.at = "orgRead" /\ ~l.late => l.saw = flag[l.owner]
        /\ l.at \in {"global", "globalRead"} /\ ~l.late
              => l.owner = Global \/ flag[l.owner] = "none"
        /\ l.at = "globalRead" /\ ~l.late => l.saw = flag[Global]
        /\ l.at = "globalRead" => l.saw # "none"
SettingOK(w) ==
    setting[w].at # "idle" => setting[w].server \in Servers /\ setting[w].to \in FlagValues
Invalidating(s) == \E w \in Settings : setting[w].at = "invalidate" /\ setting[w].server = s
Current(s, o) ==
    \/ cached[s][o].value \in {"none", Evaluate(o)}
    \/ cached[s][o].late
    \/ Invalidating(s)
FlagIInv ==
    /\ FlagTypeOK
    /\ flag[Global] # "none"
    /\ \A g \in Lookups : LookupOK(g)
    /\ \A w \in Settings : SettingOK(w)
    /\ \A s \in Servers, o \in Owners : Current(s, o)

CacheEntry == [value : FlagValues \cup {"none"}, late : BOOLEAN]
LookupRecord == [at : {"idle", "org", "orgRead", "global", "globalRead"},
                 server : Servers \cup {0}, owner : Owners,
                 saw : FlagValues \cup {"none"}, late : BOOLEAN]
SettingRecord == [at : {"idle", "insert", "invalidate"}, server : Servers \cup {0},
                  owner : Owners, to : FlagValues \cup {"none"}]

LEMMA FlagTypes ==
    FlagTypeOK <=> /\ flag \in [Owners -> FlagValues \cup {"none"}]
                   /\ cached \in [Servers -> [Owners -> CacheEntry]]
                   /\ lookup \in [Lookups -> LookupRecord]
                   /\ setting \in [Settings -> SettingRecord]
  BY DEF FlagTypeOK, CacheEntry, LookupRecord, SettingRecord

LEMMA FlagTypesNext ==
    FlagTypeOK' <=> /\ flag' \in [Owners -> FlagValues \cup {"none"}]
                    /\ cached' \in [Servers -> [Owners -> CacheEntry]]
                    /\ lookup' \in [Lookups -> LookupRecord]
                    /\ setting' \in [Settings -> SettingRecord]
  BY DEF FlagTypeOK, CacheEntry, LookupRecord, SettingRecord

LEMMA NoneUnderWay ==
    /\ NoLookup \in LookupRecord /\ NoLookup.at = "idle"
    /\ NoSetting \in SettingRecord /\ NoSetting.at = "idle"
    /\ Uncached \in CacheEntry /\ Uncached.value = "none"
  BY DEF NoLookup, LookupRecord, NoSetting, SettingRecord, Uncached, CacheEntry, Owners

\* A lookup that changes alone, from a record that is in order to another one.
LEMMA LookupBecomes ==
    ASSUME FlagIInv, NEW g \in Lookups, NEW l \in LookupRecord, UNCHANGED <<flag, setting>>,
           lookup' = [lookup EXCEPT ![g] = l],
           /\ l.at # "idle" => l.server \in Servers
           /\ l.at = "org" => ~l.late /\ l.saw = "none"
           /\ l.at \in {"org", "orgRead"} => l.owner # Global
           /\ l.at = "orgRead" /\ ~l.late => l.saw = flag[l.owner]
           /\ l.at \in {"global", "globalRead"} /\ ~l.late
                 => l.owner = Global \/ flag[l.owner] = "none"
           /\ l.at = "globalRead" /\ ~l.late => l.saw = flag[Global]
           /\ l.at = "globalRead" => l.saw # "none"
    PROVE  /\ lookup' \in [Lookups -> LookupRecord]
           /\ \A k \in Lookups : LookupOK(k)'
           /\ \A w \in Settings : SettingOK(w)'
  <1>1. lookup' \in [Lookups -> LookupRecord] /\ lookup'[g] = l
        /\ \A k \in Lookups : k # g => lookup'[k] = lookup[k]
    BY FlagTypes DEF FlagIInv
  <1>2. QED
    BY <1>1 DEF FlagIInv, LookupOK, SettingOK

\* The cache, when it alone and lookups have changed.
LEMMA CacheKeeps ==
    ASSUME FlagIInv, UNCHANGED <<flag, setting>>, cached' \in [Servers -> [Owners -> CacheEntry]],
           NEW s \in Servers, NEW o \in Owners,
           \/ cached'[s][o] = cached[s][o] \/ cached'[s][o].value = "none"
           \/ cached'[s][o].late \/ cached'[s][o].value = Evaluate(o)
    PROVE  Current(s, o)'
  <1>1. Evaluate(o)' = Evaluate(o)
    BY DEF Evaluate, EvaluateTargeted
  <1>2. Invalidating(s)' = Invalidating(s)
    BY DEF Invalidating
  <1>3. QED
    BY <1>1, <1>2 DEF Current, FlagIInv

LEMMA StartLookupKeeps ==
    ASSUME FlagIInv, NEW g \in Lookups, NEW s \in Servers, NEW o \in Owners, StartLookup(g, s, o)
    PROVE  FlagIInv'
  <1> DEFINE l == [NoLookup EXCEPT !.at = IF o = Global THEN "global" ELSE "org",
                                   !.server = s, !.owner = o]
  <1>1. /\ l \in LookupRecord /\ l.at = (IF o = Global THEN "global" ELSE "org")
        /\ l.server = s /\ l.owner = o /\ ~l.late /\ l.saw = "none"
    BY DEF LookupRecord, NoLookup
  <1>2. /\ lookup' = [lookup EXCEPT ![g] = l]
        /\ UNCHANGED <<flag, setting>> /\ cached' = cached
    BY DEF StartLookup
  <1> HIDE DEF l
  <1>3. /\ lookup' \in [Lookups -> LookupRecord]
        /\ \A k \in Lookups : LookupOK(k)'
        /\ \A w \in Settings : SettingOK(w)'
    BY <1>1, <1>2, LookupBecomes
  <1>4. cached' \in [Servers -> [Owners -> CacheEntry]]
    BY <1>2, FlagTypes DEF FlagIInv
  <1>5. \A t \in Servers, k \in Owners : Current(t, k)'
    BY <1>2, <1>4, CacheKeeps
  <1>6. QED
    BY <1>2, <1>3, <1>4, <1>5, FlagTypes, FlagTypesNext DEF FlagIInv

LEMMA ReadOrgRowKeeps ==
    ASSUME FlagIInv, NEW g \in Lookups, ReadOrgRow(g)
    PROVE  FlagIInv'
  <1>1. /\ lookup[g] \in LookupRecord /\ lookup[g].at = "org" /\ LookupOK(g)
        /\ flag[lookup[g].owner] \in FlagValues \cup {"none"}
    BY FlagTypes DEF FlagIInv, LookupRecord, ReadOrgRow
  <1>2. PICK l \in LookupRecord :
           /\ lookup' = [lookup EXCEPT ![g] = l]
           /\ l.at = "orgRead" /\ l.server = lookup[g].server /\ l.owner = lookup[g].owner
           /\ l.late \/ l.saw = flag[l.owner]
    <2>1. CASE lookup' = [lookup EXCEPT ![g].at = "orgRead", ![g].saw = flag[lookup[g].owner]]
      <3> DEFINE l == [lookup[g] EXCEPT !.at = "orgRead", !.saw = flag[lookup[g].owner]]
      <3>1. l \in LookupRecord /\ l.at = "orgRead" /\ l.server = lookup[g].server
            /\ l.owner = lookup[g].owner /\ l.saw = flag[l.owner]
        BY <1>1 DEF LookupRecord
      <3>2. lookup' = [lookup EXCEPT ![g] = l]
        BY <2>1, FlagTypes DEF FlagIInv, LookupRecord
      <3>3. QED
        BY <3>1, <3>2
    <2>2. CASE lookup' = [lookup EXCEPT ![g].at = "orgRead", ![g].late = TRUE]
      <3> DEFINE l == [lookup[g] EXCEPT !.at = "orgRead", !.late = TRUE]
      <3>1. l \in LookupRecord /\ l.at = "orgRead" /\ l.server = lookup[g].server
            /\ l.owner = lookup[g].owner /\ l.late
        BY <1>1 DEF LookupRecord
      <3>2. lookup' = [lookup EXCEPT ![g] = l]
        BY <2>2, FlagTypes DEF FlagIInv, LookupRecord
      <3>3. QED
        BY <3>1, <3>2
    <2>3. QED
      BY <2>1, <2>2 DEF ReadOrgRow
  <1>3. UNCHANGED <<flag, setting>> /\ cached' = cached
    BY DEF ReadOrgRow
  <1>4. /\ lookup' \in [Lookups -> LookupRecord]
        /\ \A k \in Lookups : LookupOK(k)'
        /\ \A w \in Settings : SettingOK(w)'
    BY <1>1, <1>2, <1>3, LookupBecomes DEF LookupOK
  <1>5. cached' \in [Servers -> [Owners -> CacheEntry]]
    BY <1>3, FlagTypes DEF FlagIInv
  <1>6. \A t \in Servers, k \in Owners : Current(t, k)'
    BY <1>3, <1>5, CacheKeeps
  <1>7. QED
    BY <1>3, <1>4, <1>5, <1>6, FlagTypes, FlagTypesNext DEF FlagIInv

LEMMA ReadGlobalRowKeeps ==
    ASSUME FlagIInv, NEW g \in Lookups, ReadGlobalRow(g)
    PROVE  FlagIInv'
  <1>1. /\ lookup[g] \in LookupRecord /\ lookup[g].at = "global" /\ LookupOK(g)
        /\ flag[Global] \in FlagValues
    BY FlagTypes DEF FlagIInv, LookupRecord, ReadGlobalRow, Owners
  <1>2. PICK l \in LookupRecord :
           /\ lookup' = [lookup EXCEPT ![g] = l]
           /\ \/ l.at = "idle"
              \/ /\ l.at = "globalRead" /\ l.server = lookup[g].server
                 /\ l.owner = lookup[g].owner /\ l.saw = flag[Global] /\ l.late = lookup[g].late
    <2>1. CASE lookup' = [lookup EXCEPT ![g].at = "globalRead", ![g].saw = flag[Global]]
      <3> DEFINE l == [lookup[g] EXCEPT !.at = "globalRead", !.saw = flag[Global]]
      <3>1. l \in LookupRecord /\ l.at = "globalRead" /\ l.server = lookup[g].server
            /\ l.owner = lookup[g].owner /\ l.saw = flag[Global] /\ l.late = lookup[g].late
        BY <1>1 DEF LookupRecord
      <3>2. lookup' = [lookup EXCEPT ![g] = l]
        BY <2>1, FlagTypes DEF FlagIInv, LookupRecord
      <3>3. QED
        BY <3>1, <3>2
    <2>2. CASE EndLookup(g)
      BY <2>2, NoneUnderWay DEF EndLookup
    <2>3. QED
      BY <2>1, <2>2 DEF ReadGlobalRow
  <1>3. UNCHANGED <<flag, setting>> /\ cached' = cached
    BY DEF ReadGlobalRow
  <1>4. /\ lookup' \in [Lookups -> LookupRecord]
        /\ \A k \in Lookups : LookupOK(k)'
        /\ \A w \in Settings : SettingOK(w)'
    BY <1>1, <1>2, <1>3, LookupBecomes DEF LookupOK, FlagValues
  <1>5. cached' \in [Servers -> [Owners -> CacheEntry]]
    BY <1>3, FlagTypes DEF FlagIInv
  <1>6. \A t \in Servers, k \in Owners : Current(t, k)'
    BY <1>3, <1>5, CacheKeeps
  <1>7. QED
    BY <1>3, <1>4, <1>5, <1>6, FlagTypes, FlagTypesNext DEF FlagIInv

\* What a lookup that is not late puts into the cache is what the rows say.
LEMMA FillKeeps ==
    ASSUME FlagIInv, NEW g \in Lookups, NEW value \in FlagValues,
           UNCHANGED <<flag, setting>>, Fill(g, value), lookup[g].server \in Servers,
           lookup[g].late \/ value = Evaluate(lookup[g].owner)
    PROVE  /\ cached' \in [Servers -> [Owners -> CacheEntry]]
           /\ \A s \in Servers, o \in Owners : Current(s, o)'
  <1>1. lookup[g] \in LookupRecord /\ lookup[g].late \in BOOLEAN /\ lookup[g].owner \in Owners
    BY FlagTypes DEF FlagIInv, LookupRecord
  <1> DEFINE filled == [value |-> value, late |-> lookup[g].late]
  <1>2. filled \in CacheEntry /\ (filled.late \/ filled.value = Evaluate(lookup[g].owner))
    BY <1>1 DEF CacheEntry
  <1>3. cached' = [cached EXCEPT ![lookup[g].server][lookup[g].owner] = filled]
    BY DEF Fill
  <1> HIDE DEF filled
  <1>4. cached \in [Servers -> [Owners -> CacheEntry]]
    BY FlagTypes DEF FlagIInv
  <1>5. cached' \in [Servers -> [Owners -> CacheEntry]]
    BY <1>1, <1>2, <1>3, <1>4
  <1>6. ASSUME NEW s \in Servers, NEW o \in Owners
        PROVE  \/ cached'[s][o] = cached[s][o]
               \/ cached'[s][o].late \/ cached'[s][o].value = Evaluate(o)
    BY <1>1, <1>2, <1>3, <1>4
  <1>7. QED
    BY <1>5, <1>6, CacheKeeps

LEMMA EndLookupKeeps ==
    ASSUME FlagIInv, NEW g \in Lookups, UNCHANGED <<flag, setting>>, EndLookup(g)
    PROVE  /\ lookup' \in [Lookups -> LookupRecord]
           /\ \A k \in Lookups : LookupOK(k)'
           /\ \A w \in Settings : SettingOK(w)'
  BY NoneUnderWay, LookupBecomes DEF EndLookup

LEMMA TakeOrgRowKeeps ==
    ASSUME FlagIInv, NEW g \in Lookups, TakeOrgRow(g)
    PROVE  FlagIInv'
  <1>1. /\ lookup[g] \in LookupRecord /\ lookup[g].at = "orgRead" /\ LookupOK(g)
        /\ lookup[g].server \in Servers /\ lookup[g].owner \in Owners
        /\ lookup[g].saw \in FlagValues \cup {"none"}
    BY FlagTypes DEF FlagIInv, LookupRecord, TakeOrgRow, LookupOK
  <1>2. UNCHANGED <<flag, setting>>
    BY DEF TakeOrgRow
  <1>3. CASE lookup[g].saw # "none"
    <2>1. Fill(g, lookup[g].saw) /\ EndLookup(g)
      BY <1>3 DEF TakeOrgRow
    <2>2. lookup[g].late \/ lookup[g].saw = Evaluate(lookup[g].owner)
      BY <1>1, <1>3 DEF LookupOK, Evaluate
    <2>3. lookup[g].saw \in FlagValues
      BY <1>1, <1>3
    <2>4. /\ cached' \in [Servers -> [Owners -> CacheEntry]]
          /\ \A s \in Servers, o \in Owners : Current(s, o)'
      BY <1>1, <1>2, <2>1, <2>2, <2>3, FillKeeps
    <2>5. QED
      BY <1>2, <2>1, <2>4, EndLookupKeeps, FlagTypes, FlagTypesNext DEF FlagIInv
  <1>4. CASE lookup[g].saw = "none"
    <2>1. cached' = cached /\ (EndLookup(g) \/ lookup' = [lookup EXCEPT ![g].at = "global"])
      BY <1>4 DEF TakeOrgRow
    <2>2. ASSUME lookup' = [lookup EXCEPT ![g].at = "global"]
          PROVE  /\ lookup' \in [Lookups -> LookupRecord]
                 /\ \A k \in Lookups : LookupOK(k)'
                 /\ \A w \in Settings : SettingOK(w)'
      <3> DEFINE l == [lookup[g] EXCEPT !.at = "global"]
      <3>1. l \in LookupRecord /\ l.at = "global" /\ l.server = lookup[g].server
            /\ l.owner = lookup[g].owner /\ l.saw = lookup[g].saw /\ l.late = lookup[g].late
        BY <1>1 DEF LookupRecord
      <3>2. lookup' = [lookup EXCEPT ![g] = l]
        BY <2>2, FlagTypes DEF FlagIInv, LookupRecord
      <3> HIDE DEF l
      <3>3. /\ lookup' \in [Lookups -> LookupRecord]
            /\ \A k \in Lookups : LookupOK(k)'
            /\ \A w \in Settings : SettingOK(w)'
        BY <1>1, <1>2, <1>4, <3>1, <3>2, LookupBecomes DEF LookupOK
      <3>4. QED
        BY <3>3
    <2>3. /\ lookup' \in [Lookups -> LookupRecord]
          /\ \A k \in Lookups : LookupOK(k)'
          /\ \A w \in Settings : SettingOK(w)'
      BY <1>2, <2>1, <2>2, EndLookupKeeps
    <2>4. cached' \in [Servers -> [Owners -> CacheEntry]]
      BY <2>1, FlagTypes DEF FlagIInv
    <2>5. \A t \in Servers, k \in Owners : Current(t, k)'
      BY <1>2, <2>1, <2>4, CacheKeeps
    <2>6. QED
      BY <1>2, <2>1, <2>3, <2>4, <2>5, FlagTypes, FlagTypesNext DEF FlagIInv
  <1>5. QED
    BY <1>3, <1>4

LEMMA TakeGlobalRowKeeps ==
    ASSUME FlagIInv, NEW g \in Lookups, TakeGlobalRow(g)
    PROVE  FlagIInv'
  <1> DEFINE value == EvaluateTargeted(lookup[g].owner, lookup[g].saw)
  <1>1. /\ lookup[g].at = "globalRead" /\ LookupOK(g) /\ lookup[g] \in LookupRecord
        /\ lookup[g].server \in Servers /\ lookup[g].owner \in Owners
        /\ lookup[g].saw \in FlagValues
    BY FlagTypes DEF FlagIInv, LookupRecord, TakeGlobalRow, LookupOK
  <1>2. UNCHANGED <<flag, setting>> /\ Fill(g, value) /\ EndLookup(g)
    BY DEF TakeGlobalRow
  <1>3. value \in FlagValues
    BY <1>1, FlagAssumption DEF EvaluateTargeted, FlagValues, Owners
  <1>4. lookup[g].late \/ value = Evaluate(lookup[g].owner)
    BY <1>1 DEF LookupOK, Evaluate, EvaluateTargeted, FlagIInv
  <1> HIDE DEF value
  <1>5. /\ cached' \in [Servers -> [Owners -> CacheEntry]]
        /\ \A s \in Servers, o \in Owners : Current(s, o)'
    BY <1>1, <1>2, <1>3, <1>4, FillKeeps
  <1>6. QED
    BY <1>2, <1>5, EndLookupKeeps, FlagTypes, FlagTypesNext DEF FlagIInv

\* A write makes what others have read and cached late, until its own process
\* has been told.
LEMMA WriteKeeps ==
    ASSUME FlagIInv, NEW s \in Servers, NEW o \in Owners, NEW value \in FlagValues,
           Write(s, o, value), setting' \in [Settings -> SettingRecord], Invalidating(s)',
           \A t \in Servers : Invalidating(t) => Invalidating(t)',
           \A w \in Settings : SettingOK(w)'
    PROVE  FlagIInv'
  <1>1. /\ flag' \in [Owners -> FlagValues \cup {"none"}]
        /\ flag'[Global] # "none"
    BY FlagTypes DEF FlagIInv, Write, Owners, FlagValues
  <1>2. ASSUME NEW g \in Lookups
        PROVE  lookup'[g] \in LookupRecord /\ LookupOK(g)'
    <2> DEFINE l == lookup[g]
    <2>1. l \in LookupRecord /\ LookupOK(g)
      BY FlagTypes DEF FlagIInv
    <2>2. CASE HasRead(l, o)
      <3> DEFINE late == [l EXCEPT !.late = TRUE]
      <3>1. lookup'[g] = late
        BY <2>2 DEF Write
      <3>2. /\ late \in LookupRecord /\ late.at = l.at /\ late.server = l.server /\ late.late
            /\ late.owner = l.owner /\ late.saw = l.saw
        BY <2>1 DEF LookupRecord
      <3>3. l.at \in {"orgRead", "global", "globalRead"}
        BY <2>2 DEF HasRead
      <3> HIDE DEF late
      <3>4. QED
        BY <2>1, <3>1, <3>2, <3>3 DEF LookupOK
    <2>3. CASE ~HasRead(l, o)
      <3>1. lookup'[g] = lookup[g]
        BY <2>3 DEF Write
      <3>2. /\ l.at \in {"orgRead", "global", "globalRead"} /\ l.owner # Global =>
                 flag'[l.owner] = flag[l.owner]
            /\ l.at = "globalRead" => flag'[Global] = flag[Global]
        BY <2>1, <2>3, FlagTypes DEF HasRead, LookupRecord, FlagIInv, Write, Owners
      <3>3. l.at \in {"idle", "org", "orgRead", "global", "globalRead"}
        BY <2>1 DEF LookupRecord
      <3>4. QED
        BY <2>1, <3>1, <3>2, <3>3 DEF LookupOK
    <2>4. QED
      BY <2>2, <2>3
  <1>3. lookup' \in [Lookups -> LookupRecord]
    BY <1>2 DEF Write
  <1>4. ASSUME NEW t \in Servers, NEW k \in Owners
        PROVE  cached'[t][k] \in CacheEntry /\ Current(t, k)'
    <2>1. cached[t][k] \in CacheEntry
      BY FlagTypes DEF FlagIInv
    <2>2. CASE t = s
      BY <2>1, <2>2 DEF Write, Current
    <2>3. CASE t # s /\ Answers(o, k) /\ cached[t][k] # Uncached
      BY <2>1, <2>3 DEF Write, Current, CacheEntry
    <2>4. CASE t # s /\ cached[t][k] = Uncached
      BY <2>1, <2>4, NoneUnderWay DEF Write, Current
    <2>5. CASE t # s /\ ~Answers(o, k)
      <3>1. cached'[t][k] = cached[t][k]
        BY <2>5 DEF Write
      <3>2. flag'[k] = flag[k] /\ (flag[k] = "none" => flag'[Global] = flag[Global])
        BY <2>5, FlagTypes DEF Answers, Write, FlagIInv, Owners
      <3>3. Evaluate(k)' = Evaluate(k)
        BY <3>2 DEF Evaluate, EvaluateTargeted
      <3>4. QED
        BY <2>1, <3>1, <3>3 DEF Current, FlagIInv
    <2>6. QED
      BY <2>2, <2>3, <2>4, <2>5
  <1>5. cached' \in [Servers -> [Owners -> CacheEntry]]
    <2>1. \A t \in Servers : cached'[t] \in [Owners -> CacheEntry]
      BY <1>4, FlagTypes DEF Write, FlagIInv
    <2>2. QED
      BY <2>1 DEF Write
  <1>6. QED
    BY <1>1, <1>2, <1>3, <1>4, <1>5, FlagTypesNext DEF FlagIInv

\* A setting that changes alone, from one that is in order to another one.
LEMMA SettingBecomes ==
    ASSUME FlagIInv, NEW w \in Settings, NEW t \in SettingRecord,
           setting' = [setting EXCEPT ![w] = t],
           t.at # "idle" => t.server \in Servers /\ t.to \in FlagValues
    PROVE  /\ setting' \in [Settings -> SettingRecord]
           /\ \A x \in Settings : SettingOK(x)'
           /\ setting'[w] = t
           /\ \A s \in Servers : Invalidating(s) /\ setting[w].at # "invalidate" => Invalidating(s)'
           /\ \A s \in Servers : Invalidating(s) /\ setting[w].server # s => Invalidating(s)'
           /\ t.at = "invalidate" => Invalidating(t.server)'
  <1>1. setting \in [Settings -> SettingRecord]
    BY FlagTypes DEF FlagIInv
  <1>2. /\ setting' \in [Settings -> SettingRecord] /\ setting'[w] = t
        /\ \A x \in Settings : x # w => setting'[x] = setting[x]
    BY <1>1
  <1>3. \A x \in Settings : SettingOK(x)'
    BY <1>2 DEF SettingOK, FlagIInv
  <1>4. QED
    BY <1>2, <1>3 DEF Invalidating

\* The rows, the cache and the lookups stay when a setting has changed that was
\* not about to invalidate.
LEMMA SettingKeeps ==
    ASSUME FlagIInv, UNCHANGED <<flag, lookup, cached>>,
           setting' \in [Settings -> SettingRecord],
           \A x \in Settings : SettingOK(x)',
           \A s \in Servers : Invalidating(s) => Invalidating(s)'
    PROVE  FlagIInv'
  <1>1. \A g \in Lookups : LookupOK(g)'
    BY DEF FlagIInv, LookupOK
  <1>2. \A s \in Servers, o \in Owners : Current(s, o)'
    BY DEF FlagIInv, Current, Evaluate, EvaluateTargeted
  <1>3. QED
    BY <1>1, <1>2, FlagTypes, FlagTypesNext DEF FlagIInv

LEMMA UpdateFlagKeeps ==
    ASSUME FlagIInv, NEW w \in Settings, NEW s \in Servers, NEW o \in Owners,
           NEW value \in FlagValues, UpdateFlag(w, s, o, value)
    PROVE  FlagIInv'
  <1> DEFINE t == [at |-> IF flag[o] = "none" THEN "insert" ELSE "invalidate",
                   server |-> s, owner |-> o, to |-> value]
  <1>1. /\ t \in SettingRecord /\ t.at = (IF flag[o] = "none" THEN "insert" ELSE "invalidate")
        /\ t.server = s /\ t.to = value
    BY DEF SettingRecord
  <1>2. setting' = [setting EXCEPT ![w] = t] /\ setting[w].at = "idle"
    BY DEF UpdateFlag
  <1> HIDE DEF t
  <1>3. /\ setting' \in [Settings -> SettingRecord]
        /\ \A x \in Settings : SettingOK(x)'
        /\ \A r \in Servers : Invalidating(r) => Invalidating(r)'
        /\ t.at = "invalidate" => Invalidating(s)'
    BY <1>1, <1>2, SettingBecomes
  <1>4. CASE flag[o] = "none"
    BY <1>3, <1>4, SettingKeeps DEF UpdateFlag
  <1>5. CASE flag[o] # "none"
    BY <1>1, <1>3, <1>5, WriteKeeps DEF UpdateFlag
  <1>6. QED
    BY <1>4, <1>5

LEMMA InsertFlagKeeps ==
    ASSUME FlagIInv, NEW w \in Settings, InsertFlag(w)
    PROVE  FlagIInv'
  <1>1. /\ setting[w] \in SettingRecord /\ setting[w].at = "insert"
        /\ setting[w].server \in Servers /\ setting[w].to \in FlagValues
        /\ setting[w].owner \in Owners
    BY FlagTypes DEF FlagIInv, InsertFlag, SettingOK, SettingRecord
  <1> PICK s \in Servers, o \in Owners, value \in FlagValues :
           s = setting[w].server /\ o = setting[w].owner /\ value = setting[w].to
    BY <1>1
  <1>2. CASE flag[o] = "none"
    <2> DEFINE t == [setting[w] EXCEPT !.at = "invalidate"]
    <2>1. /\ t \in SettingRecord /\ t.at = "invalidate" /\ t.server = s /\ t.to = value
      BY <1>1 DEF SettingRecord
    <2>2. /\ setting' = [setting EXCEPT ![w] = t]
          /\ Write(s, o, value)
      BY <1>2, FlagTypes DEF InsertFlag, FlagIInv, SettingRecord
    <2> HIDE DEF t
    <2>3. setting' = [setting EXCEPT ![w] = t]
      BY <2>2
    <2>4. t.at # "idle" => t.server \in Servers /\ t.to \in FlagValues
      BY <2>1
    <2>5. /\ setting' \in [Settings -> SettingRecord]
          /\ \A x \in Settings : SettingOK(x)'
          /\ setting'[w] = t
          /\ \A r \in Servers : Invalidating(r) => Invalidating(r)'
      BY <1>1, <2>1, <2>3, <2>4, SettingBecomes
    <2>6. Invalidating(s)'
      BY <2>1, <2>5 DEF Invalidating
    <2>7. QED
      BY <2>2, <2>5, <2>6, WriteKeeps
  <1>3. CASE flag[o] # "none"
    <2>1. setting' = [setting EXCEPT ![w] = NoSetting] /\ UNCHANGED <<flag, lookup, cached>>
      BY <1>3 DEF InsertFlag
    <2>2. /\ setting' \in [Settings -> SettingRecord]
          /\ \A x \in Settings : SettingOK(x)'
          /\ \A r \in Servers : Invalidating(r) => Invalidating(r)'
      BY <1>1, <2>1, NoneUnderWay, SettingBecomes
    <2>3. QED
      BY <2>1, <2>2, SettingKeeps
  <1>4. QED
    BY <1>2, <1>3

\* The process that is told has nothing cached, and the others wait as before.
LEMMA InvalidateAllKeeps ==
    ASSUME FlagIInv, NEW w \in Settings, InvalidateAll(w)
    PROVE  FlagIInv'
  <1>1. /\ setting[w].server \in Servers /\ cached \in [Servers -> [Owners -> CacheEntry]]
        /\ UNCHANGED <<flag, lookup>> /\ setting' = [setting EXCEPT ![w] = NoSetting]
        /\ cached' = [cached EXCEPT ![setting[w].server] = [o \in Owners |-> Uncached]]
    BY FlagTypes DEF FlagIInv, InvalidateAll, SettingOK
  <1>2. /\ setting' \in [Settings -> SettingRecord]
        /\ \A x \in Settings : SettingOK(x)'
        /\ \A s \in Servers : Invalidating(s) /\ setting[w].server # s => Invalidating(s)'
    BY <1>1, NoneUnderWay, SettingBecomes
  <1>3. cached' \in [Servers -> [Owners -> CacheEntry]]
    BY <1>1, NoneUnderWay
  <1>4. \A g \in Lookups : LookupOK(g)'
    BY <1>1 DEF FlagIInv, LookupOK
  <1>5. ASSUME NEW s \in Servers, NEW o \in Owners
        PROVE  Current(s, o)'
    <2>1. CASE s = setting[w].server
      BY <1>1, <2>1, NoneUnderWay DEF Current
    <2>2. CASE s # setting[w].server
      <3>1. cached'[s] = cached[s] /\ Current(s, o)
        BY <1>1, <2>2 DEF FlagIInv
      <3>2. Evaluate(o)' = Evaluate(o)
        BY <1>1 DEF Evaluate, EvaluateTargeted
      <3>3. Invalidating(s) => Invalidating(s)'
        BY <1>2, <2>2
      <3>4. QED
        BY <3>1, <3>2, <3>3 DEF Current
    <2>3. QED
      BY <2>1, <2>2
  <1>6. QED
    BY <1>1, <1>2, <1>3, <1>4, <1>5, FlagTypes, FlagTypesNext DEF FlagIInv

LEMMA DropEntryKeeps ==
    ASSUME FlagIInv, NEW s \in Servers, NEW o \in Owners, DropEntry(s, o)
    PROVE  FlagIInv'
  <1>1. UNCHANGED <<flag, setting>> /\ lookup' = lookup
    BY DEF DropEntry
  <1>2. cached \in [Servers -> [Owners -> CacheEntry]]
    BY FlagTypes DEF FlagIInv
  <1>3. /\ cached' \in [Servers -> [Owners -> CacheEntry]]
        /\ \A t \in Servers, k \in Owners :
              cached'[t][k] = cached[t][k] \/ cached'[t][k].value = "none"
    BY <1>2, NoneUnderWay DEF DropEntry
  <1>4. \A t \in Servers, k \in Owners : Current(t, k)'
    BY <1>1, <1>3, CacheKeeps
  <1>5. (\A g \in Lookups : LookupOK(g)') /\ (\A w \in Settings : SettingOK(w)')
    BY <1>1 DEF FlagIInv, LookupOK, SettingOK
  <1>6. QED
    BY <1>1, <1>3, <1>4, <1>5, FlagTypes, FlagTypesNext DEF FlagIInv

LEMMA RestartServerKeeps ==
    ASSUME FlagIInv, NEW s \in Servers, RestartServer(s)
    PROVE  FlagIInv'
  <1>1. /\ flag' = flag /\ cached \in [Servers -> [Owners -> CacheEntry]]
        /\ lookup \in [Lookups -> LookupRecord] /\ setting \in [Settings -> SettingRecord]
    BY FlagTypes DEF FlagIInv, RestartServer
  <1>2. /\ lookup' \in [Lookups -> LookupRecord] /\ setting' \in [Settings -> SettingRecord]
        /\ cached' \in [Servers -> [Owners -> CacheEntry]]
        /\ \A g \in Lookups : lookup'[g] = lookup[g] \/ lookup'[g] = NoLookup
        /\ \A w \in Settings : setting'[w] = setting[w] \/ setting'[w] = NoSetting
        /\ \A w \in Settings : setting[w].server # s => setting'[w] = setting[w]
        /\ \A t \in Servers : t # s => cached'[t] = cached[t]
        /\ \A o \in Owners : cached'[s][o] = Uncached
    BY <1>1, NoneUnderWay DEF RestartServer
  <1>3. \A g \in Lookups : LookupOK(g)'
    BY <1>1, <1>2, NoneUnderWay DEF LookupOK, FlagIInv
  <1>4. \A w \in Settings : SettingOK(w)'
    BY <1>1, <1>2, NoneUnderWay DEF SettingOK, FlagIInv
  <1>5. ASSUME NEW t \in Servers, NEW o \in Owners
        PROVE  Current(t, o)'
    <2>1. CASE t = s
      BY <1>2, <2>1, NoneUnderWay DEF Current
    <2>2. CASE t # s
      <3>1. cached'[t] = cached[t] /\ Current(t, o)
        BY <1>2, <2>2 DEF FlagIInv
      <3>2. Evaluate(o)' = Evaluate(o)
        BY <1>1 DEF Evaluate, EvaluateTargeted
      <3>3. Invalidating(t) => Invalidating(t)'
        BY <1>2, <2>2 DEF Invalidating
      <3>4. QED
        BY <3>1, <3>2, <3>3 DEF Current
    <2>3. QED
      BY <2>1, <2>2
  <1>6. QED
    BY <1>1, <1>2, <1>3, <1>4, <1>5, FlagTypes, FlagTypesNext DEF FlagIInv

LEMMA FlagStep == FlagIInv /\ [FlagNext]_flagVars => FlagIInv'
  <1> SUFFICES ASSUME FlagIInv, [FlagNext]_flagVars PROVE FlagIInv'
    OBVIOUS
  <1>1. CASE UNCHANGED flagVars
    <2>1. UNCHANGED <<flag, lookup, cached>> /\ setting' = setting
      BY <1>1 DEF flagVars
    <2>2. \A x \in Settings : SettingOK(x)'
      BY <2>1 DEF SettingOK, FlagIInv
    <2>3. \A s \in Servers : Invalidating(s) => Invalidating(s)'
      BY <2>1 DEF Invalidating
    <2>4. QED
      BY <2>1, <2>2, <2>3, SettingKeeps, FlagTypes DEF FlagIInv
  <1>2. CASE \E s \in Servers, o \in Owners :
                \/ DropEntry(s, o)
                \/ \E g \in Lookups : StartLookup(g, s, o)
                \/ \E w \in Settings, value \in FlagValues : UpdateFlag(w, s, o, value)
    BY <1>2, DropEntryKeeps, StartLookupKeeps, UpdateFlagKeeps
  <1>3. CASE \E g \in Lookups : \/ ReadOrgRow(g) \/ TakeOrgRow(g)
                                \/ ReadGlobalRow(g) \/ TakeGlobalRow(g)
    BY <1>3, ReadOrgRowKeeps, TakeOrgRowKeeps, ReadGlobalRowKeeps, TakeGlobalRowKeeps
  <1>4. CASE \E w \in Settings : InsertFlag(w) \/ InvalidateAll(w)
    BY <1>4, InsertFlagKeeps, InvalidateAllKeeps
  <1>5. CASE \E s \in Servers : RestartServer(s)
    BY <1>5, RestartServerKeeps
  <1>6. QED
    BY Zenon, <1>1, <1>2, <1>3, <1>4, <1>5 DEF FlagNext

\* featureFlags.ts: however getFlag and setFlag interleave, in however many
\* processes, an answer that is cached is the one the rows give, but for those
\* that are late or whose invalidation is about to come.
THEOREM CachedAnswersHold == FlagSpec => []CachedFlagIsCurrent
  <1>1. FlagInit => FlagIInv
    <2> SUFFICES ASSUME FlagInit PROVE FlagIInv
      OBVIOUS
    <2>1. /\ \A g \in Lookups : lookup[g] = NoLookup
          /\ \A w \in Settings : setting[w] = NoSetting
          /\ \A s \in Servers, o \in Owners : cached[s][o] = Uncached
      BY DEF FlagInit
    <2>2. FlagTypeOK /\ flag[Global] # "none"
      BY NoneUnderWay, FlagTypes DEF FlagInit, FlagValues, Owners
    <2>3. QED
      BY <2>1, <2>2, NoneUnderWay DEF FlagIInv, LookupOK, SettingOK, Current
  <1>2. FlagIInv => CachedFlagIsCurrent
    BY DEF FlagIInv, Current, CachedFlagIsCurrent, Invalidating
  <1>3. QED
    BY <1>1, <1>2, FlagStep, PTL DEF FlagSpec

-----------------------------------------------------------------------------
(* Invitations *)

Handles(q, i) == request[q].at # "idle" /\ request[q].invite = i

\* An invitation that no two requests have raced for is in the hands of one
\* request at most, which finds it unused, and brings a member between the
\* insertion of the membership and the setting of accepted_at.
RequestOK(q) ==
    LET i == request[q].invite
    IN  request[q].at # "idle" =>
          /\ i \in Invites /\ Exists(i)
          /\ i \notin raced =>
               /\ \A p \in Requests : Handles(p, i) => p = q
               /\ ~invite[i].accepted
               /\ request[q].at = "stamp" => joined[i] = 1 /\ ~invite[i].revoked
               /\ request[q].at # "stamp" => joined[i] = 0
               /\ request[q].at = "add" => ~invite[i].revoked
InviteOK(i) ==
    /\ ~Exists(i) => ~invite[i].accepted /\ joined[i] = 0
    /\ i \notin raced =>
         /\ ~(invite[i].accepted /\ invite[i].revoked)
         /\ (\A q \in Requests : ~Handles(q, i))
               => joined[i] = IF invite[i].accepted THEN 1 ELSE 0
InviteIInv ==
    /\ InviteTypeOK
    /\ \A q \in Requests : RequestOK(q)
    /\ \A i \in Invites : InviteOK(i)

InviteRow == [token : 0 .. Tokens, accepted : BOOLEAN, revoked : BOOLEAN, expired : BOOLEAN]
RequestRecord == [at : {"idle", "resend", "revoke", "add", "stamp"},
                  invite : Invites \cup {0}, who : Members \cup {NoMember}]

LEMMA InviteTypes ==
    /\ InviteTypeOK => /\ invite \in [Invites -> InviteRow] /\ issued \in 0 .. Tokens
                       /\ request \in [Requests -> RequestRecord]
                       /\ joined \in [Invites -> Nat] /\ raced \subseteq Invites
    /\ (/\ invite' \in [Invites -> InviteRow] /\ issued' \in 0 .. Tokens
        /\ request' \in [Requests -> RequestRecord]
        /\ joined' \in [Invites -> Nat] /\ raced' \subseteq Invites) => InviteTypeOK'
  BY DEF InviteTypeOK, InviteRow, RequestRecord

\* A step of request q on invitation i leaves the row, the request after it and
\* the members that the invitation has brought in agreement.
LEMMA InvitationMoves ==
    ASSUME InviteIInv, NEW i \in Invites, NEW q \in Requests, NEW n \in RequestRecord,
           NEW row \in InviteRow, NEW k \in Nat,
           issued' \in 0 .. Tokens, raced' \in {raced, raced \cup {i}},
           request' = [request EXCEPT ![q] = n],
           invite' = [invite EXCEPT ![i] = row],
           joined' = [joined EXCEPT ![i] = k],
           request[q].at = "idle" \/ request[q].invite = i,
           n.at # "idle" => n.invite = i,
           row.token # 0,
           i \notin raced' =>
             /\ \A p \in Requests : Handles(p, i) => p = q
             /\ ~(row.accepted /\ row.revoked)
             /\ n.at = "idle" => k = IF row.accepted THEN 1 ELSE 0
             /\ n.at # "idle" => /\ ~row.accepted
                                 /\ n.at = "stamp" => k = 1 /\ ~row.revoked
                                 /\ n.at # "stamp" => k = 0
                                 /\ n.at = "add" => ~row.revoked
    PROVE  InviteIInv'
  <1>1. /\ invite \in [Invites -> InviteRow] /\ request \in [Requests -> RequestRecord]
        /\ joined \in [Invites -> Nat] /\ raced \subseteq Invites
    BY InviteTypes DEF InviteIInv
  <1>2. /\ invite' \in [Invites -> InviteRow] /\ request' \in [Requests -> RequestRecord]
        /\ joined' \in [Invites -> Nat] /\ raced' \subseteq Invites
        /\ invite'[i] = row /\ request'[q] = n /\ joined'[i] = k
        /\ \A j \in Invites : j # i => invite'[j] = invite[j] /\ joined'[j] = joined[j]
                                      /\ (j \in raced' <=> j \in raced)
        /\ \A p \in Requests : p # q => request'[p] = request[p]
    BY <1>1
  <1>3. InviteTypeOK'
    BY <1>2, InviteTypes
  <1>4. \A p \in Requests, j \in Invites : j # i => (Handles(p, j)' <=> Handles(p, j))
    BY <1>2 DEF Handles
  <1>5. \A p \in Requests : p # q => (Handles(p, i)' <=> Handles(p, i))
    BY <1>2 DEF Handles
  <1>6. ASSUME NEW p \in Requests
        PROVE  RequestOK(p)'
    <2>1. CASE p = q
      BY <1>2, <1>5, <2>1 DEF RequestOK, Exists
    <2>2. CASE p # q
      <3>1. RequestOK(p) /\ request'[p] = request[p]
        BY <1>2, <2>2 DEF InviteIInv
      <3>2. CASE request[p].invite = i
        <4>1. request[p].at # "idle" => i \in raced'
          BY <2>2, <3>2 DEF Handles
        <4>2. QED
          BY <1>2, <3>1, <3>2, <4>1 DEF RequestOK, Exists
      <3>3. CASE request[p].invite # i
        <4>1. PICK j : j = request[p].invite
          OBVIOUS
        <4>2. request[p].at # "idle" => j \in Invites /\ j # i
          BY <3>1, <3>3, <4>1 DEF RequestOK
        <4>3. request'[p].invite = j
          BY <3>1, <4>1
        <4>4. QED
          BY <1>2, <1>4, <3>1, <4>1, <4>2, <4>3 DEF RequestOK, Exists
      <3>4. QED
        BY <3>2, <3>3
    <2>3. QED
      BY <2>1, <2>2
  <1>7. ASSUME NEW j \in Invites
        PROVE  InviteOK(j)'
    <2>1. CASE j = i
      <3>1. Handles(q, i)' <=> n.at # "idle"
        BY <1>2 DEF Handles
      <3>2. QED
        BY <1>2, <1>5, <2>1, <3>1 DEF InviteOK, Exists
    <2>2. CASE j # i
      BY <1>2, <1>4, <2>2 DEF InviteOK, Exists, InviteIInv
    <2>3. QED
      BY <2>1, <2>2
  <1>8. QED
    BY <1>3, <1>6, <1>7 DEF InviteIInv

\* A row may be new or expire while no request moves.
LEMMA RowMoves ==
    ASSUME InviteIInv, NEW i \in Invites, NEW row \in InviteRow,
           issued' \in 0 .. Tokens, UNCHANGED <<request, joined, raced>>,
           invite' = [invite EXCEPT ![i] = row], row.token # 0,
           row.accepted = invite[i].accepted, row.revoked = invite[i].revoked
    PROVE  InviteIInv'
  <1>1. /\ invite \in [Invites -> InviteRow] /\ request \in [Requests -> RequestRecord]
        /\ joined \in [Invites -> Nat] /\ raced \subseteq Invites
    BY InviteTypes DEF InviteIInv
  <1>2. /\ invite' \in [Invites -> InviteRow]
        /\ \A j \in Invites : /\ invite'[j].accepted = invite[j].accepted
                              /\ invite'[j].revoked = invite[j].revoked
                              /\ Exists(j) => Exists(j)'
    BY <1>1 DEF Exists
  <1>3. \A q \in Requests : RequestOK(q)'
    BY <1>2 DEF RequestOK, Handles, InviteIInv
  <1>4. \A j \in Invites : InviteOK(j)'
    BY <1>2 DEF InviteOK, Handles, InviteIInv
  <1>5. QED
    BY <1>1, <1>2, <1>3, <1>4, InviteTypes DEF InviteIInv

LEMMA NewRowKeeps ==
    ASSUME InviteIInv, NEW i \in Invites, CreateInvitation(i) \/ ExpireInvitation(i)
    PROVE  InviteIInv'
  <1>1. invite[i] \in InviteRow /\ invite \in [Invites -> InviteRow] /\ issued \in 0 .. Tokens
    BY InviteTypes DEF InviteIInv
  <1>2. CASE CreateInvitation(i)
    <2> PICK t \in 1 .. Tokens : t = issued + 1
      BY <1>1, <1>2, InvitationAssumption DEF CreateInvitation, IssueToken
    <2> DEFINE row == [invite[i] EXCEPT !.token = t]
    <2>1. /\ row \in InviteRow /\ row.token # 0
          /\ row.accepted = invite[i].accepted /\ row.revoked = invite[i].revoked
      BY <1>1, InvitationAssumption DEF InviteRow
    <2>2. /\ invite' = [invite EXCEPT ![i] = row] /\ issued' \in 0 .. Tokens
          /\ UNCHANGED <<request, joined, raced>>
      BY <1>1, <1>2, InvitationAssumption DEF CreateInvitation, IssueToken, InviteRow
    <2> HIDE DEF row
    <2>3. QED
      BY <2>1, <2>2, RowMoves
  <1>3. CASE ExpireInvitation(i)
    <2> DEFINE row == [invite[i] EXCEPT !.expired = TRUE]
    <2>1. /\ row \in InviteRow /\ row.token # 0
          /\ row.accepted = invite[i].accepted /\ row.revoked = invite[i].revoked
      BY <1>1, <1>3 DEF InviteRow, ExpireInvitation, Exists
    <2>2. /\ invite' = [invite EXCEPT ![i] = row] /\ issued' \in 0 .. Tokens
          /\ UNCHANGED <<request, joined, raced>>
      BY <1>1, <1>3 DEF ExpireInvitation, InviteRow
    <2> HIDE DEF row
    <2>3. QED
      BY <2>1, <2>2, RowMoves
  <1>4. QED
    BY <1>2, <1>3

\* A request begins on an invitation that it finds unused: another one that has
\* it in hand makes it a race.
LEMMA BeginKeeps ==
    ASSUME InviteIInv, NEW q \in Requests, NEW i \in Invites,
           NEW stage \in {"resend", "revoke", "add"}, NEW m \in Members \cup {NoMember},
           \/ stage # "add" /\ m = NoMember /\ GetOrgInvitation(q, i, stage)
           \/ stage = "add" /\ \E t : FindInvitation(q, i, t, m)
    PROVE  InviteIInv'
  <1>0. /\ Begins(q, i, stage, m) /\ Exists(i) /\ ~invite[i].accepted
        /\ stage = "add" => ~invite[i].revoked
    BY DEF GetOrgInvitation, FindInvitation, Exists
  <1>1. /\ invite \in [Invites -> InviteRow] /\ invite[i] \in InviteRow
        /\ joined \in [Invites -> Nat] /\ joined[i] \in Nat /\ issued' \in 0 .. Tokens
    BY InviteTypes DEF InviteIInv, GetOrgInvitation, FindInvitation
  <1> DEFINE n == [at |-> stage, invite |-> i, who |-> m]
  <1>2. n \in RequestRecord /\ n.at = stage /\ n.invite = i
    BY DEF RequestRecord
  <1>3. request' = [request EXCEPT ![q] = n] /\ request[q].at = "idle"
    BY <1>0 DEF Begins
  <1> HIDE DEF n
  <1>4. invite' = [invite EXCEPT ![i] = invite[i]] /\ joined' = [joined EXCEPT ![i] = joined[i]]
    BY <1>1 DEF GetOrgInvitation, FindInvitation
  <1>5. raced' \in {raced, raced \cup {i}}
    BY <1>0 DEF Begins
  <1>6. i \notin raced' => \A p \in Requests : ~Handles(p, i)
    BY <1>0 DEF Begins, UnderWay, Handles
  <1>7. i \notin raced' => joined[i] = 0 /\ \A p \in Requests : Handles(p, i) => p = q
    BY <1>0, <1>5, <1>6 DEF InviteIInv, InviteOK
  <1> DEFINE row == invite[i]
             k == joined[i]
  <1>8. row \in InviteRow /\ k \in Nat /\ row.token # 0 /\ ~row.accepted
        /\ (stage = "add" => ~row.revoked) /\ (i \notin raced' => k = 0)
        /\ invite' = [invite EXCEPT ![i] = row] /\ joined' = [joined EXCEPT ![i] = k]
    BY <1>0, <1>1, <1>4, <1>7 DEF Exists
  <1> HIDE DEF row, k
  <1>9. i \notin raced' =>
          /\ \A p \in Requests : Handles(p, i) => p = q
          /\ ~(row.accepted /\ row.revoked)
          /\ n.at = "idle" => k = IF row.accepted THEN 1 ELSE 0
          /\ n.at # "idle" => /\ ~row.accepted
                              /\ n.at = "stamp" => k = 1 /\ ~row.revoked
                              /\ n.at # "stamp" => k = 0
                              /\ n.at = "add" => ~row.revoked
    BY <1>2, <1>7, <1>8
  <1>10. QED
    BY <1>1, <1>2, <1>3, <1>5, <1>8, <1>9, InvitationMoves

\* What a request under way finds, of an invitation that nothing has raced for.
LEMMA InHand ==
    ASSUME InviteIInv, NEW q \in Requests, request[q].at # "idle"
    PROVE  /\ request[q].invite \in Invites /\ request[q] \in RequestRecord
           /\ invite[request[q].invite] \in InviteRow /\ joined[request[q].invite] \in Nat
           /\ invite[request[q].invite].token # 0
           /\ RequestOK(q) /\ issued \in 0 .. Tokens /\ raced \subseteq Invites
           /\ invite \in [Invites -> InviteRow] /\ joined \in [Invites -> Nat]
           /\ NoRequest \in RequestRecord /\ NoRequest.at = "idle"
  BY InviteTypes DEF InviteIInv, RequestOK, Exists, NoRequest, RequestRecord

LEMMA ResendKeeps ==
    ASSUME InviteIInv, NEW q \in Requests, ResendInvitation(q)
    PROVE  InviteIInv'
  <1>1. request[q].at = "resend"
    BY DEF ResendInvitation
  <1> PICK i \in Invites : i = request[q].invite
    BY <1>1, InHand
  <1> PICK t \in 1 .. Tokens : t = issued + 1
    BY <1>1, InHand, InvitationAssumption DEF ResendInvitation, IssueToken
  <1> DEFINE row == [invite[i] EXCEPT !.token = t, !.expired = FALSE, !.revoked = FALSE]
             k == joined[i]
  <1>2. /\ row \in InviteRow /\ row.token # 0 /\ ~row.revoked
        /\ row.accepted = invite[i].accepted /\ k \in Nat
    <2>1. t # 0 /\ t \in 0 .. Tokens
      BY InvitationAssumption
    <2>2. invite[i] \in InviteRow /\ joined[i] \in Nat
      BY <1>1, InHand
    <2>3. QED
      BY <2>1, <2>2 DEF InviteRow
  <1>3. /\ invite' = [invite EXCEPT ![i] = row] /\ joined' = [joined EXCEPT ![i] = k]
        /\ request' = [request EXCEPT ![q] = NoRequest] /\ raced' = raced
        /\ issued' \in 0 .. Tokens
    BY <1>1, InHand, InvitationAssumption DEF ResendInvitation, IssueToken, Ends
  <1>4. i \notin raced => /\ \A p \in Requests : Handles(p, i) => p = q
                         /\ ~row.accepted /\ k = 0
    BY <1>1, <1>2, InHand DEF RequestOK
  <1> HIDE DEF row, k
  <1>5. QED
    BY <1>1, <1>2, <1>3, <1>4, InHand, InvitationMoves

LEMMA RevokeKeeps ==
    ASSUME InviteIInv, NEW q \in Requests, RevokeInvitation(q)
    PROVE  InviteIInv'
  <1>1. request[q].at = "revoke"
    BY DEF RevokeInvitation
  <1> PICK i \in Invites : i = request[q].invite
    BY <1>1, InHand
  <1> DEFINE row == [invite[i] EXCEPT !.revoked = TRUE]
             k == joined[i]
  <1>2. /\ row \in InviteRow /\ row.token # 0
        /\ row.accepted = invite[i].accepted /\ k \in Nat
    BY <1>1, InHand DEF InviteRow
  <1>3. /\ invite' = [invite EXCEPT ![i] = row] /\ joined' = [joined EXCEPT ![i] = k]
        /\ request' = [request EXCEPT ![q] = NoRequest] /\ raced' = raced
        /\ issued' \in 0 .. Tokens
    BY <1>1, InHand DEF RevokeInvitation, Ends, InviteRow
  <1>4. i \notin raced => /\ \A p \in Requests : Handles(p, i) => p = q
                         /\ ~row.accepted /\ k = 0
    BY <1>1, <1>2, InHand DEF RequestOK
  <1> HIDE DEF row, k
  <1>5. QED
    BY <1>1, <1>2, <1>3, <1>4, InHand, InvitationMoves

LEMMA AddInvitedKeeps ==
    ASSUME InviteIInv, NEW q \in Requests, NEW r \in Roles, AddInvited(q, r)
    PROVE  InviteIInv'
  <1>1. request[q].at = "add"
    BY DEF AddInvited
  <1> PICK i \in Invites : i = request[q].invite
    BY <1>1, InHand
  <1> DEFINE row == invite[i]
             k == joined[i] + 1
             n == [request[q] EXCEPT !.at = "stamp"]
  <1>2. /\ row \in InviteRow /\ row.token # 0 /\ k \in Nat
        /\ n \in RequestRecord /\ n.at = "stamp" /\ n.invite = i
    BY <1>1, InHand DEF RequestRecord
  <1>3. /\ invite' = [invite EXCEPT ![i] = row] /\ joined' = [joined EXCEPT ![i] = k]
        /\ request' = [request EXCEPT ![q] = n] /\ raced' = raced
        /\ issued' \in 0 .. Tokens
    BY <1>1, InHand, InviteTypes DEF AddInvited, RequestRecord, InviteIInv
  <1>4. i \notin raced => /\ \A p \in Requests : Handles(p, i) => p = q
                         /\ ~row.accepted /\ ~row.revoked /\ k = 1
    BY <1>1, InHand DEF RequestOK
  <1> HIDE DEF row, k, n
  <1>5. QED
    BY <1>1, <1>2, <1>3, <1>4, InvitationMoves

LEMMA StampKeeps ==
    ASSUME InviteIInv, NEW q \in Requests, StampInvitation(q)
    PROVE  InviteIInv'
  <1>1. request[q].at = "stamp"
    BY DEF StampInvitation
  <1> PICK i \in Invites : i = request[q].invite
    BY <1>1, InHand
  <1> DEFINE row == [invite[i] EXCEPT !.accepted = TRUE]
             k == joined[i]
  <1>2. /\ row \in InviteRow /\ row.token # 0 /\ row.accepted
        /\ row.revoked = invite[i].revoked /\ k \in Nat
    BY <1>1, InHand DEF InviteRow
  <1>3. /\ invite' = [invite EXCEPT ![i] = row] /\ joined' = [joined EXCEPT ![i] = k]
        /\ request' = [request EXCEPT ![q] = NoRequest] /\ raced' = raced
        /\ issued' \in 0 .. Tokens
    BY <1>1, InHand DEF StampInvitation, Ends, InviteRow
  <1>4. i \notin raced => /\ \A p \in Requests : Handles(p, i) => p = q
                         /\ ~row.revoked /\ k = 1
    BY <1>1, <1>2, InHand DEF RequestOK
  <1> HIDE DEF row, k
  <1>5. QED
    BY <1>1, <1>2, <1>3, <1>4, InHand, InvitationMoves

\* A request that is lost after its member has been added counts as a race.
LEMMA LoseKeeps ==
    ASSUME InviteIInv, NEW q \in Requests, LoseRequest(q)
    PROVE  InviteIInv'
  <1>1. request[q].at # "idle"
    BY DEF LoseRequest
  <1> PICK i \in Invites : i = request[q].invite
    BY <1>1, InHand
  <1> DEFINE row == invite[i]
             k == joined[i]
  <1>2. row \in InviteRow /\ row.token # 0 /\ k \in Nat
    BY <1>1, InHand
  <1>3. /\ invite' = [invite EXCEPT ![i] = row] /\ joined' = [joined EXCEPT ![i] = k]
        /\ request' = [request EXCEPT ![q] = NoRequest] /\ issued' \in 0 .. Tokens
        /\ raced' \in {raced, raced \cup {i}} /\ (i \notin raced' => request[q].at # "stamp")
    BY <1>1, InHand DEF LoseRequest, Ends
  <1>4. i \notin raced' => /\ \A p \in Requests : Handles(p, i) => p = q
                          /\ ~row.accepted /\ k = 0
    BY <1>1, <1>3, InHand DEF RequestOK
  <1> HIDE DEF row, k
  <1>5. QED
    BY <1>1, <1>2, <1>3, <1>4, InHand, InvitationMoves

LEMMA InviteStep == InviteIInv /\ [InviteNext]_<<inviteVars, memberVars>> => InviteIInv'
  <1> SUFFICES ASSUME InviteIInv, [InviteNext]_<<inviteVars, memberVars>> PROVE InviteIInv'
    OBVIOUS
  <1>1. CASE UNCHANGED inviteVars
    BY <1>1 DEF inviteVars, InviteIInv, InviteTypeOK, RequestOK, InviteOK, Handles, Exists
  <1>2. ASSUME NEW i \in Invites, NEW q \in Requests, NEW stage \in {"resend", "revoke"},
               GetOrgInvitation(q, i, stage)
        PROVE  InviteIInv'
    BY <1>2, BeginKeeps
  <1>3. ASSUME NEW i \in Invites, NEW q \in Requests, NEW t \in 1 .. issued, NEW m \in Members,
               FindInvitation(q, i, t, m)
        PROVE  InviteIInv'
    BY <1>3, BeginKeeps
  <1>4. CASE InvitationStep
    BY <1>2, <1>3, <1>4, NewRowKeeps, ResendKeeps, RevokeKeeps, AddInvitedKeeps, StampKeeps,
       LoseKeeps DEF InvitationStep
  <1>5. QED
    BY <1>1, <1>4 DEF InviteNext

\* orgMembers.ts and membership.ts: an invitation brings one member, however
\* many requests there are and however often it is sent again or revoked, unless
\* two of them have it in hand at once or one is lost on its way.
THEOREM InvitationsUsedOnce == InviteSpec => []InvitedOnce
  <1>1. InviteInit => InviteIInv
    <2> SUFFICES ASSUME InviteInit PROVE InviteIInv
      OBVIOUS
    <2>1. InviteTypeOK
      BY InvitationAssumption DEF InviteInit, InviteTypeOK, NoRow, NoRequest
    <2>2. /\ \A q \in Requests : request[q].at = "idle"
          /\ \A i \in Invites : ~invite[i].accepted /\ joined[i] = 0
      BY DEF InviteInit, NoRow, NoRequest
    <2>3. QED
      BY <2>1, <2>2 DEF InviteIInv, RequestOK, InviteOK
  <1>2. ASSUME InviteIInv PROVE InvitedOnce
    <2> SUFFICES ASSUME NEW i \in Invites \ raced
                 PROVE  /\ joined[i] = IF \E q \in UnderWay(i) : request[q].at = "stamp" THEN 1
                                       ELSE IF invite[i].accepted THEN 1 ELSE 0
                        /\ ~(invite[i].accepted /\ invite[i].revoked)
      BY DEF InvitedOnce
    <2>1. CASE \E q \in Requests : Handles(q, i)
      BY <1>2, <2>1 DEF InviteIInv, RequestOK, InviteOK, Handles, UnderWay
    <2>2. CASE \A q \in Requests : ~Handles(q, i)
      BY <1>2, <2>2 DEF InviteIInv, InviteOK, Handles, UnderWay
    <2>3. QED
      BY <2>1, <2>2
  <1>3. QED
    BY <1>1, <1>2, InviteStep, PTL DEF InviteSpec

-----------------------------------------------------------------------------
(* ExportRequests *)

\* A process counts the requests it lets through until the quota is full, and
\* none of those is about to be counted.
Counted(s, d) ==
    /\ IsFiniteSet(admitted[s][d])
    /\ Cardinality(admitted[s][d]) = IF count[s][d] < Limit THEN count[s][d] ELSE Limit
CallOK(c) ==
    /\ call[c].at \in {"new", "checked"}
          => \A s \in ExportServers, d \in Days : c \notin admitted[s][d]
    /\ call[c].at \notin {"new"} => call[c].server \in ExportServers /\ call[c].shape \in Shapes
    /\ call[c].at = "accepted" => [owner |-> Owner(c), shape |-> call[c].shape] \in made
ExportRequestIInv ==
    /\ ExportRequestTypeOK
    /\ \A s \in ExportServers, d \in Days : Counted(s, d)
    /\ \A c \in ExportCalls : CallOK(c)
    /\ \A m, n \in made : m.owner = n.owner => m = n

CallRecord == [at : {"new", "refused", "checked", "admitted", "creating",
                     "accepted", "conflict", "failed"},
               server : ExportServers \cup {0}, day : Days,
               key : ExportKeys \cup {NoKey}, shape : Shapes \cup {0}]
ExportRecord == [owner : ExportKeys \cup ExportCalls, shape : Shapes]

LEMMA RequestTypes ==
    /\ ExportRequestTypeOK => /\ day \in Days
                              /\ count \in [ExportServers -> [Days -> Nat]]
                              /\ call \in [ExportCalls -> CallRecord] /\ made \subseteq ExportRecord
                              /\ admitted \in [ExportServers -> [Days -> SUBSET ExportCalls]]
    /\ (/\ day' \in Days
        /\ count' \in [ExportServers -> [Days -> Nat]]
        /\ call' \in [ExportCalls -> CallRecord] /\ made' \subseteq ExportRecord
        /\ admitted' \in [ExportServers -> [Days -> SUBSET ExportCalls]]) => ExportRequestTypeOK'
  BY DEF ExportRequestTypeOK, CallRecord, ExportRecord

\* A call that alone moves on, with the quota as it was.
LEMMA CallMoves ==
    ASSUME ExportRequestIInv, NEW c \in ExportCalls, NEW k \in CallRecord,
           call' = [call EXCEPT ![c] = k], UNCHANGED <<day, count, admitted>>,
           made \subseteq made', made' \subseteq ExportRecord,
           \A m, n \in made' : m.owner = n.owner => m = n,
           k.at # "new", call[c].at \notin {"new", "checked"} => k.at # "checked",
           k.server \in ExportServers, k.shape \in Shapes,
           k.at = "accepted"
               => [owner |-> IF k.key = NoKey THEN c ELSE k.key, shape |-> k.shape] \in made'
    PROVE  ExportRequestIInv'
  <1>1. /\ day \in Days /\ count \in [ExportServers -> [Days -> Nat]]
        /\ call \in [ExportCalls -> CallRecord]
        /\ admitted \in [ExportServers -> [Days -> SUBSET ExportCalls]]
    BY RequestTypes DEF ExportRequestIInv
  <1>2. /\ call' \in [ExportCalls -> CallRecord] /\ call'[c] = k
        /\ \A b \in ExportCalls : b # c => call'[b] = call[b]
    BY <1>1
  <1>3. ExportRequestTypeOK'
    BY <1>1, <1>2, RequestTypes
  <1>4. \A s \in ExportServers, d \in Days : Counted(s, d)'
    BY DEF ExportRequestIInv, Counted
  <1>5. ASSUME NEW b \in ExportCalls
        PROVE  CallOK(b)'
    <2>1. CASE b = c
      BY <1>2, <2>1 DEF CallOK, Owner, ExportRequestIInv
    <2>2. CASE b # c
      BY <1>2, <2>2 DEF CallOK, Owner, ExportRequestIInv
    <2>3. QED
      BY <2>1, <2>2
  <1>6. QED
    BY <1>3, <1>4, <1>5 DEF ExportRequestIInv

LEMMA CheckQuotaKeeps ==
    ASSUME ExportRequestIInv, NEW c \in ExportCalls, NEW s \in ExportServers,
           NEW key \in ExportKeys \cup {NoKey}, NEW shape \in Shapes, CheckQuota(c, s, key, shape)
    PROVE  ExportRequestIInv'
  <1> DEFINE k == [at |-> IF count[s][day] >= Limit THEN "refused" ELSE "checked",
                   server |-> s, day |-> day, key |-> key, shape |-> shape]
  <1>1. /\ k \in CallRecord /\ k.at \in {"refused", "checked"} /\ k.server = s /\ k.shape = shape
    BY RequestTypes DEF CallRecord, ExportRequestIInv
  <1>2. call' = [call EXCEPT ![c] = k] /\ call[c].at = "new"
    BY DEF CheckQuota
  <1> HIDE DEF k
  <1>3. /\ UNCHANGED <<day, count, admitted>> /\ made' = made /\ made \subseteq ExportRecord
        /\ \A m, n \in made : m.owner = n.owner => m = n
    BY RequestTypes DEF CheckQuota, ExportRequestIInv
  <1>4. QED
    BY <1>1, <1>2, <1>3, CallMoves

\* A call under way is one of a process, for a shape.
LEMMA CallUnderWay ==
    ASSUME ExportRequestIInv, NEW c \in ExportCalls, call[c].at # "new"
    PROVE  /\ call[c] \in CallRecord /\ call \in [ExportCalls -> CallRecord]
           /\ call[c].server \in ExportServers /\ call[c].shape \in Shapes
           /\ call[c].day \in Days
  BY RequestTypes DEF ExportRequestIInv, CallOK, CallRecord

LEMMA FindKeeps ==
    ASSUME ExportRequestIInv, NEW c \in ExportCalls, FindByIdempotencyKey(c)
    PROVE  ExportRequestIInv'
  <1>1. PICK stage \in {"creating", "accepted", "conflict"} :
           /\ Becomes(c, stage)
           /\ stage = "accepted" => \E m \in MadeBy(c) : m.shape = call[c].shape
    BY DEF FindByIdempotencyKey
  <1>2. call[c].at = "admitted" /\ UNCHANGED <<day, count, admitted>> /\ made' = made
        /\ made \subseteq ExportRecord /\ \A m, n \in made : m.owner = n.owner => m = n
    BY RequestTypes DEF FindByIdempotencyKey, ExportRequestIInv
  <1> DEFINE k == [call[c] EXCEPT !.at = stage]
  <1>3. /\ k \in CallRecord /\ k.at = stage /\ k.key = call[c].key /\ k.shape = call[c].shape
        /\ k.server \in ExportServers /\ k.shape \in Shapes
        /\ call' = [call EXCEPT ![c] = k]
    BY <1>1, <1>2, CallUnderWay DEF CallRecord, Becomes
  <1> HIDE DEF k
  <1>4. stage = "accepted" => [owner |-> Owner(c), shape |-> call[c].shape] \in made
    BY <1>1, <1>2 DEF MadeBy, ExportRecord
  <1>5. k.at = "accepted"
            => [owner |-> IF k.key = NoKey THEN c ELSE k.key, shape |-> k.shape] \in made
    BY <1>3, <1>4 DEF Owner
  <1>6. k.at # "new" /\ k.at # "checked"
    BY <1>3
  <1>7. QED
    BY <1>2, <1>3, <1>5, <1>6, CallMoves

LEMMA CreateKeeps ==
    ASSUME ExportRequestIInv, NEW c \in ExportCalls, CreateForCall(c)
    PROVE  ExportRequestIInv'
  <1>1. /\ call[c].at = "creating" /\ UNCHANGED <<day, count, admitted>>
        /\ made \subseteq ExportRecord /\ \A m, n \in made : m.owner = n.owner => m = n
        /\ call[c] \in CallRecord /\ call[c].shape \in Shapes
    BY RequestTypes DEF CreateForCall, ExportRequestIInv, CallOK
  <1> DEFINE export == [owner |-> Owner(c), shape |-> call[c].shape]
  <1>2. export \in ExportRecord /\ export.owner = Owner(c)
    BY <1>1 DEF ExportRecord, Owner, CallRecord
  <1>3. PICK stage \in {"accepted", "failed"} :
           /\ Becomes(c, stage)
           /\ \/ stage = "accepted" /\ MadeBy(c) = {} /\ made' = made \cup {export}
              \/ stage = "failed" /\ made' = made
    BY DEF CreateForCall
  <1> DEFINE k == [call[c] EXCEPT !.at = stage]
  <1>4. /\ k \in CallRecord /\ k.at = stage /\ k.key = call[c].key /\ k.shape = call[c].shape
        /\ k.server \in ExportServers /\ k.shape \in Shapes
        /\ call' = [call EXCEPT ![c] = k]
    BY <1>1, <1>3, CallUnderWay DEF CallRecord, Becomes
  <1>5. k.at = "accepted"
            => [owner |-> IF k.key = NoKey THEN c ELSE k.key, shape |-> k.shape] \in made'
    BY <1>3, <1>4 DEF Owner
  <1> HIDE DEF k, export
  <1>6. made \subseteq made' /\ made' \subseteq ExportRecord
        /\ \A m, n \in made' : m.owner = n.owner => m = n
    BY <1>1, <1>2, <1>3 DEF MadeBy
  <1>7. k.at # "new" /\ k.at # "checked"
    BY <1>4
  <1>8. QED
    BY <1>1, <1>4, <1>5, <1>6, <1>7, CallMoves

\* A request is let through for each count below the limit.
LEMMA IncrementKeeps ==
    ASSUME ExportRequestIInv, NEW c \in ExportCalls, IncrementQuota(c)
    PROVE  ExportRequestIInv'
  <1>1. /\ call[c].at = "checked" /\ UNCHANGED <<day, made>>
        /\ call[c] \in CallRecord /\ call \in [ExportCalls -> CallRecord]
    BY CallUnderWay DEF IncrementQuota
  <1> PICK s \in ExportServers, d \in Days : s = call[c].server /\ d = call[c].day
    BY <1>1, CallUnderWay
  <1>2. /\ count \in [ExportServers -> [Days -> Nat]] /\ count[s][d] \in Nat
        /\ admitted \in [ExportServers -> [Days -> SUBSET ExportCalls]]
        /\ c \notin admitted[s][d] /\ Counted(s, d)
        /\ Limit \in Nat /\ Limit > 0
    <2>1. /\ count \in [ExportServers -> [Days -> Nat]]
          /\ admitted \in [ExportServers -> [Days -> SUBSET ExportCalls]]
      BY RequestTypes DEF ExportRequestIInv
    <2>2. CallOK(c) /\ Counted(s, d)
      BY DEF ExportRequestIInv
    <2>3. c \notin admitted[s][d]
      BY <1>1, <2>2 DEF CallOK
    <2>4. Limit \in Nat /\ Limit > 0
      BY ExportRequestAssumption
    <2>5. count[s][d] \in Nat
      BY <2>1
    <2>6. QED
      BY <2>1, <2>2, <2>3, <2>4, <2>5
  <1>3. /\ count' \in [ExportServers -> [Days -> Nat]] /\ count'[s][d] = count[s][d] + 1
        /\ \A t \in ExportServers, e \in Days :
              t # s \/ e # d => count'[t][e] = count[t][e]
    BY <1>2 DEF IncrementQuota
  <1>4. PICK stage \in {"refused", "admitted"} :
           /\ Becomes(c, stage)
           /\ stage = "refused" => count[s][d] + 1 > Limit /\ admitted' = admitted
           /\ stage = "admitted" => /\ count[s][d] + 1 <= Limit
                                   /\ admitted' = [admitted EXCEPT ![s][d] = @ \cup {c}]
    BY <1>2, <1>3 DEF IncrementQuota
  <1>5. /\ admitted' \in [ExportServers -> [Days -> SUBSET ExportCalls]]
        /\ \A t \in ExportServers, e \in Days :
              t # s \/ e # d => admitted'[t][e] = admitted[t][e]
        /\ admitted'[s][d] = IF stage = "admitted" THEN admitted[s][d] \cup {c} ELSE admitted[s][d]
    <2>1. CASE stage = "admitted"
      <3> PICK now \in SUBSET ExportCalls : now = admitted[s][d] \cup {c}
        BY <1>2
      <3>1. admitted' = [admitted EXCEPT ![s][d] = now]
        BY <1>4, <2>1
      <3>2. /\ admitted' \in [ExportServers -> [Days -> SUBSET ExportCalls]]
            /\ admitted'[s][d] = now
            /\ \A t \in ExportServers, e \in Days :
                  t # s \/ e # d => admitted'[t][e] = admitted[t][e]
        BY <1>2, <3>1
      <3>3. QED
        BY <2>1, <3>2
    <2>2. CASE stage = "refused"
      BY <1>2, <1>4, <2>2
    <2>3. QED
      BY <2>1, <2>2
  <1> DEFINE k == [call[c] EXCEPT !.at = stage]
  <1>6. /\ k \in CallRecord /\ k.at = stage /\ call' = [call EXCEPT ![c] = k]
        /\ k.server \in ExportServers /\ k.shape \in Shapes
    BY <1>1, <1>4, CallUnderWay DEF CallRecord, Becomes
  <1> HIDE DEF k
  <1>7. Counted(s, d)'
    <2>1. CASE stage = "admitted"
      <3>1. /\ IsFiniteSet(admitted[s][d] \cup {c})
            /\ Cardinality(admitted[s][d] \cup {c}) = Cardinality(admitted[s][d]) + 1
        BY <1>2, FS_AddElement DEF Counted
      <3>2. Cardinality(admitted[s][d]) = count[s][d] /\ count[s][d] + 1 <= Limit
        BY <1>2, <1>4, <2>1 DEF Counted
      <3>3. admitted'[s][d] = admitted[s][d] \cup {c} /\ count'[s][d] = count[s][d] + 1
        BY <1>3, <1>5, <2>1
      <3> PICK n \in Nat, limit \in Nat : n = count[s][d] /\ limit = Limit
        BY <1>2
      <3>4. n + 1 < limit \/ n + 1 = limit
        BY <3>2
      <3>5. QED
        BY <3>1, <3>2, <3>3, <3>4 DEF Counted
    <2>2. CASE stage = "refused"
      <3>1. ~(count[s][d] < Limit) /\ ~(count[s][d] + 1 < Limit)
        BY <1>2, <1>4, <2>2
      <3>2. admitted'[s][d] = admitted[s][d] /\ count'[s][d] = count[s][d] + 1
        BY <1>3, <1>5, <2>2
      <3>3. QED
        BY <1>2, <3>1, <3>2 DEF Counted
    <2>3. QED
      BY <2>1, <2>2
  <1>8. \A t \in ExportServers, e \in Days : Counted(t, e)'
    <2> SUFFICES ASSUME NEW t \in ExportServers, NEW e \in Days, t # s \/ e # d
                 PROVE  Counted(t, e)'
      BY <1>7
    <2>1. count'[t][e] = count[t][e] /\ admitted'[t][e] = admitted[t][e] /\ Counted(t, e)
      BY <1>3, <1>5 DEF ExportRequestIInv
    <2>2. QED
      BY <2>1 DEF Counted
  <1>9. /\ call' \in [ExportCalls -> CallRecord] /\ call'[c] = k
        /\ \A b \in ExportCalls : b # c => call'[b] = call[b]
    BY <1>1, <1>6
  <1>10. ASSUME NEW b \in ExportCalls
         PROVE  CallOK(b)'
    <2>1. CASE b = c
      BY <1>4, <1>6, <1>9, <2>1 DEF CallOK
    <2>2. CASE b # c
      <3>1. \A t \in ExportServers, e \in Days :
               b \notin admitted[t][e] => b \notin admitted'[t][e]
        BY <1>5, <2>2
      <3>2. QED
        BY <1>1, <1>9, <2>2, <3>1 DEF CallOK, Owner, ExportRequestIInv
    <2>3. QED
      BY <2>1, <2>2
  <1>11. QED
    BY <1>1, <1>3, <1>5, <1>8, <1>9, <1>10, RequestTypes DEF ExportRequestIInv

LEMMA RestartExportKeeps ==
    ASSUME ExportRequestIInv, NEW s \in ExportServers, RestartExportServer(s)
    PROVE  ExportRequestIInv'
  <1>1. /\ UNCHANGED <<day, made>>
        /\ count \in [ExportServers -> [Days -> Nat]] /\ call \in [ExportCalls -> CallRecord]
        /\ admitted \in [ExportServers -> [Days -> SUBSET ExportCalls]]
        /\ Limit \in Nat /\ Limit > 0
    BY RequestTypes, ExportRequestAssumption DEF ExportRequestIInv, RestartExportServer
  <1>2. /\ count' \in [ExportServers -> [Days -> Nat]]
        /\ admitted' \in [ExportServers -> [Days -> SUBSET ExportCalls]]
        /\ \A d \in Days : count'[s][d] = 0 /\ admitted'[s][d] = {}
        /\ \A t \in ExportServers : t # s => count'[t] = count[t] /\ admitted'[t] = admitted[t]
    BY <1>1 DEF RestartExportServer
  <1>3. ASSUME NEW c \in ExportCalls
        PROVE  /\ call'[c] \in CallRecord
               /\ \/ call'[c] = call[c]
                  \/ /\ call'[c].at = "failed" /\ call[c].at # "new"
                     /\ call'[c].server = call[c].server /\ call'[c].shape = call[c].shape
    <2>1. CASE call[c].server = s /\ call[c].at \in {"checked", "admitted", "creating"}
      <3> DEFINE k == [call[c] EXCEPT !.at = "failed"]
      <3>1. call'[c] = k
        BY <2>1 DEF RestartExportServer
      <3>2. k \in CallRecord /\ k.at = "failed" /\ k.server = call[c].server
            /\ k.shape = call[c].shape
        BY <1>1 DEF CallRecord
      <3> HIDE DEF k
      <3>3. QED
        BY <2>1, <3>1, <3>2
    <2>2. CASE ~(call[c].server = s /\ call[c].at \in {"checked", "admitted", "creating"})
      BY <1>1, <2>2 DEF RestartExportServer
    <2>3. QED
      BY <2>1, <2>2
  <1>4. call' \in [ExportCalls -> CallRecord]
    BY <1>3 DEF RestartExportServer
  <1>5. ASSUME NEW t \in ExportServers, NEW d \in Days
        PROVE  Counted(t, d)'
    <2>1. CASE t = s
      BY <1>1, <1>2, <2>1, FS_EmptySet DEF Counted
    <2>2. CASE t # s
      BY <1>2, <2>2 DEF Counted, ExportRequestIInv
    <2>3. QED
      BY <2>1, <2>2
  <1>6. ASSUME NEW c \in ExportCalls
        PROVE  CallOK(c)'
    <2>1. \A t \in ExportServers, d \in Days : admitted'[t][d] \subseteq admitted[t][d]
      BY <1>1, <1>2
    <2>2. CASE call'[c] = call[c]
      BY <1>1, <2>1, <2>2 DEF CallOK, Owner, ExportRequestIInv
    <2>3. CASE call'[c] # call[c]
      BY <1>3, <2>3 DEF CallOK, ExportRequestIInv
    <2>4. QED
      BY <2>2, <2>3
  <1>7. QED
    BY <1>1, <1>2, <1>4, <1>5, <1>6, RequestTypes DEF ExportRequestIInv

LEMMA ExportRequestStep == ExportRequestIInv /\ [ExportRequestNext]_requestVars => ExportRequestIInv'
  <1> SUFFICES ASSUME ExportRequestIInv, [ExportRequestNext]_requestVars
               PROVE  ExportRequestIInv'
    OBVIOUS
  <1>1. CASE UNCHANGED requestVars
    BY <1>1 DEF requestVars, ExportRequestIInv, ExportRequestTypeOK, Counted, CallOK, Owner
  <1>2. CASE Midnight
    BY <1>2 DEF Midnight, Days, ExportRequestIInv, ExportRequestTypeOK, Counted, CallOK, Owner
  <1>3. CASE \E s \in ExportServers :
                \/ RestartExportServer(s)
                \/ \E c \in ExportCalls, key \in ExportKeys \cup {NoKey}, shape \in Shapes :
                       CheckQuota(c, s, key, shape)
    BY <1>3, RestartExportKeeps, CheckQuotaKeeps
  <1>4. CASE \E c \in ExportCalls : \/ IncrementQuota(c) \/ FindByIdempotencyKey(c)
                                    \/ CreateForCall(c)
    BY <1>4, IncrementKeeps, FindKeeps, CreateKeeps
  <1>5. QED
    BY Zenon, <1>1, <1>2, <1>3, <1>4 DEF ExportRequestNext

\* exportQuota.ts and exportQueue.ts: a process lets through exactly the requests
\* of a day that it has counted, up to the limit, and each accepted request has
\* one export, however the steps of the requests interleave.
THEOREM QuotaHolds == ExportRequestSpec => []AdmittedOnce
  <1>1. ExportRequestInit => ExportRequestIInv
    <2> SUFFICES ASSUME ExportRequestInit PROVE ExportRequestIInv
      OBVIOUS
    <2>1. /\ \A c \in ExportCalls : call[c] = NoCall
          /\ \A s \in ExportServers, d \in Days : count[s][d] = 0 /\ admitted[s][d] = {}
          /\ made = {}
      BY DEF ExportRequestInit
    <2>2. NoCall \in CallRecord /\ NoCall.at = "new"
      BY DEF NoCall, CallRecord, Days
    <2>3. ExportRequestTypeOK
      <3>1. call \in [ExportCalls -> CallRecord]
        BY <2>2 DEF ExportRequestInit
      <3>2. QED
        BY <3>1 DEF ExportRequestInit, ExportRequestTypeOK, CallRecord, Days
    <2>4. \A s \in ExportServers, d \in Days : Counted(s, d)
      BY <2>1, FS_EmptySet, ExportRequestAssumption DEF Counted
    <2>5. \A c \in ExportCalls : CallOK(c)
      BY <2>1, <2>2 DEF CallOK
    <2>6. QED
      BY <2>1, <2>3, <2>4, <2>5 DEF ExportRequestIInv
  <1>2. ASSUME ExportRequestIInv PROVE AdmittedOnce
    <2>1. \A s \in ExportServers, d \in Days :
             Cardinality(admitted[s][d]) = IF count[s][d] < Limit THEN count[s][d] ELSE Limit
      BY <1>2 DEF ExportRequestIInv, Counted
    <2>2. ASSUME NEW c \in ExportCalls, call[c].at = "accepted"
          PROVE  MadeBy(c) = {[owner |-> Owner(c), shape |-> call[c].shape]}
      <3> DEFINE export == [owner |-> Owner(c), shape |-> call[c].shape]
      <3>1. export \in made /\ export.owner = Owner(c)
        BY <1>2, <2>2 DEF ExportRequestIInv, CallOK
      <3>2. \A m \in made : m.owner = export.owner => m = export
        BY <1>2, <3>1 DEF ExportRequestIInv
      <3>3. QED
        BY <3>1, <3>2 DEF MadeBy
    <2>3. QED
      BY <2>1, <2>2 DEF AdmittedOnce
  <1>3. QED
    BY <1>1, <1>2, ExportRequestStep, PTL DEF ExportRequestSpec

-----------------------------------------------------------------------------
(* DataExport *)

EntryRecord == [at : Live \cup {"none", "dead"}, attempt : Tries, max : Tries]
ExportRecordRow == [status : {"none", "pending", "running", "done", "failed"}, attempts : Tries]
Submission == [at : {"new", "created", "accepted", "refused"}, home : Processes]
Recovery == [at : {"due", "listed", "done"}, found : SUBSET [export : Exports, attempts : Tries]]

\* An entry has used no more attempts than it has, and a queued one fewer.
EntrySound(y) ==
    /\ y.attempt <= y.max
    /\ y.at # "none" => y.max > 0
    /\ y.at = "queued" => y.attempt < y.max

\* A submission and a boot make their entry once, where none is.
MadeOnce ==
    /\ \A x \in Exports :
           submission[x].at \in {"new", "created"} => entry[x][Own].at = "none"
    /\ \A p \in Processes, x \in Exports :
           recovery[p].at # "done" => entry[x][p].at = "none"
    /\ \A p \in Processes :
           /\ recovery[p].at = "due" => recovery[p].found = {}
           /\ \A f \in recovery[p].found : f.attempts < MaxExportAttempts

\* An unfinished row that no recovery would list is in the last attempt of an entry
\* that works on it; every entry of an export that is not excused has all attempts.
Attended(x) ==
    /\ exportRow[x].status = "pending" => exportRow[x].attempts < MaxExportAttempts
    /\ exportRow[x].status = "running" /\ exportRow[x].attempts = MaxExportAttempts =>
           \E s \in Slots : /\ entry[x][s].at = "working"
                            /\ entry[x][s].attempt = MaxExportAttempts
    /\ \A s \in Slots : entry[x][s].at # "none" => entry[x][s].max = MaxExportAttempts
    /\ exportRow[x].status \in {"pending", "running"} =>
           \/ submission[x].at = "created"
           \/ \E s \in Slots : entry[x][s].at \in Live
           \/ \E p \in Processes : \/ recovery[p].at = "due" /\ Recoverable(x)
                                   \/ \E f \in recovery[p].found : f.export = x
    /\ exportRow[x].status = "failed" => exportRow[x].attempts = MaxExportAttempts

ExportTypes ==
    /\ submission \in [Exports -> Submission]
    /\ exportRow \in [Exports -> ExportRecordRow]
    /\ entry \in [Exports -> [Slots -> EntryRecord]]
    /\ recovery \in [Processes -> Recovery]
    /\ dlq \in [Processes -> SUBSET Exports]
    /\ excused \subseteq Exports

ExportIInv ==
    /\ ExportTypes
    /\ \A x \in Exports, s \in Slots : EntrySound(entry[x][s])
    /\ MadeOnce
    /\ \A x \in Exports \ excused : Attended(x)

LEMMA ExportBound == MaxExportAttempts \in Nat /\ MaxExportAttempts > 0 /\ 0 \in Tries
                     /\ MaxExportAttempts \in Tries
  BY ExportAssumption DEF Tries

\* One entry of one export changes, with its row and its submission.
LEMMA OneEntryChanges ==
    ASSUME ExportIInv, NEW x \in Exports, NEW s \in Slots, NEW y \in EntryRecord, EntrySound(y),
           entry' = [entry EXCEPT ![x][s] = y],
           exportRow' \in [Exports -> ExportRecordRow],
           \A z \in Exports \ {x} : exportRow'[z] = exportRow[z],
           submission' \in [Exports -> Submission],
           \A z \in Exports \ {x} : submission'[z] = submission[z],
           submission'[x].at \in {"new", "created"} => submission[x].at \in {"new", "created"},
           s = Own => submission'[x].at \notin {"new", "created"},
           s \in Processes => recovery[s].at = "done",
           recovery' = recovery,
           dlq' \in [Processes -> SUBSET Exports],
           excused \subseteq excused', excused' \subseteq Exports,
           x \notin excused' => Attended(x)'
    PROVE  ExportIInv'
  <1>1. /\ entry' \in [Exports -> [Slots -> EntryRecord]] /\ entry'[x][s] = y
        /\ \A r \in Slots \ {s} : entry'[x][r] = entry[x][r]
        /\ \A z \in Exports \ {x} : entry'[z] = entry[z]
    BY DEF ExportIInv, ExportTypes
  <1>2. ExportTypes'
    BY <1>1 DEF ExportIInv, ExportTypes
  <1>3. \A z \in Exports, r \in Slots : EntrySound(entry'[z][r])
    <2> TAKE z \in Exports, r \in Slots
    <2>1. CASE z = x /\ r = s
      BY <1>1, <2>1
    <2>2. CASE ~(z = x /\ r = s)
      <3>1. entry'[z][r] = entry[z][r] /\ EntrySound(entry[z][r])
        BY <1>1, <2>2 DEF ExportIInv
      <3>2. QED
        BY <3>1
    <2>3. QED
      BY <2>1, <2>2
  <1>4. MadeOnce'
    <2>1. ASSUME NEW z \in Exports, submission'[z].at \in {"new", "created"}
          PROVE  entry'[z][Own].at = "none"
      <3>1. submission[z].at \in {"new", "created"} /\ ~(z = x /\ s = Own)
        BY <2>1
      <3>2. entry'[z][Own] = entry[z][Own]
        BY <1>1, <3>1 DEF Slots
      <3>3. QED
        BY <3>1, <3>2 DEF ExportIInv, MadeOnce
    <2>2. ASSUME NEW p \in Processes, NEW z \in Exports, recovery'[p].at # "done"
          PROVE  entry'[z][p].at = "none"
      <3>1. recovery[p].at # "done" /\ p # s
        BY <2>2
      <3>2. entry'[z][p] = entry[z][p]
        BY <1>1, <3>1 DEF Slots
      <3>3. QED
        BY <3>1, <3>2 DEF ExportIInv, MadeOnce
    <2>3. QED
      BY <2>1, <2>2 DEF ExportIInv, MadeOnce
  <1>5. ASSUME NEW z \in Exports \ excused' PROVE Attended(z)'
    <2>1. CASE z = x
      BY <1>5, <2>1
    <2>2. CASE z # x
      <3>1. Attended(z)
        BY <1>5 DEF ExportIInv
      <3>2. /\ entry'[z] = entry[z] /\ exportRow'[z] = exportRow[z] /\ submission'[z] = submission[z]
        BY <1>1, <2>2
      <3>3. QED
        BY <3>1, <3>2 DEF Attended, Recoverable
    <2>3. QED
      BY <2>1, <2>2
  <1>6. QED
    BY <1>2, <1>3, <1>4, <1>5 DEF ExportIInv

\* An entry that is there was made by a submission or a boot that is over.
LEMMA EntryMade ==
    ASSUME ExportIInv, NEW x \in Exports, NEW s \in Slots, entry[x][s].at # "none"
    PROVE  /\ s = Own => submission[x].at \notin {"new", "created"}
           /\ s \in Processes => recovery[s].at = "done"
           /\ entry[x][s] \in EntryRecord /\ EntrySound(entry[x][s])
           /\ entry[x][s].max \in Tries /\ entry[x][s].attempt \in Tries
           /\ x \notin excused => Attended(x) /\ entry[x][s].max = MaxExportAttempts
  BY DEF ExportIInv, ExportTypes, MadeOnce, EntryRecord, Attended

\* The entry of a step that moves it keeps its attempts.
LEMMA MovedEntry ==
    ASSUME ExportIInv, NEW x \in Exports, NEW s \in Slots, entry[x][s].at # "none",
           NEW stage \in Live \cup {"dead"},
           stage = "queued" => entry[x][s].attempt < entry[x][s].max,
           Move(x, s, stage)
    PROVE  \E y \in EntryRecord :
              /\ EntrySound(y) /\ entry' = [entry EXCEPT ![x][s] = y]
              /\ y.at = stage /\ y.attempt = entry[x][s].attempt /\ y.max = entry[x][s].max
  <1> DEFINE y == [entry[x][s] EXCEPT !.at = stage]
  <1>1. /\ y \in EntryRecord
        /\ y.at = stage /\ y.attempt = entry[x][s].attempt /\ y.max = entry[x][s].max
    BY EntryMade DEF EntryRecord
  <1>2. entry' = [entry EXCEPT ![x][s] = y]
    BY DEF Move
  <1> HIDE DEF y
  <1>3. EntrySound(y)
    BY <1>1, EntryMade DEF EntrySound
  <1>4. QED
    BY <1>1, <1>2, <1>3

LEMMA RowSet ==
    ASSUME ExportIInv, NEW x \in Exports, NEW a \in Tries,
           NEW status \in {"none", "pending", "running", "done", "failed"}, SetRow(x, status, a)
    PROVE  /\ exportRow' \in [Exports -> ExportRecordRow]
           /\ \A z \in Exports \ {x} : exportRow'[z] = exportRow[z]
           /\ exportRow'[x].status = status /\ exportRow'[x].attempts = a
  BY DEF ExportIInv, ExportTypes, ExportRecordRow, SetRow

LEMMA CreateExportKeeps ==
    ASSUME ExportIInv, NEW x \in Exports, CreateExport(x)
    PROVE  ExportIInv'
  <1>1. /\ submission[x].at = "new" /\ SetRow(x, "pending", 0)
        /\ submission' = [submission EXCEPT ![x].at = "created"]
        /\ UNCHANGED <<entry, recovery, dlq, excused>>
    BY DEF CreateExport, Submitted
  <1>2. /\ submission' \in [Exports -> Submission] /\ submission'[x].at = "created"
        /\ \A z \in Exports \ {x} : submission'[z] = submission[z]
    BY <1>1 DEF ExportIInv, ExportTypes, Submission
  <1>3. /\ exportRow' \in [Exports -> ExportRecordRow]
        /\ \A z \in Exports \ {x} : exportRow'[z] = exportRow[z]
        /\ exportRow'[x].status = "pending" /\ exportRow'[x].attempts = 0
    BY <1>1, RowSet, ExportBound
  <1>4. ExportTypes' /\ MadeOnce'
    BY <1>1, <1>2, <1>3 DEF ExportIInv, ExportTypes, MadeOnce
  <1>5. ASSUME NEW z \in Exports \ excused' PROVE Attended(z)'
    <2>1. Attended(z) /\ entry'[z] = entry[z]
      BY <1>1, <1>5 DEF ExportIInv
    <2>2. CASE z = x
      BY <1>2, <1>3, <2>1, <2>2, ExportBound DEF Attended
    <2>3. CASE z # x
      BY <1>1, <1>2, <1>3, <2>1, <2>3 DEF Attended, Recoverable
    <2>4. QED
      BY <2>2, <2>3
  <1>6. QED
    BY <1>1, <1>4, <1>5 DEF ExportIInv

LEMMA EnqueueExportKeeps ==
    ASSUME ExportIInv, NEW x \in Exports, EnqueueExport(x)
    PROVE  ExportIInv'
  <1> DEFINE y == [at |-> "queued", attempt |-> 0, max |-> MaxExportAttempts]
  <1>1. /\ submission' = [submission EXCEPT ![x].at = "accepted"] /\ submission[x].at = "created"
        /\ entry' = [entry EXCEPT ![x][Own] = y]
        /\ UNCHANGED <<exportRow, recovery, dlq, excused>>
    BY DEF EnqueueExport, Submitted
  <1>2. /\ submission' \in [Exports -> Submission] /\ submission'[x].at = "accepted"
        /\ \A z \in Exports \ {x} : submission'[z] = submission[z]
    BY <1>1 DEF ExportIInv, ExportTypes, Submission
  <1>3. /\ y \in EntryRecord /\ y.at = "queued" /\ y.attempt = 0 /\ y.max = MaxExportAttempts
    BY ExportBound DEF EntryRecord, Live
  <1> HIDE DEF y
  <1>4. EntrySound(y) /\ Own \in Slots /\ Own \notin Processes /\ entry[x][Own].at = "none"
    BY <1>1, <1>3, ExportBound, ExportAssumption DEF EntrySound, Slots, ExportIInv, MadeOnce
  <1>5. x \notin excused' => Attended(x)'
    <2> SUFFICES ASSUME x \notin excused PROVE Attended(x)'
      BY <1>1
    <2>1. Attended(x)
      BY DEF ExportIInv
    <2>2. /\ entry'[x][Own] = y
          /\ \A r \in Slots \ {Own} : entry'[x][r] = entry[x][r]
      BY <1>1, <1>4 DEF ExportIInv, ExportTypes
    <2>3. exportRow'[x] = exportRow[x] /\ \E r \in Slots : entry'[x][r].at \in Live
      BY <1>1, <1>3, <1>4, <2>2 DEF Live
    <2>4. \A r \in Slots : entry'[x][r].at # "none" => entry'[x][r].max = MaxExportAttempts
      BY <1>3, <2>1, <2>2 DEF Attended
    <2>5. ASSUME NEW r \in Slots, entry[x][r].at = "working"
          PROVE  entry'[x][r] = entry[x][r]
      BY <1>4, <2>2, <2>5
    <2>6. QED
      BY <2>1, <2>3, <2>4, <2>5 DEF Attended
  <1>6. QED
    BY <1>1, <1>2, <1>3, <1>4, <1>5, OneEntryChanges DEF ExportIInv, ExportTypes

\* An entry takes a step: unless its export is excused it stays to attend to an
\* unfinished row, and a row in its last attempt keeps the entry that works on it.
LEMMA EntryStepKeeps ==
    ASSUME ExportIInv, NEW x \in Exports, NEW s \in Slots, entry[x][s].at # "none",
           NEW y \in EntryRecord, EntrySound(y), entry' = [entry EXCEPT ![x][s] = y],
           exportRow' \in [Exports -> ExportRecordRow],
           \A z \in Exports \ {x} : exportRow'[z] = exportRow[z],
           UNCHANGED <<submission, recovery>>,
           dlq' \in [Processes -> SUBSET Exports],
           excused \subseteq excused', excused' \subseteq Exports,
           x \notin excused' =>
               /\ y.at # "none" => y.max = MaxExportAttempts
               /\ exportRow'[x].status \in {"pending", "running"} => y.at \in Live
               /\ exportRow'[x].status = "pending" => exportRow'[x].attempts < MaxExportAttempts
               /\ exportRow'[x].status = "failed" => exportRow'[x].attempts = MaxExportAttempts
               /\ exportRow'[x].status = "running" /\ exportRow'[x].attempts = MaxExportAttempts =>
                      \/ y.at = "working" /\ y.attempt = MaxExportAttempts
                      \/ /\ exportRow'[x] = exportRow[x]
                         /\ ~(/\ entry[x][s].at = "working"
                              /\ entry[x][s].attempt = MaxExportAttempts)
    PROVE  ExportIInv'
  <1>1. x \notin excused' => Attended(x)'
    <2> SUFFICES ASSUME x \notin excused' PROVE Attended(x)'
      OBVIOUS
    <2>1. Attended(x)
      BY DEF ExportIInv
    <2>2. /\ entry'[x][s] = y
          /\ \A r \in Slots \ {s} : entry'[x][r] = entry[x][r]
      BY DEF ExportIInv, ExportTypes
    <2>3. \A r \in Slots : entry'[x][r].at # "none" => entry'[x][r].max = MaxExportAttempts
      BY <2>1, <2>2 DEF Attended
    <2>4. ASSUME exportRow'[x].status = "running", exportRow'[x].attempts = MaxExportAttempts
          PROVE  \E r \in Slots : /\ entry'[x][r].at = "working"
                                  /\ entry'[x][r].attempt = MaxExportAttempts
      <3>1. CASE y.at = "working" /\ y.attempt = MaxExportAttempts
        BY <2>2, <3>1
      <3>2. CASE ~(y.at = "working" /\ y.attempt = MaxExportAttempts)
        <4>1. PICK r \in Slots : /\ entry[x][r].at = "working"
                                 /\ entry[x][r].attempt = MaxExportAttempts
          BY <2>1, <2>4, <3>2 DEF Attended
        <4>2. r # s
          BY <2>4, <3>2, <4>1
        <4>3. QED
          BY <2>2, <4>1, <4>2
      <3>3. QED
        BY <3>1, <3>2
    <2>5. QED
      BY <2>2, <2>3, <2>4 DEF Attended
  <1>2. QED
    BY <1>1, EntryMade, OneEntryChanges DEF ExportIInv, ExportTypes

\* The row is as it was, and the entry does not leave its last attempt.
LEMMA RowStaysKeeps ==
    ASSUME ExportIInv, NEW x \in Exports, NEW s \in Slots, entry[x][s].at # "none",
           NEW y \in EntryRecord, EntrySound(y), entry' = [entry EXCEPT ![x][s] = y],
           UNCHANGED <<submission, exportRow, recovery, dlq>>,
           excused \subseteq excused', excused' \subseteq Exports,
           y.max = entry[x][s].max,
           x \notin excused' =>
               /\ y.at \in Live
               /\ ~(entry[x][s].at = "working" /\ entry[x][s].attempt = MaxExportAttempts)
    PROVE  ExportIInv'
  <1>1. x \notin excused' => Attended(x) /\ y.max = MaxExportAttempts
    BY EntryMade
  <1>2. x \notin excused' =>
           /\ exportRow[x].status = "pending" => exportRow[x].attempts < MaxExportAttempts
           /\ exportRow[x].status = "failed" => exportRow[x].attempts = MaxExportAttempts
    BY <1>1 DEF Attended
  <1>3. /\ exportRow' \in [Exports -> ExportRecordRow] /\ exportRow' = exportRow
        /\ dlq' \in [Processes -> SUBSET Exports]
    BY DEF ExportIInv, ExportTypes
  <1>4. QED
    BY <1>1, <1>2, <1>3, EntryStepKeeps

LEMMA StartExportKeeps ==
    ASSUME ExportIInv, NEW x \in Exports, NEW s \in Slots, StartExport(x, s)
    PROVE  ExportIInv'
  <1>1. /\ entry[x][s].at = "queued" /\ entry[x][s] \in EntryRecord /\ EntrySound(entry[x][s])
        /\ UNCHANGED <<submission, exportRow, recovery, dlq, excused>>
        /\ entry[x][s].attempt \in Tries /\ entry[x][s].max \in Tries
        /\ x \notin excused => Attended(x) /\ entry[x][s].max = MaxExportAttempts
    BY EntryMade DEF StartExport
  <1>2. CASE exportRow[x].status = "done"
    <2>1. entry' = [entry EXCEPT ![x][s] = NoEntry]
      BY <1>2 DEF StartExport
    <2>2. NoEntry \in EntryRecord /\ NoEntry.at = "none" /\ EntrySound(NoEntry)
      BY ExportBound DEF NoEntry, EntryRecord, EntrySound
    <2>3. QED
      BY <1>1, <1>2, <2>1, <2>2, EntryStepKeeps DEF ExportIInv, ExportTypes
  <1>3. CASE exportRow[x].status # "done"
    <2> DEFINE y == [entry[x][s] EXCEPT !.at = "marking", !.attempt = @ + 1]
    <2>1. entry' = [entry EXCEPT ![x][s] = y]
      BY <1>3 DEF StartExport
    <2>2. entry[x][s].attempt + 1 \in Tries /\ entry[x][s].attempt < entry[x][s].max
      BY <1>1, ExportBound DEF EntrySound, Tries
    <2>3. /\ y \in EntryRecord /\ y.at = "marking" /\ y.max = entry[x][s].max
          /\ y.attempt = entry[x][s].attempt + 1
      BY <1>1, <2>2 DEF EntryRecord, Live
    <2> HIDE DEF y
    <2>4. EntrySound(y)
      BY <1>1, <2>2, <2>3, ExportBound DEF EntrySound, Tries
    <2>5. y.at \in Live
      BY <2>3 DEF Live
    <2>6. QED
      BY <1>1, <2>1, <2>3, <2>4, <2>5, RowStaysKeeps DEF ExportIInv, ExportTypes
  <1>4. QED
    BY <1>2, <1>3

LEMMA MarkRunningKeeps ==
    ASSUME ExportIInv, NEW x \in Exports, NEW s \in Slots, MarkRunning(x, s)
    PROVE  ExportIInv'
  <1>1. /\ entry[x][s].at = "marking" /\ Move(x, s, "working")
        /\ SetRow(x, "running", entry[x][s].attempt) /\ UNCHANGED <<submission, recovery, dlq, excused>>
    BY DEF MarkRunning
  <1>2. PICK y \in EntryRecord :
           /\ EntrySound(y) /\ entry' = [entry EXCEPT ![x][s] = y]
           /\ y.at = "working" /\ y.attempt = entry[x][s].attempt /\ y.max = entry[x][s].max
    BY <1>1, MovedEntry DEF Live
  <1>3. /\ exportRow' \in [Exports -> ExportRecordRow]
        /\ \A z \in Exports \ {x} : exportRow'[z] = exportRow[z]
        /\ exportRow'[x].status = "running" /\ exportRow'[x].attempts = entry[x][s].attempt
    BY <1>1, RowSet, EntryMade
  <1>4. y.at \in Live
    BY <1>2 DEF Live
  <1>5. QED
    BY <1>1, <1>2, <1>3, <1>4, EntryMade, EntryStepKeeps DEF ExportIInv, ExportTypes

LEMMA SucceedKeeps ==
    ASSUME ExportIInv, NEW x \in Exports, NEW s \in Slots, Succeed(x, s)
    PROVE  ExportIInv'
  <1>1. /\ entry[x][s].at = "working" /\ entry' = [entry EXCEPT ![x][s] = NoEntry]
        /\ SetRow(x, "done", entry[x][s].attempt) /\ UNCHANGED <<submission, recovery, dlq, excused>>
    BY DEF Succeed
  <1>2. NoEntry \in EntryRecord /\ NoEntry.at = "none" /\ EntrySound(NoEntry)
    BY ExportBound DEF NoEntry, EntryRecord, EntrySound
  <1>3. /\ exportRow' \in [Exports -> ExportRecordRow]
        /\ \A z \in Exports \ {x} : exportRow'[z] = exportRow[z]
        /\ exportRow'[x].status = "done"
    BY <1>1, RowSet, EntryMade
  <1>4. QED
    BY <1>1, <1>2, <1>3, EntryStepKeeps DEF ExportIInv, ExportTypes

LEMMA FailExportKeeps ==
    ASSUME ExportIInv, NEW x \in Exports, NEW s \in Slots, FailExport(x, s)
    PROVE  ExportIInv'
  <1>1. /\ entry[x][s].at = "working" /\ Retry(x, s) /\ UNCHANGED <<submission, recovery, excused>>
        /\ IF entry[x][s].attempt < MaxExportAttempts
           THEN SetRow(x, "pending", entry[x][s].attempt) /\ UNCHANGED dlq
           ELSE /\ SetRow(x, "failed", entry[x][s].attempt)
                /\ dlq' = [dlq EXCEPT ![ProcessOf(x, s)] = @ \cup {x}]
    BY DEF FailExport
  <1>2. /\ entry[x][s].attempt \in Tries /\ entry[x][s].max \in Tries /\ EntrySound(entry[x][s])
        /\ x \notin excused => entry[x][s].max = MaxExportAttempts
    BY <1>1, EntryMade
  <1>3. PICK y \in EntryRecord :
           /\ EntrySound(y) /\ entry' = [entry EXCEPT ![x][s] = y]
           /\ y.at = IF entry[x][s].attempt < entry[x][s].max THEN "queued" ELSE "dead"
           /\ y.attempt = entry[x][s].attempt /\ y.max = entry[x][s].max
    BY <1>1, MovedEntry DEF Live, Retry
  <1>4. dlq' \in [Processes -> SUBSET Exports]
    BY <1>1 DEF ExportIInv, ExportTypes
  <1>5. CASE entry[x][s].attempt < MaxExportAttempts
    <2>1. /\ exportRow' \in [Exports -> ExportRecordRow]
          /\ \A z \in Exports \ {x} : exportRow'[z] = exportRow[z]
          /\ exportRow'[x].status = "pending" /\ exportRow'[x].attempts = entry[x][s].attempt
      BY <1>1, <1>2, <1>5, RowSet
    <2>2. x \notin excused => y.at \in Live
      BY <1>2, <1>3, <1>5 DEF Live
    <2>3. QED
      BY <1>1, <1>2, <1>3, <1>4, <1>5, <2>1, <2>2, EntryStepKeeps DEF ExportIInv, ExportTypes
  <1>6. CASE ~(entry[x][s].attempt < MaxExportAttempts)
    <2>1. /\ exportRow' \in [Exports -> ExportRecordRow]
          /\ \A z \in Exports \ {x} : exportRow'[z] = exportRow[z]
          /\ exportRow'[x].status = "failed" /\ exportRow'[x].attempts = entry[x][s].attempt
      BY <1>1, <1>2, <1>6, RowSet
    <2>2. entry[x][s].attempt = MaxExportAttempts
      BY <1>2, <1>6, ExportBound DEF Tries
    <2>3. QED
      BY <1>1, <1>2, <1>3, <1>4, <2>1, <2>2, EntryStepKeeps DEF ExportIInv, ExportTypes
  <1>7. QED
    BY <1>5, <1>6

LEMMA QueryFailsKeeps ==
    ASSUME ExportIInv, NEW x \in Exports, NEW s \in Slots, QueryFails(x, s)
    PROVE  ExportIInv'
  <1>1. /\ entry[x][s].at \in {"marking", "working"} /\ Retry(x, s)
        /\ excused' = excused \cup (IF Dies(x, s) THEN {x} ELSE {})
        /\ UNCHANGED <<submission, exportRow, recovery, dlq>>
    BY DEF QueryFails, Excuse
  <1>2. /\ entry[x][s].attempt \in Tries /\ entry[x][s].max \in Tries /\ EntrySound(entry[x][s])
        /\ x \notin excused => entry[x][s].max = MaxExportAttempts /\ Attended(x)
    BY <1>1, EntryMade
  <1>3. PICK y \in EntryRecord :
           /\ EntrySound(y) /\ entry' = [entry EXCEPT ![x][s] = y]
           /\ y.at = IF entry[x][s].attempt < entry[x][s].max THEN "queued" ELSE "dead"
           /\ y.attempt = entry[x][s].attempt /\ y.max = entry[x][s].max
    BY <1>1, MovedEntry DEF Live, Retry
  <1>4. x \notin excused' =>
           /\ x \notin excused /\ y.at \in Live /\ entry[x][s].attempt # MaxExportAttempts
    BY <1>1, <1>2, <1>3, ExportBound DEF Dies, Live, Tries
  <1>5. excused \subseteq excused' /\ excused' \subseteq Exports
    BY <1>1 DEF ExportIInv, ExportTypes
  <1>6. QED
    BY <1>1, <1>2, <1>3, <1>4, <1>5, RowStaysKeeps DEF ExportIInv, ExportTypes

LEMMA ReplayEntryKeeps ==
    ASSUME ExportIInv, NEW x \in Exports, NEW s \in Slots, ReplayEntry(x, s)
    PROVE  ExportIInv'
  <1>1. /\ entry[x][s].at = "dead"
        /\ entry' = [entry EXCEPT ![x][s].at = "queued", ![x][s].attempt = 0]
        /\ UNCHANGED <<submission, exportRow, recovery, dlq, excused>>
    BY DEF ReplayEntry
  <1>2. /\ entry[x][s] \in EntryRecord /\ EntrySound(entry[x][s])
        /\ x \notin excused => entry[x][s].max = MaxExportAttempts /\ Attended(x)
    BY <1>1, EntryMade
  <1> DEFINE y == [entry[x][s] EXCEPT !.at = "queued", !.attempt = 0]
  <1>3. /\ y \in EntryRecord /\ y.at = "queued" /\ y.attempt = 0 /\ y.max = entry[x][s].max
    BY <1>2, ExportBound DEF EntryRecord, Live
  <1>4. entry' = [entry EXCEPT ![x][s] = y]
    BY <1>1 DEF ExportIInv, ExportTypes
  <1> HIDE DEF y
  <1>5. EntrySound(y) /\ y.at \in Live
    BY <1>1, <1>2, <1>3 DEF EntrySound, Live, EntryRecord, Tries
  <1>6. excused' = excused /\ excused \subseteq Exports
    BY <1>1 DEF ExportIInv, ExportTypes
  <1>7. QED
    BY <1>1, <1>3, <1>4, <1>5, <1>6, RowStaysKeeps

LEMMA RequeueKeeps ==
    ASSUME ExportIInv, NEW x \in Exports, NEW p \in Processes, Requeue(x, p)
    PROVE  ExportIInv'
  <1>1. /\ dlq' = [dlq EXCEPT ![p] = @ \ {x}] /\ SetRow(x, "pending", 0)
        /\ excused' = excused \cup {x} /\ UNCHANGED <<submission, entry, recovery>>
    BY DEF Requeue, Excuse
  <1>2. /\ exportRow' \in [Exports -> ExportRecordRow]
        /\ \A z \in Exports \ {x} : exportRow'[z] = exportRow[z]
    BY <1>1, RowSet, ExportBound
  <1>3. ExportTypes' /\ MadeOnce'
    BY <1>1, <1>2 DEF ExportIInv, ExportTypes, MadeOnce
  <1>4. ASSUME NEW z \in Exports \ excused' PROVE Attended(z)'
    <2>1. Attended(z) /\ exportRow'[z] = exportRow[z]
      BY <1>1, <1>2, <1>4 DEF ExportIInv
    <2>2. QED
      BY <1>1, <2>1 DEF Attended, Recoverable
  <1>5. QED
    BY <1>1, <1>3, <1>4 DEF ExportIInv

LEMMA DiscardKeeps ==
    ASSUME ExportIInv, NEW x \in Exports, NEW p \in Processes, Discard(x, p)
    PROVE  ExportIInv'
  <1>1. dlq' \in [Processes -> SUBSET Exports]
        /\ UNCHANGED <<submission, exportRow, entry, recovery, excused>>
    BY DEF Discard, ExportIInv, ExportTypes
  <1>2. QED
    BY <1>1 DEF ExportIInv, ExportTypes, MadeOnce, Attended, Recoverable

LEMMA ListRecoverableKeeps ==
    ASSUME ExportIInv, NEW p \in Processes, ListRecoverable(p)
    PROVE  ExportIInv'
  <1>1. /\ recovery[p].at = "due" /\ recovery[p].found = {}
        /\ recovery \in [Processes -> Recovery] /\ recovery[p] \in Recovery
        /\ UNCHANGED <<submission, exportRow, entry, dlq>>
    BY DEF ListRecoverable, ExportIInv, ExportTypes, MadeOnce
  <1>2. PICK x \in Recovery :
           /\ recovery' = [recovery EXCEPT ![p] = x]
           /\ excused \subseteq excused' /\ excused' \subseteq Exports /\ x.at # "due"
           /\ \A f \in x.found : f.attempts < MaxExportAttempts
           /\ \A z \in Exports \ excused' : Recoverable(z) => \E f \in x.found : f.export = z
    <2> DEFINE found == {z \in Exports : Recoverable(z)}
               listed == {[export |-> z, attempts |-> exportRow[z].attempts] : z \in found}
    <2>1. CASE recovery' = [recovery EXCEPT ![p] = [at |-> "listed", found |-> listed]]
               /\ UNCHANGED excused
      <3> DEFINE x == [at |-> "listed", found |-> listed]
      <3>1. \A z \in found : exportRow[z].attempts \in Tries /\ exportRow[z].attempts < MaxExportAttempts
        BY DEF Recoverable, ExportIInv, ExportTypes, ExportRecordRow
      <3>2. /\ listed \subseteq [export : Exports, attempts : Tries]
            /\ \A f \in listed : f.attempts < MaxExportAttempts
            /\ \A z \in found : \E f \in listed : f.export = z
        <4>1. ASSUME NEW z \in found
              PROVE  /\ [export |-> z, attempts |-> exportRow[z].attempts]
                            \in [export : Exports, attempts : Tries]
                     /\ exportRow[z].attempts < MaxExportAttempts
          BY <3>1, <4>1
        <4>2. ASSUME NEW f \in listed
              PROVE  f \in [export : Exports, attempts : Tries] /\ f.attempts < MaxExportAttempts
          BY <4>1, <4>2
        <4>3. ASSUME NEW z \in found PROVE \E f \in listed : f.export = z
          <5>1. [export |-> z, attempts |-> exportRow[z].attempts] \in listed
            BY <4>3
          <5>2. QED
            BY <5>1
        <4>4. QED
          BY <4>2, <4>3
      <3> HIDE DEF listed
      <3>3. x \in Recovery /\ x.at = "listed" /\ x.found = listed
        BY <3>2 DEF Recovery
      <3>4. recovery' = [recovery EXCEPT ![p] = x]
        BY <2>1
      <3> HIDE DEF x
      <3>5. QED
        BY <2>1, <3>2, <3>3, <3>4 DEF ExportIInv, ExportTypes
    <2>2. CASE recovery' = [recovery EXCEPT ![p].at = "done"] /\ excused' = excused \cup found
      <3> DEFINE x == [recovery[p] EXCEPT !.at = "done"]
      <3>1. x \in Recovery /\ x.at = "done" /\ x.found = {}
        BY <1>1 DEF Recovery
      <3>2. recovery' = [recovery EXCEPT ![p] = x]
        BY <2>2
      <3> HIDE DEF x
      <3>3. QED
        BY <2>2, <3>1, <3>2 DEF ExportIInv, ExportTypes
    <2>3. QED
      BY <2>1, <2>2 DEF ListRecoverable, Excuse
  <1>3. /\ recovery' \in [Processes -> Recovery] /\ recovery'[p] = x
        /\ \A q \in Processes \ {p} : recovery'[q] = recovery[q]
    BY <1>1, <1>2
  <1>4. ExportTypes'
    BY <1>1, <1>2, <1>3 DEF ExportIInv, ExportTypes
  <1>5. MadeOnce'
    BY <1>1, <1>2, <1>3 DEF ExportIInv, MadeOnce
  <1>6. ASSUME NEW z \in Exports \ excused' PROVE Attended(z)'
    <2>1. Attended(z)
      BY <1>2, <1>6 DEF ExportIInv
    <2>2. ASSUME NEW q \in Processes, \/ recovery[q].at = "due" /\ Recoverable(z)
                                      \/ \E f \in recovery[q].found : f.export = z
          PROVE  \/ \E r \in Processes : \E f \in recovery'[r].found : f.export = z
                 \/ \E t \in Processes : recovery'[t].at = "due" /\ Recoverable(z)
      <3>1. CASE q = p
        <4>1. Recoverable(z)
          BY <1>1, <2>2, <3>1
        <4>2. \E f \in x.found : f.export = z
          BY <1>2, <1>6, <4>1
        <4>3. recovery'[p].found = x.found
          BY <1>3
        <4>4. QED
          BY <4>2, <4>3
      <3>2. CASE q # p
        BY <1>3, <2>2, <3>2
      <3>3. QED
        BY <3>1, <3>2
    <2>3. Recoverable(z)' <=> Recoverable(z)
      BY <1>1 DEF Recoverable
    <2>4. QED
      BY <1>1, <2>1, <2>2, <2>3 DEF Attended
  <1>7. QED
    BY <1>1, <1>4, <1>5, <1>6 DEF ExportIInv

LEMMA EnqueueListedKeeps ==
    ASSUME ExportIInv, NEW p \in Processes, EnqueueListed(p)
    PROVE  ExportIInv'
  <1> DEFINE Found(x) == \E f \in recovery[p].found : f.export = x
             Left(x) == MaxExportAttempts - (CHOOSE f \in recovery[p].found : f.export = x).attempts
             y(x) == [at |-> "queued", attempt |-> 0, max |-> Left(x)]
             z == [at |-> "done", found |-> {}]
  <1>1. /\ recovery[p].at = "listed" /\ recovery' = [recovery EXCEPT ![p] = z]
        /\ entry' = [x \in Exports |-> IF Found(x) THEN [entry[x] EXCEPT ![p] = y(x)] ELSE entry[x]]
        /\ excused' = excused \cup {f.export : f \in {g \in recovery[p].found : g.attempts > 0}}
        /\ UNCHANGED <<submission, exportRow, dlq>>
    BY DEF EnqueueListed, Excuse
  <1>2. /\ recovery[p].found \subseteq [export : Exports, attempts : Tries]
        /\ \A f \in recovery[p].found : f.attempts < MaxExportAttempts
        /\ p \in Slots /\ p # Own
    BY ExportAssumption DEF ExportIInv, ExportTypes, Recovery, MadeOnce, Slots
  <1>3. ASSUME NEW x \in Exports, Found(x)
        PROVE  /\ Left(x) \in Tries /\ Left(x) > 0
               /\ x \notin excused' => Left(x) = MaxExportAttempts
    <2>1. PICK f \in recovery[p].found : /\ f = (CHOOSE g \in recovery[p].found : g.export = x)
                                         /\ f.export = x
      BY <1>3
    <2>2. f.attempts \in Tries /\ f.attempts < MaxExportAttempts
      BY <1>2
    <2>3. Left(x) = MaxExportAttempts - f.attempts
      BY <2>1
    <2>4. f.attempts > 0 => x \in excused'
      BY <1>1, <2>1
    <2> HIDE DEF Left
    <2>5. QED
      BY <2>2, <2>3, <2>4, ExportBound DEF Tries
  <1>4. ASSUME NEW x \in Exports, Found(x)
        PROVE  /\ y(x) \in EntryRecord /\ y(x).at = "queued" /\ y(x).attempt = 0
               /\ y(x).max = Left(x) /\ EntrySound(y(x))
    <2> HIDE DEF Left, Found
    <2>1. Left(x) \in Tries /\ Left(x) > 0
      BY <1>3, <1>4
    <2>2. /\ y(x) \in EntryRecord /\ y(x).at = "queued" /\ y(x).attempt = 0 /\ y(x).max = Left(x)
      BY <2>1, ExportBound DEF EntryRecord, Live
    <2> HIDE DEF y
    <2>3. EntrySound(y(x))
      BY <2>1, <2>2, ExportBound DEF EntrySound, Tries
    <2>4. QED
      BY <2>2, <2>3
  <1> HIDE DEF y, Left
  <1>5. /\ \A x \in Exports : /\ Found(x) => entry'[x] = [entry[x] EXCEPT ![p] = y(x)]
                              /\ ~Found(x) => entry'[x] = entry[x]
        /\ DOMAIN entry' = Exports /\ entry' = [x \in Exports |-> entry'[x]]
    BY <1>1
  <1> HIDE DEF Found
  <1>6. ASSUME NEW x \in Exports
        PROVE  /\ entry'[x] \in [Slots -> EntryRecord]
               /\ Found(x) => entry'[x][p] = y(x)
               /\ ~Found(x) => entry'[x][p] = entry[x][p]
               /\ \A s \in Slots \ {p} : entry'[x][s] = entry[x][s]
               /\ entry[x][p].at = "none"
    <2>1. entry[x] \in [Slots -> EntryRecord]
      BY DEF ExportIInv, ExportTypes
    <2>2. entry[x][p].at = "none"
      BY <1>1 DEF ExportIInv, MadeOnce
    <2>3. QED
      BY <1>2, <1>4, <1>5, <2>1, <2>2
  <1>7. z \in Recovery /\ z.at = "done" /\ z.found = {}
    BY DEF Recovery
  <1> HIDE DEF z
  <1>8. /\ recovery' \in [Processes -> Recovery] /\ recovery'[p] = z
        /\ \A q \in Processes \ {p} : recovery'[q] = recovery[q]
    BY <1>1, <1>7 DEF ExportIInv, ExportTypes
  <1>9. excused \subseteq excused' /\ excused' \subseteq Exports
    BY <1>1, <1>2 DEF ExportIInv, ExportTypes
  <1>10. ExportTypes'
    BY <1>1, <1>5, <1>6, <1>8, <1>9 DEF ExportIInv, ExportTypes
  <1>11. \A x \in Exports, s \in Slots : EntrySound(entry'[x][s])
    BY <1>4, <1>6 DEF ExportIInv
  <1>12. MadeOnce'
    <2>1. ASSUME NEW x \in Exports, submission[x].at \in {"new", "created"}
          PROVE  entry'[x][Own].at = "none"
      BY <1>2, <1>6, <2>1 DEF ExportIInv, MadeOnce, Slots
    <2>2. ASSUME NEW q \in Processes, NEW x \in Exports, recovery'[q].at # "done"
          PROVE  entry'[x][q].at = "none"
      BY <1>6, <1>7, <1>8, <2>2 DEF ExportIInv, MadeOnce, Slots
    <2>3. QED
      BY <1>1, <1>7, <1>8, <2>1, <2>2 DEF ExportIInv, MadeOnce
  <1>13. ASSUME NEW x \in Exports \ excused' PROVE Attended(x)'
    <2>1. Attended(x)
      BY <1>9, <1>13 DEF ExportIInv
    <2>2. \A s \in Slots : entry'[x][s].at # "none" => entry'[x][s].max = MaxExportAttempts
      BY <1>3, <1>4, <1>6, <1>13, <2>1 DEF Attended
    <2>3. \A s \in Slots : entry[x][s].at # "none" => entry'[x][s] = entry[x][s]
      BY <1>6, <1>13
    <2>4. ASSUME NEW s \in Slots, entry[x][s].at \in Live PROVE entry'[x][s].at \in Live
      BY <2>3, <2>4 DEF Live
    <2>5. Found(x) => entry'[x][p].at \in Live
      BY <1>4, <1>6, <1>13 DEF Live
    <2>6. ASSUME NEW q \in Processes, \E f \in recovery[q].found : f.export = x
          PROVE  (\E s \in Slots : entry'[x][s].at \in Live)
                 \/ (\E f \in recovery'[q].found : f.export = x)
      BY <1>2, <1>8, <2>5, <2>6 DEF Found
    <2>7. ASSUME NEW q \in Processes, recovery[q].at = "due" PROVE recovery'[q].at = "due"
      BY <1>1, <1>8, <2>7
    <2>8. Recoverable(x)' <=> Recoverable(x)
      BY <1>1 DEF Recoverable
    <2>9. QED
      BY <1>1, <2>1, <2>2, <2>3, <2>4, <2>6, <2>7, <2>8 DEF Attended
  <1>14. QED
    BY <1>10, <1>11, <1>12, <1>13 DEF ExportIInv

LEMMA CrashExportsKeeps ==
    ASSUME ExportIInv, NEW p \in Processes, CrashExports(p)
    PROVE  ExportIInv'
  <1> DEFINE z == [at |-> "due", found |-> {}]
             lost == {x \in Exports :
                        /\ exportRow[x] = [status |-> "running", attempts |-> MaxExportAttempts]
                        /\ \E s \in Slots : ProcessOf(x, s) = p /\ entry[x][s].at \in Live}
  <1>1. /\ submission' = [x \in Exports |->
              IF submission[x].home = p /\ submission[x].at = "created"
              THEN [submission[x] EXCEPT !.at = "refused"] ELSE submission[x]]
        /\ entry' = [x \in Exports |-> [s \in Slots |->
                       IF ProcessOf(x, s) = p THEN NoEntry ELSE entry[x][s]]]
        /\ recovery' = [recovery EXCEPT ![p] = z]
        /\ dlq' = [dlq EXCEPT ![p] = {}]
        /\ excused' = excused \cup lost
        /\ UNCHANGED exportRow
    BY DEF CrashExports, Excuse
  <1>2. z \in Recovery /\ z.at = "due" /\ z.found = {}
    BY DEF Recovery
  <1> HIDE DEF z
  <1>3. /\ recovery' \in [Processes -> Recovery] /\ recovery'[p] = z
        /\ \A q \in Processes \ {p} : recovery'[q] = recovery[q]
    BY <1>1, <1>2 DEF ExportIInv, ExportTypes
  <1>4. NoEntry \in EntryRecord /\ NoEntry.at = "none" /\ EntrySound(NoEntry)
    BY ExportBound DEF NoEntry, EntryRecord, EntrySound
  <1>5. /\ entry' \in [Exports -> [Slots -> EntryRecord]]
        /\ \A x \in Exports, s \in Slots :
               /\ ProcessOf(x, s) = p => entry'[x][s] = NoEntry
               /\ ProcessOf(x, s) # p => entry'[x][s] = entry[x][s]
    BY <1>1, <1>4 DEF ExportIInv, ExportTypes
  <1>6. /\ submission' \in [Exports -> Submission]
        /\ \A x \in Exports : submission'[x].at \in {"new", "created"} =>
               submission[x].at = submission'[x].at
    <2>1. ASSUME NEW x \in Exports
          PROVE  /\ submission'[x] \in Submission
                 /\ submission'[x].at \in {"new", "created"} => submission[x].at = submission'[x].at
      <3>1. submission[x] \in Submission
        BY DEF ExportIInv, ExportTypes
      <3>2. CASE submission[x].home = p /\ submission[x].at = "created"
        <4>1. submission'[x] = [submission[x] EXCEPT !.at = "refused"]
          BY <1>1, <3>2
        <4>2. QED
          BY <3>1, <4>1 DEF Submission
      <3>3. CASE ~(submission[x].home = p /\ submission[x].at = "created")
        <4>1. submission'[x] = submission[x]
          BY <1>1, <3>3
        <4>2. QED
          BY <3>1, <4>1
      <3>4. QED
        BY <3>2, <3>3
    <2>2. DOMAIN submission' = Exports /\ submission' = [x \in Exports |-> submission'[x]]
      BY <1>1
    <2>3. QED
      BY <2>1, <2>2
  <1>7. /\ excused \subseteq excused' /\ excused' \subseteq Exports
        /\ dlq' \in [Processes -> SUBSET Exports]
    BY <1>1 DEF ExportIInv, ExportTypes
  <1>8. ExportTypes'
    BY <1>1, <1>3, <1>5, <1>6, <1>7 DEF ExportIInv, ExportTypes
  <1>9. \A x \in Exports, s \in Slots : EntrySound(entry'[x][s])
    BY <1>4, <1>5 DEF ExportIInv
  <1>10. Own \in Slots /\ Own \notin Processes /\ \A q \in Processes : q \in Slots
    BY ExportAssumption DEF Slots
  <1>11. MadeOnce'
    <2>1. ASSUME NEW x \in Exports, submission'[x].at \in {"new", "created"}
          PROVE  entry'[x][Own].at = "none"
      <3>1. entry[x][Own].at = "none"
        BY <1>6, <2>1 DEF ExportIInv, MadeOnce
      <3>2. QED
        BY <1>4, <1>5, <1>10, <3>1
    <2>2. ASSUME NEW q \in Processes, NEW x \in Exports, recovery'[q].at # "done"
          PROVE  entry'[x][q].at = "none"
      <3>1. CASE q = p
        <4>1. ProcessOf(x, q) = p
          BY <1>10, <3>1 DEF ProcessOf
        <4>2. QED
          BY <1>4, <1>5, <1>10, <4>1
      <3>2. CASE q # p
        <4>1. entry[x][q].at = "none"
          BY <1>3, <2>2, <3>2 DEF ExportIInv, MadeOnce
        <4>2. QED
          BY <1>4, <1>5, <1>10, <4>1
      <3>3. QED
        BY <3>1, <3>2
    <2>3. QED
      BY <1>2, <1>3, <2>1, <2>2 DEF ExportIInv, MadeOnce
  <1>12. ASSUME NEW x \in Exports \ excused' PROVE Attended(x)'
    <2>1. Attended(x) /\ exportRow' = exportRow /\ exportRow[x] \in ExportRecordRow
      BY <1>1, <1>7, <1>12 DEF ExportIInv, ExportTypes
    <2>2. \A s \in Slots : entry'[x][s].at # "none" => entry'[x][s] = entry[x][s]
      BY <1>4, <1>5, <1>12
    <2>3. CASE Recoverable(x) \/ exportRow[x].status \notin {"pending", "running"}
      <3>1. ~(exportRow[x].status = "running" /\ exportRow[x].attempts = MaxExportAttempts)
        BY <2>3, ExportBound DEF Recoverable
      <3>2. exportRow'[x].status \in {"pending", "running"} => Recoverable(x)'
        BY <2>1, <2>3 DEF Recoverable
      <3>3. QED
        BY <1>2, <1>3, <2>1, <2>2, <3>1, <3>2 DEF Attended
    <2>4. CASE ~Recoverable(x) /\ exportRow[x].status \in {"pending", "running"}
      <3>1. exportRow[x].status = "running" /\ exportRow[x].attempts = MaxExportAttempts
        BY <2>1, <2>4, ExportBound DEF Attended, Recoverable, ExportRecordRow, Tries
      <3>2. PICK s \in Slots : entry[x][s].at = "working" /\ entry[x][s].attempt = MaxExportAttempts
        BY <2>1, <3>1 DEF Attended
      <3>3. exportRow[x] = [status |-> "running", attempts |-> MaxExportAttempts]
        BY <2>1, <3>1 DEF ExportRecordRow
      <3>4. ProcessOf(x, s) # p
        BY <1>1, <1>12, <3>2, <3>3 DEF Live
      <3>5. entry'[x][s] = entry[x][s]
        BY <1>5, <1>12, <3>4
      <3>6. QED
        BY <2>1, <2>2, <3>1, <3>2, <3>5 DEF Attended, Live
    <2>5. QED
      BY <2>3, <2>4
  <1>13. QED
    BY <1>8, <1>9, <1>11, <1>12 DEF ExportIInv

LEMMA ExportStep == ExportIInv /\ [ExportNext]_exportVars => ExportIInv'
  <1> SUFFICES ASSUME ExportIInv, [ExportNext]_exportVars PROVE ExportIInv'
    OBVIOUS
  <1>1. ASSUME NEW x \in Exports, CreateExport(x) \/ EnqueueExport(x) PROVE ExportIInv'
    BY <1>1, CreateExportKeeps, EnqueueExportKeeps
  <1>2. ASSUME NEW x \in Exports, NEW s \in Slots,
               \/ StartExport(x, s) \/ MarkRunning(x, s) \/ Succeed(x, s)
               \/ FailExport(x, s) \/ QueryFails(x, s) \/ ReplayEntry(x, s)
        PROVE  ExportIInv'
    BY <1>2, StartExportKeeps, MarkRunningKeeps, SucceedKeeps, FailExportKeeps,
       QueryFailsKeeps, ReplayEntryKeeps
  <1>3. ASSUME NEW x \in Exports, NEW p \in Processes, Requeue(x, p) \/ Discard(x, p)
        PROVE  ExportIInv'
    BY <1>3, RequeueKeeps, DiscardKeeps
  <1>4. ASSUME NEW p \in Processes, ListRecoverable(p) \/ EnqueueListed(p) \/ CrashExports(p)
        PROVE  ExportIInv'
    BY <1>4, ListRecoverableKeeps, EnqueueListedKeeps, CrashExportsKeeps
  <1>5. CASE UNCHANGED exportVars
    BY <1>5 DEF exportVars, ExportIInv, ExportTypes, MadeOnce, Attended, Recoverable
  <1>6. QED
    BY <1>1, <1>2, <1>3, <1>4, <1>5 DEF ExportNext

LEMMA ExportInitOK == ExportInit => ExportIInv
  <1> SUFFICES ASSUME ExportInit PROVE ExportIInv
    OBVIOUS
  <1>1. PICK home \in [Exports -> Processes] :
          submission = [x \in Exports |-> [at |-> "new", home |-> home[x]]]
    BY DEF ExportInit
  <1>2. /\ submission \in [Exports -> Submission]
        /\ \A x \in Exports : submission[x].at = "new"
    BY <1>1 DEF Submission
  <1>3. /\ exportRow \in [Exports -> ExportRecordRow]
        /\ \A x \in Exports : exportRow[x].status = "none"
    BY ExportBound DEF ExportInit, ExportRecordRow
  <1>4. NoEntry \in EntryRecord /\ NoEntry.at = "none" /\ EntrySound(NoEntry)
    BY ExportBound DEF NoEntry, EntryRecord, EntrySound
  <1>5. /\ entry \in [Exports -> [Slots -> EntryRecord]]
        /\ \A x \in Exports, s \in Slots : entry[x][s] = NoEntry
    BY <1>4 DEF ExportInit
  <1>6. /\ recovery \in [Processes -> Recovery]
        /\ \A p \in Processes : recovery[p].at = "due" /\ recovery[p].found = {}
    BY DEF ExportInit, Recovery
  <1>7. Own \in Slots /\ \A p \in Processes : p \in Slots
    BY DEF Slots
  <1>8. ExportTypes
    BY <1>2, <1>3, <1>5, <1>6 DEF ExportInit, ExportTypes
  <1>9. QED
    BY <1>2, <1>3, <1>4, <1>5, <1>6, <1>7, <1>8 DEF ExportIInv, MadeOnce, Attended

\* However runs, recoveries of several processes, retries and crashes interleave,
\* for any number of them, an unfinished export is queued or running, about to be
\* enqueued or due to be recovered, and a failed one has used its attempts, but
\* for an unanswered query, a crash in the last attempt, a recovery that counts
\* from one again or a requeue (processJob, recoverExportJobs, requeueDlqEntry).
THEOREM NoExportForgotten == ExportSpec => []ExportsAccounted
  <1>1. ExportIInv => ExportsAccounted
    BY DEF ExportIInv, Attended, ExportsAccounted
  <1>2. QED
    BY <1>1, ExportInitOK, ExportStep, PTL DEF ExportSpec

=============================================================================
