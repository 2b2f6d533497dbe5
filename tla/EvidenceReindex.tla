--------------------------- MODULE EvidenceReindex ---------------------------
(***************************************************************************)
(* The reindexing of milestone embeddings (src/services/evidenceReindex.ts,*)
(* backfillCursorStore.ts, POST /admin/embeddings/reembed).                *)
(*                                                                         *)
(* The job and the admin request run the same batches, one process or      *)
(* several at once: read the cursor, list the rows above it, look up their *)
(* versions, embed what is old, write the cursor back.  Nothing locks the  *)
(* cursor.  Ids are numbers whose order is that of the uuids, so a new row *)
(* may be anywhere; cursor 0 is none.  Texts and vectors are left out.     *)
(***************************************************************************)
EXTENDS Integers, FiniteSets

CONSTANTS
    MaxId,
    Reindexers,       \* runs, each of several batches
    ReindexBatchSize,
    MaxBatchesPerRun,
    MaxVersion        \* bounds the changes of the model

ASSUME ReindexAssumption ==
    MaxId \in Nat /\ {ReindexBatchSize, MaxBatchesPerRun, MaxVersion} \subseteq Nat \ {0}

VARIABLES
    milestones,       \* ids of the stored milestones
    embedded,         \* model version of each embedding, 0 if there is none
    modelVersion,     \* CURRENT_EMBEDDING_MODEL_VERSION of the newest deployment
    backfillCursor,
    batch,            \* of each run: stage, version, page, rows still to embed, batches
    restartedAt,      \* history: modelVersion at the last reset
    missed,           \* history: rows stored behind the cursor or a page since then
    before,           \* history: runs begun before the last reset, or with an older model
    outpaced          \* history: one of them has written since

reindexVars == <<milestones, embedded, modelVersion, backfillCursor, batch,
                 restartedAt, missed, before, outpaced>>

Ids == 1..MaxId
NoBatch == [at |-> "idle", version |-> 1, page |-> {}, todo |-> {}, batches |-> 0]
Highest(S) == CHOOSE i \in S : \A j \in S : j <= i
UnderWay == {w \in Reindexers : batch[w].at # "idle"}

ReindexInit ==
    /\ milestones \in SUBSET Ids
    /\ embedded = [i \in Ids |-> 0]
    /\ modelVersion = 1 /\ restartedAt = 1
    /\ backfillCursor = 0
    /\ batch = [w \in Reindexers |-> NoBatch]
    /\ missed = {} /\ before = {} /\ outpaced = FALSE

-----------------------------------------------------------------------------
StoreMilestone(i) ==
    /\ i \notin milestones
    /\ milestones' = milestones \cup {i}
    /\ missed' = IF i < backfillCursor
                    \/ \E w \in UnderWay : \E j \in batch[w].page : i < j
                 THEN missed \cup {i} ELSE missed
    /\ UNCHANGED <<embedded, modelVersion, backfillCursor, batch, restartedAt, before, outpaced>>

ChangeModel ==
    /\ modelVersion < MaxVersion
    /\ modelVersion' = modelVersion + 1
    /\ UNCHANGED <<milestones, embedded, backfillCursor, batch, restartedAt, missed, before, outpaced>>

\* resetCursor, before the run of the admin request that asks for it.
ResetCursor ==
    /\ backfillCursor' = 0
    /\ restartedAt' = modelVersion
    /\ missed' = {}
    /\ before' = UnderWay
    /\ outpaced' = FALSE
    /\ UNCHANGED <<milestones, embedded, modelVersion, batch>>

\* runReindexBatches, in a process whose model version may not be the newest.
StartReindex(w, version) ==
    /\ batch[w].at = "idle"
    /\ batch' = [batch EXCEPT ![w] = [NoBatch EXCEPT !.at = "next", !.version = version]]
    /\ before' = IF version = modelVersion THEN before ELSE before \cup {w}
    /\ UNCHANGED <<milestones, embedded, modelVersion, backfillCursor, restartedAt, missed, outpaced>>

EndReindex(w) ==
    /\ batch' = [batch EXCEPT ![w] = NoBatch]
    /\ before' = before \ {w}

GetCursor(w) ==
    /\ batch[w].at = "next"
    /\ batch' = [batch EXCEPT ![w].at = "list", ![w].page = {backfillCursor}]
    /\ UNCHANGED <<milestones, embedded, modelVersion, backfillCursor, restartedAt, missed, before, outpaced>>

\* Mutant of ListMilestonesAfter: the page is not in the order of the ids.
ListAny(w) ==
    LET above == {i \in milestones : \A c \in batch[w].page : i > c}
    IN  /\ batch[w].at = "list"
        /\ \E page \in SUBSET above :
             /\ Cardinality(page) = IF Cardinality(above) < ReindexBatchSize
                                    THEN Cardinality(above) ELSE ReindexBatchSize
             /\ IF page = {} THEN EndReindex(w)
                ELSE /\ batch' = [batch EXCEPT ![w].at = "versions", ![w].page = page]
                     /\ UNCHANGED before
        /\ UNCHANGED <<milestones, embedded, modelVersion, backfillCursor, restartedAt, missed, outpaced>>

ListMilestonesAfter(w) ==
    LET above == {i \in milestones : \A c \in batch[w].page : i > c}
        page == {i \in above : Cardinality({j \in above : j < i}) < ReindexBatchSize}
    IN  /\ batch[w].at = "list"
        /\ IF page = {} THEN EndReindex(w)
           ELSE /\ batch' = [batch EXCEPT ![w].at = "versions", ![w].page = page]
                /\ UNCHANGED before
        /\ UNCHANGED <<milestones, embedded, modelVersion, backfillCursor, restartedAt, missed, outpaced>>

FindEmbeddingVersions(w) ==
    /\ batch[w].at = "versions"
    /\ batch' = [batch EXCEPT ![w].at = "embed",
                              ![w].todo = {i \in batch[w].page : embedded[i] # batch[w].version}]
    /\ UNCHANGED <<milestones, embedded, modelVersion, backfillCursor, restartedAt, missed, before, outpaced>>

UpsertEmbedding(w) ==
    /\ batch[w].at = "embed" /\ batch[w].todo # {}
    /\ LET i == CHOOSE j \in batch[w].todo : \A k \in batch[w].todo : j <= k
       IN  /\ embedded' = [embedded EXCEPT ![i] = batch[w].version]
           /\ batch' = [batch EXCEPT ![w].todo = @ \ {i}]
    /\ outpaced' = (outpaced \/ w \in before)
    /\ UNCHANGED <<milestones, modelVersion, backfillCursor, restartedAt, missed, before>>

\* A short page ends the run, like its last batch.
UpsertCursor(w) ==
    /\ batch[w].at = "embed" /\ batch[w].todo = {}
    /\ backfillCursor' = Highest(batch[w].page)
    /\ outpaced' = (outpaced \/ w \in before)
    /\ IF \/ Cardinality(batch[w].page) < ReindexBatchSize
          \/ batch[w].batches + 1 = MaxBatchesPerRun
       THEN EndReindex(w)
       ELSE /\ batch' = [batch EXCEPT ![w].at = "next", ![w].page = {}, ![w].batches = @ + 1]
            /\ UNCHANGED before
    /\ UNCHANGED <<milestones, embedded, modelVersion, restartedAt, missed>>

\* A query or the provider throws, or the process ends.
StopReindex(w) ==
    /\ batch[w].at # "idle"
    /\ EndReindex(w)
    /\ UNCHANGED <<milestones, embedded, modelVersion, backfillCursor, restartedAt, missed, outpaced>>

ReindexNext ==
    \/ \E i \in Ids : StoreMilestone(i)
    \/ ChangeModel \/ ResetCursor
    \/ \E w \in Reindexers :
         \/ \E version \in 1..modelVersion : StartReindex(w, version)
         \/ GetCursor(w) \/ ListMilestonesAfter(w) \/ FindEmbeddingVersions(w)
         \/ UpsertEmbedding(w) \/ UpsertCursor(w) \/ StopReindex(w)

ReindexSpec == ReindexInit /\ [][ReindexNext]_reindexVars

ReindexTypeOK ==
    /\ milestones \subseteq Ids /\ missed \subseteq Ids
    /\ embedded \in [Ids -> 0..MaxVersion]
    /\ {modelVersion, restartedAt} \subseteq 1..MaxVersion
    /\ backfillCursor \in 0..MaxId
    /\ batch \in [Reindexers -> [at : {"idle", "next", "list", "versions", "embed"},
                                 version : 1..MaxVersion, page : SUBSET (0..MaxId),
                                 todo : SUBSET Ids, batches : 0..(MaxBatchesPerRun - 1)]]
    /\ before \subseteq Reindexers
    /\ outpaced \in BOOLEAN

-----------------------------------------------------------------------------
\* evidenceReindex.ts, "a crash or restart picks up after this batch instead of
\* reprocessing already-current rows": whatever runs overlap, stop or move the cursor
\* back, a row behind the cursor has its embedding of the current model, unless the row
\* was stored behind the cursor or a page, the model has changed since the last reset,
\* or a run that began before the reset, or has an older model, has written since.
CurrentBehindCursor ==
    \A i \in milestones :
        i <= backfillCursor =>
            \/ embedded[i] = modelVersion
            \/ i \in missed
            \/ modelVersion # restartedAt
            \/ outpaced
=============================================================================
