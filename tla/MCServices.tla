----------------------------- MODULE MCServices -----------------------------
(***************************************************************************)
(* Instances of the services that keep to themselves for TLC.  They share  *)
(* no variable, so each is explored on its own: `focus` picks the one that *)
(* moves, and the others stay in their initial states.                     *)
(*                                                                         *)
(* One export and two processes; two requests for exports of one           *)
(* organisation; two connections and two ticks of one replica and one of   *)
(* another; two members with two rows each and two edits; one invitation   *)
(* and two requests; five operations of which two are of one transaction   *)
(* and one of no vault; two vaults of the contract; one flag and two       *)
(* processes; three vaults, a notification and a walk through each list.   *)
(***************************************************************************)
EXTENDS DataExport, ExportRequests, SchedulerLocks, Sessions, Invitations,
        TransactionETL, GracefulShutdown, EventParser, FeatureFlags, VaultSearch

VARIABLE focus

vars == <<focus, exportVars, requestVars, schedulerVars, sessionVars, memberVars,
          inviteVars, etlVars, shutdownVars, parserVars, flagVars, searchVars>>

MCReplicaOf == [n \in {1, 2, 3} |-> IF n = 3 THEN "r2" ELSE "r1"]
MCTxOf == [o \in Operations |-> IF o = 1 THEN 2 ELSE o]
MCTargeted == [o \in Orgs |-> "none"]

\* Only the one that moves keeps its choice of initial states.
Init ==
    /\ focus \in {"exports", "export requests", "scheduler", "sessions", "members",
                  "invitations", "etl", "shutdown", "parser", "flags", "search"}
    /\ ExportInit
    /\ focus = "exports" \/ \A x \in Exports : submission[x].home = CHOOSE p \in Processes : TRUE
    /\ ParserInit
    /\ focus = "parser" \/ \A v \in ChainVaults : shown[v] = "none"
    /\ SearchInit
    /\ focus = "search" \/ \A w \in Walks : walk[w].list = Vaults
    /\ ExportRequestInit /\ SchedulerInit /\ SessionInit /\ InviteInit
    /\ EtlInit /\ ShutdownInit /\ FlagInit

\* The components other than the one that moves.
Rest ==
    /\ UNCHANGED focus
    /\ IF focus = "exports" THEN TRUE ELSE UNCHANGED exportVars
    /\ IF focus = "export requests" THEN TRUE ELSE UNCHANGED requestVars
    /\ IF focus = "scheduler" THEN TRUE ELSE UNCHANGED schedulerVars
    /\ IF focus = "sessions" THEN TRUE ELSE UNCHANGED sessionVars
    /\ IF focus \in {"members", "invitations"} THEN TRUE ELSE UNCHANGED memberVars
    /\ IF focus = "invitations" THEN TRUE ELSE UNCHANGED inviteVars
    /\ IF focus = "etl" THEN TRUE ELSE UNCHANGED etlVars
    /\ IF focus = "shutdown" THEN TRUE ELSE UNCHANGED shutdownVars
    /\ IF focus = "parser" THEN TRUE ELSE UNCHANGED parserVars
    /\ IF focus = "flags" THEN TRUE ELSE UNCHANGED flagVars
    /\ IF focus = "search" THEN TRUE ELSE UNCHANGED searchVars

\* An invitation is followed with the memberships it makes and no others.
Next ==
    \/ focus = "exports" /\ ExportNext /\ Rest
    \/ focus = "export requests" /\ ExportRequestNext /\ Rest
    \/ focus = "scheduler" /\ SchedulerNext /\ Rest
    \/ focus = "sessions" /\ SessionNext /\ Rest
    \/ focus = "members" /\ MemberNext /\ Rest
    \/ focus = "invitations" /\ InvitationStep /\ Rest
    \/ focus = "etl" /\ EtlNext /\ Rest
    \/ focus = "shutdown" /\ ShutdownNext /\ Rest
    \/ focus = "parser" /\ ParserNext /\ Rest
    \/ focus = "flags" /\ FlagNext /\ Rest
    \/ focus = "search" /\ SearchNext /\ Rest

Spec == Init /\ [][Next]_vars

\* Every variable of the components has its type.
TypeOK ==
    /\ ExportTypeOK /\ ExportRequestTypeOK /\ SchedulerTypeOK /\ SessionTypeOK
    /\ MemberTypeOK /\ InviteTypeOK /\ EtlTypeOK /\ ShutdownTypeOK
    /\ ParserTypeOK /\ FlagTypeOK /\ SearchTypeOK
=============================================================================
