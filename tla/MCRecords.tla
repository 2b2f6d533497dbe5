------------------------------ MODULE MCRecords ------------------------------
(***************************************************************************)
(* Instances of the components around the records of the API for TLC.      *)
(* They share no variable, so each is explored on its own: `focus` picks   *)
(* the one that moves, and the others stay in their initial states.        *)
(*                                                                         *)
(* Two requests on a verifier and a caller of createAuditLog for an        *)
(* organisation; three requests on one API key; two reindexing runs over   *)
(* three milestones; two addresses and three handlers; two saved searches  *)
(* and two runs over them.                                                 *)
(***************************************************************************)
EXTENDS Verifiers, ApiKeys, EvidenceReindex, SecurityMonitor, SavedSearches, TLC

VARIABLE focus

verifierAndAuditVars == <<verifierVars, auditVars>>
vars == <<focus, verifierAndAuditVars, keyVars, reindexVars, monitorVars, savedVars>>

MCChainOf == [e \in Entries |-> IF e = 3 THEN "o1" ELSE NoOrganization]

\* The runs of a job are interchangeable, and so are the addresses.
Interchangeable ==
    Permutations(Reindexers) \cup Permutations(Evaluations) \cup Permutations(Ips)

\* Only the one that moves keeps its choice of initial states.
Init ==
    /\ focus \in {"verifiers", "keys", "reindex", "monitor", "saved searches"}
    /\ VerifierInit /\ (focus = "verifiers" \/ status = "none")
    /\ KeyInit /\ (focus = "keys" \/ key = NoRow)
    /\ ReindexInit /\ (focus = "reindex" \/ milestones = {})
    /\ SavedInit
    /\ focus = "saved searches" \/ result = CHOOSE r \in ResultSets : TRUE
    /\ MonitorInit

\* The components other than the one that moves.
Rest ==
    /\ UNCHANGED focus
    /\ IF focus = "verifiers" THEN TRUE ELSE UNCHANGED verifierAndAuditVars
    /\ IF focus = "keys" THEN TRUE ELSE UNCHANGED keyVars
    /\ IF focus = "reindex" THEN TRUE ELSE UNCHANGED reindexVars
    /\ IF focus = "monitor" THEN TRUE ELSE UNCHANGED monitorVars
    /\ IF focus = "saved searches" THEN TRUE ELSE UNCHANGED savedVars

Next ==
    \/ focus = "verifiers" /\ VerifierNext /\ Rest
    \/ focus = "keys" /\ KeyNext /\ Rest
    \/ focus = "reindex" /\ ReindexNext /\ Rest
    \/ focus = "monitor" /\ MonitorNext /\ Rest
    \/ focus = "saved searches" /\ SavedNext /\ Rest

Spec == Init /\ [][Next]_vars

\* Every variable of the components has its type.
TypeOK ==
    /\ VerifierTypeOK /\ KeyTypeOK /\ ReindexTypeOK /\ MonitorTypeOK /\ SavedTypeOK
=============================================================================
