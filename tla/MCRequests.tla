----------------------------- MODULE MCRequests -----------------------------
(***************************************************************************)
(* Instances of VaultCreation, SorobanSubmit, VaultStore and its extension *)
(* VaultOversight for TLC.  The first three share no variable, so each is  *)
(* explored on its own: `focus` picks the one that moves, and the others   *)
(* stay in their initial states.  The two halves of VaultOversight meet    *)
(* only in the rows of VaultStore, which each of them writes as any other  *)
(* writer does, so they have a focus each.                                 *)
(*                                                                         *)
(* Three requests with one key, one of them with another body, and one     *)
(* with another key, whose failure takes the process down for the others.  *)
(***************************************************************************)
EXTENDS VaultCreation, SorobanSubmit, VaultOversight

VARIABLE focus

vars == <<focus, creationVars, submitVars, storeVars, oversightVars>>
others == <<creationVars, submitVars>>

MCKeyOf == [r \in Requests |-> IF r = 4 THEN "k2" ELSE "k1"]
MCBodyOf == [r \in Requests |-> IF r = 3 THEN "b2" ELSE "b1"]

Init ==
    /\ CreationInit /\ SubmitInit /\ OversightInit
    /\ focus \in {"creation", "submit", "store", "reconcile", "override"}
    /\ focus # "reconcile" => chain = [v \in Vaults |-> NoState]
    /\ focus # "store" => ~dryRun

Next ==
    /\ UNCHANGED focus
    /\ \/ focus = "creation" /\ CreationNext /\ UNCHANGED <<submitVars, storeVars, oversightVars>>
       \/ focus = "submit" /\ SubmitNext /\ UNCHANGED <<creationVars, storeVars, oversightVars>>
       \/ focus = "store" /\ StoreNext /\ UNCHANGED <<others, oversightVars>>
       \/ focus = "reconcile" /\ OversightNext /\ UNCHANGED <<others, overrideVars>>
       \/ focus = "override" /\ OversightNext /\ UNCHANGED <<others, reconcileVars>>

\* A request goes on as long as its process lives: its awaits are answered.
FairSpec ==
    /\ Init /\ [][Next]_vars
    /\ \A r \in Requests : WF_vars(Handle(r) /\ UNCHANGED <<focus, submitVars, storeVars, oversightVars>>)

\* Every variable of the components has its type.
TypeOK == CreationTypeOK /\ SubmitTypeOK /\ OversightTypeOK
=============================================================================
