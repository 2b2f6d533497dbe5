-------------------------- MODULE MCHorizonPipeline --------------------------
(***************************************************************************)
(* Instances of HorizonPipeline for TLC.  Three events of two contracts,   *)
(* two of them in one ledger: a milestone and the end of a vault depend on *)
(* its creation, and the end can overtake a creation that the API made     *)
(* unnecessary.  Two handlers race, each event may use up its retries,     *)
(* though not while another is using up its own.                           *)
(***************************************************************************)
EXTENDS HorizonPipeline

Ev(c, l, k) ==
    [contract |-> c, ledger |-> l, kind |-> k, vault |-> "v1",
     milestone |-> "m1", result |-> "approved"]

MCContracts == {"c1", "c2"}

MCChain == <<
    Ev("c1", 1, "vault_created"), Ev("c2", 1, "milestone_created"),
    Ev("c1", 2, "vault_completed")>>

\* One handler at a time is on its second attempt.
OneRetries == Cardinality({h \in Handlers : attempt'[h] > 1}) <= 1

MCFairSpec == PInit /\ [][PNext /\ OneRetries]_vars /\ Fairness
=============================================================================
