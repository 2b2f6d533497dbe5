--------------------------- MODULE OutboxContract ---------------------------
(***************************************************************************)
(* What the outbox promises its readers, whoever relays it: a row that was *)
(* published stays until the failures of its dispatch have been counted    *)
(* MaxAttempts times, one at a time and never downwards; it is then dead.  *)
(* The rows of one relay transaction are counted together or not at all.   *)
(***************************************************************************)
EXTENDS Integers

CONSTANTS Events, MaxAttempts

VARIABLES published, attempts, dead

contractVars == <<published, attempts, dead>>

ContractInit ==
    /\ published = {}
    /\ attempts = [e \in Events |-> 0]
    /\ dead = {}

PublishRow(e) ==
    /\ e \in Events \ published
    /\ published' = published \cup {e}
    /\ UNCHANGED <<attempts, dead>>

CountFailures(S) ==
    /\ S \subseteq published \ dead
    /\ attempts' = [e \in Events |-> attempts[e] + (IF e \in S THEN 1 ELSE 0)]
    /\ dead' = dead \cup {e \in S : attempts'[e] = MaxAttempts}
    /\ UNCHANGED published

ContractNext ==
    \/ \E e \in Events : PublishRow(e)
    \/ \E S \in SUBSET Events : CountFailures(S)

ContractSpec == ContractInit /\ [][ContractNext]_contractVars
=============================================================================
