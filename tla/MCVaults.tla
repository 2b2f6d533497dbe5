------------------------------ MODULE MCVaults ------------------------------
(***************************************************************************)
(* Instances of AccountabilityVault, and with them one of Milestones, with *)
(* which it shares no variable: `scope` picks one vault with every         *)
(* proposal, window and ledger time, or two vaults that share the contract *)
(* with fewer of each, or the API's vault with two milestones, two         *)
(* verifiers and two votes under way, all interchangeable.  One tick is    *)
(* much longer than a day, so the default dispute window of 86400 s is 0   *)
(* ticks.                                                                  *)
(***************************************************************************)
EXTENDS AccountabilityVault, Milestones, TLC

CONSTANTS alice, bob, carol, oracle, gold, levy

MS(a, d, ver) == [amount |-> a, due_date |-> d, verified |-> ver]

MCBase == [creator |-> alice, verifiers |-> <<bob>>, threshold |-> 1,
           oracle |-> NoOracle, token |-> gold, amount |-> 2,
           failure_destination |-> carol, end_timestamp |-> 2,
           milestones |-> <<MS(2, 1, FALSE)>>]

\* Two milestones with different due dates; two approvals needed, which a
\* verifier list that names bob twice can only give with the oracle's help.
MCPair == [MCBase EXCEPT !.verifiers = <<bob, bob>>, !.threshold = 2,
                         !.oracle = oracle, !.amount = 3,
                         !.milestones = <<MS(1, 2, FALSE), MS(2, 1, FALSE)>>]

\* A milestone that the caller declares verified at creation.
MCPreset == [MCBase EXCEPT !.milestones = <<MS(1, 1, TRUE), MS(1, 2, FALSE)>>]

\* An end that is beyond the horizon of 2 until time has passed.
MCFar == [MCBase EXCEPT !.end_timestamp = 4, !.milestones[1].due_date = 3]

\* What create_vault or stake rejects: amounts that do not add up, a due date
\* after the end, a token that withholds a fee from the transfer in.
MCBad == {[MCBase EXCEPT !.amount = 3],
          [MCBase EXCEPT !.milestones[1].due_date = 3]}
MCLevy == [MCBase EXCEPT !.token = levy]

MCFee == [t \in Token |-> IF t = levy THEN 1 ELSE 0]

\* Two verifiers, both of whom must approve.
MCBoth == [MCBase EXCEPT !.verifiers = <<bob, carol>>, !.threshold = 2]

MCProposals == {MCBase, MCPair, MCPreset, MCFar, MCLevy, MCBoth} \cup MCBad

VARIABLE scope

MCQuorums == {[need |-> 1, pool |-> 0]}
Interchangeable == Permutations(Stones) \cup Permutations(Voters) \cup Permutations(Ballots) \cup Permutations(Vault)

OneVault == \E v \in Vault : \A u \in Vault \ {v} : terms'[u] = NoTerms
TwoVaults ==
    /\ \A v \in Vault : terms'[v] \in {MCBoth, MCLevy, NoTerms} /\ end_timestamp'[v] <= 3
    /\ disputeWindow' = DefaultWindow
    /\ now' <= 3

OneProfile == \E v \in Voters : \A u \in Voters \ {v} : profile'[u] = "approved"

\* Only the one that moves keeps its choice of initial states.
MCInit ==
    /\ scope \in {"one vault", "two vaults", "milestones"}
    /\ Init
    /\ MilestoneInit
    /\ \E v \in Voters : \A u \in Voters \ {v} : profile[u] = "approved"
    /\ scope = "milestones" \/ (vaultState = "draft" /\ \A v \in Voters : profile[v] = "approved")

MCNext ==
    /\ UNCHANGED scope
    /\ \/ scope = "one vault" /\ Next /\ OneVault /\ UNCHANGED milestoneVars
       \/ scope = "two vaults" /\ Next /\ TwoVaults /\ UNCHANGED milestoneVars
       \/ scope = "milestones" /\ MilestoneNext /\ OneProfile /\ UNCHANGED vars

MCSpec == MCInit /\ [][MCNext]_<<vars, milestoneVars, scope>>
=============================================================================
