--------------------------- MODULE VaultProjection ---------------------------
(***************************************************************************)
(* What the event pipeline promises about the database: a projection of    *)
(* the chain's events onto the rows of vaults and milestones.  An event    *)
(* takes effect at most once, in one step together with its mark in        *)
(* processed_events and its entry in vault_outbox, and never before the    *)
(* row it depends on exists.  How often it is delivered, retried or        *)
(* interrupted does not show.                                              *)
(***************************************************************************)
EXTENDS Integers, Sequences

CONSTANTS
    Vaults,
    Milestones,
    Chain       \* the contract events in ledger order

Events == DOMAIN Chain

TerminalStatus ==
    [vault_completed |-> "completed", vault_failed |-> "failed",
     vault_cancelled |-> "cancelled"]
TerminalKinds == DOMAIN TerminalStatus
VAULT_LIFECYCLE_EVENTS == {"vault_created"} \cup TerminalKinds

\* A milestone_validated event carries a result.
ReviewStatus == [approved |-> "completed", rejected |-> "failed"]
Results == {"approved", "rejected", "pending_review"}

\* An event that does not parse is in the chain but never takes effect.
EventType ==
    [contract : STRING, ledger : Nat, vault : Vaults,
     milestone : Milestones, result : Results,
     kind : VAULT_LIFECYCLE_EVENTS
            \cup {"milestone_created", "milestone_validated", "unparsable"}]

ASSUME ChainAssumption ==
    /\ Chain \in Seq(EventType)
    /\ \A e, f \in Events : e < f => Chain[e].ledger <= Chain[f].ledger

VaultStatus == {"none", "draft", "active"}
               \cup {TerminalStatus[k] : k \in TerminalKinds}
MilestoneStatus == {"none", "pending", "completed", "failed"}

VARIABLES
    vaults,       \* status of each row of vaults, "none" if there is no row
    milestones,   \* status of each row of milestones
    processed,    \* event ids in processed_events
    outbox        \* event ids in vault_outbox

rows == <<vaults, milestones, processed, outbox>>

\* A vault created through the API has its rows before its events arrive.
Init ==
    /\ vaults \in [Vaults -> {"none", "draft"}]
    /\ milestones \in [Milestones -> {"none", "pending"}]
    /\ (\E m \in Milestones : milestones[m] = "pending")
           => \E v \in Vaults : vaults[v] = "draft"
    /\ processed = {}
    /\ outbox = {}

\* The row an event depends on exists.
Ready(e) ==
    LET ev == Chain[e]
    IN  /\ ev.kind \in TerminalKinds \cup {"milestone_created"}
               => vaults[ev.vault] # "none"
        /\ ev.kind = "milestone_validated" => milestones[ev.milestone] # "none"

\* vault_created inserts unless the row exists, the others update it.
VaultAfter(e) ==
    LET ev == Chain[e]
    IN  IF ev.kind \in TerminalKinds THEN TerminalStatus[ev.kind]
        ELSE IF ev.kind = "vault_created" /\ vaults[ev.vault] = "none"
             THEN "active"
        ELSE vaults[ev.vault]

MilestoneAfter(e) ==
    LET ev == Chain[e]
    IN  IF ev.kind = "milestone_created" /\ milestones[ev.milestone] = "none"
        THEN "pending"
        ELSE IF /\ ev.kind = "milestone_validated"
                /\ ev.result \in DOMAIN ReviewStatus
        THEN ReviewStatus[ev.result]
        ELSE milestones[ev.milestone]

\* One transaction: business rows, idempotency mark, outbox row.
Effect(e) ==
    /\ vaults' = [vaults EXCEPT ![Chain[e].vault] = VaultAfter(e)]
    /\ milestones' = [milestones EXCEPT ![Chain[e].milestone]
                                              = MilestoneAfter(e)]
    /\ processed' = processed \cup {e}
    /\ outbox' = IF Chain[e].kind \in VAULT_LIFECYCLE_EVENTS
                 THEN outbox \cup {e} ELSE outbox

Take(e) ==
    /\ e \notin processed
    /\ Chain[e].kind # "unparsable"
    /\ Ready(e)
    /\ Effect(e)

Next == \E e \in Events : Take(e)

Spec == Init /\ [][Next]_rows
=============================================================================
