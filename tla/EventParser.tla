----------------------------- MODULE EventParser -----------------------------
(***************************************************************************)
(* What the backend makes of the events that the contract publishes:       *)
(* parseHorizonEvent (src/services/eventParser.ts) between the entry       *)
(* points of contracts/accountability_vault/src/lib.rs and the rows of     *)
(* vaults that src/services/eventProcessor.ts writes.                      *)
(*                                                                         *)
(* Each call of the contract publishes its events, which are parsed and    *)
(* processed at once and in order: HorizonPipeline models delivery.  The   *)
(* contract's guards are reduced to the statuses they admit:               *)
(* AccountabilityVault models the others.                                  *)
(*                                                                         *)
(* The contract's own values are scalars, an amount or an index; the       *)
(* parser reads records with a vault id in them, as its tests provide.     *)
(* EventValues says which of the two an event may carry.                   *)
(***************************************************************************)
EXTENDS Naturals, Sequences

CONSTANTS
    ChainVaults,
    EventValues    \* a subset of {"scalar"} \cup Records

Records == {"complete", "otherStatus", "partial"}

ASSUME ParserAssumption == EventValues \subseteq {"scalar"} \cup Records

VARIABLES
    onChain,    \* status of each vault in the contract
    shown,      \* status of its row
    unheard,    \* history: vaults with an event that was no whole record
    byAdmin,    \* history: vaults whose status an administrator has set
    outcome     \* what has become of the last event

parserVars == <<onChain, shown, unheard, byAdmin, outcome>>

ChainEnds == {"Completed", "Failed", "Cancelled"}
ChainStatus == {"None", "Draft", "Active", "Disputed"} \cup ChainEnds
RowOf == [Completed |-> "completed", Failed |-> "failed", Cancelled |-> "cancelled"]

ParserInit ==
    /\ onChain = [v \in ChainVaults |-> "None"]
    /\ shown \in [ChainVaults -> {"none", "draft"}]
    /\ unheard = {} /\ byAdmin = {}
    /\ outcome = "none"

-----------------------------------------------------------------------------
(* parseHorizonEvent *)

TOPIC_ALIAS ==
    [vault_created |-> "vault_created", vault_completed |-> "vault_completed",
     vault_cancelled |-> "vault_cancelled", milestone_created |-> "milestone_created",
     milestone_validated |-> "milestone_validated",
     settlement_summary |-> "settlement_summary",
     vault_slashed |-> "vault_failed", vault_withdrawn |-> "vault_cancelled",
     vault_failed |-> "vault_failed"]

\* Mutant of Alias: a topic is its own type.
OwnAlias(topic) == topic
Alias(topic) == IF topic \in DOMAIN TOPIC_ALIAS THEN TOPIC_ALIAS[topic] ELSE "unknown"

\* A payload needs every field of its kind, in one of their spellings; a status
\* may be left out, and may be any of the three ends.  There is no parser for a
\* settlement summary.
VaultPayload(type, value) ==
    type \in {"vault_created", "vault_completed", "vault_failed", "vault_cancelled"}
    /\ value \in {"complete", "otherStatus"}
MilestonePayload(type, value) == type = "milestone_created" /\ value \in Records \ {"partial"}
ValidationPayload(type, value) == type = "milestone_validated" /\ value \in Records \ {"partial"}

\* raw.whole: it has a transaction hash, an id that ends in an index, and a ledger.
Parses(raw) ==
    LET type == Alias(raw.topic)
    IN  /\ raw.whole
        /\ \/ VaultPayload(type, raw.value)
           \/ MilestonePayload(type, raw.value)
           \/ ValidationPayload(type, raw.value)

RowAfter(type, status) ==
    IF type = "vault_created" THEN IF status = "none" THEN "active" ELSE status
    ELSE IF status = "none" THEN "none"
    ELSE IF type = "vault_completed" THEN "completed"
    ELSE IF type = "vault_failed" THEN "failed"
    ELSE IF type = "vault_cancelled" THEN "cancelled"
    ELSE status

\* The listener drops what does not parse; routeEvent knows the six other types.
Outcome(raw) ==
    IF ~Parses(raw) THEN "dropped"
    ELSE IF Alias(raw.topic) = "settlement_summary" THEN "unroutable" ELSE "processed"

Deliver(v, raw) ==
    /\ outcome' = Outcome(raw)
    /\ shown' = IF Parses(raw) THEN [shown EXCEPT ![v] = RowAfter(Alias(raw.topic), @)]
                ELSE shown

\* v's call publishes under topic a value of the given form.
Publish(v, topic, value) ==
    /\ Deliver(v, [whole |-> TRUE, topic |-> topic, value |-> value])
    /\ unheard' = IF value \in {"complete", "otherStatus"} THEN unheard ELSE unheard \cup {v}

-----------------------------------------------------------------------------
(* The calls of the contract *)

Moves(v, from, to) ==
    /\ onChain[v] \in from
    /\ onChain' = [onChain EXCEPT ![v] = to]
    /\ byAdmin' = byAdmin \ {v}

Stays(v, from) == onChain[v] \in from /\ UNCHANGED <<onChain, byAdmin>>

CreateVault(v, value) == Moves(v, {"None"}, "Draft") /\ Publish(v, "vault_created", value)
Stake(v, value) == Moves(v, {"Draft"}, "Active") /\ Publish(v, "vault_staked", value)

\* Calls that leave the status alone.
CheckIn(v, value) == Stays(v, {"Active"}) /\ Publish(v, "milestone_checked_in", value)
ExtendDeadline(v, value) ==
    Stays(v, {"Active"}) /\ Publish(v, "deadline_extended", value)
DisputeMilestone(v, value) ==
    Stays(v, ChainStatus \ {"None", "Draft"}) /\ Publish(v, "milestone_disputed", value)
SetPaused(v, topic, value) ==
    Stays(v, ChainStatus \ {"None"}) /\ topic \in {"vault_paused", "vault_unpaused"}
    /\ Publish(v, topic, value)

\* claim, and claim_milestone of the last one, whose other event is passed over.
Claim(v, value) == Moves(v, {"Active"}, "Completed") /\ Publish(v, "vault_completed", value)
ClaimMilestone(v, value) == Stays(v, {"Active"}) /\ Publish(v, "milestone_claimed", value)
SlashOnMiss(v, value) == Moves(v, {"Active"}, "Failed") /\ Publish(v, "vault_slashed", value)
Withdraw(v, value) == Moves(v, {"Active"}, "Cancelled") /\ Publish(v, "vault_withdrawn", value)
CancelVault(v, value) ==
    Moves(v, ChainStatus \ {"None"}, "Cancelled") /\ Publish(v, "vault_cancelled", value)
AdminDispute(v, value) == Moves(v, {"Active"}, "Disputed") /\ Publish(v, "vault_disputed", value)

AdminResolve(v, to, value) ==
    /\ onChain[v] = "Disputed"
    /\ onChain' = [onChain EXCEPT ![v] = to]
    /\ byAdmin' = byAdmin \cup {v}
    /\ Publish(v, "vault_dispute_resolved", value)

\* What else the stream may bring: events that are not whole, and topics that
\* the parser knows and the contract does not publish.
DeliverStray(v, raw) ==
    /\ onChain[v] # "None"
    /\ raw.whole => raw.topic \notin {"vault_created", "vault_completed", "vault_failed",
                                      "vault_cancelled", "vault_slashed", "vault_withdrawn"}
    /\ Deliver(v, raw)
    /\ UNCHANGED <<onChain, unheard, byAdmin>>

ParserNext ==
    \E v \in ChainVaults, value \in EventValues :
        \/ CreateVault(v, value) \/ Stake(v, value) \/ CheckIn(v, value)
        \/ ExtendDeadline(v, value) \/ DisputeMilestone(v, value)
        \/ Claim(v, value) \/ ClaimMilestone(v, value) \/ SlashOnMiss(v, value)
        \/ Withdraw(v, value) \/ CancelVault(v, value) \/ AdminDispute(v, value)
        \/ \E topic \in {"vault_paused", "vault_unpaused"} : SetPaused(v, topic, value)
        \/ \E to \in {"Active", "Completed", "Failed"} : AdminResolve(v, to, value)
        \/ \E whole \in BOOLEAN, topic \in DOMAIN TOPIC_ALIAS \cup {"none"} :
               DeliverStray(v, [whole |-> whole, topic |-> topic, value |-> value])

ParserSpec == ParserInit /\ [][ParserNext]_parserVars

ParserTypeOK ==
    /\ onChain \in [ChainVaults -> ChainStatus]
    /\ shown \in [ChainVaults -> {"none", "draft", "active", "completed", "failed", "cancelled"}]
    /\ unheard \subseteq ChainVaults /\ byAdmin \subseteq ChainVaults
    /\ outcome \in {"none", "dropped", "unroutable", "processed"}

\* A row shows an end exactly when its vault has ended, and the same one: a
\* slash as failed, a withdrawal as cancelled, whatever status the payload
\* claims; unless an event of the vault was no whole record, or an administrator
\* set the status, which the parser takes no notice of.  And the processor has a
\* handler for every event that parses.
EndsAreShown ==
    /\ outcome # "unroutable"
    /\ \A v \in ChainVaults \ (unheard \cup byAdmin) :
          IF onChain[v] \in ChainEnds THEN shown[v] = RowOf[onChain[v]]
          ELSE shown[v] \in {"none", "draft", "active"}

\* eventParser.ts:465, "vault_slashed               vault_failed": once the contract
\* has slashed a vault and published its event about that, the vault's row, if it
\* has one, says failed.
SlashIsShown ==
    \A v \in ChainVaults \ byAdmin :
        onChain[v] = "Failed" => shown[v] \in {"none", "failed"}
=============================================================================
