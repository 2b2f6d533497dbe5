---------------------------- MODULE Milestones ----------------------------
(***************************************************************************)
(* The milestones of a vault and the votes of its verifiers                *)
(* (routes/milestones.ts, services/milestones.ts, vaultTransitions.ts and  *)
(* the votes of services/verifiers.ts).                                    *)
(*                                                                         *)
(* Milestones and the vault live in the memory of the process, votes in    *)
(* the database.  PATCH /verify and POST /validate are one synchronous     *)
(* step on the milestones.  POST /approve is not: it awaits the verifier's *)
(* profile, an earlier vote, the settled check, the insert of the vote,    *)
(* the count, and then the votes of every milestone of the vault, before   *)
(* it asks whether the vault is complete.                                  *)
(***************************************************************************)
EXTENDS Naturals, FiniteSets

CONSTANTS Stones,      \* milestones the vault may get
          Voters,      \* verifiers
          NoVoter,
          Assigned,    \* the vault's verifier, or NoVoter: that of its milestones
          Ballots,     \* POST /approve requests
          Quorums      \* [need, pool]: approvalThreshold, and totalVerifiers or 0

ASSUME QuorumsAssumption == Quorums # {} /\ Quorums \subseteq [need : Nat \ {0}, pool : Nat]
ASSUME VotersAssumption == IsFiniteSet(Voters)
ASSUME NoVoterAssumption == NoVoter \notin Voters /\ Assigned \in Voters \cup {NoVoter}

VARIABLES vaultState,  \* status of the vault in the list of routes/vaults.ts
          stone,       \* milestonesTable
          vote,        \* vote[m][v]: the row of milestone_approvals
          profile,     \* profile[v]: the row of verifiers
          ballot,      \* ballot[b]: an approve request
          approvers,   \* history: who has ever approved a milestone
          mishap       \* history: an administrator, a deletion, another row or a
                       \* failed query came between the vault and its milestones

milestoneVars == <<vaultState, stone, vote, profile, ballot, approvers, mishap>>

NoStone == [there |-> FALSE, terms |-> CHOOSE t \in Quorums : TRUE,
            verified |-> FALSE, by |-> "nobody"]
NoBallot == [at |-> "idle", stone |-> "none", voter |-> NoVoter, says |-> "none",
             complete |-> FALSE, unread |-> {}, approved |-> [m \in {} |-> 0],
             rejected |-> [m \in {} |-> 0]]
Awaiting == {"profile", "voted", "settled", "record", "count", "settle", "read"}

There == {m \in Stones : stone[m].there}
EveryVerified == There # {} /\ \A m \in There : stone[m].verified

Votes(m, says) == {v \in Voters : vote[m][v] = says}

\* getMilestoneApprovalProgress: the veto, and the quorum.
Vetoed(terms, approved, rejected) ==
  IF terms.pool > 0
  THEN approved + (IF terms.pool > approved + rejected
                   THEN terms.pool - (approved + rejected) ELSE 0) < terms.need
  ELSE rejected > 0
Reached(terms, approved, rejected) ==
  approved >= terms.need /\ ~Vetoed(terms, approved, rejected)

Settled(m) ==
  LET a == Cardinality(Votes(m, "approved"))
      r == Cardinality(Votes(m, "rejected"))
  IN  Vetoed(stone[m].terms, a, r) \/ Reached(stone[m].terms, a, r)

MilestoneTypeOK ==
  /\ vaultState \in {"draft", "active", "disputed", "completed", "failed", "cancelled"}
  /\ stone \in [Stones -> [there : BOOLEAN, terms : Quorums, verified : BOOLEAN,
                           by : {"nobody", "verify", "validate", "quorum"}]]
  /\ vote \in [Stones -> [Voters -> {"none", "approved", "rejected"}]]
  /\ profile \in [Voters -> {"none", "approved", "suspended"}]
  /\ \A b \in Ballots :
       /\ ballot[b].at \in Awaiting \cup {"idle", "ended"}
       /\ ballot[b].voter \in Voters \cup {NoVoter}
       /\ ballot[b].stone \in Stones \cup {"none"}
       /\ ballot[b].unread \subseteq Stones
  /\ approvers \in [Stones -> SUBSET Voters]
  /\ mishap \in BOOLEAN

MilestoneInit ==
  /\ vaultState \in {"draft", "active"}
  /\ stone = [m \in Stones |-> NoStone]
  /\ vote = [m \in Stones |-> [v \in Voters |-> "none"]]
  /\ profile \in [Voters -> {"none", "approved"}]
  /\ ballot = [b \in Ballots |-> NoBallot]
  /\ approvers = [m \in Stones |-> {}]
  /\ mishap = FALSE

-----------------------------------------------------------------------------
(* The vault (vaultTransitions.ts) *)

Moves(from, to) ==
  /\ vaultState \in from /\ vaultState' = to
  /\ UNCHANGED <<stone, vote, profile, ballot, approvers, mishap>>

Activate == Moves({"draft"}, "active")
CancelByCreator == Moves({"draft", "active"}, "cancelled")
\* failVault, checkExpiredVaults
Expire == Moves({"active"}, "failed")
Dispute == Moves({"active"}, "disputed")
\* An administrator's word on the vault, whatever its milestones say.
Resolve(to) ==
  /\ vaultState = "disputed" /\ vaultState' = to
  /\ mishap' = TRUE
  /\ UNCHANGED <<stone, vote, profile, ballot, approvers>>

\* completeVault, when the request finds every milestone verified
CompleteVault(verified) ==
  vaultState' = IF vaultState = "active" /\ verified THEN "completed" ELSE vaultState

\* POST /: createMilestone, or createMilestoneWithThreshold
AddStone(m) ==
  /\ vaultState = "active"
  /\ ~stone[m].there
  /\ \E terms \in Quorums :
       stone' = [stone EXCEPT ![m] = [NoStone EXCEPT !.there = TRUE, !.terms = terms]]
  /\ UNCHANGED <<vaultState, vote, profile, ballot, approvers, mishap>>

\* verifyMilestone, for PATCH; a vote that makes the quorum does the same
MarkVerified(m, by) == stone' = [stone EXCEPT ![m].verified = TRUE, ![m].by = by]
VerifiedBut(m) == \A k \in There \ {m} : stone[k].verified

\* PATCH /:id/verify
Verify(m) ==
  /\ stone[m].there
  /\ MarkVerified(m, "verify")
  /\ CompleteVault(VerifiedBut(m))
  /\ UNCHANGED <<vote, profile, ballot, approvers, mishap>>

\* validateMilestone: by the assigned verifier, and once
Validates(m, v) ==
  /\ Assigned \in {v, NoVoter} /\ ~stone[m].verified
  /\ MarkVerified(m, "validate")

\* POST /:id/validate.  It looks at the vault's row in the database first, and only
\* when there is none at the list; the row need not be as active as the entry.
Validate(m, v) ==
  /\ stone[m].there /\ Validates(m, v)
  /\ \E active \in BOOLEAN :
       /\ CompleteVault(active /\ VerifiedBut(m))
       /\ mishap' = (mishap \/ ~active)
  /\ UNCHANGED <<vote, profile, ballot, approvers>>

-----------------------------------------------------------------------------
(* Verifiers (services/verifiers.ts) *)

\* setVerifierStatus
ProfileChanges(v) ==
  /\ profile[v] # "none"
  /\ \E to \in {"approved", "suspended"} \ {profile[v]} : profile' = [profile EXCEPT ![v] = to]
  /\ UNCHANGED <<vaultState, stone, vote, ballot, approvers, mishap>>

\* deleteVerifierProfile: the foreign key takes the votes along.
DeleteProfile(v) ==
  /\ profile[v] # "none"
  /\ profile' = [profile EXCEPT ![v] = "none"]
  /\ vote' = [m \in Stones |-> [vote[m] EXCEPT ![v] = "none"]]
  /\ mishap' = (mishap \/ \E m \in Stones : vote[m][v] # "none")
  /\ UNCHANGED <<vaultState, stone, ballot, approvers>>

-----------------------------------------------------------------------------
(* POST /:id/approve, from await to await *)

Goto(b, at) == ballot' = [ballot EXCEPT ![b].at = at]
EndedBallot == [NoBallot EXCEPT !.at = "ended"]
Ends(b) == ballot' = [ballot EXCEPT ![b] = EndedBallot]
\* The request is refused, or goes on to its next await.
Unless(b, refused, at) == IF refused THEN Ends(b) ELSE Goto(b, at)
OnlyBallot == UNCHANGED <<vaultState, stone, vote, profile, approvers, mishap>>

BeginBallot(b, m, v) ==
  /\ ballot[b].at = "idle" /\ stone[m].there
  /\ \E says \in {"approved", "rejected"} :
       ballot' = [ballot EXCEPT ![b] = [NoBallot EXCEPT !.at = "profile", !.stone = m,
                                                        !.voter = v, !.says = says]]
  /\ OnlyBallot

CheckProfile(b) ==
  /\ ballot[b].at = "profile"
  /\ Unless(b, profile[ballot[b].voter] = "suspended", "voted")
  /\ OnlyBallot

CheckVoted(b) ==
  /\ ballot[b].at = "voted"
  /\ Unless(b, vote[ballot[b].stone][ballot[b].voter] # "none", "settled")
  /\ OnlyBallot

CheckSettled(b) ==
  /\ ballot[b].at = "settled"
  /\ Unless(b, Settled(ballot[b].stone), "record")
  /\ OnlyBallot

\* recordMilestoneApproval: the unique key lets one vote of a verifier in, the
\* foreign key only those of a verifier with a profile.
RecordVote(b) ==
  LET m == ballot[b].stone  v == ballot[b].voter IN
  /\ ballot[b].at = "record"
  /\ IF vote[m][v] # "none" \/ profile[v] = "none"
     THEN Ends(b) /\ UNCHANGED <<vote, approvers>>
     ELSE /\ Goto(b, "count")
          /\ vote' = [vote EXCEPT ![m][v] = ballot[b].says]
          /\ approvers' = [approvers EXCEPT ![m] =
                             IF ballot[b].says = "approved" THEN @ \cup {v} ELSE @]
  /\ UNCHANGED <<vaultState, stone, profile, mishap>>

\* Mutant of CountVotes: a vote is a vote.
CountAllVotes(b) ==
  LET m == ballot[b].stone IN
  /\ ballot[b].at = "count"
  /\ ballot' = [ballot EXCEPT
       ![b].at = "settle",
       ![b].complete = Cardinality(Votes(m, "approved") \cup Votes(m, "rejected"))
                         >= stone[m].terms.need]
  /\ OnlyBallot

\* The count after the vote, which the request goes by when it resumes.
CountVotes(b) ==
  LET m == ballot[b].stone IN
  /\ ballot[b].at = "count"
  /\ ballot' = [ballot EXCEPT
       ![b].at = "settle",
       ![b].complete = Reached(stone[m].terms, Cardinality(Votes(m, "approved")),
                               Cardinality(Votes(m, "rejected")))]
  /\ OnlyBallot

SettleStone(b) ==
  LET m == ballot[b].stone IN
  /\ ballot[b].at = "settle"
  /\ IF ballot[b].complete
     THEN /\ MarkVerified(m, "quorum")
          /\ ballot' = [ballot EXCEPT ![b].at = "read", ![b].unread = There]
     ELSE Ends(b) /\ UNCHANGED stone
  /\ UNCHANGED <<vaultState, vote, profile, approvers, mishap>>

\* One of the queries of Promise.all.
ReadVotes(b, m) ==
  /\ ballot[b].at = "read" /\ m \in ballot[b].unread
  /\ ballot' = [ballot EXCEPT
       ![b].unread = @ \ {m},
       ![b].approved = [k \in DOMAIN @ \cup {m} |->
                          IF k = m THEN Cardinality(Votes(m, "approved")) ELSE @[k]],
       ![b].rejected = [k \in DOMAIN @ \cup {m} |->
                          IF k = m THEN Cardinality(Votes(m, "rejected")) ELSE @[k]]]
  /\ OnlyBallot

\* allMilestonesMetThreshold: a milestone added meanwhile has no counts.
AllMet(b) ==
  \A m \in There :
    /\ m \in DOMAIN ballot[b].approved
    /\ Reached(stone[m].terms, ballot[b].approved[m], ballot[b].rejected[m])

FinishBallot(b) ==
  /\ ballot[b].at = "read" /\ ballot[b].unread = {}
  /\ Ends(b)
  /\ CompleteVault(AllMet(b) /\ EveryVerified)
  /\ UNCHANGED <<stone, vote, profile, approvers, mishap>>

\* A query fails: the request is answered with an error, and what it did stands.
BallotFails(b) ==
  /\ ballot[b].at \in Awaiting \ {"settle"}
  /\ Ends(b)
  /\ mishap' = (mishap \/ ballot[b].at \in {"count", "read"})
  /\ UNCHANGED <<vaultState, stone, vote, profile, approvers>>

MilestoneNext ==
  \/ Activate \/ CancelByCreator \/ Expire \/ Dispute
  \/ \E to \in {"active", "completed", "failed"} : Resolve(to)
  \/ \E m \in Stones : AddStone(m) \/ Verify(m)
  \/ \E m \in Stones, v \in Voters : Validate(m, v)
  \/ \E v \in Voters : ProfileChanges(v) \/ DeleteProfile(v)
  \/ \E b \in Ballots :
       \/ \E m \in Stones, v \in Voters : BeginBallot(b, m, v)
       \/ CheckProfile(b) \/ CheckVoted(b) \/ CheckSettled(b) \/ RecordVote(b)
       \/ CountVotes(b) \/ SettleStone(b) \/ FinishBallot(b) \/ BallotFails(b)
       \/ \E m \in Stones : ReadVotes(b, m)

MilestoneSpec == MilestoneInit /\ [][MilestoneNext]_milestoneVars
-----------------------------------------------------------------------------
\* The vault was completed over milestones that are verified, all of them.
CompletedWhenVerified == vaultState = "completed" /\ ~mishap => EveryVerified

\* A milestone verified by votes has had as many approvers as it needs.
QuorumStands ==
  \A m \in There : stone[m].by = "quorum" => Cardinality(approvers[m]) >= stone[m].terms.need

\* No request is on its way to complete the vault.
AtRest == \A b \in Ballots : ballot[b].at \notin Awaiting

\* The votes on a milestone do not make its quorum, or a rejection stands among them.
Unmet(m) == ~Reached(stone[m].terms, Cardinality(Votes(m, "approved")),
                     Cardinality(Votes(m, "rejected")))

(* However the awaits of votes on different milestones, of other verifications  *)
(* and of new milestones interleave, the vault is completed only over verified   *)
(* milestones, and a vote settles one only with enough approvers; and the last   *)
(* verification completes the vault, unless an administrator, a deleted          *)
(* verifier, another row or a failed query came between, or a milestone was      *)
(* verified without its votes: one verified by PATCH or /validate has none.      *)
VaultFollowsMilestones ==
  /\ CompletedWhenVerified
  /\ QuorumStands
  /\ vaultState = "active" /\ EveryVerified /\ AtRest /\ ~mishap => \E m \in There : Unmet(m)
=============================================================================
