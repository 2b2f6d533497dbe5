------------------------ MODULE AccountabilityVault ------------------------
(***************************************************************************)
(* The Soroban contract contracts/accountability_vault/src/lib.rs.         *)
(*                                                                         *)
(* One contract instance hosts many vaults.  Every entry point is one      *)
(* atomic action: Soroban reverts all of a call that returns Err or traps, *)
(* so a rejected call is a disabled action.  The per-vault record `Vault`  *)
(* is split into one function per mutable field; the fields that           *)
(* create_vault writes once are kept together in terms[v].                 *)
(*                                                                         *)
(* Abstractions.  Milestone indexes run from 1 (the code counts from 0); a *)
(* milestone's `verified` and `released` flags are the sets of indexes     *)
(* whose flag is set; titles, evidence hashes, events and storage TTL are  *)
(* dropped.  Time is ledger time in abstract ticks.  The SEP-41 token is   *)
(* external: only the contract's own balance is kept.                      *)
(***************************************************************************)
EXTENDS Integers, Sequences, FiniteSets, FiniteSetsExt

CONSTANTS
    Vault,             \* vault ids
    Address,           \* creators, verifiers and oracles
    Token,             \* SEP-41 tokens
    Proposal,          \* the argument lists create_vault may be called with
    MaxMilestones,     \* longest milestone list of a proposal
    Fee,               \* fee a token withholds from a transfer in
    Allowance,         \* allowances a spender of stake_from may hold
    Window,            \* values configure_window may be called with
    DefaultWindow,     \* the 86400 s dispute window used when none is set
    Horizon,           \* MAX_DEADLINE_HORIZON
    MaxTime,           \* bound on ledger time
    MaxBalance,        \* bound on unsolicited deposits
    NoOracle, NoTerms  \* absent values

Milestone == [amount : Int, due_date : Nat, verified : BOOLEAN]

Terms == [creator : Address, verifiers : Seq(Address), threshold : Nat,
          oracle : Address \cup {NoOracle}, token : Token, amount : Int,
          failure_destination : Address, end_timestamp : Nat,
          milestones : Seq(Milestone)]

ASSUME ProposalAssumption ==
    /\ Proposal \subseteq Terms
    /\ \A p \in Proposal : Len(p.milestones) <= MaxMilestones

ASSUME ConstantAssumption ==
    /\ MaxMilestones \in Nat
    /\ MaxTime \in Nat \ {0}
    /\ MaxBalance \in Nat
    /\ Horizon \in Nat
    /\ DefaultWindow \in Nat
    /\ Window \subseteq Nat
    /\ Allowance \subseteq Nat
    /\ Fee \in [Token -> Nat]
    /\ NoTerms \notin Proposal

VARIABLES
    terms,          \* the fields of each vault fixed by create_vault
    status,         \* Vault.status, "Absent" before create_vault
    staked,         \* Vault.staked
    end_timestamp,  \* Vault.end_timestamp
    verified,       \* indexes with Milestone.verified
    released,       \* indexes with Milestone.released
    paused,         \* Vault.paused
    approvals,      \* DataKey::MilestoneApprovals(index), instance storage
    checkIn,        \* indexes that hold a DataKey::CheckIn(index) entry
    disputeWindow,  \* DataKey::DisputeWindow
    balance,        \* token balance of the contract
    now,            \* ledger timestamp
    endorsed,       \* history: who approved which milestone of which vault
    paid            \* history: what each vault paid out, by destination

config == <<terms, end_timestamp, paused, disputeWindow>>
progress == <<verified, released, approvals, checkIn, endorsed>>
money == <<staked, balance, paid>>
vars == <<terms, status, staked, end_timestamp, verified, released, paused,
          approvals, checkIn, disputeWindow, balance, now, endorsed, paid>>

Status == {"Absent", "Draft", "Active", "Completed", "Failed", "Cancelled",
           "Disputed"}
Terminal == {"Completed", "Failed", "Cancelled"}
Index == 1 .. MaxMilestones
Destination == {"success", "failure", "creator"}

-----------------------------------------------------------------------------
(* Helpers *)

ElementsOf(s) == {s[i] : i \in DOMAIN s}

\* The sum of f[1], ..., f[n].
Total(f, n) ==
    LET sum[i \in 0 .. n] == IF i = 0 THEN 0 ELSE sum[i - 1] + f[i]
    IN  sum[n]

MilestoneAmount(ms) == [i \in DOMAIN ms |-> ms[i].amount]

Indexes(v) == 1 .. Len(terms[v].milestones)

AllVerified(v) == Indexes(v) \subseteq verified[v]
AnyVerified(v) == verified[v] # {}
AnyReleased(v) == released[v] # {}

IsVerifier(v, a) == a \in ElementsOf(terms[v].verifiers)
IsParty(v, a) == a = terms[v].creator \/ IsVerifier(v, a)

\* Transfer x tokens of vault v out of the contract to destination d; the
\* token traps when the contract does not hold them.
PayOut(v, d, x) ==
    LET t == terms[v].token
    IN  /\ x <= balance[t]
        /\ balance' = [balance EXCEPT ![t] = @ - x]
        /\ paid' = [paid EXCEPT ![v][d] = @ + x]

Init ==
    /\ terms = [v \in Vault |-> NoTerms]
    /\ status = [v \in Vault |-> "Absent"]
    /\ staked = [v \in Vault |-> 0]
    /\ end_timestamp = [v \in Vault |-> 0]
    /\ verified = [v \in Vault |-> {}]
    /\ released = [v \in Vault |-> {}]
    /\ paused = [v \in Vault |-> FALSE]
    /\ approvals = [i \in Index |-> {}]
    /\ checkIn = {}
    /\ disputeWindow = DefaultWindow
    /\ balance = [t \in Token |-> 0]
    /\ now = 1
    /\ endorsed = [v \in Vault |-> [i \in Index |-> {}]]
    /\ paid = [v \in Vault |-> [d \in Destination |-> 0]]

-----------------------------------------------------------------------------
(* Creation and funding *)

\* The checks of create_vault, in the order of the code.
ValidProposal(p) ==
    LET n == Len(p.milestones)
    IN  /\ p.verifiers # <<>>
        /\ p.threshold # 0 /\ p.threshold <= Len(p.verifiers)
        /\ p.amount > 0
        /\ now < p.end_timestamp
        /\ p.end_timestamp <= now + Horizon
        /\ n # 0
        /\ p.failure_destination # p.creator
        /\ \A i \in 1 .. n : /\ p.milestones[i].amount > 0
                             /\ p.milestones[i].due_date <= p.end_timestamp
        /\ Total(MilestoneAmount(p.milestones), n) = p.amount

\* `verified` is copied from the caller's milestones, `released` is reset.
CreateVault(v, p) ==
    /\ status[v] = "Absent"
    /\ ValidProposal(p)
    /\ terms' = [terms EXCEPT ![v] = p]
    /\ status' = [status EXCEPT ![v] = "Draft"]
    /\ end_timestamp' = [end_timestamp EXCEPT ![v] = p.end_timestamp]
    /\ verified' = [verified EXCEPT ![v] =
                      {i \in 1 .. Len(p.milestones) : p.milestones[i].verified}]
    /\ UNCHANGED <<released, paused, approvals, checkIn, disputeWindow, now,
                   endorsed, money>>

\* What stake and stake_from share: the creator's tokens are pulled in and the
\* stake is the balance difference, which a token with a fee leaves too small.
Fund(v) ==
    LET t == terms[v].token
        received == terms[v].amount - Fee[t]
    IN  /\ status[v] = "Draft"
        /\ staked[v] = 0
        /\ received >= terms[v].amount
        /\ staked' = [staked EXCEPT ![v] = received]
        /\ balance' = [balance EXCEPT ![t] = @ + received]
        /\ status' = [status EXCEPT ![v] = "Active"]
        /\ UNCHANGED <<paid, config, progress, now>>

Stake(v) == Fund(v)

StakeFrom(v, allowance) ==
    /\ status[v] = "Draft"
    /\ allowance >= terms[v].amount
    /\ Fund(v)

-----------------------------------------------------------------------------
(* Verification *)

\* Mutant of CheckIn: the due date is not checked.
CheckInLate(v, a, i) ==
    /\ status[v] = "Active"
    /\ IsVerifier(v, a) \/ a = terms[v].oracle
    /\ i \in Indexes(v) \ verified[v]
    /\ a \notin approvals[i]
    /\ approvals' = [approvals EXCEPT ![i] = @ \cup {a}]
    /\ endorsed' = [endorsed EXCEPT ![v][i] = @ \cup {a}]
    /\ IF Cardinality(approvals'[i]) >= terms[v].threshold
       THEN /\ verified' = [verified EXCEPT ![v] = @ \cup {i}]
            /\ checkIn' = checkIn \cup {i}
       ELSE UNCHANGED <<verified, checkIn>>
    /\ UNCHANGED <<released, status, config, money, now>>

\* The approval list is keyed by the milestone index alone, so it is shared
\* by all vaults of the instance.
CheckIn(v, a, i) ==
    /\ status[v] = "Active"
    /\ IsVerifier(v, a) \/ a = terms[v].oracle
    /\ i \in Indexes(v)
    /\ i \notin verified[v]
    /\ now <= terms[v].milestones[i].due_date
    /\ a \notin approvals[i]
    /\ approvals' = [approvals EXCEPT ![i] = @ \cup {a}]
    /\ endorsed' = [endorsed EXCEPT ![v][i] = @ \cup {a}]
    /\ IF Cardinality(approvals'[i]) >= terms[v].threshold
       THEN /\ verified' = [verified EXCEPT ![v] = @ \cup {i}]
            /\ checkIn' = checkIn \cup {i}
       ELSE UNCHANGED <<verified, checkIn>>
    /\ UNCHANGED <<released, status, config, money, now>>

\* dispute_milestone reads CheckIn(index) as a u64 although check_in stores a
\* pair, so the call traps when the entry exists; without one the verification
\* time counts as 0.  Approvals are kept.
DisputeMilestone(v, i) ==
    /\ status[v] # "Absent"
    /\ i \in Indexes(v)
    /\ i \in verified[v]
    /\ i \notin checkIn
    /\ now <= disputeWindow
    /\ verified' = [verified EXCEPT ![v] = @ \ {i}]
    /\ UNCHANGED <<released, approvals, checkIn, endorsed, status, config,
                   money, now>>

ConfigureWindow(w) ==
    /\ disputeWindow' = w
    /\ UNCHANGED <<terms, end_timestamp, paused, status, progress, money, now>>

\* Signed by the creator and by all verifiers.
ExtendDeadline(v, newEnd) ==
    /\ status[v] = "Active"
    /\ now < end_timestamp[v]
    /\ newEnd > end_timestamp[v]
    /\ \A i \in Indexes(v) : terms[v].milestones[i].due_date <= newEnd
    /\ end_timestamp' = [end_timestamp EXCEPT ![v] = newEnd]
    /\ UNCHANGED <<terms, paused, disputeWindow, status, progress, money, now>>

-----------------------------------------------------------------------------
(* Settlement *)

\* Mutant of Settle: the stake is not zeroed.
SettleKeepingStake(v, s, d) ==
    /\ status' = [status EXCEPT ![v] = s]
    /\ PayOut(v, d, staked[v])
    /\ UNCHANGED <<staked, config, progress, now>>

\* What slash_on_miss, claim and withdraw share: state first, then the transfer.
Settle(v, s, d) ==
    /\ status' = [status EXCEPT ![v] = s]
    /\ staked' = [staked EXCEPT ![v] = 0]
    /\ PayOut(v, d, staked[v])
    /\ UNCHANGED <<config, progress, now>>

SlashOnMiss(v) ==
    /\ status[v] = "Active"
    /\ ~paused[v]
    /\ now > end_timestamp[v]
    /\ ~AllVerified(v)
    /\ Settle(v, "Failed", "failure")

Claim(v, a) ==
    /\ status[v] = "Active"
    /\ ~paused[v]
    /\ IsParty(v, a)
    /\ AllVerified(v)
    /\ ~AnyReleased(v)
    /\ Settle(v, "Completed", "success")

Withdraw(v) ==
    /\ status[v] = "Active"
    /\ ~paused[v]
    /\ ~AnyVerified(v)
    /\ staked[v] # 0
    /\ Settle(v, "Cancelled", "creator")

\* Mutant of ClaimMilestone: a released milestone can be claimed again.
ClaimMilestoneAgain(v, a, i) ==
    /\ status[v] = "Active"
    /\ IsParty(v, a)
    /\ i \in Indexes(v) \cap verified[v]
    /\ released' = [released EXCEPT ![v] = @ \cup {i}]
    /\ staked' = [staked EXCEPT ![v] = @ - terms[v].milestones[i].amount]
    /\ PayOut(v, "success", terms[v].milestones[i].amount)
    /\ status' = [status EXCEPT ![v] =
                    IF Indexes(v) \subseteq released'[v]
                    THEN "Completed" ELSE "Active"]
    /\ UNCHANGED <<verified, approvals, checkIn, endorsed, config, now>>

\* Not blocked by the pause; completes the vault with its last milestone.
ClaimMilestone(v, a, i) ==
    /\ status[v] = "Active"
    /\ IsParty(v, a)
    /\ i \in Indexes(v)
    /\ i \in verified[v]
    /\ i \notin released[v]
    /\ released' = [released EXCEPT ![v] = @ \cup {i}]
    /\ staked' = [staked EXCEPT ![v] = @ - terms[v].milestones[i].amount]
    /\ PayOut(v, "success", terms[v].milestones[i].amount)
    /\ status' = [status EXCEPT ![v] =
                    IF Indexes(v) \subseteq released'[v]
                    THEN "Completed" ELSE "Active"]
    /\ UNCHANGED <<verified, approvals, checkIn, endorsed, config, now>>

\* By the creator, from whatever status the vault is in.
CancelVault(v) ==
    /\ status[v] # "Absent"
    /\ status' = [status EXCEPT ![v] = "Cancelled"]
    /\ UNCHANGED <<config, progress, money, now>>

-----------------------------------------------------------------------------
(* Guardian (the creator) and residual tokens *)

AdminDispute(v) ==
    /\ status[v] = "Active"
    /\ status' = [status EXCEPT ![v] = "Disputed"]
    /\ UNCHANGED <<config, progress, money, now>>

AdminResolve(v, target) ==
    /\ status[v] = "Disputed"
    /\ target \in {"Active", "Completed", "Failed"}
    /\ status' = [status EXCEPT ![v] = target]
    /\ UNCHANGED <<config, progress, money, now>>

SetPaused(v, b) ==
    /\ status[v] # "Absent"
    /\ paused' = [paused EXCEPT ![v] = b]
    /\ UNCHANGED <<terms, end_timestamp, disputeWindow, status, progress,
                   money, now>>

EmergencyPause(v) == SetPaused(v, TRUE)
EmergencyUnpause(v) == SetPaused(v, FALSE)

\* Sweeps the contract's whole balance of the token the caller names.
ReclaimAfterSettlement(v, t) ==
    /\ status[v] # "Absent"
    /\ staked[v] = 0
    /\ balance[t] > 0
    /\ balance' = [balance EXCEPT ![t] = 0]
    /\ UNCHANGED <<staked, paid, status, config, progress, now>>

\* External: somebody transfers tokens to the contract directly.
Deposit(t) ==
    /\ balance[t] < MaxBalance
    /\ balance' = [balance EXCEPT ![t] = @ + 1]
    /\ UNCHANGED <<staked, paid, status, config, progress, now>>

\* External: ledger time passes.
Tick ==
    /\ now < MaxTime
    /\ now' = now + 1
    /\ UNCHANGED <<status, config, progress, money>>

-----------------------------------------------------------------------------
VaultStep(v) ==
    \/ \E p \in Proposal : CreateVault(v, p)
    \/ Stake(v)
    \/ \E x \in Allowance : StakeFrom(v, x)
    \/ \E a \in Address, i \in Index : CheckIn(v, a, i)
    \/ \E i \in Index : DisputeMilestone(v, i)
    \/ \E e \in 1 .. MaxTime : ExtendDeadline(v, e)
    \/ SlashOnMiss(v)
    \/ \E a \in Address : Claim(v, a)
    \/ Withdraw(v)
    \/ \E a \in Address, i \in Index : ClaimMilestone(v, a, i)
    \/ CancelVault(v)
    \/ AdminDispute(v)
    \/ \E s \in Status : AdminResolve(v, s)
    \/ EmergencyPause(v)
    \/ EmergencyUnpause(v)

Next ==
    \/ \E v \in Vault : VaultStep(v)
    \/ \E v \in Vault, t \in Token : ReclaimAfterSettlement(v, t)
    \/ \E t \in Token : Deposit(t)
    \/ \E w \in Window : ConfigureWindow(w)
    \/ Tick

Spec == Init /\ [][Next]_vars

-----------------------------------------------------------------------------
(* Properties *)

\* Every variable has its type; only a created vault has terms.
TypeOK ==
    /\ terms \in [Vault -> Proposal \cup {NoTerms}]
    /\ status \in [Vault -> Status]
    /\ staked \in [Vault -> Int]
    /\ end_timestamp \in [Vault -> Nat]
    /\ verified \in [Vault -> SUBSET Index]
    /\ released \in [Vault -> SUBSET Index]
    /\ paused \in [Vault -> BOOLEAN]
    /\ approvals \in [Index -> SUBSET Address]
    /\ checkIn \in SUBSET Index
    /\ disputeWindow \in Nat
    /\ balance \in [Token -> Int]
    /\ now \in Nat
    /\ endorsed \in [Vault -> [Index -> SUBSET Address]]
    /\ paid \in [Vault -> [Destination -> Int]]
    /\ \A v \in Vault : status[v] # "Absent" <=> terms[v] \in Proposal

\* The amount of the milestones not yet released one by one.
Unreleased(v) ==
    LET ms == terms[v].milestones
    IN  Total([i \in DOMAIN ms |->
                  IF i \in released[v] THEN 0 ELSE ms[i].amount], Len(ms))

\* docs/contracts-accountability-vault.md, invariant 2: while a vault is
\* funded and unsettled its stake is exactly the sum of the milestones not yet
\* claimed, so claim_milestone can neither overdraw the vault nor leave a
\* remainder; a draft holds nothing.
StakeCoversMilestones ==
    \A v \in Vault :
        /\ status[v] \in {"Active", "Disputed"} => staked[v] = Unreleased(v)
        /\ status[v] \in {"Absent", "Draft"} => staked[v] = 0

\* What v holds and what it has paid out.
Conserved(v) ==
    staked[v] + paid[v]["success"] + paid[v]["failure"] + paid[v]["creator"]

ConservedAt(v) ==
    /\ status[v] \in {"Absent", "Draft"} => Conserved(v) = 0
    /\ status[v] \in {"Active", "Disputed", "Completed", "Failed"} =>
          Conserved(v) = terms[v].amount
    /\ status[v] = "Cancelled" => Conserved(v) \in {0, terms[v].amount}

\* What a vault holds plus what it paid out is the declared amount from
\* funding on, whatever mixture of claim_milestone, claim, slash_on_miss and
\* withdraw settles it: no path pays a vault's stake twice.
Conservation == \A v \in Vault : ConservedAt(v)

\* Every milestone falls due by the end of its vault: what extend_deadline
\* says it preserves.
DueByEnd ==
    \A v \in Vault : status[v] # "Absent" =>
        \A i \in Indexes(v) :
            terms[v].milestones[i].due_date <= end_timestamp[v]

\* The deadline of v has passed with a milestone unverified.
Missed(v) == /\ status[v] # "Absent"
             /\ now > end_timestamp[v]
             /\ ~AllVerified(v)

\* A missed deadline is final: check_in races slash_on_miss on different
\* deadlines (due_date and end_timestamp), and extend_deadline moves one of
\* them, yet once a vault can be slashed no call makes it claimable again.
MissIsFinal == [][\A v \in Vault : Missed(v) => Missed(v)']_vars

\* No operation but cancel_vault moves a vault out of a terminal status, and
\* none moves the stake of a vault in one.
TerminalIsFinal ==
    [][\A v \in Vault : status[v] \in Terminal =>
          /\ status'[v] \in {status[v], "Cancelled"}
          /\ staked'[v] = staked[v]
          /\ released'[v] = released[v]]_vars

\* Both ways a vault can come to its end are final: no order of check-ins,
\* extensions, disputes and settlements leads back.
EndsAreFinal == MissIsFinal /\ TerminalIsFinal

\* Whenever the recorded stake of a vault changes, exactly that many tokens of
\* its own token enter or leave the contract, and no other vault's stake moves.
StakeMovesTokens ==
    [][\A v \in Vault : staked'[v] # staked[v] =>
          /\ balance'[terms[v].token] - balance[terms[v].token]
                = staked'[v] - staked[v]
          /\ \A w \in Vault \ {v} : staked'[w] = staked[w]
          /\ \A t \in Token \ {terms[v].token} : balance'[t] = balance[t]]_vars

\* The contract holds every token its vaults record as staked.
Solvent(t) ==
    MapThenSumSet(LAMBDA v : staked[v],
                  {v \in Vault : terms[v] # NoTerms /\ terms[v].token = t})
        <= balance[t]

\* The stakes of all vaults share one balance; only reclaim_after_settlement,
\* which sweeps that balance, can make it smaller than their sum.
OnlyASweepBreaksSolvency ==
    [][\A t \in Token : Solvent(t) =>
          Solvent(t)' \/ \E v \in Vault : ReclaimAfterSettlement(v, t)]_vars

\* lib.rs:24: a milestone is verified only after approval_threshold distinct
\* approvals; here, approvals given to this milestone of this vault.
OwnQuorum ==
    \A v \in Vault : status[v] # "Absent" =>
        \A i \in Indexes(v) :
            (i \in verified[v] /\ ~terms[v].milestones[i].verified)
                => Cardinality(endorsed[v][i]) >= terms[v].threshold

=============================================================================
