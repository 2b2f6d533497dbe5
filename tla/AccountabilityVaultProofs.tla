--------------------- MODULE AccountabilityVaultProofs ---------------------
(***************************************************************************)
(* TLAPS proofs about AccountabilityVault, for every set of vaults,        *)
(* proposals, tokens and bounds that satisfies the assumptions, and about  *)
(* the vault the service keeps of it, which follows its milestones.        *)
(***************************************************************************)
EXTENDS AccountabilityVault, Milestones, FiniteSetTheorems, WellFoundedInduction, TLAPS

\* A created vault's terms are a proposal and have their types.
LEMMA TermsType ==
    ASSUME TypeOK, NEW v \in Vault, status[v] # "Absent"
    PROVE  /\ terms[v] \in Proposal
           /\ terms[v].token \in Token
           /\ terms[v].amount \in Int
           /\ terms[v].end_timestamp \in Nat
           /\ terms[v].milestones \in Seq(Milestone)
           /\ Indexes(v) \subseteq Index
           /\ \A i \in Indexes(v) : /\ terms[v].milestones[i].amount \in Int
                                    /\ terms[v].milestones[i].due_date \in Nat
  <1>1. terms[v] \in Proposal
    BY DEF TypeOK
  <1>2. terms[v] \in Terms /\ Len(terms[v].milestones) <= MaxMilestones
    BY <1>1, ProposalAssumption
  <1>3. /\ terms[v].token \in Token
        /\ terms[v].amount \in Int
        /\ terms[v].end_timestamp \in Nat
        /\ terms[v].milestones \in Seq(Milestone)
    BY <1>2 DEF Terms
  <1>4. Indexes(v) \subseteq Index
    BY <1>2, <1>3, ConstantAssumption DEF Indexes, Index
  <1>5. ASSUME NEW i \in Indexes(v)
        PROVE  terms[v].milestones[i] \in Milestone
    BY <1>3, <1>5 DEF Indexes
  <1>6. QED
    BY <1>1, <1>3, <1>4, <1>5 DEF Milestone

\* The initial state is well typed.
LEMMA InitType == Init => TypeOK
  BY ProposalAssumption, ConstantAssumption
     DEF Init, TypeOK, Status, Destination, Index

\* A transfer out of the contract keeps the types of the money it moves.
LEMMA PayOutType ==
    ASSUME TypeOK, NEW v \in Vault, status[v] # "Absent",
           NEW d \in Destination, NEW x \in Int, PayOut(v, d, x)
    PROVE  /\ balance' \in [Token -> Int]
           /\ paid' \in [Vault -> [Destination -> Int]]
  <1>1. balance \in [Token -> Int] /\ balance[terms[v].token] - x \in Int
    BY TermsType DEF TypeOK
  <1>2. balance' \in [Token -> Int]
    BY <1>1 DEF PayOut
  <1>3. /\ paid \in [Vault -> [Destination -> Int]]
        /\ paid' = [paid EXCEPT ![v] = [paid[v] EXCEPT ![d] = paid[v][d] + x]]
    BY DEF TypeOK, PayOut
  <1>4. [paid[v] EXCEPT ![d] = paid[v][d] + x] \in [Destination -> Int]
    BY <1>3
  <1>5. paid' \in [Vault -> [Destination -> Int]]
    BY <1>3, <1>4
  <1>6. QED
    BY <1>2, <1>5

\* So does the settlement of a vault.
LEMMA SettleType ==
    ASSUME TypeOK, NEW v \in Vault, status[v] # "Absent",
           NEW s \in Status \ {"Absent"}, NEW d \in Destination,
           Settle(v, s, d)
    PROVE  TypeOK'
  <1>1. staked[v] \in Int /\ PayOut(v, d, staked[v])
    BY DEF TypeOK, Settle
  <1>2. /\ balance' \in [Token -> Int]
        /\ paid' \in [Vault -> [Destination -> Int]]
    BY <1>1, PayOutType
  <1>3. /\ staked' \in [Vault -> Int]
        /\ status' \in [Vault -> Status]
        /\ \A w \in Vault : status'[w] # "Absent" <=> status[w] # "Absent"
    BY DEF TypeOK, Settle
  <1>4. UNCHANGED <<terms, end_timestamp, paused, disputeWindow, now,
                    verified, released, approvals, checkIn, endorsed>>
    BY DEF Settle, config, progress
  <1>5. QED
    BY <1>2, <1>3, <1>4 DEF TypeOK

\* Every operation preserves the types.
LEMMA NextType == TypeOK /\ [Next]_vars => TypeOK'
  <1> SUFFICES ASSUME TypeOK, [Next]_vars PROVE TypeOK'
    OBVIOUS
  <1>1. ASSUME NEW v \in Vault, NEW p \in Proposal, CreateVault(v, p)
        PROVE  TypeOK'
    <2>1. /\ p \in Terms /\ Len(p.milestones) <= MaxMilestones
          /\ p.milestones \in Seq(Milestone) /\ p.end_timestamp \in Nat
      BY ProposalAssumption DEF Terms
    <2>2. {i \in 1 .. Len(p.milestones) : p.milestones[i].verified} \subseteq Index
      BY <2>1, ConstantAssumption DEF Index
    <2>3. QED
      BY <1>1, <2>1, <2>2, ConstantAssumption
         DEF TypeOK, CreateVault, Status, money
  <1>2. ASSUME NEW v \in Vault, Fund(v) PROVE TypeOK'
    <2>1. status[v] # "Absent" /\ terms[v].token \in Token /\ terms[v].amount \in Int
      BY <1>2, TermsType DEF Fund
    <2>2. terms[v].amount - Fee[terms[v].token] \in Int
      BY <2>1, ConstantAssumption
    <2>3. staked' \in [Vault -> Int] /\ balance' \in [Token -> Int]
      BY <1>2, <2>1, <2>2 DEF TypeOK, Fund
    <2>4. QED
      BY <1>2, <2>1, <2>3 DEF TypeOK, Fund, Status, config, progress
  <1>3. ASSUME NEW v \in Vault, NEW a \in Address, NEW i \in Index, CheckIn(v, a, i)
        PROVE  TypeOK'
    <2>1. approvals' \in [Index -> SUBSET Address]
      BY <1>3 DEF TypeOK, CheckIn
    <2>2. endorsed[v] \in [Index -> SUBSET Address]
      BY DEF TypeOK
    <2>3. [endorsed[v] EXCEPT ![i] = endorsed[v][i] \cup {a}]
             \in [Index -> SUBSET Address]
      BY <2>2
    <2>4. endorsed' = [endorsed EXCEPT ![v] =
                         [endorsed[v] EXCEPT ![i] = endorsed[v][i] \cup {a}]]
      BY <1>3 DEF CheckIn
    <2>5. endorsed' \in [Vault -> [Index -> SUBSET Address]]
      BY <2>3, <2>4 DEF TypeOK
    <2>6. \/ /\ verified' = [verified EXCEPT ![v] = verified[v] \cup {i}]
             /\ checkIn' = checkIn \cup {i}
          \/ verified' = verified /\ checkIn' = checkIn
      BY <1>3 DEF CheckIn
    <2>7. verified' \in [Vault -> SUBSET Index] /\ checkIn' \in SUBSET Index
      BY <2>6 DEF TypeOK
    <2>8. QED
      BY <1>3, <2>1, <2>5, <2>7 DEF TypeOK, CheckIn, config, money
  <1>4. ASSUME NEW v \in Vault, NEW i \in Index, DisputeMilestone(v, i)
        PROVE  TypeOK'
    BY <1>4 DEF TypeOK, DisputeMilestone, config, money
  <1>5. ASSUME NEW v \in Vault, NEW e \in 1 .. MaxTime, ExtendDeadline(v, e)
        PROVE  TypeOK'
    BY <1>5 DEF TypeOK, ExtendDeadline, progress, money
  <1>6. ASSUME NEW v \in Vault, SlashOnMiss(v) PROVE TypeOK'
    BY <1>6, SettleType DEF SlashOnMiss, Status, Destination
  <1>7. ASSUME NEW v \in Vault, NEW a \in Address, Claim(v, a) PROVE TypeOK'
    BY <1>7, SettleType DEF Claim, Status, Destination
  <1>8. ASSUME NEW v \in Vault, Withdraw(v) PROVE TypeOK'
    BY <1>8, SettleType DEF Withdraw, Status, Destination
  <1>9. ASSUME NEW v \in Vault, NEW a \in Address, NEW i \in Index,
               ClaimMilestone(v, a, i)
        PROVE  TypeOK'
    <2>1. status[v] # "Absent" /\ i \in Indexes(v)
      BY <1>9 DEF ClaimMilestone
    <2>2. terms[v].milestones[i].amount \in Int
      BY <2>1, TermsType
    <2>3. /\ balance' \in [Token -> Int]
          /\ paid' \in [Vault -> [Destination -> Int]]
      BY <1>9, <2>1, <2>2, PayOutType DEF ClaimMilestone, Destination
    <2>4. staked' \in [Vault -> Int]
      BY <1>9, <2>2 DEF TypeOK, ClaimMilestone
    <2>5. status' \in [Vault -> Status] /\ status'[v] # "Absent"
      BY <1>9 DEF TypeOK, ClaimMilestone, Status
    <2>6. \A w \in Vault : status'[w] # "Absent" <=> status[w] # "Absent"
      BY <1>9, <2>1, <2>5 DEF TypeOK, ClaimMilestone
    <2>7. released' \in [Vault -> SUBSET Index]
      BY <1>9 DEF TypeOK, ClaimMilestone
    <2>8. QED
      BY <1>9, <2>3, <2>4, <2>5, <2>6, <2>7 DEF TypeOK, ClaimMilestone, config
  <1>10. ASSUME NEW v \in Vault, CancelVault(v) PROVE TypeOK'
    BY <1>10 DEF TypeOK, CancelVault, Status, config, progress, money
  <1>11. ASSUME NEW v \in Vault, AdminDispute(v) PROVE TypeOK'
    BY <1>11 DEF TypeOK, AdminDispute, Status, config, progress, money
  <1>12. ASSUME NEW v \in Vault, NEW s \in Status, AdminResolve(v, s)
         PROVE  TypeOK'
    BY <1>12 DEF TypeOK, AdminResolve, Status, config, progress, money
  <1>13. ASSUME NEW v \in Vault, NEW b \in BOOLEAN, SetPaused(v, b)
         PROVE  TypeOK'
    BY <1>13 DEF TypeOK, SetPaused, progress, money
  <1>14. ASSUME NEW v \in Vault, NEW t \in Token, ReclaimAfterSettlement(v, t)
         PROVE  TypeOK'
    BY <1>14 DEF TypeOK, ReclaimAfterSettlement, config, progress
  <1>15. ASSUME NEW t \in Token, Deposit(t) PROVE TypeOK'
    BY <1>15 DEF TypeOK, Deposit, config, progress
  <1>16. ASSUME NEW w \in Window, ConfigureWindow(w) PROVE TypeOK'
    BY <1>16, ConstantAssumption DEF TypeOK, ConfigureWindow, progress, money
  <1>17. ASSUME Tick PROVE TypeOK'
    BY <1>17 DEF TypeOK, Tick, config, progress, money
  <1>18. CASE UNCHANGED vars
    BY <1>18 DEF TypeOK, vars
  <1>19. QED
    BY <1>1, <1>2, <1>3, <1>4, <1>5, <1>6, <1>7, <1>8, <1>9, <1>10, <1>11,
       <1>12, <1>13, <1>14, <1>15, <1>16, <1>17, <1>18
       DEF Next, VaultStep, Stake, StakeFrom, EmergencyPause, EmergencyUnpause

\* Type correctness: whatever sequence of calls is made, every vault keeps a
\* status, integer funds and milestone flags within its milestones, and only a
\* vault that create_vault stored has terms.
THEOREM TypeCorrect == Spec => []TypeOK
  <1>1. Init => TypeOK
    BY InitType
  <1>2. TypeOK /\ [Next]_vars => TypeOK'
    BY NextType
  <1>3. QED
    BY <1>1, <1>2, PTL DEF Spec

-----------------------------------------------------------------------------
(* Deadlines *)

\* Only create_vault and extend_deadline write the terms or the end of a vault.
LEMMA TermsFrame ==
    ASSUME Next,
           \A v \in Vault, p \in Proposal : ~CreateVault(v, p),
           \A v \in Vault, e \in 1 .. MaxTime : ~ExtendDeadline(v, e)
    PROVE  UNCHANGED <<terms, end_timestamp>>
  BY DEF Next, VaultStep, Stake, StakeFrom, Fund, CheckIn, DisputeMilestone,
         SlashOnMiss, Claim, Withdraw, Settle, ClaimMilestone, CancelVault,
         AdminDispute, AdminResolve, EmergencyPause, EmergencyUnpause,
         SetPaused, ReclaimAfterSettlement, Deposit, ConfigureWindow, Tick,
         config

\* Milestones fall due by the end of their vault after every step.
LEMMA NextDue == TypeOK /\ TypeOK' /\ DueByEnd /\ [Next]_vars => DueByEnd'
  <1> SUFFICES ASSUME TypeOK, TypeOK', DueByEnd, [Next]_vars,
                      NEW w \in Vault, status'[w] # "Absent",
                      NEW i \in Indexes(w)'
               PROVE  (terms[w].milestones[i].due_date <= end_timestamp[w])'
    BY DEF DueByEnd
  <1>1. ASSUME NEW v \in Vault, NEW p \in Proposal, CreateVault(v, p)
        PROVE  (terms[w].milestones[i].due_date <= end_timestamp[w])'
    <2>1. CASE v = w
      <3>1. terms'[w] = p /\ end_timestamp'[w] = p.end_timestamp
        BY <1>1, <2>1 DEF TypeOK, CreateVault
      <3>2. i \in 1 .. Len(p.milestones)
        BY <3>1 DEF Indexes
      <3>3. QED
        BY <1>1, <3>1, <3>2 DEF CreateVault, ValidProposal
    <2>2. CASE v # w
      <3>1. /\ terms'[w] = terms[w] /\ status'[w] = status[w]
            /\ end_timestamp'[w] = end_timestamp[w]
        BY <1>1, <2>2 DEF TypeOK, CreateVault
      <3>2. QED
        BY <3>1 DEF DueByEnd, Indexes
    <2>3. QED
      BY <2>1, <2>2
  <1>2. ASSUME NEW v \in Vault, NEW e \in 1 .. MaxTime, ExtendDeadline(v, e)
        PROVE  (terms[w].milestones[i].due_date <= end_timestamp[w])'
    <2>1. terms' = terms /\ status' = status /\ i \in Indexes(w)
      BY <1>2 DEF ExtendDeadline, Indexes
    <2>2. CASE v = w
      BY <1>2, <2>1, <2>2 DEF TypeOK, ExtendDeadline
    <2>3. CASE v # w
      BY <1>2, <2>1, <2>3 DEF TypeOK, ExtendDeadline, DueByEnd
    <2>4. QED
      BY <2>2, <2>3
  <1>3. ASSUME UNCHANGED <<terms, end_timestamp>>
        PROVE  (terms[w].milestones[i].due_date <= end_timestamp[w])'
    <2>1. status[w] # "Absent" /\ i \in Indexes(w)
      BY <1>3 DEF TypeOK, Indexes
    <2>2. QED
      BY <1>3, <2>1 DEF DueByEnd
  <1>4. QED
    BY <1>1, <1>2, <1>3, TermsFrame DEF vars

\* Every milestone of every vault always falls due by the vault's end: what
\* create_vault checks once and extend_deadline says it preserves.
THEOREM MilestonesDueByEnd == Spec => []DueByEnd
  <1>1. Init => DueByEnd
    BY DEF Init, DueByEnd
  <1>2. TypeOK /\ TypeOK' /\ DueByEnd /\ [Next]_vars => DueByEnd'
    BY NextDue
  <1>3. QED
    BY <1>1, <1>2, TypeCorrect, PTL DEF Spec

\* No step undoes a missed deadline: check_in is barred because the due date
\* of the milestone is past as well, extend_deadline because the end is.
LEMMA NextMissed ==
    ASSUME TypeOK, TypeOK', DueByEnd, [Next]_vars, NEW w \in Vault, Missed(w)
    PROVE  Missed(w)'
  <1> USE DEF Missed
  <1>1. CASE UNCHANGED <<terms, end_timestamp>>
    <2>1. status'[w] # "Absent" /\ Indexes(w)' = Indexes(w)
      BY <1>1 DEF TypeOK, Indexes
    <2>2. now' >= now
      BY DEF TypeOK, vars, Next, VaultStep, Stake, StakeFrom, Fund, CheckIn,
             DisputeMilestone, ExtendDeadline, SlashOnMiss, Claim, Withdraw,
             Settle, ClaimMilestone, CancelVault, AdminDispute, AdminResolve,
             EmergencyPause, EmergencyUnpause, SetPaused,
             ReclaimAfterSettlement, Deposit, ConfigureWindow, Tick, CreateVault
    <2>3. now' > end_timestamp'[w]
      BY <1>1, <2>2 DEF TypeOK
    <2>4. Indexes(w) \cap verified'[w] \subseteq verified[w]
      <3>1. ASSUME NEW v \in Vault, NEW a \in Address, NEW i \in Index,
                   CheckIn(v, a, i)
            PROVE  Indexes(w) \cap verified'[w] \subseteq verified[w]
        <4>1. CASE v = w
          <5>1. /\ i \in Indexes(w)
                /\ now <= terms[w].milestones[i].due_date
            BY <3>1, <4>1 DEF CheckIn
          <5>2. terms[w].milestones[i].due_date <= end_timestamp[w]
            BY <5>1 DEF DueByEnd
          <5>3. terms[w].milestones[i].due_date \in Nat
            BY <5>1, TermsType
          <5>4. QED
            BY <5>1, <5>2, <5>3 DEF TypeOK
        <4>2. CASE v # w
          BY <3>1, <4>2 DEF TypeOK, CheckIn
        <4>3. QED
          BY <4>1, <4>2
      <3>2. ASSUME NEW v \in Vault, NEW i \in Index, DisputeMilestone(v, i)
            PROVE  Indexes(w) \cap verified'[w] \subseteq verified[w]
        BY <3>2 DEF TypeOK, DisputeMilestone
      <3>3. ASSUME NEW v \in Vault, NEW p \in Proposal, CreateVault(v, p)
            PROVE  Indexes(w) \cap verified'[w] \subseteq verified[w]
        BY <3>3 DEF TypeOK, CreateVault
      <3>4. ASSUME UNCHANGED verified
            PROVE  Indexes(w) \cap verified'[w] \subseteq verified[w]
        BY <3>4
      <3>5. QED
        BY <3>1, <3>2, <3>3, <3>4
           DEF vars, Next, VaultStep, Stake, StakeFrom, Fund, ExtendDeadline,
               SlashOnMiss, Claim, Withdraw, Settle, ClaimMilestone,
               CancelVault, AdminDispute, AdminResolve, EmergencyPause,
               EmergencyUnpause, SetPaused, ReclaimAfterSettlement, Deposit,
               ConfigureWindow, Tick, progress
    <2>5. QED
      BY <2>1, <2>3, <2>4 DEF AllVerified
  <1>2. ASSUME NEW v \in Vault, NEW p \in Proposal, CreateVault(v, p)
        PROVE  Missed(w)'
    <2>1. v # w
      BY <1>2 DEF CreateVault
    <2>2. /\ terms'[w] = terms[w] /\ status'[w] = status[w]
          /\ end_timestamp'[w] = end_timestamp[w] /\ verified'[w] = verified[w]
          /\ now' = now
      BY <1>2, <2>1 DEF TypeOK, CreateVault
    <2>3. QED
      BY <2>2 DEF AllVerified, Indexes
  <1>3. ASSUME NEW v \in Vault, NEW e \in 1 .. MaxTime, ExtendDeadline(v, e)
        PROVE  Missed(w)'
    <2>1. /\ v # w
          /\ terms' = terms /\ status' = status /\ verified' = verified
          /\ now' = now
      BY <1>3 DEF TypeOK, ExtendDeadline, progress
    <2>2. end_timestamp'[w] = end_timestamp[w]
      BY <1>3, <2>1 DEF TypeOK, ExtendDeadline
    <2>3. QED
      BY <2>1, <2>2 DEF AllVerified, Indexes
  <1>4. QED
    BY <1>1, <1>2, <1>3, TermsFrame DEF vars

\* A missed deadline is final: once a vault can be slashed, no order of
\* check_in, extend_deadline and dispute_milestone makes it claimable again.
THEOREM MissedForever == Spec => MissIsFinal
  <1>1. TypeOK /\ TypeOK' /\ DueByEnd /\ [Next]_vars
           => [\A v \in Vault : Missed(v) => Missed(v)']_vars
    BY NextMissed
  <1>2. QED
    BY <1>1, TypeCorrect, MilestonesDueByEnd, PTL DEF Spec, MissIsFinal

-----------------------------------------------------------------------------
(* Money *)

\* A vault is funded with exactly its declared amount: the balance difference
\* may not fall short of it, and no token adds to a transfer.
LEMMA FundEffect ==
    ASSUME TypeOK, NEW v \in Vault, Fund(v)
    PROVE  /\ terms[v].token \in Token /\ terms[v].amount \in Int
           /\ staked[v] = 0 /\ status[v] = "Draft"
           /\ staked' = [staked EXCEPT ![v] = terms[v].amount]
           /\ balance' = [balance EXCEPT ![terms[v].token] =
                            @ + terms[v].amount]
           /\ status' = [status EXCEPT ![v] = "Active"]
           /\ UNCHANGED <<paid, terms, released>>
  <1>1. terms[v].token \in Token /\ terms[v].amount \in Int
    BY TermsType DEF Fund
  <1>2. Fee[terms[v].token] = 0
    BY <1>1, ConstantAssumption DEF Fund
  <1>3. terms[v].amount - Fee[terms[v].token] = terms[v].amount
    BY <1>1, <1>2
  <1>4. QED
    BY <1>1, <1>3 DEF Fund, config, progress

\* The payments of a vault after a transfer out.
LEMMA PayOutEffect ==
    ASSUME TypeOK, NEW v \in Vault, NEW d \in Destination, NEW x \in Int,
           PayOut(v, d, x), NEW w \in Vault, NEW c \in Destination
    PROVE  paid'[w][c] = IF w = v /\ c = d THEN paid[w][c] + x ELSE paid[w][c]
  <1>1. paid[v] \in [Destination -> Int] /\ paid \in [Vault -> [Destination -> Int]]
    BY DEF TypeOK
  <1>2. paid' = [paid EXCEPT ![v] = [paid[v] EXCEPT ![d] = paid[v][d] + x]]
    BY DEF PayOut
  <1>3. QED
    BY <1>1, <1>2

\* The books of a vault that a step leaves alone stay balanced.
LEMMA ConservedFrame ==
    ASSUME NEW w \in Vault, ConservedAt(w),
           UNCHANGED <<status[w], staked[w], paid[w]>>,
           status[w] \notin {"Absent", "Draft"} => UNCHANGED terms[w]
    PROVE  ConservedAt(w)'
  BY DEF ConservedAt, Conserved

\* A settlement moves the stake of its vault into its payments.
LEMMA SettleConserves ==
    ASSUME TypeOK, Conservation, NEW v \in Vault,
           status[v] \in {"Active", "Disputed"},
           NEW s \in {"Completed", "Failed", "Cancelled"},
           NEW d \in Destination, Settle(v, s, d), NEW w \in Vault
    PROVE  ConservedAt(w)'
  <1>1. /\ terms' = terms
        /\ status' = [status EXCEPT ![v] = s]
        /\ staked' = [staked EXCEPT ![v] = 0]
        /\ PayOut(v, d, staked[v])
        /\ staked[v] \in Int
    BY DEF Settle, config, TypeOK
  <1>2. CASE w = v
    <2>1. \A c \in Destination :
             paid'[v][c] = IF c = d THEN paid[v][c] + staked[v] ELSE paid[v][c]
      BY <1>1, PayOutEffect
    <2>2. \A c \in Destination : paid[v][c] \in Int
      BY DEF TypeOK
    <2>3. status'[v] = s /\ staked'[v] = 0
      BY <1>1 DEF TypeOK
    <2>4. Conserved(v)' = Conserved(v)
      BY <1>1, <2>1, <2>2, <2>3 DEF Conserved, Destination
    <2>5. Conserved(v) = terms[v].amount
      BY DEF Conservation, ConservedAt
    <2>6. QED
      BY <1>1, <1>2, <2>3, <2>4, <2>5 DEF ConservedAt
  <1>3. CASE w # v
    <2>1. UNCHANGED <<status[w], staked[w], paid[w]>>
      BY <1>1, <1>3 DEF TypeOK, PayOut
    <2>2. QED
      BY <1>1, <2>1, ConservedFrame DEF Conservation
  <1>4. QED
    BY <1>2, <1>3

\* The books are balanced after every step.
LEMMA NextConserved ==
    ASSUME TypeOK, Conservation, [Next]_vars, NEW w \in Vault
    PROVE  ConservedAt(w)'
  <1>1. ConservedAt(w)
    BY DEF Conservation
  <1>2. ASSUME NEW v \in Vault, NEW p \in Proposal, CreateVault(v, p)
        PROVE  ConservedAt(w)'
    <2>1. staked' = staked /\ paid' = paid
      BY <1>2 DEF CreateVault, money
    <2>2. CASE w = v
      BY <1>1, <1>2, <2>1, <2>2
         DEF TypeOK, CreateVault, ConservedAt, Conserved
    <2>3. CASE w # v
      BY <1>1, <1>2, <2>1, <2>3, ConservedFrame DEF TypeOK, CreateVault
    <2>4. QED
      BY <2>2, <2>3
  <1>3. ASSUME NEW v \in Vault, Fund(v) PROVE ConservedAt(w)'
    <2>1. CASE w = v
      <3>1. /\ Conserved(v) = 0 /\ staked[v] = 0
            /\ terms[v].amount \in Int
        BY <1>1, <1>3, <2>1, FundEffect DEF ConservedAt
      <3>2. staked'[v] = terms[v].amount /\ paid'[v] = paid[v]
        BY <1>3, FundEffect DEF TypeOK
      <3>3. \A c \in Destination : paid[v][c] \in Int
        BY DEF TypeOK
      <3>4. Conserved(v)' = terms[v].amount
        BY <3>1, <3>2, <3>3 DEF Conserved, Destination
      <3>5. QED
        BY <1>3, <2>1, <3>4, FundEffect DEF TypeOK, ConservedAt
    <2>2. CASE w # v
      BY <1>1, <1>3, <2>2, ConservedFrame, FundEffect DEF TypeOK
    <2>3. QED
      BY <2>1, <2>2
  <1>4. ASSUME NEW v \in Vault, SlashOnMiss(v) PROVE ConservedAt(w)'
    BY <1>4, SettleConserves DEF SlashOnMiss, Destination
  <1>5. ASSUME NEW v \in Vault, NEW a \in Address, Claim(v, a)
        PROVE  ConservedAt(w)'
    BY <1>5, SettleConserves DEF Claim, Destination
  <1>6. ASSUME NEW v \in Vault, Withdraw(v) PROVE ConservedAt(w)'
    BY <1>6, SettleConserves DEF Withdraw, Destination
  <1>7. ASSUME NEW v \in Vault, NEW a \in Address, NEW i \in Index,
               ClaimMilestone(v, a, i)
        PROVE  ConservedAt(w)'
    <2> DEFINE x == terms[v].milestones[i].amount
    <2>1. /\ status[v] = "Active" /\ i \in Indexes(v)
          /\ staked' = [staked EXCEPT ![v] = @ - x]
          /\ PayOut(v, "success", x)
          /\ \E s \in {"Completed", "Active"} :
                status' = [status EXCEPT ![v] = s]
          /\ terms' = terms
      BY <1>7 DEF ClaimMilestone, config
    <2>2. x \in Int
      BY <2>1, TermsType
    <2> HIDE DEF x
    <2>3. CASE w = v
      <3>1. \A c \in Destination :
               paid'[v][c] = IF c = "success" THEN paid[v][c] + x ELSE paid[v][c]
        BY <2>1, <2>2, PayOutEffect DEF Destination
      <3>2. staked[v] \in Int /\ \A c \in Destination : paid[v][c] \in Int
        BY DEF TypeOK
      <3>3. staked'[v] = staked[v] - x
        BY <2>1 DEF TypeOK
      <3>4. Conserved(v)' = Conserved(v)
        BY <2>2, <3>1, <3>2, <3>3 DEF Conserved, Destination
      <3>5. Conserved(v) = terms[v].amount
        BY <1>1, <2>1, <2>3 DEF ConservedAt
      <3>6. status'[v] \in {"Completed", "Active"}
        BY <2>1 DEF TypeOK
      <3>7. QED
        BY <2>1, <2>3, <3>4, <3>5, <3>6 DEF ConservedAt
    <2>4. CASE w # v
      <3>1. UNCHANGED <<status[w], staked[w], paid[w], terms[w]>>
        BY <2>1, <2>4 DEF TypeOK, PayOut
      <3>2. QED
        BY <1>1, <3>1, ConservedFrame
    <2>5. QED
      BY <2>3, <2>4
  <1>8. ASSUME NEW v \in Vault, CancelVault(v) PROVE ConservedAt(w)'
    <2>1. /\ status' = [status EXCEPT ![v] = "Cancelled"]
          /\ status[v] # "Absent"
          /\ UNCHANGED <<terms, staked, paid>>
      BY <1>8 DEF CancelVault, config, money
    <2>2. QED
      BY <1>1, <2>1 DEF TypeOK, ConservedAt, Conserved, Status
  <1>9. ASSUME NEW v \in Vault, NEW s \in {"Active", "Disputed", "Completed", "Failed"},
               status[v] \in {"Active", "Disputed"},
               status' = [status EXCEPT ![v] = s],
               UNCHANGED <<terms, staked, paid>>
        PROVE  ConservedAt(w)'
    BY <1>1, <1>9 DEF TypeOK, ConservedAt, Conserved
  <1>10. ASSUME NEW v \in Vault, AdminDispute(v) PROVE ConservedAt(w)'
    BY <1>9, <1>10 DEF AdminDispute, config, money
  <1>11. ASSUME NEW v \in Vault, NEW s \in Status, AdminResolve(v, s)
         PROVE  ConservedAt(w)'
    BY <1>9, <1>11 DEF AdminResolve, config, money
  <1>12. ASSUME UNCHANGED <<status, staked, paid, terms>> PROVE ConservedAt(w)'
    BY <1>1, <1>12, ConservedFrame
  <1>13. QED
    BY <1>2, <1>3, <1>4, <1>5, <1>6, <1>7, <1>8, <1>10, <1>11, <1>12
       DEF vars, Next, VaultStep, Stake, StakeFrom, CheckIn, DisputeMilestone,
           ExtendDeadline, EmergencyPause, EmergencyUnpause, SetPaused,
           ReclaimAfterSettlement, Deposit, ConfigureWindow, Tick, config, money

\* Conservation: what a vault holds and what it paid out always add up to the
\* amount it was funded with, so no path settles a stake twice.
THEOREM StakePaidOnce == Spec => []Conservation
  <1>1. Init => Conservation
    BY DEF Init, Conservation, ConservedAt, Conserved, Destination
  <1>2. TypeOK /\ Conservation /\ [Next]_vars => Conservation'
    BY NextConserved DEF Conservation
  <1>3. QED
    BY <1>1, <1>2, TypeCorrect, PTL DEF Spec

\* Which steps move a stake, and by how much.
LEMMA StakeFrame ==
    ASSUME TypeOK, [Next]_vars
    PROVE  \/ UNCHANGED staked
           \/ \E v \in Vault : Fund(v)
           \/ \E v \in Vault, s \in Status, d \in Destination :
                 status[v] = "Active" /\ Settle(v, s, d)
           \/ \E v \in Vault, a \in Address, i \in Index : ClaimMilestone(v, a, i)
  <1>1. ASSUME NEW v \in Vault, SlashOnMiss(v)
        PROVE  \E s \in Status, d \in Destination :
                  status[v] = "Active" /\ Settle(v, s, d)
    BY <1>1 DEF SlashOnMiss, Status, Destination
  <1>2. ASSUME NEW v \in Vault, NEW a \in Address, Claim(v, a)
        PROVE  \E s \in Status, d \in Destination :
                  status[v] = "Active" /\ Settle(v, s, d)
    BY <1>2 DEF Claim, Status, Destination
  <1>3. ASSUME NEW v \in Vault, Withdraw(v)
        PROVE  \E s \in Status, d \in Destination :
                  status[v] = "Active" /\ Settle(v, s, d)
    BY <1>3 DEF Withdraw, Status, Destination
  <1>4. QED
    BY <1>1, <1>2, <1>3
       DEF vars, Next, VaultStep, CreateVault, Stake, StakeFrom, CheckIn,
           DisputeMilestone, ExtendDeadline, CancelVault, AdminDispute,
           AdminResolve, EmergencyPause, EmergencyUnpause, SetPaused,
           ReclaimAfterSettlement, Deposit, ConfigureWindow, Tick, money

\* Adding x to the stake of u and to the balance of its token is all that
\* StakeMovesTokens asks for.
LEMMA MoveStake ==
    ASSUME TypeOK, NEW u \in Vault, NEW x \in Int, terms[u].token \in Token,
           staked' = [staked EXCEPT ![u] = staked[u] + x],
           balance' = [balance EXCEPT ![terms[u].token] =
                         balance[terms[u].token] + x],
           NEW v \in Vault, staked'[v] # staked[v]
    PROVE  /\ balance'[terms[v].token] - balance[terms[v].token]
                = staked'[v] - staked[v]
           /\ \A w \in Vault \ {v} : staked'[w] = staked[w]
           /\ \A t \in Token \ {terms[v].token} : balance'[t] = balance[t]
  <1>1. staked \in [Vault -> Int] /\ balance \in [Token -> Int]
    BY DEF TypeOK
  <1>2. v = u
    BY <1>1
  <1>3. QED
    BY <1>1, <1>2

\* Every call that moves a stake moves it so.
LEMMA StakeSteps ==
    ASSUME TypeOK, [Next]_vars, ~UNCHANGED staked
    PROVE  \E u \in Vault, x \in Int :
              /\ terms[u].token \in Token
              /\ staked' = [staked EXCEPT ![u] = staked[u] + x]
              /\ balance' = [balance EXCEPT ![terms[u].token] =
                               balance[terms[u].token] + x]
  <1> DEFINE StakeBy(u, x) ==
        /\ terms[u].token \in Token
        /\ staked' = [staked EXCEPT ![u] = staked[u] + x]
        /\ balance' = [balance EXCEPT ![terms[u].token] =
                         balance[terms[u].token] + x]
  <1>1. ASSUME NEW u \in Vault, NEW d \in Destination, NEW x \in Int,
               status[u] # "Absent", PayOut(u, d, x),
               staked' = [staked EXCEPT ![u] = staked[u] - x]
        PROVE  StakeBy(u, -x)
    <2>1. terms[u].token \in Token
      BY <1>1, TermsType
    <2>2. /\ staked[u] - x = staked[u] + (-x)
          /\ balance[terms[u].token] - x = balance[terms[u].token] + (-x)
      BY <2>1 DEF TypeOK
    <2>3. balance' = [balance EXCEPT ![terms[u].token] =
                        balance[terms[u].token] - x]
      BY <1>1 DEF PayOut
    <2>4. QED
      BY <1>1, <2>1, <2>2, <2>3
  <1>2. ASSUME NEW u \in Vault, Fund(u) PROVE \E x \in Int : StakeBy(u, x)
    <2>1. StakeBy(u, terms[u].amount) /\ terms[u].amount \in Int
      BY <1>2, FundEffect
    <2>2. QED
      BY <2>1
  <1>3. ASSUME NEW u \in Vault, NEW s \in Status, NEW d \in Destination,
               status[u] = "Active", Settle(u, s, d)
        PROVE  \E x \in Int : StakeBy(u, x)
    <2>1. /\ staked[u] \in Int /\ -staked[u] \in Int
          /\ staked[u] - staked[u] = 0
      BY DEF TypeOK
    <2>2. /\ status[u] # "Absent"
          /\ PayOut(u, d, staked[u])
          /\ staked' = [staked EXCEPT ![u] = staked[u] - staked[u]]
      BY <1>3, <2>1 DEF Settle
    <2>3. StakeBy(u, -staked[u])
      <3> HIDE DEF StakeBy
      <3>1. QED
        BY <1>1, <2>1, <2>2
    <2>4. QED
      BY <2>1, <2>3
  <1>4. ASSUME NEW u \in Vault, NEW a \in Address, NEW i \in Index,
               ClaimMilestone(u, a, i)
        PROVE  \E x \in Int : StakeBy(u, x)
    <2> DEFINE x == terms[u].milestones[i].amount
    <2>1. /\ status[u] = "Active" /\ i \in Indexes(u)
          /\ PayOut(u, "success", x)
          /\ staked' = [staked EXCEPT ![u] = staked[u] - x]
      BY <1>4 DEF ClaimMilestone
    <2>2. x \in Int /\ -x \in Int
      BY <2>1, TermsType
    <2> HIDE DEF x
    <2>3. StakeBy(u, -x)
      BY <1>1, <2>1, <2>2 DEF Destination
    <2>4. QED
      BY <2>2, <2>3
  <1>5. \E u \in Vault : \E x \in Int : StakeBy(u, x)
    <2> HIDE DEF StakeBy
    <2>1. QED
      BY <1>2, <1>3, <1>4, StakeFrame
  <1>6. QED
    BY <1>5

\* A recorded stake never changes without the tokens, nor does one call ever
\* move the stakes of two vaults.
THEOREM StakesFollowTokens == Spec => StakeMovesTokens
  <1>1. ASSUME TypeOK, [Next]_vars, NEW v \in Vault, staked'[v] # staked[v]
        PROVE  /\ balance'[terms[v].token] - balance[terms[v].token]
                     = staked'[v] - staked[v]
               /\ \A w \in Vault \ {v} : staked'[w] = staked[w]
               /\ \A t \in Token \ {terms[v].token} : balance'[t] = balance[t]
    <2>1. PICK u \in Vault, x \in Int :
             /\ terms[u].token \in Token
             /\ staked' = [staked EXCEPT ![u] = staked[u] + x]
             /\ balance' = [balance EXCEPT ![terms[u].token] =
                              balance[terms[u].token] + x]
      BY <1>1, StakeSteps
    <2>2. QED
      BY <1>1, <2>1, MoveStake
  <1>2. TypeOK /\ [Next]_vars =>
          [\A v \in Vault : staked'[v] # staked[v] =>
             /\ balance'[terms[v].token] - balance[terms[v].token]
                   = staked'[v] - staked[v]
             /\ \A w \in Vault \ {v} : staked'[w] = staked[w]
             /\ \A t \in Token \ {terms[v].token} : balance'[t] = balance[t]]_vars
    BY <1>1
  <1>3. QED
    BY <1>2, TypeCorrect, PTL DEF Spec, StakeMovesTokens

\* A settled vault stays settled: its stake and its released milestones are
\* frozen, and the only status it can still take is Cancelled.
THEOREM SettledForever == Spec => TerminalIsFinal
  <1> DEFINE Frozen(v) ==
        status[v] \in Terminal =>
          /\ status'[v] \in {status[v], "Cancelled"}
          /\ staked'[v] = staked[v]
          /\ released'[v] = released[v]
  <1>1. ASSUME TypeOK, [Next]_vars, NEW v \in Vault PROVE Frozen(v)
    <2> USE DEF TypeOK, Terminal
    <2>1. ASSUME NEW u \in Vault, NEW p \in Proposal, CreateVault(u, p)
          PROVE  Frozen(v)
      BY <2>1 DEF CreateVault, money
    <2>2. ASSUME NEW u \in Vault, Fund(u) PROVE Frozen(v)
      BY <2>2 DEF Fund, progress
    <2>3. ASSUME NEW u \in Vault, NEW s \in Status, NEW d \in Destination,
                 status[u] = "Active", Settle(u, s, d)
          PROVE  Frozen(v)
      BY <2>3 DEF Settle, progress
    <2>4. ASSUME NEW u \in Vault, NEW a \in Address, NEW i \in Index,
                 ClaimMilestone(u, a, i)
          PROVE  Frozen(v)
      <3>1. /\ status[u] = "Active"
            /\ \E r, x, s : /\ released' = [released EXCEPT ![u] = r]
                           /\ staked' = [staked EXCEPT ![u] = x]
                           /\ status' = [status EXCEPT ![u] = s]
        BY <2>4 DEF ClaimMilestone
      <3>2. QED
        BY <3>1
    <2>5. ASSUME NEW u \in Vault, CancelVault(u) PROVE Frozen(v)
      BY <2>5 DEF CancelVault, progress, money
    <2>6. ASSUME NEW u \in Vault, AdminDispute(u) PROVE Frozen(v)
      BY <2>6 DEF AdminDispute, progress, money
    <2>7. ASSUME NEW u \in Vault, NEW s \in Status, AdminResolve(u, s)
          PROVE  Frozen(v)
      BY <2>7 DEF AdminResolve, progress, money
    <2>8. ASSUME UNCHANGED <<status, staked, released>> PROVE Frozen(v)
      BY <2>8
    <2>9. ASSUME NEW u \in Vault, SlashOnMiss(u) PROVE Frozen(v)
      BY <2>3, <2>9 DEF SlashOnMiss, Status, Destination
    <2>10. ASSUME NEW u \in Vault, NEW a \in Address, Claim(u, a)
           PROVE  Frozen(v)
      BY <2>3, <2>10 DEF Claim, Status, Destination
    <2>11. ASSUME NEW u \in Vault, Withdraw(u) PROVE Frozen(v)
      BY <2>3, <2>11 DEF Withdraw, Status, Destination
    <2> HIDE DEF Frozen, TypeOK, Terminal
    <2>12. QED
      BY <1>1, <2>1, <2>2, <2>4, <2>5, <2>6, <2>7, <2>8, <2>9, <2>10, <2>11
         DEF vars, Next, VaultStep, Stake, StakeFrom, CheckIn,
             DisputeMilestone, ExtendDeadline, EmergencyPause,
             EmergencyUnpause, SetPaused, ReclaimAfterSettlement, Deposit,
             ConfigureWindow, Tick, money, progress
  <1>2. TypeOK /\ [Next]_vars => [\A v \in Vault : Frozen(v)]_vars
    BY <1>1
  <1>3. QED
    BY <1>2, TypeCorrect, PTL DEF Spec, TerminalIsFinal

\* A missed or settled vault never comes back.
THEOREM EndsFinal == Spec => EndsAreFinal
  BY MissedForever, SettledForever DEF EndsAreFinal

-----------------------------------------------------------------------------
(* Stakes and milestones: induction over the list of the milestones *)

\* A set of naturals that holds 0, and with each of its elements the next, holds all.
LEMMA NatSetInduction ==
    ASSUME NEW S, 0 \in S, \A n \in Nat : n \in S => n + 1 \in S
    PROVE  Nat \subseteq S
  <1> DEFINE T == Nat \ S
  <1>1. SUFFICES ASSUME T # {} PROVE FALSE
    OBVIOUS
  <1>2. PICK x \in T : \A y \in T : ~(<<y, x>> \in OpToRel(<, Nat))
    <2> HIDE DEF T
    <2>1. T \subseteq Nat BY DEF T
    <2>2. QED BY <1>1, <2>1, NatLessThanWellFounded, WFMin
  <1>3. \A y \in T : ~(y < x)
    BY <1>2 DEF OpToRel
  <1>4. x \in Nat /\ x # 0 /\ x - 1 \in Nat
    OBVIOUS
  <1>5. x - 1 \in S
    BY <1>3, <1>4
  <1>6. QED
    BY <1>4, <1>5

\* s[i] is the sum of f[1], ..., f[i].
SumTo(f, n, s) == s = [i \in 0 .. n |-> IF i = 0 THEN 0 ELSE s[i - 1] + f[i]]

\* The recursive function of Total exists.
LEMMA SumExists == ASSUME NEW f, NEW n \in Nat PROVE \E s : SumTo(f, n, s)
  <1> DEFINE S == {m \in Nat : \E s : SumTo(f, m, s)}
  <1>1. 0 \in S
    <2> DEFINE s == [i \in 0 .. 0 |-> 0]
    <2>1. SumTo(f, 0, s) BY DEF SumTo
    <2>2. QED BY <2>1
  <1>2. ASSUME NEW m \in Nat, m \in S PROVE m + 1 \in S
    <2>1. PICK s : SumTo(f, m, s) BY <1>2
    <2> DEFINE t == [i \in 0 .. m + 1 |-> IF i = m + 1 THEN s[m] + f[i] ELSE s[i]]
    <2>2. \A i \in 0 .. m + 1 : t[i] = IF i = 0 THEN 0 ELSE t[i - 1] + f[i]
      <3> TAKE i \in 0 .. m + 1
      <3>1. CASE i = m + 1
        BY <3>1
      <3>2. CASE i # m + 1
        <4>1. i \in 0 .. m BY <3>2
        <4>2. s[i] = IF i = 0 THEN 0 ELSE s[i - 1] + f[i] BY <2>1, <4>1 DEF SumTo
        <4>3. i # 0 => i - 1 \in 0 .. m BY <4>1
        <4>4. QED BY <4>1, <4>2, <4>3
      <3>3. QED BY <3>1, <3>2
    <2>3. SumTo(f, m + 1, t)
      BY <2>2 DEF SumTo
    <2>4. QED BY <2>3
  <1> HIDE DEF S
  <1>3. n \in S BY <1>1, <1>2, NatSetInduction
  <1>4. QED BY <1>3 DEF S

LEMMA TotalDef ==
    ASSUME NEW f, NEW n \in Nat
    PROVE  \E s : SumTo(f, n, s) /\ Total(f, n) = s[n]
  <1> DEFINE s == CHOOSE s : SumTo(f, n, s)
  <1>1. SumTo(f, n, s) BY SumExists
  <1>2. Total(f, n) = s[n] BY DEF Total, SumTo
  <1>3. QED BY <1>1, <1>2

\* A total is a number, and moves by as much as the one summand that changes.
LEMMA TotalChanges ==
    ASSUME NEW n \in Nat, NEW f \in [1 .. n -> Int], NEW g \in [1 .. n -> Int],
           NEW j \in 1 .. n, \A i \in 1 .. n : i # j => g[i] = f[i]
    PROVE  /\ Total(f, n) \in Int
           /\ Total(g, n) = Total(f, n) + (g[j] - f[j])
  <1>1. PICK s : SumTo(f, n, s) /\ Total(f, n) = s[n]
    BY TotalDef
  <1>2. PICK t : SumTo(g, n, t) /\ Total(g, n) = t[n]
    BY TotalDef
  <1> DEFINE S == {m \in Nat : m <= n => /\ s[m] \in Int
                                         /\ t[m] = s[m] + (IF m < j THEN 0 ELSE g[j] - f[j])}
  <1>3. 0 \in S
    BY <1>1, <1>2 DEF SumTo
  <1>4. ASSUME NEW m \in Nat, m \in S PROVE m + 1 \in S
    <2>1. SUFFICES ASSUME m + 1 <= n
                   PROVE  /\ s[m + 1] \in Int
                          /\ t[m + 1] = s[m + 1] + (IF m + 1 < j THEN 0 ELSE g[j] - f[j])
      OBVIOUS
    <2>2. s[m] \in Int /\ t[m] = s[m] + (IF m < j THEN 0 ELSE g[j] - f[j])
      BY <1>4, <2>1
    <2>3. m + 1 \in 1 .. n /\ m + 1 \in 0 .. n /\ m + 1 # 0 /\ (m + 1) - 1 = m
      BY <2>1
    <2>4. s[m + 1] = s[m] + f[m + 1] /\ t[m + 1] = t[m] + g[m + 1]
      BY <1>1, <1>2, <2>3 DEF SumTo
    <2>5. f[m + 1] \in Int /\ g[m + 1] \in Int /\ f[j] \in Int /\ g[j] \in Int
      BY <2>3
    <2>6. CASE m + 1 = j
      <3>1. m < j /\ ~(m + 1 < j) /\ g[j] = g[m + 1] /\ f[j] = f[m + 1]
        BY <2>6
      <3>2. QED
        BY ONLY <2>2, <2>4, <2>5, <3>1
    <2>7. CASE m + 1 # j
      <3>1. g[m + 1] = f[m + 1]
        BY <2>3, <2>7
      <3>2. m < j <=> m + 1 < j
        BY <2>7
      <3>3. QED
        BY <2>2, <2>4, <2>5, <3>1, <3>2
    <2>8. QED
      BY <2>6, <2>7
  <1> HIDE DEF S
  <1>5. n \in S
    BY <1>3, <1>4, NatSetInduction
  <1>6. QED
    BY <1>1, <1>2, <1>5 DEF S

-----------------------------------------------------------------------------
\* What makes StakeCoversMilestones inductive: a vault that is not funded has
\* released nothing, and the milestones of a created one add up to its amount.
Funds(v) ==
    /\ status[v] \in {"Active", "Disputed"} => staked[v] = Unreleased(v)
    /\ status[v] \in {"Absent", "Draft"} => staked[v] = 0 /\ released[v] = {}
    /\ status[v] # "Absent" =>
          Total(MilestoneAmount(terms[v].milestones), Len(terms[v].milestones)) = terms[v].amount

\* A vault whose fields stay keeps its funds in order.
LEMMA FundsFrame ==
    ASSUME NEW v \in Vault, Funds(v), UNCHANGED <<staked[v], released[v], terms[v]>>,
           \/ status'[v] = status[v]
           \/ status[v] # "Absent" /\ status'[v] \notin {"Absent", "Draft", "Active", "Disputed"}
           \/ {status[v], status'[v]} \subseteq {"Active", "Disputed"}
    PROVE  Funds(v)'
  BY DEF Funds, Unreleased

LEMMA NextFunds ==
    ASSUME TypeOK, \A u \in Vault : Funds(u), [Next]_vars, NEW w \in Vault
    PROVE  Funds(w)'
  <1>1. Funds(w)
    OBVIOUS
  <1>2. ASSUME NEW v \in Vault, NEW p \in Proposal, CreateVault(v, p)
        PROVE  Funds(w)'
    <2>1. staked' = staked /\ released' = released
      BY <1>2 DEF CreateVault, money
    <2>2. CASE w = v
      <3>1. terms'[w] = p /\ status'[w] = "Draft" /\ status[w] = "Absent"
        BY <1>2, <2>2 DEF CreateVault, TypeOK
      <3>2. Total(MilestoneAmount(p.milestones), Len(p.milestones)) = p.amount
        BY <1>2 DEF CreateVault, ValidProposal
      <3>3. QED
        BY <1>1, <2>1, <3>1, <3>2 DEF Funds
    <2>3. CASE w # v
      <3>1. UNCHANGED <<staked[w], released[w], terms[w], status[w]>>
        BY <1>2, <2>1, <2>3 DEF CreateVault, TypeOK
      <3>2. QED
        BY <1>1, <3>1, FundsFrame
    <2>4. QED
      BY <2>2, <2>3
  <1>3. ASSUME NEW v \in Vault, Fund(v) PROVE Funds(w)'
    <2>1. released' = released /\ terms' = terms
      BY <1>3 DEF Fund, progress, config
    <2>2. CASE w = v
      <3>1. /\ staked'[w] = terms[w].amount /\ status'[w] = "Active" /\ released[w] = {}
            /\ status[w] = "Draft"
        <4>1. /\ status[v] = "Draft" /\ staked' = [staked EXCEPT ![v] = terms[v].amount]
              /\ status' = [status EXCEPT ![v] = "Active"]
          BY <1>3, FundEffect
        <4>2. staked \in [Vault -> Int] /\ status \in [Vault -> Status]
          BY DEF TypeOK
        <4>3. released[v] = {}
          BY <1>1, <2>2, <4>1 DEF Funds
        <4>4. QED
          BY ONLY <2>2, <4>1, <4>2, <4>3
      <3> DEFINE ms == terms[w].milestones
      <3>2. [i \in DOMAIN ms |-> IF i \in released[w] THEN 0 ELSE ms[i].amount] = MilestoneAmount(ms)
        BY <3>1 DEF MilestoneAmount
      <3>3. Unreleased(w) = terms[w].amount
        BY <1>1, <3>1, <3>2 DEF Unreleased, Funds
      <3>4. Unreleased(w)' = Unreleased(w)
        BY <2>1 DEF Unreleased
      <3>5. QED
        BY <1>1, <2>1, <3>1, <3>3, <3>4 DEF Funds
    <2>3. CASE w # v
      <3>1. UNCHANGED <<staked[w], released[w], terms[w], status[w]>>
        BY <1>3, <2>1, <2>3 DEF Fund, TypeOK
      <3>2. QED
        BY <1>1, <3>1, FundsFrame
    <2>4. QED
      BY <2>2, <2>3
  <1>4. ASSUME NEW v \in Vault, NEW s \in Terminal, NEW d \in Destination,
               status[v] = "Active", Settle(v, s, d)
        PROVE  Funds(w)'
    <2>1. released' = released /\ terms' = terms
      BY <1>4 DEF Settle, progress, config
    <2>2. CASE w = v
      <3>1. status'[w] = s
        BY <1>4, <2>2 DEF Settle, TypeOK
      <3>2. QED
        BY <1>1, <1>4, <2>1, <2>2, <3>1 DEF Funds, Terminal
    <2>3. CASE w # v
      <3>1. UNCHANGED <<staked[w], released[w], terms[w], status[w]>>
        BY <1>4, <2>1, <2>3 DEF Settle, TypeOK
      <3>2. QED
        BY <1>1, <3>1, FundsFrame
    <2>4. QED
      BY <2>2, <2>3
  <1>5. ASSUME NEW v \in Vault, NEW a \in Address, NEW i \in Index, ClaimMilestone(v, a, i)
        PROVE  Funds(w)'
    <2> DEFINE ms == terms[v].milestones
               x == ms[i].amount
               f == [k \in DOMAIN ms |-> IF k \in released[v] THEN 0 ELSE ms[k].amount]
               g == [k \in DOMAIN ms |-> IF k \in released'[v] THEN 0 ELSE ms[k].amount]
    <2>1. /\ terms' = terms /\ i \in Indexes(v) /\ i \notin released[v] /\ status[v] = "Active"
          /\ released' = [released EXCEPT ![v] = released[v] \cup {i}]
          /\ staked' = [staked EXCEPT ![v] = staked[v] - x]
          /\ \E s \in {"Completed", "Active"} : status' = [status EXCEPT ![v] = s]
      BY <1>5 DEF ClaimMilestone, config
    <2>2. CASE w = v
      <3>1. /\ ms \in Seq(Milestone) /\ \A k \in Indexes(v) : ms[k].amount \in Int
            /\ DOMAIN ms = 1 .. Len(ms) /\ Len(ms) \in Nat
        BY <2>1, TermsType
      <3>2. released'[v] = released[v] \cup {i}
        BY <2>1 DEF TypeOK
      <3>3. f \in [1 .. Len(ms) -> Int] /\ g \in [1 .. Len(ms) -> Int]
        BY <3>1 DEF Indexes
      <3>4. i \in 1 .. Len(ms) /\ f[i] = x /\ g[i] = 0
        BY <2>1, <3>1, <3>2 DEF Indexes
      <3>5. \A k \in 1 .. Len(ms) : k # i => g[k] = f[k]
        BY <3>1, <3>2
      <3>6. Unreleased(v) = Total(f, Len(ms)) /\ Unreleased(v)' = Total(g, Len(ms))
        BY <2>1 DEF Unreleased
      <3> HIDE DEF f, g
      <3>7. Total(f, Len(ms)) \in Int /\ Total(g, Len(ms)) = Total(f, Len(ms)) + (0 - x)
        <4> HIDE DEF ms, x
        <4>1. Len(ms) \in Nat
          BY <3>1
        <4>2. /\ Total(f, Len(ms)) \in Int
              /\ Total(g, Len(ms)) = Total(f, Len(ms)) + (g[i] - f[i])
          BY ONLY <4>1, <3>3, <3>4, <3>5, TotalChanges
        <4>3. QED
          BY <3>4, <4>2
      <3>8. staked[v] = Unreleased(v) /\ staked'[v] = staked[v] - x /\ x \in Int
        BY <1>1, <2>1, <2>2, <3>1 DEF Funds, TypeOK
      <3>9. staked'[w] = Unreleased(w)'
        BY <2>2, <3>6, <3>7, <3>8
      <3>10. status'[w] \in {"Completed", "Active"} /\ status[w] = "Active"
        BY <2>1, <2>2 DEF TypeOK
      <3>11. QED
        <4> HIDE DEF ms, x
        <4> QED
          BY <1>1, <2>1, <3>9, <3>10 DEF Funds
    <2>3. CASE w # v
      <3>1. UNCHANGED <<staked[w], released[w], terms[w], status[w]>>
        BY <2>1, <2>3 DEF TypeOK
      <3>2. QED
        BY <1>1, <3>1, FundsFrame
    <2>4. QED
      BY <2>2, <2>3
  <1>6. ASSUME NEW v \in Vault, CancelVault(v) PROVE Funds(w)'
    <2>1. /\ status'[w] \in {status[w], "Cancelled"} /\ UNCHANGED <<terms, staked, released>>
          /\ status'[w] # status[w] => status[w] # "Absent"
      BY <1>6 DEF CancelVault, config, money, progress, TypeOK
    <2>2. QED
      BY <1>1, <2>1, FundsFrame
  <1>7. ASSUME NEW v \in Vault, NEW s \in {"Active", "Disputed", "Completed", "Failed"},
               status[v] \in {"Active", "Disputed"}, status' = [status EXCEPT ![v] = s],
               UNCHANGED <<terms, staked, released>>
        PROVE  Funds(w)'
    <2>1. CASE w = v
      <3>1. status'[w] = s
        BY <1>7, <2>1 DEF TypeOK
      <3>2. QED
        BY <1>1, <1>7, <2>1, <3>1, FundsFrame
    <2>2. CASE w # v
      BY <1>1, <1>7, <2>2, FundsFrame DEF TypeOK
    <2>3. QED
      BY <2>1, <2>2
  <1>8. ASSUME NEW v \in Vault, AdminDispute(v) PROVE Funds(w)'
    BY <1>7, <1>8 DEF AdminDispute, config, money, progress
  <1>9. ASSUME NEW v \in Vault, NEW s \in Status, AdminResolve(v, s) PROVE Funds(w)'
    BY <1>7, <1>9 DEF AdminResolve, config, money, progress
  <1>10. ASSUME UNCHANGED <<status, staked, released, terms>> PROVE Funds(w)'
    BY <1>1, <1>10, FundsFrame
  <1>11. ASSUME NEW v \in Vault, SlashOnMiss(v) PROVE Funds(w)'
    BY <1>4, <1>11 DEF SlashOnMiss, Destination, Terminal
  <1>12. ASSUME NEW v \in Vault, NEW a \in Address, Claim(v, a) PROVE Funds(w)'
    BY <1>4, <1>12 DEF Claim, Destination, Terminal
  <1>13. ASSUME NEW v \in Vault, Withdraw(v) PROVE Funds(w)'
    BY <1>4, <1>13 DEF Withdraw, Destination, Terminal
  <1>14. QED
    BY <1>2, <1>3, <1>5, <1>6, <1>8, <1>9, <1>10, <1>11, <1>12, <1>13
       DEF vars, Next, VaultStep, Stake, StakeFrom, CheckIn, DisputeMilestone,
           ExtendDeadline, EmergencyPause, EmergencyUnpause, SetPaused,
           ReclaimAfterSettlement, Deposit, ConfigureWindow, Tick, config, money, progress

\* However claims, settlements and disputes interleave, and however long the
\* milestone list is, the stake of a funded vault is exactly what its unreleased
\* milestones add up to (create_vault, claim_milestone, admin_resolve).
THEOREM StakesCoverMilestones == Spec => []StakeCoversMilestones
  <1>1. Init => \A v \in Vault : Funds(v)
    BY DEF Init, Funds
  <1>2. TypeOK /\ (\A v \in Vault : Funds(v)) /\ [Next]_vars => (\A v \in Vault : Funds(v))'
    BY NextFunds
  <1>3. (\A v \in Vault : Funds(v)) => StakeCoversMilestones
    BY DEF Funds, StakeCoversMilestones
  <1>4. QED
    BY <1>1, <1>2, <1>3, TypeCorrect, PTL DEF Spec

-----------------------------------------------------------------------------
(* Sums over finite sets *)

SumOf(f, S) == MapThenSumSet(LAMBDA v : f[v], S)
First(s) == CHOOSE x \in s : TRUE
\* it[s] is the sum of f over s, for the sets s of D.
SumIn(f, D, it) ==
    \A s \in D : it[s] = IF s = {} THEN 0 ELSE f[First(s)] + it[s \ {First(s)}]

IsSum(f, S, it) ==
    it = [s \in SUBSET S |-> IF s = {} THEN 0 ELSE f[First(s)] + it[s \ {First(s)}]]
UpTo(S, n) == {s \in SUBSET S : Cardinality(s) <= n}

\* The sets a sum over a finite set is made of, by their size.
LEMMA Smaller ==
    ASSUME NEW S, IsFiniteSet(S), NEW s \in SUBSET S
    PROVE  /\ IsFiniteSet(s) /\ Cardinality(s) \in Nat
           /\ Cardinality(s) = 0 <=> s = {}
           /\ s # {} => First(s) \in s
           /\ \A x \in s : s \ {x} \in SUBSET S /\ Cardinality(s \ {x}) = Cardinality(s) - 1
  <1>1. IsFiniteSet(s)
    BY FS_Subset
  <1>2. \A x \in s : Cardinality(s \ {x}) = Cardinality(s) - 1
    BY <1>1, FS_RemoveElement
  <1>3. Cardinality(s) \in Nat
    BY <1>1, FS_CardinalityType
  <1>4. Cardinality(s) = 0 <=> s = {}
    BY <1>1, FS_EmptySet
  <1>5. QED
    BY <1>1, <1>2, <1>3, <1>4 DEF First

LEMMA SetSumExists ==
    ASSUME NEW S, IsFiniteSet(S), NEW f
    PROVE  \E it : IsSum(f, S, it)
  <1> DEFINE N == {n \in Nat : \E it : SumIn(f, UpTo(S, n), it)}
  <1>1. 0 \in N
    <2>1. SumIn(f, UpTo(S, 0), [s \in SUBSET S |-> 0])
      <3>1. ASSUME NEW s \in UpTo(S, 0) PROVE s = {}
        <4>1. s \in SUBSET S /\ Cardinality(s) \in Nat /\ Cardinality(s) <= 0
          BY <3>1, Smaller DEF UpTo
        <4>2. QED
          BY <4>1, Smaller
      <3>2. QED
        BY <3>1 DEF SumIn
    <2>2. QED
      BY <2>1
  <1>2. ASSUME NEW n \in Nat, n \in N PROVE n + 1 \in N
    <2>1. PICK it : SumIn(f, UpTo(S, n), it)
      BY <1>2
    <2> DEFINE more == [s \in SUBSET S |-> IF Cardinality(s) = n + 1
                                           THEN f[First(s)] + it[s \ {First(s)}] ELSE it[s]]
    <2>2. ASSUME NEW s \in UpTo(S, n + 1)
          PROVE  more[s] = IF s = {} THEN 0 ELSE f[First(s)] + more[s \ {First(s)}]
      <3>1. /\ s \in SUBSET S /\ Cardinality(s) <= n + 1
            /\ Cardinality(s) \in Nat /\ (Cardinality(s) = 0 <=> s = {})
        BY <2>2, Smaller DEF UpTo
      <3>2. s # {} => /\ s \ {First(s)} \in SUBSET S
                      /\ Cardinality(s \ {First(s)}) = Cardinality(s) - 1
        BY <3>1, Smaller
      <3>3. s # {} => more[s \ {First(s)}] = it[s \ {First(s)}]
        BY <3>1, <3>2
      <3>4. CASE Cardinality(s) = n + 1
        BY <3>1, <3>3, <3>4
      <3>5. CASE Cardinality(s) # n + 1
        <4>1. s \in UpTo(S, n)
          BY <3>1, <3>5 DEF UpTo
        <4>2. QED
          BY <2>1, <3>1, <3>3, <3>5, <4>1 DEF SumIn
      <3>6. QED
        BY <3>4, <3>5
    <2>3. SumIn(f, UpTo(S, n + 1), more)
      BY <2>2 DEF SumIn
    <2> HIDE DEF more
    <2>4. QED
      BY <2>3
  <1>3. Cardinality(S) \in N
    <2> HIDE DEF N
    <2>1. Cardinality(S) \in Nat
      BY FS_CardinalityType
    <2>2. QED
      BY <1>1, <1>2, <2>1, NatSetInduction
  <1>4. PICK it : SumIn(f, UpTo(S, Cardinality(S)), it)
    BY <1>3
  <1>5. UpTo(S, Cardinality(S)) = SUBSET S
    BY FS_Subset DEF UpTo
  <1> DEFINE sum == [s \in SUBSET S |-> it[s]]
  <1>6. ASSUME NEW s \in SUBSET S
        PROVE  sum[s] = IF s = {} THEN 0 ELSE f[First(s)] + sum[s \ {First(s)}]
    <2>1. s \ {First(s)} \in SUBSET S
      OBVIOUS
    <2>2. QED
      BY <1>4, <1>5, <2>1 DEF SumIn
  <1>7. IsSum(f, S, sum)
    BY <1>6 DEF IsSum
  <1>8. QED
    BY <1>7

LEMMA SumDef ==
    ASSUME NEW S, IsFiniteSet(S), NEW f
    PROVE  \E it : SumIn(f, SUBSET S, it) /\ SumOf(f, S) = it[S]
  <1> DEFINE it == CHOOSE it : IsSum(f, S, it)
  <1>1. IsSum(f, S, it)
    BY SetSumExists
  <1>2. SumOf(f, S) = it[S]
    BY DEF SumOf, MapThenSumSet, MapThenFoldSet, First, IsSum
  <1> HIDE DEF it
  <1>3. SumIn(f, SUBSET S, it)
    BY <1>1 DEF SumIn, IsSum
  <1>4. QED
    BY <1>2, <1>3

\* Two sums over sets on which the summands agree are the same.
LEMMA SumsAgree ==
    ASSUME NEW S, IsFiniteSet(S), NEW f, NEW g, \A x \in S : f[x] = g[x],
           NEW D, NEW E, SUBSET S \subseteq D, SUBSET S \subseteq E,
           NEW it, SumIn(f, D, it), NEW jt, SumIn(g, E, jt)
    PROVE  \A s \in SUBSET S : it[s] = jt[s]
  <1> DEFINE N == {n \in Nat : \A s \in UpTo(S, n) : it[s] = jt[s]}
  <1>1. 0 \in N
    <2>1. ASSUME NEW s \in UpTo(S, 0) PROVE it[s] = jt[s]
      <3>1. s \in SUBSET S /\ Cardinality(s) \in Nat /\ Cardinality(s) <= 0
        BY <2>1, Smaller DEF UpTo
      <3>2. s = {}
        BY <3>1, Smaller
      <3>3. s \in D /\ s \in E
        BY <3>1
      <3>4. QED
        BY <3>2, <3>3 DEF SumIn
    <2>2. QED
      BY <2>1
  <1>2. ASSUME NEW n \in Nat, n \in N PROVE n + 1 \in N
    <2>1. ASSUME NEW s \in UpTo(S, n + 1) PROVE it[s] = jt[s]
      <3>1. s \in SUBSET S /\ Cardinality(s) \in Nat /\ Cardinality(s) <= n + 1
        BY <2>1, Smaller DEF UpTo
      <3>2. s \in D /\ s \in E
        BY <3>1
      <3>3. CASE s = {}
        BY <3>2, <3>3 DEF SumIn
      <3>4. CASE s # {}
        <4>1. /\ First(s) \in s /\ s \ {First(s)} \in SUBSET S
              /\ Cardinality(s \ {First(s)}) = Cardinality(s) - 1
          BY <3>1, <3>4, Smaller
        <4>2. it[s \ {First(s)}] = jt[s \ {First(s)}]
          BY <1>2, <3>1, <4>1 DEF UpTo
        <4>3. f[First(s)] = g[First(s)]
          BY <3>1, <4>1
        <4>4. it[s] = f[First(s)] + it[s \ {First(s)}] /\ jt[s] = g[First(s)] + jt[s \ {First(s)}]
          BY <3>2, <3>4 DEF SumIn
        <4>5. QED
          BY <4>2, <4>3, <4>4
      <3>5. QED
        BY <3>3, <3>4
    <2>2. QED
      BY <2>1
  <1> HIDE DEF N
  <1>3. Cardinality(S) \in N
    <2>1. Cardinality(S) \in Nat
      BY FS_CardinalityType
    <2>2. QED
      BY <1>1, <1>2, <2>1, NatSetInduction
  <1>4. QED
    BY <1>3, FS_Subset DEF N, UpTo

\* Any element may be the one a sum is split at.
LEMMA SumSplits ==
    ASSUME NEW S, IsFiniteSet(S), NEW f, \A x \in S : f[x] \in Int,
           NEW it, SumIn(f, SUBSET S, it)
    PROVE  it[S] \in Int /\ \A x \in S : it[S] = f[x] + it[S \ {x}]
  <1> DEFINE Splits(s) == it[s] \in Int /\ \A x \in s : it[s] = f[x] + it[s \ {x}]
             N == {n \in Nat : \A s \in UpTo(S, n) : Splits(s)}
  <1>1. 0 \in N
    <2>1. ASSUME NEW s \in UpTo(S, 0) PROVE Splits(s)
      <3>1. s \in SUBSET S /\ Cardinality(s) \in Nat /\ Cardinality(s) <= 0
        BY <2>1, Smaller DEF UpTo
      <3>2. s = {}
        BY <3>1, Smaller
      <3>3. it[s] = 0
        BY <3>1, <3>2 DEF SumIn
      <3>4. QED
        BY <3>2, <3>3
    <2>2. QED
      BY <2>1
  <1>2. ASSUME NEW n \in Nat, n \in N PROVE n + 1 \in N
    <2>1. ASSUME NEW s \in UpTo(S, n + 1) PROVE Splits(s)
      <3>1. s \in SUBSET S /\ Cardinality(s) \in Nat /\ Cardinality(s) <= n + 1
        BY <2>1, Smaller DEF UpTo
      <3>2. CASE s = {}
        BY <3>1, <3>2 DEF SumIn
      <3>3. CASE s # {}
        <4> DEFINE y == First(s)
        <4>1. y \in s
          BY <3>1, <3>3, Smaller
        <4>2. \A x \in s : s \ {x} \in SUBSET S /\ Cardinality(s \ {x}) = Cardinality(s) - 1
          BY <3>1, Smaller
        <4>3. ASSUME NEW x \in s PROVE Splits(s \ {x})
          <5>1. s \ {x} \in UpTo(S, n)
            BY <3>1, <4>2 DEF UpTo
          <5>2. QED
            BY <1>2, <5>1
        <4>4. it[s] = f[y] + it[s \ {y}]
          BY <3>1, <3>3 DEF SumIn
        <4> HIDE DEF y
        <4>5. it[s] \in Int
          BY <3>1, <4>1, <4>3, <4>4
        <4>6. ASSUME NEW x \in s PROVE it[s] = f[x] + it[s \ {x}]
          <5>1. CASE x = y
            BY <4>4, <5>1
          <5>2. CASE x # y
            <6>1. it[s \ {y}] = f[x] + it[(s \ {y}) \ {x}]
              BY <4>1, <4>3, <5>2
            <6>2. it[s \ {x}] = f[y] + it[(s \ {x}) \ {y}] /\ it[s \ {x}] \in Int
              BY <4>1, <4>3, <5>2
            <6>3. it[(s \ {y}) \ {x}] = it[(s \ {x}) \ {y}]
              <7>1. (s \ {y}) \ {x} = (s \ {x}) \ {y}
                OBVIOUS
              <7>2. QED
                BY ONLY <7>1
            <6>4. it[(s \ {x}) \ {y}] \in Int
              <7>1. (s \ {x}) \ {y} \in SUBSET S
                BY <3>1
              <7>2. Cardinality((s \ {x}) \ {y}) = Cardinality(s \ {x}) - 1 /\ y \in s \ {x}
                BY <4>1, <4>2, <5>2, Smaller
              <7>3. (s \ {x}) \ {y} \in UpTo(S, n)
                BY <3>1, <4>2, <7>1, <7>2 DEF UpTo
              <7>4. QED
                BY <1>2, <7>3
            <6>5. f[x] \in Int /\ f[y] \in Int
              BY <3>1, <4>1
            <6>6. QED
              BY ONLY <4>4, <6>1, <6>2, <6>3, <6>4, <6>5
          <5>3. QED
            BY <5>1, <5>2
        <4>7. QED
          BY <4>5, <4>6
      <3>4. QED
        BY <3>2, <3>3
    <2> HIDE DEF Splits
    <2>2. QED
      BY <2>1
  <1> HIDE DEF N
  <1>3. Cardinality(S) \in N
    <2>1. Cardinality(S) \in Nat
      BY FS_CardinalityType
    <2>2. QED
      BY <1>1, <1>2, <2>1, NatSetInduction
  <1>4. S \in UpTo(S, Cardinality(S))
    BY FS_CardinalityType DEF UpTo
  <1>5. Splits(S)
    BY <1>3, <1>4 DEF N
  <1>6. QED
    BY <1>5

\* A sum is a number, and the sum of the rest and any one of its summands.
LEMMA SumRest ==
    ASSUME NEW S, IsFiniteSet(S), NEW f, \A x \in S : f[x] \in Int
    PROVE  /\ SumOf(f, S) \in Int
           /\ \A x \in S : SumOf(f, S) = f[x] + SumOf(f, S \ {x})
  <1>1. PICK it : SumIn(f, SUBSET S, it) /\ SumOf(f, S) = it[S]
    BY SumDef
  <1>2. it[S] \in Int /\ \A x \in S : it[S] = f[x] + it[S \ {x}]
    BY <1>1, SumSplits
  <1>3. ASSUME NEW x \in S PROVE SumOf(f, S \ {x}) = it[S \ {x}]
    <2>1. IsFiniteSet(S \ {x})
      BY FS_RemoveElement
    <2>2. PICK jt : SumIn(f, SUBSET (S \ {x}), jt) /\ SumOf(f, S \ {x}) = jt[S \ {x}]
      BY <2>1, SumDef
    <2>3. SUBSET (S \ {x}) \subseteq SUBSET S
      OBVIOUS
    <2> DEFINE R == S \ {x}
    <2> HIDE DEF R
    <2>4. \A s \in SUBSET R : it[s] = jt[s]
      <3>1. \A z \in R : f[z] = f[z]
        OBVIOUS
      <3>2. IsFiniteSet(R) /\ SUBSET R \subseteq SUBSET S /\ SumIn(f, SUBSET R, jt)
        BY <2>1, <2>2, <2>3 DEF R
      <3>3. SUBSET R \subseteq SUBSET R
        OBVIOUS
      <3>4. QED
        BY ONLY <1>1, <3>1, <3>2, <3>3, SumsAgree
    <2>5. QED
      BY <2>2, <2>4 DEF R
  <1>4. QED
    BY <1>1, <1>2, <1>3

\* It depends on its summands only.
LEMMA SumSame ==
    ASSUME NEW S, IsFiniteSet(S), NEW f, NEW g, \A x \in S : f[x] = g[x]
    PROVE  SumOf(f, S) = SumOf(g, S)
  <1>1. PICK it : SumIn(f, SUBSET S, it) /\ SumOf(f, S) = it[S]
    BY SumDef
  <1>2. PICK jt : SumIn(g, SUBSET S, jt) /\ SumOf(g, S) = jt[S]
    BY SumDef
  <1>3. \A s \in SUBSET S : it[s] = jt[s]
    BY <1>1, <1>2, SumsAgree
  <1>4. QED
    BY <1>1, <1>2, <1>3

LEMMA SumEmpty == \A f : SumOf(f, {}) = 0
  <1> TAKE f
  <1>1. IsFiniteSet({})
    BY FS_EmptySet
  <1>2. PICK it : SumIn(f, SUBSET {}, it) /\ SumOf(f, {}) = it[{}]
    BY <1>1, SumDef
  <1>3. QED
    BY <1>2 DEF SumIn

-----------------------------------------------------------------------------
(* Solvency *)

Backed(t) == {v \in Vault : terms[v] # NoTerms /\ terms[v].token = t}

\* Only finitely many vaults have been created.
FundsIInv ==
    /\ TypeOK
    /\ \A v \in Vault : Funds(v)
    /\ IsFiniteSet({v \in Vault : terms[v] # NoTerms})

LEMMA SolventSum == \A t \in Token : Solvent(t) <=> SumOf(staked, Backed(t)) <= balance[t]
  BY DEF Solvent, SumOf, Backed

LEMMA SolventSumNext ==
    \A t \in Token : Solvent(t)' <=> SumOf(staked', Backed(t)') <= balance'[t]
  BY DEF Solvent, SumOf, Backed, MapThenSumSet, MapThenFoldSet

\* A vault is created once, and its terms stay.
LEMMA TermsStep ==
    ASSUME TypeOK, [Next]_vars
    PROVE  \/ terms' = terms
           \/ \E v \in Vault, p \in Proposal : CreateVault(v, p)
  BY DEF vars, Next, VaultStep, Stake, StakeFrom, Fund, CheckIn, DisputeMilestone,
         ExtendDeadline, SlashOnMiss, Claim, Withdraw, Settle, ClaimMilestone, CancelVault,
         AdminDispute, AdminResolve, EmergencyPause, EmergencyUnpause, SetPaused,
         ReclaimAfterSettlement, Deposit, ConfigureWindow, Tick, config

LEMMA CreationAdds ==
    ASSUME TypeOK, NEW v \in Vault, NEW p \in Proposal, CreateVault(v, p)
    PROVE  /\ terms[v] = NoTerms /\ terms' = [terms EXCEPT ![v] = p] /\ p # NoTerms
           /\ terms'[v] = p /\ \A w \in Vault : w # v => terms'[w] = terms[w]
           /\ \A t : Backed(t)' = IF p.token = t THEN Backed(t) \cup {v} ELSE Backed(t)
  <1>1. /\ status[v] = "Absent" /\ terms' = [terms EXCEPT ![v] = p] /\ terms[v] \notin Proposal
        /\ terms \in [Vault -> Proposal \cup {NoTerms}]
    BY DEF CreateVault, TypeOK
  <1>2. p # NoTerms /\ terms[v] = NoTerms
    BY <1>1, ConstantAssumption
  <1>3. terms'[v] = p /\ \A w \in Vault : w # v => terms'[w] = terms[w]
    BY <1>1
  <1>4. \A t : Backed(t)' = IF p.token = t THEN Backed(t) \cup {v} ELSE Backed(t)
    BY <1>2, <1>3 DEF Backed
  <1>5. QED
    BY <1>1, <1>2, <1>3, <1>4

LEMMA FundsStep == FundsIInv /\ [Next]_vars => FundsIInv'
  <1> SUFFICES ASSUME FundsIInv, [Next]_vars PROVE FundsIInv'
    OBVIOUS
  <1>1. TypeOK' /\ \A v \in Vault : Funds(v)'
    BY NextType, NextFunds DEF FundsIInv
  <1>2. IsFiniteSet({v \in Vault : terms[v] # NoTerms})'
    <2>1. CASE terms' = terms
      BY <2>1 DEF FundsIInv
    <2>2. ASSUME NEW v \in Vault, NEW p \in Proposal, CreateVault(v, p)
          PROVE  IsFiniteSet({w \in Vault : terms'[w] # NoTerms})
      <3>1. {w \in Vault : terms'[w] # NoTerms} = {w \in Vault : terms[w] # NoTerms} \cup {v}
        BY <2>2, CreationAdds DEF FundsIInv
      <3>2. QED
        BY <3>1, FS_AddElement DEF FundsIInv
    <2>3. QED
      BY <2>1, <2>2, TermsStep DEF FundsIInv
  <1>3. QED
    BY <1>1, <1>2 DEF FundsIInv

\* A step that moves no stake and sweeps no balance leaves the contract solvent.
LEMMA QuietSteps ==
    ASSUME TypeOK, [Next]_vars, UNCHANGED staked, NEW t \in Token,
           \A v \in Vault : ~ReclaimAfterSettlement(v, t)
    PROVE  balance[t] \in Int /\ balance'[t] \in Int /\ balance'[t] >= balance[t]
  <1>1. balance \in [Token -> Int] /\ staked \in [Vault -> Int]
    BY DEF TypeOK
  <1>2. ASSUME NEW v \in Vault, Fund(v) PROVE balance'[t] = balance[t]
    <2>1. /\ staked' = [staked EXCEPT ![v] = staked[v] + terms[v].amount]
          /\ balance' = [balance EXCEPT ![terms[v].token] = balance[terms[v].token] + terms[v].amount]
          /\ terms[v].amount \in Int /\ terms[v].token \in Token
      BY <1>2, FundEffect
    <2>2. terms[v].amount = 0
      BY <1>1, <2>1
    <2>3. QED
      BY <1>1, <2>1, <2>2
  <1>3. ASSUME NEW v \in Vault, NEW d \in Destination, NEW x \in Int, PayOut(v, d, x),
               staked' = [staked EXCEPT ![v] = staked[v] - x]
        PROVE  balance'[t] = balance[t]
    <2>1. x = 0
      BY <1>1, <1>3
    <2>2. QED
      BY <1>1, <1>3, <2>1 DEF PayOut
  <1>4. ASSUME NEW v \in Vault, NEW s \in Status, NEW d \in Destination, Settle(v, s, d)
        PROVE  balance'[t] = balance[t]
    <2>1. staked[v] \in Int /\ staked[v] - staked[v] = 0
      BY <1>1
    <2>2. PayOut(v, d, staked[v]) /\ staked' = [staked EXCEPT ![v] = staked[v] - staked[v]]
      BY <1>4, <2>1 DEF Settle
    <2>3. QED
      BY <1>3, <2>1, <2>2
  <1>5. ASSUME NEW v \in Vault, NEW a \in Address, NEW i \in Index, ClaimMilestone(v, a, i)
        PROVE  balance'[t] = balance[t]
    <2>1. /\ terms[v].milestones[i].amount \in Int
          /\ PayOut(v, "success", terms[v].milestones[i].amount) /\ "success" \in Destination
          /\ staked' = [staked EXCEPT ![v] = staked[v] - terms[v].milestones[i].amount]
      BY <1>5, TermsType DEF ClaimMilestone, Destination
    <2>2. QED
      BY <1>3, <2>1
  <1>6. ASSUME NEW v \in Vault, SlashOnMiss(v) PROVE balance'[t] = balance[t]
    BY <1>4, <1>6 DEF SlashOnMiss, Status, Destination
  <1>7. ASSUME NEW v \in Vault, NEW a \in Address, Claim(v, a) PROVE balance'[t] = balance[t]
    BY <1>4, <1>7 DEF Claim, Status, Destination
  <1>8. ASSUME NEW v \in Vault, Withdraw(v) PROVE balance'[t] = balance[t]
    BY <1>4, <1>8 DEF Withdraw, Status, Destination
  <1>9. ASSUME NEW v \in Vault, NEW u \in Token, ReclaimAfterSettlement(v, u)
        PROVE  balance'[t] = balance[t]
    <2>1. u # t /\ balance' = [balance EXCEPT ![u] = 0]
      BY <1>9 DEF ReclaimAfterSettlement
    <2>2. QED
      BY <1>1, <2>1
  <1>10. ASSUME NEW u \in Token, Deposit(u) PROVE balance'[t] >= balance[t] /\ balance'[t] \in Int
    BY <1>1, <1>10 DEF Deposit
  <1>11. CASE balance' = balance
    BY <1>1, <1>11
  <1>12. \/ balance' = balance
         \/ \E v \in Vault : \/ Fund(v) \/ SlashOnMiss(v) \/ Withdraw(v)
                            \/ \E a \in Address : Claim(v, a)
                            \/ \E b \in Address, i \in Index : ClaimMilestone(v, b, i)
         \/ \E v \in Vault, u \in Token : ReclaimAfterSettlement(v, u)
         \/ \E u \in Token : Deposit(u)
    BY DEF vars, Next, VaultStep, CreateVault, Stake, StakeFrom, CheckIn, DisputeMilestone,
           ExtendDeadline, CancelVault, AdminDispute, AdminResolve, EmergencyPause,
           EmergencyUnpause, SetPaused, ConfigureWindow, Tick, money
  <1>13. balance[t] \in Int
    BY <1>1
  <1>14. QED
    BY <1>2, <1>5, <1>6, <1>7, <1>8, <1>9, <1>10, <1>11, <1>12, <1>13

\* Only a vault that was created has a stake that moves.
LEMMA MovedStakeFunded ==
    ASSUME TypeOK, [Next]_vars, NEW u \in Vault, staked'[u] # staked[u]
    PROVE  status[u] # "Absent"
  <1>1. ASSUME NEW v \in Vault, status[v] # "Absent",
               \E x : staked' = [staked EXCEPT ![v] = x]
        PROVE  status[u] # "Absent"
    BY <1>1 DEF TypeOK
  <1>2. ASSUME NEW v \in Vault, Fund(v) PROVE status[u] # "Absent"
    BY <1>1, <1>2, FundEffect
  <1>3. ASSUME NEW v \in Vault, NEW s \in Status, NEW d \in Destination,
               status[v] = "Active", Settle(v, s, d)
        PROVE  status[u] # "Absent"
    BY <1>1, <1>3 DEF Settle
  <1>4. ASSUME NEW v \in Vault, NEW a \in Address, NEW i \in Index, ClaimMilestone(v, a, i)
        PROVE  status[u] # "Absent"
    BY <1>1, <1>4 DEF ClaimMilestone
  <1>5. QED
    BY <1>2, <1>3, <1>4, StakeFrame

\* Whatever vaults are created, funded, settled or slashed, only a sweep takes away
\* tokens that back recorded stakes.
LEMMA StaysSolvent ==
    ASSUME FundsIInv, [Next]_vars, NEW t \in Token, Solvent(t),
           \A v \in Vault : ~ReclaimAfterSettlement(v, t)
    PROVE  Solvent(t)'
  <1>1. staked \in [Vault -> Int] /\ balance \in [Token -> Int]
    BY DEF FundsIInv, TypeOK
  <1>2. IsFiniteSet(Backed(t)) /\ Backed(t) \subseteq Vault
    <2>1. Backed(t) \in SUBSET {v \in Vault : terms[v] # NoTerms}
      BY DEF Backed
    <2>2. QED
      BY <2>1, FS_Subset DEF FundsIInv
  <1>3. SumOf(staked, Backed(t)) <= balance[t] /\ SumOf(staked, Backed(t)) \in Int
    BY <1>1, <1>2, SolventSum, SumRest
  <1>4. CASE UNCHANGED staked
    <2>1. balance[t] \in Int /\ balance'[t] \in Int /\ balance'[t] >= balance[t]
      BY <1>4, QuietSteps DEF FundsIInv
    <2>2. CASE Backed(t)' = Backed(t)
      <3>1. SumOf(staked', Backed(t)') = SumOf(staked, Backed(t))
        BY <1>4, <2>2
      <3>2. QED
        BY <1>3, <2>1, <3>1, SolventSumNext
    <2>3. ASSUME NEW v \in Vault, v \notin Backed(t), Backed(t)' = Backed(t) \cup {v}, staked[v] = 0
          PROVE  Solvent(t)'
      <3>1. IsFiniteSet(Backed(t) \cup {v}) /\ v \in Backed(t) \cup {v}
            /\ \A x \in Backed(t) \cup {v} : staked[x] \in Int
        BY <1>1, <1>2, FS_AddElement
      <3>2. SumOf(staked, Backed(t) \cup {v}) = staked[v] + SumOf(staked, (Backed(t) \cup {v}) \ {v})
        BY <3>1, SumRest
      <3>3. (Backed(t) \cup {v}) \ {v} = Backed(t)
        BY <2>3
      <3>4. SumOf(staked', Backed(t)') = SumOf(staked, Backed(t))
        BY <1>3, <1>4, <2>3, <3>2, <3>3
      <3>5. QED
        BY <1>3, <2>1, <3>4, SolventSumNext
    <2>4. ASSUME NEW v \in Vault, NEW p \in Proposal, CreateVault(v, p)
          PROVE  Solvent(t)'
      <3>1. status[v] = "Absent" /\ staked[v] = 0
        BY <2>4 DEF CreateVault, FundsIInv, Funds
      <3>2. v \notin Backed(t)
        BY <2>4, CreationAdds DEF Backed, FundsIInv
      <3>3. Backed(t)' = Backed(t) \/ Backed(t)' = Backed(t) \cup {v}
        BY <2>4, CreationAdds DEF FundsIInv
      <3>4. QED
        BY <2>2, <2>3, <3>1, <3>2, <3>3
    <2>5. CASE terms' = terms
      <3>1. Backed(t)' = Backed(t)
        BY <2>5 DEF Backed
      <3>2. QED
        BY <2>2, <3>1
    <2>6. QED
      BY <2>4, <2>5, TermsStep DEF FundsIInv
  <1>5. CASE ~UNCHANGED staked
    <2>1. PICK u \in Vault, x \in Int :
             /\ terms[u].token \in Token
             /\ staked' = [staked EXCEPT ![u] = staked[u] + x]
             /\ balance' = [balance EXCEPT ![terms[u].token] = balance[terms[u].token] + x]
      BY <1>5, StakeSteps DEF FundsIInv
    <2>2. terms' = terms
      BY <1>5, TermsStep DEF FundsIInv, CreateVault, money
    <2>3. Backed(t)' = Backed(t)
      BY <2>2 DEF Backed
    <2>4. /\ staked'[u] = staked[u] + x /\ \A v \in Vault : v # u => staked'[v] = staked[v]
          /\ \A v \in Vault : staked'[v] \in Int
      BY <1>1, <2>1
    <2>5. u \in Backed(t) <=> terms[u].token = t
      <3>1. ASSUME terms[u].token = t PROVE terms[u] # NoTerms
        <4>1. status[u] # "Absent"
          <5>1. staked'[u] # staked[u]
            BY <1>1, <1>5, <2>1
          <5>2. QED
            BY <5>1, MovedStakeFunded DEF FundsIInv
        <4>2. QED
          BY <4>1, ConstantAssumption DEF FundsIInv, TypeOK
      <3>2. QED
        BY <3>1 DEF Backed
    <2>6. CASE terms[u].token = t
      <3> DEFINE R == Backed(t) \ {u}
      <3>1. SumOf(staked, Backed(t)) = staked[u] + SumOf(staked, R)
        BY <1>1, <1>2, <2>5, <2>6, SumRest
      <3>2. SumOf(staked', Backed(t)) = staked'[u] + SumOf(staked', R)
        BY <1>2, <2>4, <2>5, <2>6, SumRest
      <3>3. IsFiniteSet(R) /\ \A v \in R : v \in Vault /\ v # u
        BY <1>2, FS_RemoveElement
      <3> HIDE DEF R
      <3>4. SumOf(staked', R) = SumOf(staked, R)
        BY <2>4, <3>3, SumSame
      <3>5. SumOf(staked, R) \in Int
        BY <1>1, <3>3, SumRest
      <3>6. balance'[t] = balance[t] + x /\ balance[t] \in Int /\ staked[u] \in Int
        BY <1>1, <2>1, <2>6
      <3>7. SumOf(staked', Backed(t)) <= balance'[t]
        BY <1>3, <2>4, <3>1, <3>2, <3>4, <3>5, <3>6
      <3>8. QED
        BY <2>3, <3>7, SolventSumNext
    <2>7. CASE terms[u].token # t
      <3>1. \A v \in Backed(t) : staked'[v] = staked[v]
        BY <1>2, <2>4, <2>5, <2>7
      <3>2. SumOf(staked', Backed(t)) = SumOf(staked, Backed(t))
        BY <1>2, <3>1, SumSame
      <3>3. balance'[t] = balance[t]
        BY <1>1, <2>1, <2>7
      <3>4. QED
        BY <1>3, <2>3, <3>2, <3>3, SolventSumNext
    <2>8. QED
      BY <2>6, <2>7
  <1>6. QED
    BY <1>4, <1>5

\* For any number of vaults that share one balance, and whatever their tokens are, no
\* step but a reclaim makes the balance of a token smaller than the stakes recorded in
\* it (stake, claim_milestone, claim, slash_on_miss, withdraw).
THEOREM SweepsAlone == Spec => OnlyASweepBreaksSolvency
  <1>1. Init => FundsIInv
    <2>1. Init => {v \in Vault : terms[v] # NoTerms} = {}
      BY DEF Init
    <2>2. Init => \A v \in Vault : Funds(v)
      BY DEF Init, Funds
    <2>3. QED
      BY <2>1, <2>2, InitType, FS_EmptySet DEF FundsIInv
  <1>2. FundsIInv /\ [Next]_vars =>
          [\A t \in Token : Solvent(t) =>
              Solvent(t)' \/ \E v \in Vault : ReclaimAfterSettlement(v, t)]_vars
    BY StaysSolvent
  <1>3. QED
    BY <1>1, <1>2, FundsStep, PTL DEF Spec, OnlyASweepBreaksSolvency

-----------------------------------------------------------------------------
(* Milestones *)

StoneRecord == [there : BOOLEAN, terms : Quorums, verified : BOOLEAN,
                by : {"nobody", "verify", "validate", "quorum"}]
Counts == UNION {[S -> Nat] : S \in SUBSET Stones}
BallotRecord == [at : Awaiting \cup {"idle", "ended"}, stone : Stones \cup {"none"},
                 voter : Voters \cup {NoVoter}, says : {"none", "approved", "rejected"},
                 complete : BOOLEAN, unread : SUBSET Stones, approved : Counts, rejected : Counts]
MilestoneTypes ==
    /\ stone \in [Stones -> StoneRecord]
    /\ vote \in [Stones -> [Voters -> {"none", "approved", "rejected"}]]
    /\ ballot \in [Ballots -> BallotRecord]
    /\ approvers \in [Stones -> SUBSET Voters]
    /\ mishap \in BOOLEAN

\* A request is about a milestone that is there, and goes by votes that were cast.
BallotSound(x) ==
    /\ x.at \in Awaiting => x.stone \in There /\ x.voter \in Voters /\ x.says # "none"
    /\ x.at = "settle" /\ x.complete =>
           Cardinality(approvers[x.stone]) >= stone[x.stone].terms.need
    /\ DOMAIN x.approved = DOMAIN x.rejected

\* A request that will find the quorum of every milestone, if nothing moves.
Counted(x, m) == m \in DOMAIN x.approved /\ Reached(stone[m].terms, x.approved[m], x.rejected[m])
Finishes(x) ==
    \/ x.at = "count"
    \/ x.at = "settle" /\ x.complete
    \/ x.at = "read" /\ \A m \in There \ x.unread : Counted(x, m)

\* The vault could be completed by the votes there are.
Completable == EveryVerified /\ \A m \in There : ~Unmet(m)

MilestoneIInv ==
    /\ MilestoneTypes
    /\ \A m \in Stones : Votes(m, "approved") \subseteq approvers[m]
    /\ \A b \in Ballots : BallotSound(ballot[b])
    /\ vaultState = "draft" => There = {}
    /\ CompletedWhenVerified
    /\ QuorumStands
    /\ vaultState = "active" /\ ~mishap /\ Completable => \E b \in Ballots : Finishes(ballot[b])

LEMMA NoBallotIs ==
    /\ NoBallot \in BallotRecord /\ NoBallot.at = "idle" /\ ~NoBallot.complete
    /\ DOMAIN NoBallot.approved = DOMAIN NoBallot.rejected
  <1> DEFINE e == [m \in {} |-> 0]
  <1>1. e \in [{} -> Nat]
    OBVIOUS
  <1>2. NoBallot = [at |-> "idle", stone |-> "none", voter |-> NoVoter, says |-> "none",
                    complete |-> FALSE, unread |-> {}, approved |-> e, rejected |-> e]
    BY DEF NoBallot
  <1> HIDE DEF e
  <1>3. e \in Counts
    BY <1>1 DEF Counts
  <1>4. QED
    BY <1>2, <1>3 DEF BallotRecord

LEMMA EndedBallotSound ==
    /\ EndedBallot \in BallotRecord /\ BallotSound(EndedBallot) /\ ~Finishes(EndedBallot)
  <1>1. /\ EndedBallot \in BallotRecord /\ EndedBallot.at = "ended"
        /\ DOMAIN EndedBallot.approved = DOMAIN EndedBallot.rejected
    BY NoBallotIs DEF EndedBallot, BallotRecord
  <1>2. QED
    BY <1>1 DEF BallotSound, Finishes, Awaiting

\* Sets of voters can be counted.
LEMMA VotersCounted ==
    ASSUME NEW S \in SUBSET Voters
    PROVE  IsFiniteSet(S) /\ Cardinality(S) \in Nat
  BY VotersAssumption, FS_Subset, FS_CardinalityType

LEMMA MoreApprovers ==
    ASSUME NEW S \in SUBSET Voters, NEW T \in SUBSET Voters, S \subseteq T, NEW n \in Nat,
           Cardinality(S) >= n
    PROVE  Cardinality(T) >= n
  BY VotersCounted, FS_Subset

LEMMA BallotMoved ==
    ASSUME MilestoneTypes, NEW b \in Ballots, NEW x \in BallotRecord,
           ballot' = [ballot EXCEPT ![b] = x]
    PROVE  /\ ballot' \in [Ballots -> BallotRecord]
           /\ \A c \in Ballots : ballot'[c] = IF c = b THEN x ELSE ballot[c]
  BY DEF MilestoneTypes

\* A request goes on or ends, and may complete the vault, over milestones and votes
\* that stay as they are.
LEMMA BallotMoves ==
    ASSUME MilestoneIInv, NEW b \in Ballots, NEW x \in BallotRecord,
           ballot' = [ballot EXCEPT ![b] = x], BallotSound(x),
           UNCHANGED <<stone, vote, approvers>>,
           mishap' \in BOOLEAN, mishap => mishap',
           \/ vaultState' = vaultState
           \/ vaultState' = "completed" /\ EveryVerified,
           vaultState' = "active" /\ ~mishap' /\ Completable /\ Finishes(ballot[b]) => Finishes(x)
    PROVE  MilestoneIInv'
  <1>1. /\ ballot' \in [Ballots -> BallotRecord]
        /\ \A c \in Ballots : ballot'[c] = IF c = b THEN x ELSE ballot[c]
    BY BallotMoved DEF MilestoneIInv
  <1>2. MilestoneTypes'
    BY <1>1 DEF MilestoneIInv, MilestoneTypes
  <1>3. ASSUME NEW c \in Ballots PROVE BallotSound(ballot[c])'
    <2>1. BallotSound(ballot'[c])
      BY <1>1 DEF MilestoneIInv
    <2>2. QED
      BY <2>1 DEF BallotSound, There
  <1>4. There' = There /\ EveryVerified' = EveryVerified /\ Completable' = Completable
    BY DEF There, EveryVerified, Completable, Unmet, Votes
  <1>5. /\ \A m \in Stones : Votes(m, "approved")' \subseteq approvers'[m]
        /\ QuorumStands' /\ CompletedWhenVerified' /\ (vaultState' = "draft" => There' = {})
    BY <1>4 DEF MilestoneIInv, Votes, QuorumStands, CompletedWhenVerified
  <1>6. ASSUME vaultState' = "active", ~mishap', Completable'
        PROVE  \E c \in Ballots : Finishes(ballot[c])'
    <2>1. PICK c \in Ballots : Finishes(ballot[c])
      BY <1>4, <1>6 DEF MilestoneIInv
    <2>2. Finishes(ballot'[c])
      BY <1>1, <1>4, <1>6, <2>1
    <2>3. QED
      BY <1>4, <2>2 DEF Finishes, Counted
  <1>7. QED
    BY <1>2, <1>3, <1>5, <1>6 DEF MilestoneIInv

LEMMA BallotEnds ==
    ASSUME MilestoneIInv, NEW b \in Ballots, Ends(b), ~Finishes(ballot[b]), OnlyBallot
    PROVE  MilestoneIInv'
  BY EndedBallotSound, BallotMoves DEF Ends, OnlyBallot, MilestoneIInv, MilestoneTypes

\* From one await to the next, before the vote is there.
LEMMA UnlessKeeps ==
    ASSUME MilestoneIInv, NEW b \in Ballots, ballot[b].at \in {"profile", "voted", "settled"},
           NEW refused, NEW at \in {"voted", "settled", "record"}, Unless(b, refused, at), OnlyBallot
    PROVE  MilestoneIInv'
  <1>1. ~Finishes(ballot[b])
    BY DEF Finishes
  <1>2. CASE Ends(b)
    BY <1>1, <1>2, BallotEnds
  <1>3. CASE Goto(b, at)
    <2> DEFINE x == [ballot[b] EXCEPT !.at = at]
    <2>1. ballot[b] \in BallotRecord /\ BallotSound(ballot[b])
      BY DEF MilestoneIInv, MilestoneTypes
    <2>2. /\ x \in BallotRecord /\ x.at = at /\ x.stone = ballot[b].stone
          /\ x.voter = ballot[b].voter /\ x.says = ballot[b].says
          /\ x.approved = ballot[b].approved /\ x.rejected = ballot[b].rejected
      BY <2>1 DEF BallotRecord, Awaiting
    <2>3. ballot' = [ballot EXCEPT ![b] = x]
      BY <1>3 DEF Goto, MilestoneIInv, MilestoneTypes
    <2> HIDE DEF x
    <2>4. BallotSound(x)
      BY <2>1, <2>2 DEF BallotSound, Awaiting
    <2>5. QED
      BY <1>1, <2>2, <2>3, <2>4, BallotMoves DEF OnlyBallot, MilestoneIInv, MilestoneTypes
  <1>4. QED
    BY <1>2, <1>3 DEF Unless

LEMMA BeginBallotKeeps ==
    ASSUME MilestoneIInv, NEW b \in Ballots, NEW m \in Stones, NEW v \in Voters, BeginBallot(b, m, v)
    PROVE  MilestoneIInv'
  <1>1. PICK says \in {"approved", "rejected"} :
          ballot' = [ballot EXCEPT ![b] = [NoBallot EXCEPT !.at = "profile", !.stone = m,
                                                           !.voter = v, !.says = says]]
    BY DEF BeginBallot
  <1> DEFINE x == [NoBallot EXCEPT !.at = "profile", !.stone = m, !.voter = v, !.says = says]
  <1>2. ballot' = [ballot EXCEPT ![b] = x]
    BY <1>1
  <1>3. /\ x \in BallotRecord /\ x.at = "profile" /\ x.stone = m /\ x.voter = v /\ x.says = says
        /\ DOMAIN x.approved = DOMAIN x.rejected
    BY NoBallotIs DEF BallotRecord, Awaiting
  <1> HIDE DEF x
  <1>4. /\ m \in There /\ OnlyBallot /\ ~Finishes(ballot[b])
    BY DEF BeginBallot, There, Finishes
  <1>5. BallotSound(x)
    BY <1>3, <1>4 DEF BallotSound
  <1>6. QED
    BY <1>2, <1>3, <1>4, <1>5, BallotMoves DEF OnlyBallot, MilestoneIInv, MilestoneTypes

LEMMA RecordVoteKeeps ==
    ASSUME MilestoneIInv, NEW b \in Ballots, RecordVote(b)
    PROVE  MilestoneIInv'
  <1> DEFINE m == ballot[b].stone
             v == ballot[b].voter
             x == [ballot[b] EXCEPT !.at = "count"]
  <1>1. /\ ballot[b] \in BallotRecord /\ BallotSound(ballot[b]) /\ ballot[b].at = "record"
        /\ ~Finishes(ballot[b])
    BY DEF MilestoneIInv, MilestoneTypes, RecordVote, Finishes
  <1>2. /\ m \in There /\ m \in Stones /\ v \in Voters /\ ballot[b].says \in {"approved", "rejected"}
    BY <1>1 DEF BallotSound, BallotRecord, Awaiting, There
  <1>3. CASE Ends(b) /\ UNCHANGED <<vote, approvers>>
    BY <1>1, <1>3, BallotEnds DEF RecordVote, OnlyBallot
  <1>4. CASE /\ vote[m][v] = "none"
             /\ Goto(b, "count")
             /\ vote' = [vote EXCEPT ![m][v] = ballot[b].says]
             /\ approvers' = [approvers EXCEPT ![m] =
                                IF ballot[b].says = "approved" THEN @ \cup {v} ELSE @]
    <2>1. ballot' = [ballot EXCEPT ![b] = x] /\ UNCHANGED <<vaultState, stone, profile, mishap>>
      BY <1>4 DEF Goto, MilestoneIInv, MilestoneTypes, RecordVote
    <2>2. /\ x \in BallotRecord /\ x.at = "count" /\ x.stone = m /\ x.voter = v
          /\ x.says = ballot[b].says
          /\ x.approved = ballot[b].approved /\ x.rejected = ballot[b].rejected
      BY <1>1 DEF BallotRecord, Awaiting
    <2> HIDE DEF x
    <2>3. /\ ballot' \in [Ballots -> BallotRecord]
          /\ \A c \in Ballots : ballot'[c] = IF c = b THEN x ELSE ballot[c]
      BY <2>1, <2>2, BallotMoved DEF MilestoneIInv
    <2>4. /\ vote' \in [Stones -> [Voters -> {"none", "approved", "rejected"}]]
          /\ \A k \in Stones, w \in Voters :
                 vote'[k][w] = IF k = m /\ w = v THEN ballot[b].says ELSE vote[k][w]
      BY <1>2, <1>4 DEF MilestoneIInv, MilestoneTypes
    <2>5. /\ approvers' \in [Stones -> SUBSET Voters]
          /\ \A k \in Stones : approvers[k] \subseteq approvers'[k]
          /\ ballot[b].says = "approved" => v \in approvers'[m]
      BY <1>2, <1>4 DEF MilestoneIInv, MilestoneTypes
    <2>6. \A k \in Stones : Votes(k, "approved")' \subseteq approvers'[k]
      BY <2>4, <2>5 DEF MilestoneIInv, Votes
    <2>7. ASSUME NEW k \in Stones, Cardinality(approvers[k]) >= stone[k].terms.need
          PROVE  Cardinality(approvers'[k]) >= stone[k].terms.need
      <3>1. /\ approvers[k] \in SUBSET Voters /\ approvers'[k] \in SUBSET Voters
            /\ stone[k].terms.need \in Nat
        BY <2>5, QuorumsAssumption DEF MilestoneIInv, MilestoneTypes, StoneRecord
      <3>2. QED
        BY <2>5, <2>7, <3>1, MoreApprovers
    <2>8. BallotSound(x)
      BY <1>1, <1>2, <2>2 DEF BallotSound
    <2>9. ASSUME NEW c \in Ballots PROVE BallotSound(ballot[c])'
      <3>1. BallotSound(ballot'[c])
        BY <2>3, <2>8 DEF MilestoneIInv
      <3>2. ballot'[c].at = "settle" => ballot'[c].stone \in Stones
        BY <3>1 DEF BallotSound, Awaiting, There
      <3>3. QED
        BY <2>1, <2>7, <3>1, <3>2 DEF BallotSound, There
    <2>10. There' = There /\ EveryVerified' = EveryVerified
      BY <2>1 DEF There, EveryVerified
    <2>11. QuorumStands'
      BY <2>1, <2>7, <2>10 DEF QuorumStands, MilestoneIInv, There
    <2>12. Finishes(ballot[b])'
      BY <2>2, <2>3 DEF Finishes
    <2>13. MilestoneTypes'
      BY <2>1, <2>3, <2>4, <2>5 DEF MilestoneIInv, MilestoneTypes
    <2>14. CompletedWhenVerified' /\ (vaultState' = "draft" => There' = {})
      BY <2>1, <2>10 DEF MilestoneIInv, CompletedWhenVerified
    <2>15. QED
      BY <2>6, <2>9, <2>11, <2>12, <2>13, <2>14 DEF MilestoneIInv
  <1>5. QED
    BY <1>3, <1>4 DEF RecordVote

LEMMA CountVotesKeeps ==
    ASSUME MilestoneIInv, NEW b \in Ballots, CountVotes(b)
    PROVE  MilestoneIInv'
  <1> DEFINE m == ballot[b].stone
             reached == Reached(stone[m].terms, Cardinality(Votes(m, "approved")),
                                Cardinality(Votes(m, "rejected")))
             x == [ballot[b] EXCEPT !.at = "settle", !.complete = reached]
  <1>1. /\ ballot[b] \in BallotRecord /\ BallotSound(ballot[b]) /\ ballot[b].at = "count"
    BY DEF MilestoneIInv, MilestoneTypes, CountVotes
  <1>2. m \in There /\ m \in Stones
    BY <1>1 DEF BallotSound, Awaiting, There
  <1>3. reached \in BOOLEAN /\ (reached => Cardinality(Votes(m, "approved")) >= stone[m].terms.need)
    BY DEF Reached
  <1>4. reached => Cardinality(approvers[m]) >= stone[m].terms.need
    <2>1. /\ Votes(m, "approved") \in SUBSET Voters /\ approvers[m] \in SUBSET Voters
          /\ Votes(m, "approved") \subseteq approvers[m] /\ stone[m].terms.need \in Nat
      BY <1>2, QuorumsAssumption DEF MilestoneIInv, MilestoneTypes, StoneRecord, Votes
    <2>2. QED
      BY <1>3, <2>1, MoreApprovers
  <1>5. ~Unmet(m) => reached
    BY DEF Unmet
  <1>6. ballot' = [ballot EXCEPT ![b] = x]
    BY DEF CountVotes, MilestoneIInv, MilestoneTypes
  <1> HIDE DEF reached
  <1>7. /\ x \in BallotRecord /\ x.at = "settle" /\ x.stone = m /\ x.voter = ballot[b].voter
        /\ x.complete = reached /\ x.says = ballot[b].says
        /\ x.approved = ballot[b].approved /\ x.rejected = ballot[b].rejected
    BY <1>1, <1>3 DEF BallotRecord, Awaiting
  <1> HIDE DEF x
  <1>8. BallotSound(x)
    BY <1>1, <1>2, <1>4, <1>7 DEF BallotSound, Awaiting
  <1>9. Completable => Finishes(x)
    BY <1>2, <1>5, <1>7 DEF Completable, Finishes
  <1>10. QED
    BY <1>6, <1>7, <1>8, <1>9, BallotMoves DEF CountVotes, OnlyBallot, MilestoneIInv, MilestoneTypes

\* A milestone is marked; it stays there with its terms.
LEMMA StoneMarked ==
    ASSUME MilestoneIInv, NEW m \in Stones, NEW by \in {"verify", "validate", "quorum"},
           MarkVerified(m, by)
    PROVE  /\ stone' \in [Stones -> StoneRecord]
           /\ \A k \in Stones :
                  /\ stone'[k].there = stone[k].there /\ stone'[k].terms = stone[k].terms
                  /\ stone'[k].verified = (k = m \/ stone[k].verified)
                  /\ stone'[k].by = IF k = m THEN by ELSE stone[k].by
           /\ There' = There
           /\ EveryVerified' <=> There # {} /\ VerifiedBut(m)
           /\ EveryVerified => EveryVerified'
  <1> DEFINE x == [stone[m] EXCEPT !.verified = TRUE, !.by = by]
  <1>1. stone[m] \in StoneRecord /\ stone \in [Stones -> StoneRecord]
    BY DEF MilestoneIInv, MilestoneTypes
  <1>2. /\ x \in StoneRecord /\ x.there = stone[m].there /\ x.terms = stone[m].terms
        /\ x.verified = TRUE /\ x.by = by
    BY <1>1 DEF StoneRecord
  <1>3. stone' = [stone EXCEPT ![m] = x]
    BY <1>1 DEF MarkVerified
  <1> HIDE DEF x
  <1>4. stone' \in [Stones -> StoneRecord] /\ \A k \in Stones : stone'[k] = IF k = m THEN x ELSE stone[k]
    BY <1>1, <1>2, <1>3
  <1>5. \A k \in Stones : stone[k].verified \in BOOLEAN
    BY <1>1 DEF StoneRecord
  <1>6. There' = There
    BY <1>2, <1>4 DEF There
  <1>7. EveryVerified' <=> There # {} /\ VerifiedBut(m)
    BY <1>2, <1>4, <1>6 DEF EveryVerified, VerifiedBut, There
  <1>8. EveryVerified => EveryVerified'
    BY <1>7 DEF EveryVerified, VerifiedBut
  <1>9. QED
    BY <1>2, <1>4, <1>5, <1>6, <1>7, <1>8

\* What does not depend on whether a milestone is verified.
LEMMA MarkedSound ==
    ASSUME MilestoneIInv, NEW m \in Stones, NEW by \in {"verify", "validate", "quorum"},
           MarkVerified(m, by), UNCHANGED approvers, NEW x, BallotSound(x)
    PROVE  BallotSound(x)'
  <1>1. x.at = "settle" => x.stone \in Stones
    BY DEF BallotSound, Awaiting, There
  <1>2. QED
    BY <1>1, StoneMarked DEF BallotSound

LEMMA MarkKeeps ==
    ASSUME MilestoneIInv, NEW m \in Stones, NEW by \in {"verify", "validate"},
           stone[m].there, MarkVerified(m, by), UNCHANGED <<vote, ballot, approvers>>,
           mishap' \in BOOLEAN, mishap => mishap',
           \/ CompleteVault(VerifiedBut(m))
           \/ mishap' /\ UNCHANGED vaultState
    PROVE  MilestoneIInv'
  <1>1. MilestoneTypes'
    BY StoneMarked DEF MilestoneIInv, MilestoneTypes
  <1>2. \A c \in Ballots : BallotSound(ballot[c])'
    BY MarkedSound DEF MilestoneIInv
  <1>3. \A k \in Stones : Votes(k, "approved")' \subseteq approvers'[k]
    BY DEF MilestoneIInv, Votes
  <1>4. QuorumStands'
    BY StoneMarked DEF QuorumStands, MilestoneIInv, There
  <1>5. There # {} /\ There' = There
    BY StoneMarked DEF There
  <1>6. CompletedWhenVerified' /\ (vaultState' = "draft" => There' = {})
    BY <1>5, StoneMarked DEF CompletedWhenVerified, CompleteVault, MilestoneIInv
  <1>7. ~(vaultState' = "active" /\ ~mishap' /\ Completable')
    BY <1>5, StoneMarked DEF CompleteVault, Completable
  <1>8. QED
    BY <1>1, <1>2, <1>3, <1>4, <1>6, <1>7 DEF MilestoneIInv

LEMMA SettleStoneKeeps ==
    ASSUME MilestoneIInv, NEW b \in Ballots, SettleStone(b)
    PROVE  MilestoneIInv'
  <1> DEFINE m == ballot[b].stone
             x == [ballot[b] EXCEPT !.at = "read", !.unread = There]
  <1>1. /\ ballot[b] \in BallotRecord /\ BallotSound(ballot[b]) /\ ballot[b].at = "settle"
        /\ ballot[b].complete \in BOOLEAN
    BY DEF MilestoneIInv, MilestoneTypes, BallotRecord, SettleStone
  <1>2. m \in There /\ m \in Stones
    BY <1>1 DEF BallotSound, Awaiting, There
  <1>3. CASE ~ballot[b].complete
    <2>1. ~Finishes(ballot[b])
      BY <1>1, <1>3 DEF Finishes
    <2>2. QED
      BY <1>3, <2>1, BallotEnds DEF SettleStone, OnlyBallot
  <1>4. CASE ballot[b].complete
    <2>1. /\ MarkVerified(m, "quorum") /\ ballot' = [ballot EXCEPT ![b] = x]
          /\ UNCHANGED <<vaultState, vote, approvers, mishap>>
      BY <1>4 DEF SettleStone, MilestoneIInv, MilestoneTypes
    <2>2. /\ x \in BallotRecord /\ x.at = "read" /\ x.unread = There /\ x.stone = m
          /\ x.voter = ballot[b].voter /\ x.says = ballot[b].says
          /\ x.approved = ballot[b].approved /\ x.rejected = ballot[b].rejected
      BY <1>1 DEF BallotRecord, Awaiting, There
    <2> HIDE DEF x
    <2>3. /\ ballot' \in [Ballots -> BallotRecord]
          /\ \A c \in Ballots : ballot'[c] = IF c = b THEN x ELSE ballot[c]
      BY <2>1, <2>2, BallotMoved DEF MilestoneIInv
    <2>4. MilestoneTypes'
      BY <1>2, <2>1, <2>3, StoneMarked DEF MilestoneIInv, MilestoneTypes
    <2>5. BallotSound(x)
      BY <1>1, <2>2 DEF BallotSound, Awaiting
    <2>6. ASSUME NEW c \in Ballots PROVE BallotSound(ballot[c])'
      <3>1. PICK y : y = ballot'[c]
        OBVIOUS
      <3>2. BallotSound(y)
        BY <2>3, <2>5, <3>1 DEF MilestoneIInv
      <3>3. BallotSound(y)'
        BY <1>2, <2>1, <3>2, MarkedSound
      <3>4. QED
        BY <3>1, <3>3 DEF BallotSound
    <2>7. There' = There
      BY <1>2, <2>1, StoneMarked
    <2>8. Finishes(ballot[b])'
      BY <2>2, <2>3, <2>7 DEF Finishes
    <2>9. \A k \in Stones : Votes(k, "approved")' \subseteq approvers'[k]
      BY <2>1 DEF MilestoneIInv, Votes
    <2>10. QuorumStands'
      BY <1>1, <1>2, <1>4, <2>1, StoneMarked DEF QuorumStands, MilestoneIInv, There, BallotSound
    <2>11. CompletedWhenVerified' /\ (vaultState' = "draft" => There' = {})
      BY <1>2, <2>1, <2>7, StoneMarked DEF CompletedWhenVerified, MilestoneIInv
    <2>12. QED
      BY <2>4, <2>6, <2>8, <2>9, <2>10, <2>11 DEF MilestoneIInv
  <1>5. QED
    BY <1>1, <1>3, <1>4

\* The counts of a request, with those of one milestone more.
LEMMA CountsGrow ==
    ASSUME NEW c \in Counts, NEW m \in Stones, NEW n \in Nat
    PROVE  [k \in DOMAIN c \cup {m} |-> IF k = m THEN n ELSE c[k]] \in Counts
  <1>1. PICK S \in SUBSET Stones : c \in [S -> Nat]
    BY DEF Counts
  <1> DEFINE d == [k \in DOMAIN c \cup {m} |-> IF k = m THEN n ELSE c[k]]
  <1>2. d \in [S \cup {m} -> Nat]
    BY <1>1
  <1> HIDE DEF d
  <1>3. d \in Counts
    BY <1>2 DEF Counts
  <1>4. QED
    BY <1>3 DEF d

LEMMA ReadVotesKeeps ==
    ASSUME MilestoneIInv, NEW b \in Ballots, NEW m \in Stones, ReadVotes(b, m)
    PROVE  MilestoneIInv'
  <1>0. PICK a, r : a = Cardinality(Votes(m, "approved")) /\ r = Cardinality(Votes(m, "rejected"))
    OBVIOUS
  <1>1. a \in Nat /\ r \in Nat
    BY <1>0, VotersCounted DEF Votes
  <1> DEFINE yes == [k \in DOMAIN ballot[b].approved \cup {m} |->
                        IF k = m THEN a ELSE ballot[b].approved[k]]
             no == [k \in DOMAIN ballot[b].rejected \cup {m} |->
                        IF k = m THEN r ELSE ballot[b].rejected[k]]
             x == [ballot[b] EXCEPT !.unread = @ \ {m}, !.approved = yes, !.rejected = no]
  <1>2. /\ ballot[b] \in BallotRecord /\ BallotSound(ballot[b]) /\ ballot[b].at = "read"
        /\ m \in ballot[b].unread /\ ballot[b].approved \in Counts /\ ballot[b].rejected \in Counts
    BY DEF MilestoneIInv, MilestoneTypes, ReadVotes, BallotRecord
  <1>3. yes \in Counts /\ no \in Counts
    BY <1>1, <1>2, CountsGrow
  <1>4. ballot' = [ballot EXCEPT ![b] = x]
    BY <1>0 DEF ReadVotes, MilestoneIInv, MilestoneTypes
  <1>5. /\ DOMAIN yes = DOMAIN no /\ m \in DOMAIN yes /\ yes[m] = a /\ no[m] = r
        /\ \A k \in DOMAIN ballot[b].approved :
               /\ k \in DOMAIN yes
               /\ k # m => yes[k] = ballot[b].approved[k] /\ no[k] = ballot[b].rejected[k]
    BY <1>2 DEF BallotSound
  <1> HIDE DEF yes, no
  <1>6. /\ x \in BallotRecord /\ x.at = "read" /\ x.unread = ballot[b].unread \ {m}
        /\ x.stone = ballot[b].stone /\ x.voter = ballot[b].voter /\ x.says = ballot[b].says
        /\ x.approved = yes /\ x.rejected = no
    BY <1>2, <1>3 DEF BallotRecord, Awaiting
  <1> HIDE DEF x
  <1>7. BallotSound(x)
    BY <1>2, <1>5, <1>6 DEF BallotSound, Awaiting
  <1>8. ASSUME Completable, Finishes(ballot[b]) PROVE Finishes(x)
    <2> SUFFICES ASSUME NEW k \in There \ x.unread PROVE Counted(x, k)
      BY <1>6 DEF Finishes
    <2>1. CASE k = m
      BY <1>0, <1>5, <1>6, <1>8, <2>1 DEF Counted, Completable, Unmet
    <2>2. CASE k # m
      <3>1. Counted(ballot[b], k)
        BY <1>2, <1>6, <1>8, <2>2 DEF Finishes
      <3>2. QED
        BY <1>5, <1>6, <2>2, <3>1 DEF Counted
    <2>3. QED
      BY <2>1, <2>2
  <1>9. QED
    BY <1>4, <1>6, <1>7, <1>8, BallotMoves DEF ReadVotes, OnlyBallot, MilestoneIInv, MilestoneTypes

LEMMA FinishKeeps ==
    ASSUME MilestoneIInv, NEW b \in Ballots, FinishBallot(b)
    PROVE  MilestoneIInv'
  <1>1. /\ ballot[b].at = "read" /\ ballot[b].unread = {} /\ UNCHANGED <<stone, vote, approvers, mishap>>
        /\ ballot' = [ballot EXCEPT ![b] = EndedBallot] /\ CompleteVault(AllMet(b) /\ EveryVerified)
    BY DEF FinishBallot, Ends
  <1>2. Finishes(ballot[b]) => AllMet(b)
    BY <1>1 DEF Finishes, AllMet, Counted
  <1>3. ~(vaultState' = "active" /\ Completable /\ Finishes(ballot[b]))
    BY <1>1, <1>2 DEF Completable, CompleteVault
  <1>4. vaultState' = vaultState \/ (vaultState' = "completed" /\ EveryVerified)
    BY <1>1 DEF CompleteVault
  <1>5. QED
    BY <1>1, <1>3, <1>4, EndedBallotSound, BallotMoves DEF MilestoneIInv, MilestoneTypes

LEMMA BallotFailsKeeps ==
    ASSUME MilestoneIInv, NEW b \in Ballots, BallotFails(b)
    PROVE  MilestoneIInv'
  <1>1. /\ ballot' = [ballot EXCEPT ![b] = EndedBallot] /\ UNCHANGED <<vaultState, stone, vote, approvers>>
        /\ mishap' = (mishap \/ ballot[b].at \in {"count", "read"}) /\ ballot[b].at # "settle"
    BY DEF BallotFails, Ends, Awaiting
  <1>2. Finishes(ballot[b]) => mishap'
    BY <1>1 DEF Finishes
  <1>3. mishap' \in BOOLEAN /\ (mishap => mishap')
    BY <1>1 DEF MilestoneIInv, MilestoneTypes
  <1>4. QED
    BY <1>1, <1>2, <1>3, EndedBallotSound, BallotMoves

LEMMA AddStoneKeeps ==
    ASSUME MilestoneIInv, NEW m \in Stones, AddStone(m)
    PROVE  MilestoneIInv'
  <1>1. PICK quorum \in Quorums :
          stone' = [stone EXCEPT ![m] = [NoStone EXCEPT !.there = TRUE, !.terms = quorum]]
    BY DEF AddStone
  <1> DEFINE x == [NoStone EXCEPT !.there = TRUE, !.terms = quorum]
  <1>2. /\ x \in StoneRecord /\ x.there = TRUE /\ x.verified = FALSE /\ x.by = "nobody"
    BY DEF NoStone, StoneRecord
  <1>3. stone' = [stone EXCEPT ![m] = x]
    BY <1>1
  <1> HIDE DEF x
  <1>4. /\ stone' \in [Stones -> StoneRecord] /\ stone'[m] = x
        /\ \A k \in Stones \ {m} : stone'[k] = stone[k]
    BY <1>2, <1>3 DEF MilestoneIInv, MilestoneTypes
  <1>5. /\ There' = There \cup {m} /\ m \notin There /\ ~EveryVerified'
    BY <1>2, <1>4 DEF There, EveryVerified, AddStone
  <1>6. vaultState' = "active" /\ UNCHANGED <<vote, ballot, approvers, mishap>>
    BY DEF AddStone
  <1>7. ASSUME NEW b \in Ballots PROVE BallotSound(ballot[b])'
    <2>1. BallotSound(ballot[b]) /\ There \subseteq Stones
      BY DEF MilestoneIInv, There
    <2>2. QED
      BY <1>4, <1>5, <1>6, <2>1 DEF BallotSound, Awaiting
  <1>8. MilestoneTypes'
    BY <1>4, <1>6 DEF MilestoneIInv, MilestoneTypes
  <1>9. \A k \in Stones : Votes(k, "approved")' \subseteq approvers'[k]
    BY <1>6 DEF MilestoneIInv, Votes
  <1>10. QuorumStands'
    BY <1>2, <1>4, <1>5, <1>6 DEF QuorumStands, MilestoneIInv, There
  <1>11. QED
    BY <1>5, <1>6, <1>7, <1>8, <1>9, <1>10 DEF MilestoneIInv, CompletedWhenVerified, Completable

\* The vault moves, but not to its completion.
LEMMA VaultMoves ==
    ASSUME MilestoneIInv, UNCHANGED <<stone, vote, ballot, approvers>>,
           mishap' \in BOOLEAN, mishap => mishap', vaultState' # "draft",
           \/ vaultState' \notin {"completed", "active"}
           \/ mishap'
           \/ There = {} /\ vaultState' = "active"
    PROVE  MilestoneIInv'
  <1>1. MilestoneTypes' /\ There' = There
    BY DEF MilestoneIInv, MilestoneTypes, There
  <1>2. \A b \in Ballots : BallotSound(ballot[b])'
    BY <1>1 DEF MilestoneIInv, BallotSound
  <1>3. (\A m \in Stones : Votes(m, "approved")' \subseteq approvers'[m]) /\ QuorumStands'
    BY <1>1 DEF MilestoneIInv, Votes, QuorumStands
  <1>4. QED
    BY <1>1, <1>2, <1>3 DEF MilestoneIInv, CompletedWhenVerified, Completable, EveryVerified

LEMMA DeleteProfileKeeps ==
    ASSUME MilestoneIInv, NEW v \in Voters, DeleteProfile(v)
    PROVE  MilestoneIInv'
  <1>1. /\ UNCHANGED <<vaultState, stone, ballot, approvers>>
        /\ mishap' = (mishap \/ \E m \in Stones : vote[m][v] # "none")
        /\ \A m \in Stones : vote'[m] = [vote[m] EXCEPT ![v] = "none"]
        /\ DOMAIN vote' = Stones /\ vote' = [m \in Stones |-> vote'[m]]
    BY DEF DeleteProfile
  <1>2. /\ vote' \in [Stones -> [Voters -> {"none", "approved", "rejected"}]]
        /\ \A m \in Stones, w \in Voters : vote'[m][w] = IF w = v THEN "none" ELSE vote[m][w]
    BY <1>1 DEF MilestoneIInv, MilestoneTypes
  <1>3. mishap' \in BOOLEAN /\ (mishap => mishap')
    BY <1>1 DEF MilestoneIInv, MilestoneTypes
  <1>4. MilestoneTypes' /\ There' = There /\ EveryVerified' = EveryVerified
    BY <1>1, <1>2, <1>3 DEF MilestoneIInv, MilestoneTypes, There, EveryVerified
  <1>5. \A b \in Ballots : BallotSound(ballot[b])'
    BY <1>1, <1>4 DEF MilestoneIInv, BallotSound
  <1>6. \A m \in Stones : Votes(m, "approved")' \subseteq Votes(m, "approved")
    BY <1>2 DEF Votes
  <1>7. QuorumStands' /\ CompletedWhenVerified' /\ (vaultState' = "draft" => There' = {})
    BY <1>1, <1>3, <1>4 DEF MilestoneIInv, QuorumStands, CompletedWhenVerified
  <1>8. ASSUME vaultState' = "active", ~mishap', Completable'
        PROVE  \E b \in Ballots : Finishes(ballot[b])'
    <2>0. \A m \in Stones : vote[m][v] = "none"
      BY <1>1, <1>8
    <2>1. \A m \in Stones, w \in Voters : vote'[m][w] = vote[m][w]
      BY <1>2, <2>0
    <2>2. \A m \in Stones : Votes(m, "approved")' = Votes(m, "approved")
                            /\ Votes(m, "rejected")' = Votes(m, "rejected")
      BY <2>1 DEF Votes
    <2>3. Completable
      BY <1>1, <1>4, <1>8, <2>2 DEF Completable, Unmet, There
    <2>4. PICK b \in Ballots : Finishes(ballot[b])
      BY <1>1, <1>3, <1>8, <2>3 DEF MilestoneIInv
    <2>5. Finishes(ballot[b])'
      BY <1>1, <1>4, <2>4 DEF Finishes, Counted
    <2>6. QED
      BY <2>5
  <1>9. QED
    BY <1>1, <1>4, <1>5, <1>6, <1>7, <1>8 DEF MilestoneIInv

LEMMA MilestoneStep == MilestoneIInv /\ [MilestoneNext]_milestoneVars => MilestoneIInv'
  <1> SUFFICES ASSUME MilestoneIInv, [MilestoneNext]_milestoneVars PROVE MilestoneIInv'
    OBVIOUS
  <1>0. mishap \in BOOLEAN
    BY DEF MilestoneIInv, MilestoneTypes
  <1>1. CASE Activate
    BY <1>0, <1>1, VaultMoves DEF Activate, Moves, MilestoneIInv
  <1>2. CASE CancelByCreator \/ Expire \/ Dispute
    BY <1>0, <1>2, VaultMoves DEF CancelByCreator, Expire, Dispute, Moves
  <1>3. ASSUME NEW to \in {"active", "completed", "failed"}, Resolve(to) PROVE MilestoneIInv'
    BY <1>0, <1>3, VaultMoves DEF Resolve
  <1>4. ASSUME NEW m \in Stones, Verify(m) PROVE MilestoneIInv'
    BY <1>0, <1>4, MarkKeeps DEF Verify
  <1>5. ASSUME NEW m \in Stones, NEW v \in Voters, Validate(m, v) PROVE MilestoneIInv'
    <2>1. PICK active \in BOOLEAN :
            /\ CompleteVault(active /\ VerifiedBut(m))
            /\ mishap' = (mishap \/ ~active)
      BY <1>5 DEF Validate
    <2>2. \/ CompleteVault(VerifiedBut(m))
          \/ mishap' /\ UNCHANGED vaultState
      BY <2>1 DEF CompleteVault
    <2>3. mishap' \in BOOLEAN /\ (mishap => mishap')
      BY <1>0, <2>1
    <2>4. QED
      BY <1>5, <2>2, <2>3, MarkKeeps DEF Validate, Validates
  <1>6. CASE UNCHANGED <<vaultState, stone, vote, ballot, approvers, mishap>>
    BY <1>6 DEF MilestoneIInv, MilestoneTypes, BallotSound, CompletedWhenVerified, QuorumStands,
       Completable, Finishes, Counted, EveryVerified, There, Votes, Unmet
  <1>7. ASSUME NEW v \in Voters, ProfileChanges(v) PROVE MilestoneIInv'
    BY <1>6, <1>7 DEF ProfileChanges
  <1>8. CASE UNCHANGED milestoneVars
    BY <1>6, <1>8 DEF milestoneVars
  <1>9. ASSUME NEW b \in Ballots, CheckProfile(b) \/ CheckVoted(b) \/ CheckSettled(b)
        PROVE  MilestoneIInv'
    BY <1>9, UnlessKeeps DEF CheckProfile, CheckVoted, CheckSettled
  <1>10. QED
    BY <1>1, <1>2, <1>3, <1>4, <1>5, <1>7, <1>8, <1>9, AddStoneKeeps, DeleteProfileKeeps,
       BeginBallotKeeps, RecordVoteKeeps, CountVotesKeeps, SettleStoneKeeps, ReadVotesKeeps,
       FinishKeeps, BallotFailsKeeps DEF MilestoneNext

LEMMA MilestoneInitOK == MilestoneInit => MilestoneIInv
  <1> SUFFICES ASSUME MilestoneInit PROVE MilestoneIInv
    OBVIOUS
  <1>1. NoStone \in StoneRecord /\ NoStone.there = FALSE
    BY QuorumsAssumption DEF NoStone, StoneRecord
  <1>2. There = {}
    BY <1>1 DEF MilestoneInit, There
  <1>3. MilestoneTypes
    BY <1>1, NoBallotIs DEF MilestoneInit, MilestoneTypes
  <1>4. \A b \in Ballots : BallotSound(ballot[b])
    BY NoBallotIs DEF MilestoneInit, BallotSound, Awaiting
  <1>5. \A m \in Stones : Votes(m, "approved") = {}
    BY DEF MilestoneInit, Votes
  <1>6. QED
    BY <1>2, <1>3, <1>4, <1>5 DEF MilestoneInit, MilestoneIInv, CompletedWhenVerified, QuorumStands,
       Completable, EveryVerified

\* routes/milestones.ts and services/milestones.ts: a vault is completed only over
\* verified milestones, votes settle one only with enough approvers, and the last
\* verification completes the vault, however many votes are on their way, unless
\* something named came between.
THEOREM VaultsFollowMilestones == MilestoneSpec => []VaultFollowsMilestones
  <1>1. MilestoneIInv => VaultFollowsMilestones
    <2> SUFFICES ASSUME MilestoneIInv PROVE VaultFollowsMilestones
      OBVIOUS
    <2>1. AtRest => \A b \in Ballots : ~Finishes(ballot[b])
      BY DEF AtRest, Awaiting, Finishes
    <2>2. QED
      BY <2>1 DEF MilestoneIInv, VaultFollowsMilestones, Completable
  <1>2. QED
    BY <1>1, MilestoneInitOK, MilestoneStep, PTL DEF MilestoneSpec
=============================================================================
