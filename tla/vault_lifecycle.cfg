CONSTANTS
    Vault = {v1, v2}
    alice = alice
    bob = bob
    carol = carol
    oracle = oracle
    gold = gold
    levy = levy
    NoOracle = NoOracle
    NoTerms = NoTerms
    Address = {alice, bob, carol, oracle}
    Token = {gold, levy}
    Proposal <- MCProposals
    MaxMilestones = 2
    Fee <- MCFee
    Allowance = {1, 3}
    Window = {0, 3}
    DefaultWindow = 0
    Horizon = 2
    MaxTime = 5
    MaxBalance = 1
    Stones = {m1, m2}
    Voters = {a, b}
    NoVoter = NoVoter
    Assigned = NoVoter
    Ballots = {b1, b2}
    Quorums <- MCQuorums
SPECIFICATION MCSpec
INVARIANTS StakeCoversMilestones Conservation VaultFollowsMilestones
PROPERTIES EndsAreFinal OnlyASweepBreaksSolvency
SYMMETRY Interchangeable
CHECK_DEADLOCK FALSE
