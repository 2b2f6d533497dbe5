CONSTANTS
    Vault = {v1, v2}
    alice = alice
    bob = bob
    carol = carol
    oracle = oracle
    gold = gold
    levy = levy
    NoOracle = NoOracle
    NoTerms = NoTerms
    Address = {alice, bob, carol, oracle}
    Token = {gold, levy}
    Proposal <- MCProposals
    MaxMilestones = 2
    Fee <- MCFee
    Allowance = {1, 3}
    Window = {0}
    DefaultWindow = 0
    Horizon = 2
    MaxTime = 3
    MaxBalance = 1
    Stones = {m1}
    Voters = {a}
    NoVoter = NoVoter
    Assigned = NoVoter
    Ballots = {b1}
    Quorums <- MCQuorums
SPECIFICATION MCSpec
INVARIANT OwnQuorum
CHECK_DEADLOCK FALSE
