CONSTANTS
    a1 = a1
    a2 = a2
    p1 = p1
    p2 = p2
    p3 = p3
    NoVote = NoVote
    Voters <- MCVoters
    AddressKey <- DistinctKeys
    Proposals <- MCProposals
    VoteValues = {"yes", "no"}
    MaxTime = 2
    BUDGET_VOTE_UPDATE_MIN = 2
    VoteSkew = 1
    EnabledCount = 10
    CollateralValid <- CollateralValidMC
    StaticallyValid <- StaticallyValidMC
    CarriedVoteChoices <- HonestCarried
    VoteInputs <- MCVoteInputs
    LocalVoter = a1
    RpcVoters <- OperatorOnly
SPECIFICATION Spec
INVARIANT TypeOK
PROPERTY ImplementsBudgetVotes
