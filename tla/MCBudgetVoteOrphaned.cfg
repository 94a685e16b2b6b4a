CONSTANTS
    p1 = p1
    p2 = p2
    a1 = a1
    a2 = a2
    Proposals <- MCProposals
    Valid <- MCValid
    Voters <- MCVoters
    NetVotes <- MCNetVotes
    InitAdmitted = {}
    Broadcast = {p1, p2}
    LossyQ = FALSE
    FullList = FullList
    Forgery = FALSE
    MaxClears = 0
    MaxConnects = 2
    MaxRequests = 2
SPECIFICATION Spec
PROPERTY VotesEventuallyCounted
