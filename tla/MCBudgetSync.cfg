CONSTANTS
    p1 = p1
    p2 = p2
    a1 = a1
    a2 = a2
    Proposals <- MCProposals
    Valid <- MCValid
    Voters <- MCVoters
    NetVotes <- MCNetVotes
    InitAdmitted = {}
    Broadcast = {p2}
    LossyQ = TRUE
    FullList = FullList
    Forgery = FALSE
    MaxClears = 0
    MaxConnects = 2
    MaxRequests = 2
SPECIFICATION Spec
INVARIANT TypeOK
INVARIANT AnnouncesOnlyAdmitted
PROPERTY PeerEventuallyHearsAll
PROPERTY AskedEventuallyAdmitted
