CONSTANTS
    p1 = p1
    p2 = p2
    p3 = p3
    Proposals <- MCProposals
    BlockStart <- MCBlockStart
    PaymentCount <- MCPaymentCount
    Amount <- MCAmount
    FeeHash <- MCFeeHash
    CycleBlocks = 2
    TotalBudget = 10
    EnabledCount = 10
    MaxHeight = 5
    MaxNet = 2
    GateMaxEnabled = 41
    FeeConfirmations = 2
    MaxIX = 2
    BlockHeights = {0, 1, 2, 3, 4, 5}
    NoBlock = NoBlock
SPECIFICATION Spec
INVARIANT TypeOK
INVARIANT PaymentGateIsFivePercent
INVARIANT CollateralCheckIsSpec
INVARIANT ProjectionWithinBudget
PROPERTY WinnersFollowRanking
