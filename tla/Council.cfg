SPECIFICATION FairSpec
CONSTANTS
    Modes <- AllModes
    Policies <- TwoPolicies
    Actions = {"cheap", "costly"}
    Costly = {"costly"}
    LegalSets <- CheapOnly
    Namesakes = FALSE
    MaxAttempts = 2
    ToolEvidence = TRUE
INVARIANTS
    ReviewsMatchProposals
    
    SaidIsHeard
    SpokenInOrder
    SmallRolesMayFail
PROPERTIES
    CouncilEnds
CHECK_DEADLOCK FALSE
