CONSTANTS
    Directions <- OneDirection
    Strains <- SomeStrains
    FirstPlan <- FirstStrains
    MinPoints = 3
    MaxPoints = 4
    Channels = 1
    MaxRetries = 1
    ReuseModes <- Both
    RetryModes <- On
    MaxCalls = 12
    MaxFaults = 2
    MaxFresh = 1
SPECIFICATION Spec
CHECK_DEADLOCK FALSE
INVARIANTS
    LadderBounded
    CampaignIsWhole
    CompletedWasMeasured
    OutputsAgree
    FitIsOfThePlan
PROPERTY KeepsCompletedRows
