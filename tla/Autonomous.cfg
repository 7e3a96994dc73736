SPECIFICATION FairSpec
CONSTANTS
    Validation = 5
    Menu <- WideMenu
    Needs <- RequiredInputs
    Erased <- ErasedByFailure
    PolicyMode = "balanced"
    FullAutonomy = TRUE
    AllowExternalWait = TRUE
    HumanAnswers <- NoAnswers
    Events <- NoEvents
    NoopFlags = {"plain", "waiting"}
    RetryBudget = 2
    MaxRefinements = 1
    MaxRounds = 6
    MaxCrashes = 0
INVARIANTS
    SelectedActionIsLegal
    CompletedIsEarned
    AutonomousNeverParks
    SingleSubmission
PROPERTIES
    DriveNeverSpins
