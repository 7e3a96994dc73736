SPECIFICATION Spec
CONSTANTS
    Validation = 5
    Menu <- HumanMenu
    Needs <- RequiredInputs
    Erased <- ErasedByFailure
    PolicyMode = "balanced"
    FullAutonomy = FALSE
    AllowExternalWait = FALSE
    HumanAnswers <- AllAnswers
    Events <- NoEvents
    NoopFlags = {"plain", "escalate"}
    RetryBudget = 2
    MaxRefinements = 1
    MaxRounds = 5
    MaxCrashes = 0
INVARIANTS
    CompletedWasRun
