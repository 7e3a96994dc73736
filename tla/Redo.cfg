SPECIFICATION Spec
CONSTANTS
    Validation = 5
    Menu <- ManualMenu
    Needs <- RequiredInputs
    Erased <- ErasedByFailure
    PolicyMode = "strict"
    FullAutonomy = FALSE
    AllowExternalWait = FALSE
    HumanAnswers <- AllAnswers
    Events <- NoEvents
    NoopFlags = {"plain", "escalate"}
    RetryBudget = 2
    MaxRefinements = 1
    MaxRounds = 5
    MaxCrashes = 0
INVARIANTS
    TypeOK
    NoTaskLost
    ActiveMeansExecuting
    ReportIsTerminal
