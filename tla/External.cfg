SPECIFICATION Spec
CONSTANTS
    Validation = 5
    Menu <- ExternalMenu
    Needs <- RequiredInputs
    Erased <- ErasedByFailure
    PolicyMode = "balanced"
    FullAutonomy = FALSE
    AllowExternalWait = FALSE
    HumanAnswers <- NoAnswers
    Events <- AllEvents
    NoopFlags = {"plain"}
    RetryBudget = 2
    MaxRefinements = 1
    MaxRounds = 4
    MaxCrashes = 1
INVARIANTS
    CompletedWasRun
    CompletedIsEarned
PROPERTIES
    TerminalIsFinal
    EventConsumedOnce
