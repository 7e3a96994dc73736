SPECIFICATION FairSpec
CONSTANTS
    Menus <- SomeMenus
    Spoken <- SomeActions
    Named <- SomeStages
    WindowPolls = 2
    MaxEscalations = 2
    MaxAnswers = 2
    MaxDeaths = 1
INVARIANTS
    CompletedKeepsFiles
    UnansweredEnds
PROPERTIES
    AnswerInTimeCounts
    WaitEnds
CHECK_DEADLOCK FALSE
