SPECIFICATION Spec
CONSTANTS
    Menus <- SomeMenus
    Spoken <- SomeActions
    Named <- SomeStages
    WindowPolls = 2
    MaxEscalations = 2
    MaxAnswers = 2
    MaxDeaths = 1
INVARIANTS
    AnswersItsQuestion
CHECK_DEADLOCK FALSE
