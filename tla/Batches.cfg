SPECIFICATION FairSpec
CONSTANTS
    b1 = b1
    b2 = b2
    Earlier = Earlier
    NMaterials = 2
    Batches <- TwoBatches
    Retriers <- OneRetrier
    Inherited <- TriedOrNot
    Slow <- FirstIsSlow
    MaxFaults = 1
INVARIANTS
    TypeOK
    OutcomeIsWhole
    RunningIsRun
    TallyIsTrue
PROPERTIES
    KeepsTheQueue
    EverythingIsTried
