SPECIFICATION FairSpec
CONSTANTS
    b1 = b1
    b2 = b2
    Earlier = Earlier
    NMaterials = 3
    Batches <- TwoBatches
    Retriers <- TwoBatches
    Inherited <- AllUntried
    Slow <- NoneIsSlow
    MaxFaults = 0
PROPERTY
    EverythingIsTried
