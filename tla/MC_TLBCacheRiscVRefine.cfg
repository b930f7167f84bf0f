CONSTANTS
    Ways = 2
    Sets = 2
    MaxEvict = 1
    MaxRid = 3
    Asids <- MCAsids
    Mappings <- MCRefineMappings
    Frames <- MCFrames
    InitFrame = f1
    VAs <- MCPageVAs
    SATLB = FALSE
    Shootdown = "complex"
    NoEntry = NoEntry
    f1 = f1
    f2 = f2
    Randomize <- MCRandomize
INIT MCInit
NEXT MCNext
PROPERTY
    ImplementsAbstractAux
VIEW MCView
