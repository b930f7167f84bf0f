CONSTANTS
    Ways = 2
    Sets = 2
    MaxEvict = 1
    MaxRid = 2
    Asids <- MCAsids
    Mappings <- MCMappings
    Frames <- MCFrames
    InitFrame = f1
    VAs <- MCVAs
    SATLB = FALSE
    Shootdown = "complex"
    NoEntry = NoEntry
    f1 = f1
    f2 = f2
    Randomize <- MCRandomize
INIT Init
NEXT Next
INVARIANTS
    TypeOK
    LookupCoherent
VIEW View
