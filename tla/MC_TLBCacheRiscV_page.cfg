CONSTANTS
    Ways = 2
    Sets = 2
    MaxEvict = 1
    MaxRid = 3
    Asids <- MCAsids
    Mappings <- MCMappings
    Frames <- MCFrames
    InitFrame = f1
    VAs <- MCVAs
    SATLB = FALSE
    Shootdown = "page"
    NoEntry = NoEntry
    f1 = f1
    f2 = f2
    Randomize <- MCRandomize
INIT Init
NEXT Next
INVARIANT
    LookupCoherent
VIEW View
