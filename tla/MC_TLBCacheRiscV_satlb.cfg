\* The SATLB build at the code's four ways, so that promotions run the whole
\* tPLRU cascade; one set, so that every page competes for it.
CONSTANTS
    Ways = 4
    Sets = 1
    MaxEvict = 1
    MaxRid = 2
    Asids <- MCAsids
    Mappings <- MCMappings
    Frames <- MCFrames
    InitFrame = f1
    VAs <- MCVAs
    SATLB = TRUE
    Shootdown = "page"
    NoEntry = NoEntry
    f1 = f1
    f2 = f2
    Randomize <- MCRandomize
INIT Init
NEXT Next
INVARIANTS
    LookupCoherent
    AtMostOnePresence
    PLRUWellFormed
VIEW View
