\* Only non-global pages: every epoch change invalidates every copy.
CONSTANTS
    Ways = 2
    Sets = 2
    MaxEvict = 2
    MaxRid = 3
    Mappings <- MCMappingsNonGlobal
    Frames <- MCFrames
    InitFrame = f1
    VAs <- MCVAs
    NoEntry = NoEntry
    f1 = f1
    f2 = f2
    Randomize <- MCRandomize
INIT Init
NEXT Next
VIEW View
INVARIANTS
    TypeOK
    LookupCoherent
    AtMostOnePresence
