\* The huge page is global; the host re-inserts it after a miss that follows
\* flushNonGlobal.
CONSTANTS
    Ways = 2
    Sets = 2
    MaxEvict = 2
    MaxRid = 3
    Mappings <- MCMappingsGlobal
    Frames <- MCFrames
    InitFrame = f1
    VAs <- MCVAs
    NoEntry = NoEntry
    f1 = f1
    f2 = f2
    Randomize <- MCRandomize
INIT Init
NEXT Next
VIEW View
INVARIANT
    AtMostOnePresence
