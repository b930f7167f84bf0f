\* Only non-global pages, as in MC_TLBCacheX86.cfg.
CONSTANTS
    Ways = 2
    Sets = 2
    MaxEvict = 2
    MaxRid = 2
    Mappings <- MCMappingsNonGlobal
    Frames <- MCFrames
    InitFrame = f1
    VAs <- MCVAs
    NoEntry = NoEntry
    f1 = f1
    f2 = f2
    Randomize <- MCRandomize
INIT MCInit
NEXT MCNext
VIEW MCView
PROPERTY
    ImplementsAbstractX86
