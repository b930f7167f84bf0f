\* Two address spaces on one x86 TLB cache, switched by the OS.
CONSTANTS
    Ways = 2
    Sets = 2
    MaxEvict = 2
    MaxRid = 3
    Mappings <- MCSharedMappings
    Frames <- MCFrames
    InitFrame = f1
    VAs <- MCSharedVAs
    NoEntry = NoEntry
    f1 = f1
    f2 = f2
    p1 = p1
    p2 = p2
    Procs <- MCProcs
    InitProc = p1
    ProcFrame <- MCProcFrame
    Randomize <- MCRandomize
INIT ASInit
NEXT ASNext
VIEW ASView
INVARIANTS
    AddressSpaceIsolation
    NonGlobalAddressable
