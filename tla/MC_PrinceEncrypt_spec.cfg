CONSTANTS
    Inputs <- MCInputs
    Tweaks <- MCTweaks
    ShiftUB <- MCShiftUB
INIT Init
NEXT Next
\* encrypt returns: the last statement has nothing after it.
CHECK_DEADLOCK FALSE
INVARIANTS
    EncryptMatchesSpec
