CONSTANTS
    Inputs <- MCInputs
    Tweaks <- MCTweaks
    ShiftUB <- MCShiftUB
SPECIFICATION FairSpec
\* encrypt returns: the last statement has nothing after it.
CHECK_DEADLOCK FALSE
PROPERTY
    EncryptReturnsVector
