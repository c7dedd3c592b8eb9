SPECIFICATION Spec
CONSTANTS
    k1 = k1
    k2 = k2
    Keys = {k1, k2}
    MaxCommands = 4
INVARIANT NoSleepOnWork
INVARIANT PayloadBelongs
INVARIANT FrameIsBounded
INVARIANT FrameStartsClean
PROPERTY DrawsAreLatest
PROPERTY DrawsAreSettled
CHECK_DEADLOCK FALSE
