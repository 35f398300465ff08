SPECIFICATION Spec
CONSTANTS
    NP = 2
    NT = 2
    l1 = l1
    m1 = m1
    msg = msg
    LockHandles <- MCLockHandles
    MonHandles <- MCMonHandles
    MSG_MONITOR <- msg
    Diffs = {1}
    NoThread = NoThread
    NoHandle = NoHandle
    UIntMod <- MCUIntMod
    MaxSignal = 1
    MaxMsgs = 1
PROPERTY StarvationFree
