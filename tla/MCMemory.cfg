\* Two user threads of one process in syscall_alloc / syscall_alloc_at
\* over three bitmap blocks of two frames (block 0 reserved) and one page
\* table of two entries.
CONSTANTS
    NBlocks = 3
    BlockBits = 2
    ReservedBlocks = 1
    Span = 2
    NDirs = 1
    t1 = t1
    t2 = t2
    Threads <- MCThreads
    AllocSizes = {1, 2}
    AllocAtAddrs = {0}
    MaxCalls = 3
    UIntMod = 1024  \* stands for 2^32: pages_left only matters below the frame count
    NoFrame = NoFrame
SPECIFICATION Spec
INVARIANTS TypeOK BlockLockExclusive BitmapCoversFrames FramesExclusive AllocWithinRequest
