\* Kernel and shell windows on a 4 x 3 screen; three mouse packets, enough
\* to press on a window, drag it and release, or to raise the other frame.
\* The packet interrupt is kept out of the pointer copy (see MCDisplayPointer).
\* The system idles once the packets are spent: no deadlock check.
CONSTANTS
    Width = 4
    Height = 3
    UWins <- MCUWins
    UClass <- MCUClass
    URect <- MCURect
    UParentId <- MCUParentId
    UZ <- MCUZ
    UId <- MCUId
    UAlpha = {18}
    Deltas <- MCDeltas
    MaxPackets = 2
    IsrInPointerCopy = FALSE
SPECIFICATION Spec
CHECK_DEADLOCK FALSE
INVARIANTS TypeOK RedrawPaintsComposite
 
