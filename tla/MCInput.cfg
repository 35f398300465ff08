\* Two user processes with one window each over a desktop 2 pixels wide;
\* small queues so that full queues and the pool limit are reached.
CONSTANTS
    Procs = {1, 2}
    Width = 2
    WinW = 1
    Deltas <- MCDeltas
    CLICK_BOX = 1
    EvCap = 3
    MsgCap = 4
    SubCap = 2
    SubEvents = {"MOUSE_LEFT_DOWN"}
    MaxBytes = 6
    MaxSubs = 3
    WinStart <- MCWinStart
SPECIFICATION Spec
INVARIANTS TypeOK WinstackIsList SingleDelivery
