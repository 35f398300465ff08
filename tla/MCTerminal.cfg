\* The shell's terminal in its own proportions: fewer rows on the window
\* (2) than in the text ring (3), lines longer than a row, a command line
\* that overflows at 2 characters and an input ring that fills up.
CONSTANTS
    Keys <- MCKeys
    NL <- MCNL
    BS <- MCBS
    MaxKeys = 5
    InBuf = 4
    CmdMax = 4
    PrintMax = 4
    CharW = 3
    CharH = 3
    SpX = 1
    SpY = 1
    RectW = 3
    RectH = 2
    Banner <- MCBanner
    Unrec <- MCUnrec
    HelpWord <- MCHelpWord
    HelpLines <- MCHelpLines
SPECIFICATION Spec
INVARIANTS TypeOK  EchoMatchesLine
PROPERTIES RedrawCoversChanges
CHECK_DEADLOCK FALSE
