------------------------------ MODULE MCInput ------------------------------
EXTENDS Input

\* a mouse packet moves the pointer one pixel either way or not at all
MCDeltas == {-1, 0, 1}

\* the two windows start side by side on the left
MCWinStart == [p \in Procs |-> p - 1]
=============================================================================
