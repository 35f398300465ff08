--------------------------- MODULE MCBitAllocator ---------------------------
(* Instantiates BitAllocator for TLC: 2 blocks of 2 bits stand for        *)
(* blocks of 32, so that a scan wraps and a block fills within a few       *)
(* calls; every boot reservation that fits.                               *)
EXTENDS BitAllocator

CONSTANTS c1, c2

MCCallers == {c1, c2}
MCOneCaller == {c1}
MCReserveRanges == {r \in (0..(NBits - 1)) \X (0..NBits) : r[1] + r[2] <= NBits}
MCNoReserve == {<<0, 0>>}
=============================================================================
