\* Two callers racing lock_next_bit and free over 2 blocks of 2 bits,
\* after any boot reservation.
CONSTANTS
    NBits = 4
    BlockBits = 2
    CasTries = 2
    c1 = c1
    c2 = c2
    Callers <- MCCallers
    ReserveRanges <- MCReserveRanges
SPECIFICATION Spec
INVARIANTS TypeOK Exclusive BitsAccounted
