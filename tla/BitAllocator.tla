---------------------------- MODULE BitAllocator ----------------------------
(***************************************************************************)
(* BitAllocator<N> and PoolAllocator<T,N> of include/std/bitset.h and     *)
(* include/std/pool.h: a bitset of N bits in 32-bit blocks, where          *)
(* lock_next_bit claims the lowest clear bit of a block by compare-and-    *)
(* swap, scanning the blocks from a pseudo-random start, and unlock_bit    *)
(* clears a bit.  At boot, lock_bit_range reserves a range of bits.        *)
(*                                                                         *)
(* A block is modelled as the set of its set bits; BlockBits stands for   *)
(* 32 and CasTries for the `j < 32` retry bound of the inner loop.        *)
(* Each caller is a context calling PoolAllocator::alloc / free; the two  *)
(* shared accesses of lock_next_bit (the read of the block and the CAS)   *)
(* are separate steps, so callers may interleave between them.  In the    *)
(* kernel the one pool (UserEventWorker::sub_pool, events.cpp) is used by  *)
(* syscall_subscribe with interrupts off, i.e. by a single caller at a    *)
(* time; the concurrent callers model the contract of spec section 4.1.   *)
(***************************************************************************)
EXTENDS Integers, FiniteSets, FiniteSetsExt

CONSTANTS
    NBits,          \* N: capacity in bits (max_bits)
    BlockBits,      \* bits per block (32)
    CasTries,       \* the inner loop's bound `j < 32`
    Callers,        \* contexts calling alloc and free
    ReserveRanges   \* <<start, size>> arguments of the boot-time lock_bit_range

ASSUME /\ NBits \in Nat \ {0} /\ BlockBits \in Nat \ {0} /\ CasTries \in Nat \ {0}
       /\ \A r \in ReserveRanges : r[1] \in 0..(NBits - 1) /\ r[1] + r[2] <= NBits

max_blocks == (NBits + BlockBits - 1) \div BlockBits
Blocks == 0..(max_blocks - 1)
FullBlock == 0..(BlockBits - 1)     \* the block value 0xFFFFFFFF
Indices == 0..(NBits - 1)
NoResult == -2                      \* no call has returned yet

VARIABLES
    bitset_blocks,  \* block -> set bits
    pc,             \* caller -> "idle" | "read" | "cas"
    start,          \* caller -> start_block_index
    i,              \* caller -> outer loop counter (not reduced mod max_blocks)
    bits,           \* caller -> its snapshot of the block
    j,              \* caller -> inner loop counter
    held,           \* caller -> indices it allocated and has not freed
    result,         \* caller -> value returned by its last lock_next_bit
    reserved        \* the bits reserved at boot: ghost

vars == <<bitset_blocks, pc, start, i, bits, j, held, result, reserved>>

\* The bit indices a block value stands for.
IndicesOf(b, set) == {b * BlockBits + k : k \in set}
SetIndices == UNION {IndicesOf(b, bitset_blocks[b]) : b \in Blocks}

TypeOK ==
    /\ bitset_blocks \in [Blocks -> SUBSET FullBlock]
    /\ pc \in [Callers -> {"idle", "read", "cas"}]
    /\ start \in [Callers -> Blocks]
    /\ i \in [Callers -> 0..(2 * max_blocks)]
    /\ bits \in [Callers -> SUBSET FullBlock]
    /\ j \in [Callers -> 0..CasTries]
    /\ held \in [Callers -> SUBSET Indices]
    /\ result \in [Callers -> Indices \cup {-1, NoResult}]
    /\ reserved \subseteq Indices

(***************************************************************************)
(* lock_bit_range(start, size): high_ones(n) is the top n bits of a block *)
(* and low_ones(n) the bottom n bits (the shifts are split in halves so   *)
(* that n = 32 does not shift by 32).  lock_bitmask(b, mask) returns      *)
(* early for mask 0 and leaves a block of all ones alone.                 *)
(***************************************************************************)
\* Faulty: high_ones one bit short (a `>` for `>=` slip).
high_ones_short(n) == {k \in FullBlock : k > BlockBits - n}

high_ones(n) == {k \in FullBlock : k >= BlockBits - n}
low_ones(n) == {k \in FullBlock : k < n}

lock_bitmask(blk, b, mask) ==
    IF mask = {} \/ blk[b] = FullBlock THEN blk
    ELSE [blk EXCEPT ![b] = @ \cup mask]

\* Head block, body blocks (all ones), tail block, in that order.
lock_bit_range(blk, s, size) ==
    LET start_index == s \div BlockBits
        end_index == (s + size) \div BlockBits
        head_bits == BlockBits - (s % BlockBits)
        head_mask == high_ones(head_bits)
        tail_mask == low_ones((size + BlockBits - head_bits) % BlockBits)
        afterHead == lock_bitmask(blk, start_index, head_mask)
        afterBody == [b \in Blocks |-> IF start_index < b /\ b < end_index
                                        THEN (lock_bitmask(afterHead, b, FullBlock))[b]
                                        ELSE afterHead[b]]
    IN IF start_index = end_index
       THEN lock_bitmask(blk, start_index, head_mask \cap tail_mask)
       ELSE lock_bitmask(afterBody, end_index, tail_mask)

\* BitAllocator(): memset to 0, then the boot reservation.
Init ==
    \E r \in ReserveRanges :
        /\ bitset_blocks = lock_bit_range([b \in Blocks |-> {}], r[1], r[2])
        /\ reserved = r[1]..(r[1] + r[2] - 1)
        /\ pc = [c \in Callers |-> "idle"]
        /\ start = [c \in Callers |-> 0] /\ i = [c \in Callers |-> 0]
        /\ bits = [c \in Callers |-> {}] /\ j = [c \in Callers |-> 0]
        /\ held = [c \in Callers |-> {}]
        /\ result = [c \in Callers |-> NoResult]

(***************************************************************************)
(* Faulty variants, each a slip the C code could make (PROJECT.json,      *)
(* mutants).                                                               *)
(***************************************************************************)
\* The claim written with a plain store instead of the compare-and-swap.
ClaimBit_store(c, b, bit) ==
    /\ bitset_blocks' = [bitset_blocks EXCEPT ![b] = bits[c] \cup {bit}]
    /\ held' = [held EXCEPT ![c] = @ \cup {b * BlockBits + bit}]
    /\ result' = [result EXCEPT ![c] = b * BlockBits + bit]
    /\ pc' = [pc EXCEPT ![c] = "idle"]
    /\ UNCHANGED <<bits, j>>

(***************************************************************************)
(* lock_next_bit(), through PoolAllocator::alloc / alloc_index.           *)
(***************************************************************************)
\* `start_block_index = prand() % max_blocks`: prand's seed is shared with
\* the page allocator's callers, so any block may be the start.
AllocStart(c) ==
    /\ pc[c] = "idle"
    /\ \E s \in Blocks : start' = [start EXCEPT ![c] = s] /\ i' = [i EXCEPT ![c] = s]
    /\ pc' = [pc EXCEPT ![c] = "read"]
    /\ UNCHANGED <<bitset_blocks, bits, j, held, result, reserved>>

Return(c, r) ==
    /\ result' = [result EXCEPT ![c] = r]
    /\ pc' = [pc EXCEPT ![c] = "idle"]

\* Top of the outer loop: `bits = bitset_blocks[i % max_blocks]`, or the
\* loop ends after max_blocks blocks and -1 is returned.
ReadBlock(c) ==
    /\ pc[c] = "read"
    /\ IF i[c] < start[c] + max_blocks
       THEN /\ bits' = [bits EXCEPT ![c] = bitset_blocks[i[c] % max_blocks]]
            /\ j' = [j EXCEPT ![c] = 0]
            /\ pc' = [pc EXCEPT ![c] = "cas"]
            /\ UNCHANGED result
       ELSE Return(c, -1) /\ UNCHANGED <<bits, j>>
    /\ UNCHANGED <<bitset_blocks, start, i, held, reserved>>

\* `bits = __sync_val_compare_and_swap(&bitset_blocks[block_index], bits,
\* new_bits)`: on success return the bit, else retry with the value read.
ClaimBit(c, b, bit) ==
    IF bitset_blocks[b] = bits[c]
    THEN /\ bitset_blocks' = [bitset_blocks EXCEPT ![b] = bits[c] \cup {bit}]
         /\ held' = [held EXCEPT ![c] = @ \cup {b * BlockBits + bit}]
         /\ Return(c, b * BlockBits + bit)
         /\ UNCHANGED <<bits, j>>
    ELSE /\ bits' = [bits EXCEPT ![c] = bitset_blocks[b]]
         /\ j' = [j EXCEPT ![c] = @ + 1]
         /\ UNCHANGED <<bitset_blocks, held, result, pc>>

\* Faulty: the retry bound tested with `<=`.
InnerLoopGoes_le(c) == j[c] <= CasTries /\ bits[c] # FullBlock

\* `(j < 32) && (bits != -1)`
InnerLoopGoes(c) == j[c] < CasTries /\ bits[c] # FullBlock

\* The inner loop while `j < 32 && bits != -1`: take the lowest clear bit
\* (bitscan_forward(~bits)); `final_index = bit_index + (i * 32)` checked
\* against max_bits; then the CAS, which claims the bit or reloads bits.
\* When the inner loop ends the outer loop moves on to i + 1.
CasStep(c) ==
    LET b == i[c] % max_blocks
        bit == Min(FullBlock \ bits[c])
    IN /\ pc[c] = "cas"
       /\ \/ /\ ~InnerLoopGoes(c)
             /\ i' = [i EXCEPT ![c] = @ + 1]
             /\ pc' = [pc EXCEPT ![c] = "read"]
             /\ UNCHANGED <<bitset_blocks, bits, j, held, result>>
          \/ /\ InnerLoopGoes(c)
             /\ bit + i[c] * BlockBits >= NBits
             /\ Return(c, -1)
             /\ UNCHANGED <<bitset_blocks, i, bits, j, held>>
          \/ /\ InnerLoopGoes(c)
             /\ bit + i[c] * BlockBits < NBits
             /\ ClaimBit(c, b, bit)
             /\ UNCHANGED i
       /\ UNCHANGED <<start, reserved>>

\* PoolAllocator::free: index_of, the range check, then unlock_bit:
\* `bitset_blocks[block_index] &= ~(1 << bit_in_block)`.
Free(c, x) ==
    /\ pc[c] = "idle" /\ x \in held[c]
    /\ x >= 0 /\ x < NBits
    /\ bitset_blocks' = [bitset_blocks EXCEPT ![x \div BlockBits] = @ \ {x % BlockBits}]
    /\ held' = [held EXCEPT ![c] = @ \ {x}]
    /\ UNCHANGED <<pc, start, i, bits, j, result, reserved>>

Next ==
    \E c \in Callers :
        \/ AllocStart(c) \/ ReadBlock(c) \/ CasStep(c)
        \/ \E x \in Indices : Free(c, x)

Spec == Init /\ [][Next]_vars

-----------------------------------------------------------------------------
(* No index is held by two callers at once, nor is a reserved one handed  *)
(* out: the CAS on the block snapshot is what keeps two callers that read  *)
(* the same block from claiming the same bit (spec 4.1, Exclusivity).      *)
Exclusive ==
    /\ \A c, d \in Callers : c # d => held[c] \cap held[d] = {}
    /\ \A c \in Callers : held[c] \cap reserved = {}

(* The bitset records exactly the reserved range and the indices callers   *)
(* hold: lock_bit_range sets no bit outside its range and misses none, no  *)
(* claim is lost to a concurrent one, and no padding bit beyond max_bits is *)
(* ever set.                                                               *)
BitsAccounted == SetIndices = reserved \cup UNION {held[c] : c \in Callers}

(* spec 4.1 and 5 (Exclusivity): lock_next_bit returns -1 only when no bit *)
(* is free; N sequential calls succeed on an empty allocator.  Checked     *)
(* with a single caller, as sub_pool is used.                              *)
NoSpuriousFailure ==
    [][\A c \in Callers :
         (pc[c] # "idle" /\ pc'[c] = "idle" /\ result'[c] = -1)
            => SetIndices = Indices]_vars
=============================================================================
