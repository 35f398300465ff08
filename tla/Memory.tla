------------------------------- MODULE Memory -------------------------------
(***************************************************************************)
(* Physical page allocation and page-table maintenance of                 *)
(* system/memory.cpp: virt_alloc_pages, lock_next_page / phys_alloc_page, *)
(* ensure_pte and map_to, over the page allocator's block operations      *)
(* (lock_block, lock_next_block, unlock_block of include/std/bitset.h).    *)
(*                                                                         *)
(* Threads of one user process call syscall_alloc / syscall_alloc_at,     *)
(* which execute `sti()` before virt_alloc_pages, so the timer may switch  *)
(* threads at any shared access.  Each action is one access to shared     *)
(* memory: an xchg of a bitmap block, the store that unlocks a block, the  *)
(* read of a page-directory entry, the store of a PDE, the store of a PTE. *)
(* The bit scanning between them works on the caller's local copy.         *)
(*                                                                         *)
(* Frames are physical page numbers 0..NBlocks*BlockBits-1, grouped in     *)
(* bitmap blocks of BlockBits (32) bits; blocks 0..ReservedBlocks-1 are    *)
(* the kernel's low memory reserved by initialize_memory's lock_bit_range. *)
(* Virtual pages are those of the user region, Span (1024) to a page       *)
(* table; a PTE is written through the self-map into the page table frame  *)
(* the PDE names at that moment, so page tables are modelled as frame      *)
(* contents.  A fresh page-table frame is modelled as zeroed RAM (frames   *)
(* are never freed, so it was never written before).                      *)
(***************************************************************************)
EXTENDS Integers, FiniteSets, FiniteSetsExt

CONSTANTS
    NBlocks,         \* bitmap blocks (max_blocks)
    BlockBits,       \* frames per block (32)
    ReservedBlocks,  \* blocks reserved at boot
    Span,            \* PTEs per page table (1024)
    NDirs,           \* page-directory entries of the user region
    Threads,         \* user threads in syscall_alloc / syscall_alloc_at
    AllocSizes,      \* `pages` arguments
    AllocAtAddrs,    \* `vaddr` arguments of syscall_alloc_at (virtual pages)
    MaxCalls,        \* bound on the number of calls
    UIntMod,         \* 2^32, the range of the uint pages_left (any value above the frame count)
    NoFrame          \* a not-present entry

ASSUME /\ ReservedBlocks \in 1..NBlocks /\ Span \in Nat \ {0} /\ NDirs \in Nat \ {0}
       /\ AllocSizes \subseteq Nat /\ MaxCalls \in Nat

Blocks == 0..(NBlocks - 1)
FullBlock == 0..(BlockBits - 1)
Frames == 0..(NBlocks * BlockBits - 1)
ReservedFrames == 0..(ReservedBlocks * BlockBits - 1)
Dirs == 0..(NDirs - 1)
VPages == 0..(NDirs * Span - 1)
Slots == 0..(Span - 1)
\* `block_index * 32 * 4096`, advanced with testbit.
FrameOf(b, bit) == b * BlockBits + bit
DirOf(v) == v \div Span
\* `virt_addr_ptr++`: the address is a uint and wraps at the top of the
\* address space, here the top of VPages.
NextPage(v) == (v + 1) % (NDirs * Span)

VARIABLES
    blocks,      \* page_allocator->bitset_blocks
    pde,         \* the PDEs of the user region: dir -> table frame or NoFrame
    tbl,         \* page-table frames' contents: frame -> slot -> frame or NoFrame
    vptr,        \* virt_alloc_ptr, as a virtual page number
    calls,       \* number of calls made (bounded by MaxCalls)
    pc,          \* thread -> program point
    addr,        \* thread -> `address` of its virt_alloc_pages call
    vp,          \* thread -> virt_addr_ptr
    left,        \* thread -> pages_left (uint)
    blk,         \* thread -> the block virt_alloc_pages holds
    lbits,       \* thread -> its locked_bits
    scan,        \* thread -> loop index of the lock_next_block in progress
    frame,       \* thread -> phys_addr_ptr of the page being mapped
    pblk,        \* thread -> the block lock_next_page holds
    pbits,       \* thread -> lock_next_page's locked_bits
    tframe,      \* thread -> the page-table frame ensure_pte allocated
    cmap,        \* thread -> <<vpage, frame>> mapped by its call: ghost
    owned,       \* <<vpage, frame>> of calls that returned the address: ghost
    req          \* thread -> the `pages` of its call: ghost

vars == <<blocks, pde, tbl, vptr, calls, pc, addr, vp, left, blk, lbits, scan,
          frame, pblk, pbits, tframe, cmap, owned, req>>

PCs == {"idle", "va_lnb", "va_bit", "pde_check", "lnp_lnb", "lnp_unlock",
        "pde_write", "pte_write", "va_unlock"}

\* The PTE of a virtual page as the MMU sees it.
PteOf(v) == IF pde[DirOf(v)] = NoFrame THEN NoFrame ELSE tbl[pde[DirOf(v)]][v % Span]

TypeOK ==
    /\ blocks \in [Blocks -> SUBSET FullBlock]
    /\ pde \in [Dirs -> Frames \cup {NoFrame}]
    /\ tbl \in [Frames -> [Slots -> Frames \cup {NoFrame}]]
    /\ vptr \in Nat /\ calls \in 0..MaxCalls
    /\ pc \in [Threads -> PCs]
    /\ addr \in [Threads -> Nat] /\ vp \in [Threads -> Nat]
    /\ left \in [Threads -> 0..(UIntMod - 1)]
    /\ blk \in [Threads -> Blocks] /\ lbits \in [Threads -> SUBSET FullBlock]
    /\ scan \in [Threads -> 0..NBlocks] /\ frame \in [Threads -> Frames]
    /\ pblk \in [Threads -> Blocks] /\ pbits \in [Threads -> SUBSET FullBlock]
    /\ tframe \in [Threads -> Frames]
    /\ req \in [Threads -> AllocSizes \cup {0}]
    /\ cmap \in [Threads -> SUBSET (Nat \X Frames)]
    /\ owned \subseteq Nat \X Frames

\* After initialize_memory: the reserved blocks are full, the rest free;
\* no page table of the user region exists yet.
Init ==
    /\ blocks = [b \in Blocks |-> IF b < ReservedBlocks THEN FullBlock ELSE {}]
    /\ pde = [d \in Dirs |-> NoFrame]
    /\ tbl = [f \in Frames |-> [s \in Slots |-> NoFrame]]
    /\ vptr = 0 /\ calls = 0
    /\ pc = [t \in Threads |-> "idle"]
    /\ addr = [t \in Threads |-> 0] /\ vp = [t \in Threads |-> 0]
    /\ left = [t \in Threads |-> 0]
    /\ blk = [t \in Threads |-> 0] /\ lbits = [t \in Threads |-> {}]
    /\ scan = [t \in Threads |-> 0] /\ frame = [t \in Threads |-> 0]
    /\ pblk = [t \in Threads |-> 0] /\ pbits = [t \in Threads |-> {}]
    /\ tframe = [t \in Threads |-> 0]
    /\ cmap = [t \in Threads |-> {}] /\ owned = {}
    /\ req = [t \in Threads |-> 0]

(***************************************************************************)
(* Shared helpers.                                                         *)
(***************************************************************************)
\* Faulty: the block read instead of swapped.
lock_block_peek(t) == blocks' = blocks

\* One iteration of lock_next_block's loop at block i = scan[t]:
\* lock_block is `atomic_swap(&bitset_blocks[i], -1)`, which returns the
\* old value; a value other than -1 ends the loop with block i locked.
lock_block(t) == blocks' = [blocks EXCEPT ![scan[t]] = FullBlock]
Swapped(t) == blocks[scan[t]]
ScanGoes(t) == scan[t] < NBlocks

\* `block_index = prand() % 256`: prand's state is shared by all callers, so
\* any block below 256 (all blocks of the model) may be the start.
StartScan(t) == \E s \in Blocks : scan' = [scan EXCEPT ![t] = s]

(***************************************************************************)
(* virt_alloc_pages(pages, address, attributes), entered from             *)
(* syscall_alloc (address = next_virtual_pages(pages), an atomic_add_limit *)
(* on virt_alloc_ptr) or syscall_alloc_at (address given by the user).    *)
(***************************************************************************)
VaStart(t, n, a) ==
    /\ pc[t] = "idle" /\ calls < MaxCalls
    /\ addr' = [addr EXCEPT ![t] = a] /\ vp' = [vp EXCEPT ![t] = a]
    /\ left' = [left EXCEPT ![t] = n % UIntMod]
    /\ StartScan(t)
    /\ cmap' = [cmap EXCEPT ![t] = {}]
    /\ req' = [req EXCEPT ![t] = n]
    /\ calls' = calls + 1
    /\ pc' = [pc EXCEPT ![t] = "va_lnb"]
    /\ UNCHANGED <<blocks, pde, tbl, blk, lbits, frame, pblk, pbits, tframe, owned>>

SysAlloc(t, n) ==
    /\ vptr + n <= NDirs * Span
    /\ vptr' = vptr + n
    /\ VaStart(t, n, vptr)

SysAllocAt(t, n, a) == VaStart(t, n, a) /\ UNCHANGED vptr

\* `return nullptr`, with whatever the caller still holds left as it is.
VaFail(t) ==
    /\ pc' = [pc EXCEPT ![t] = "idle"]
    /\ UNCHANGED <<pde, tbl, vptr, calls, addr, vp, left, blk, lbits, frame,
                   pblk, pbits, tframe, cmap, owned, req>>

\* `while ((block_index = lock_next_block(&locked_bits, block_index)))`:
\* a locked block other than 0 enters the loop body; block 0, or the end of
\* the scan (lock_next_block returns 0), ends the call with nullptr.
VaLockNext(t) ==
    /\ pc[t] = "va_lnb"
    /\ \/ /\ ScanGoes(t) /\ lock_block(t)
          /\ IF Swapped(t) # FullBlock
             THEN /\ blk' = [blk EXCEPT ![t] = scan[t]]
                  /\ lbits' = [lbits EXCEPT ![t] = Swapped(t)]
                  /\ pc' = [pc EXCEPT ![t] = IF scan[t] = 0 THEN "idle" ELSE "va_bit"]
                  /\ UNCHANGED scan
             ELSE /\ scan' = [scan EXCEPT ![t] = @ + 1]
                  /\ UNCHANGED <<blk, lbits, pc, req>>
          /\ UNCHANGED <<pde, tbl, vptr, calls, addr, vp, left, frame, pblk,
                         pbits, tframe, cmap, owned, req>>
       \/ ~ScanGoes(t) /\ VaFail(t) /\ UNCHANGED <<blocks, scan, req>>

\* The inner `while (locked_bits != -1)`: testbit walks up from bit 0, so
\* the next page mapped is the lowest clear bit of the local locked_bits;
\* a full block goes back to lock_next_block from the same block_index.
VaNextBit(t) ==
    /\ pc[t] = "va_bit"
    /\ IF lbits[t] = FullBlock
       THEN /\ scan' = [scan EXCEPT ![t] = blk[t]]
            /\ pc' = [pc EXCEPT ![t] = "va_lnb"]
            /\ UNCHANGED frame
       ELSE /\ frame' = [frame EXCEPT ![t] = FrameOf(blk[t], Min(FullBlock \ lbits[t]))]
            /\ pc' = [pc EXCEPT ![t] = "pde_check"]
            /\ UNCHANGED scan
    /\ UNCHANGED <<blocks, pde, tbl, vptr, calls, addr, vp, left, blk, lbits,
                   pblk, pbits, tframe, cmap, owned, req>>

(***************************************************************************)
(* map_to(virt_addr_ptr, phys_addr_ptr) and ensure_pte.                   *)
(***************************************************************************)
\* ensure_pte: `if (pde->present == 0)` allocates a page table with
\* phys_alloc_page, which is lock_next_page.
PdeCheck(t) ==
    /\ pc[t] = "pde_check"
    /\ IF pde[DirOf(vp[t])] # NoFrame
       THEN pc' = [pc EXCEPT ![t] = "pte_write"] /\ UNCHANGED scan
       ELSE pc' = [pc EXCEPT ![t] = "lnp_lnb"] /\ StartScan(t)
    /\ UNCHANGED <<blocks, pde, tbl, vptr, calls, addr, vp, left, blk, lbits,
                   frame, pblk, pbits, tframe, cmap, owned, req>>

\* lock_next_page's lock_next_block; when the scan ends with locked_bits
\* still -1 it returns 0, so phys_alloc_page yields physical page 0.
LnpLockNext(t) ==
    /\ pc[t] = "lnp_lnb"
    /\ \/ /\ ScanGoes(t) /\ lock_block(t)
          /\ IF Swapped(t) # FullBlock
             THEN /\ pblk' = [pblk EXCEPT ![t] = scan[t]]
                  /\ pbits' = [pbits EXCEPT ![t] = Swapped(t)]
                  /\ pc' = [pc EXCEPT ![t] = "lnp_unlock"]
                  /\ UNCHANGED scan
             ELSE /\ scan' = [scan EXCEPT ![t] = @ + 1]
                  /\ UNCHANGED <<pblk, pbits, pc, req>>
          /\ UNCHANGED tframe
       \/ /\ ~ScanGoes(t)
          /\ tframe' = [tframe EXCEPT ![t] = 0]
          /\ pc' = [pc EXCEPT ![t] = "pde_write"]
          /\ UNCHANGED <<blocks, scan, pblk, pbits, req>>
    /\ UNCHANGED <<pde, tbl, vptr, calls, addr, vp, left, blk, lbits, frame, cmap, owned, req>>

\* Faulty: the block unlocked with the value it was locked with.
LnpUnlock_nomark(t) ==
    /\ pc[t] = "lnp_unlock"
    /\ blocks' = [blocks EXCEPT ![pblk[t]] = pbits[t]]
    /\ tframe' = [tframe EXCEPT ![t] = FrameOf(pblk[t], Min(FullBlock \ pbits[t]))]
    /\ pc' = [pc EXCEPT ![t] = "pde_write"]
    /\ UNCHANGED <<pde, tbl, vptr, calls, addr, vp, left, blk, lbits, scan,
                   frame, pblk, pbits, cmap, owned, req>>

\* `bit_index = bitscan_forward(~locked_bits)`, `locked_bits |= bitmask`,
\* `unlock_block(locked_bits, locked_index)`.
LnpUnlock(t) ==
    LET bit == Min(FullBlock \ pbits[t]) IN
    /\ pc[t] = "lnp_unlock"
    /\ blocks' = [blocks EXCEPT ![pblk[t]] = pbits[t] \cup {bit}]
    /\ tframe' = [tframe EXCEPT ![t] = FrameOf(pblk[t], bit)]
    /\ pc' = [pc EXCEPT ![t] = "pde_write"]
    /\ UNCHANGED <<pde, tbl, vptr, calls, addr, vp, left, blk, lbits, scan,
                   frame, pblk, pbits, cmap, owned, req>>

\* `pde->val = (uint) phys_alloc_page() | attributes`, whatever the PDE
\* holds by now.
PdeWrite(t) ==
    /\ pc[t] = "pde_write"
    /\ pde' = [pde EXCEPT ![DirOf(vp[t])] = tframe[t]]
    /\ pc' = [pc EXCEPT ![t] = "pte_write"]
    /\ UNCHANGED <<blocks, tbl, vptr, calls, addr, vp, left, blk, lbits, scan,
                   frame, pblk, pbits, tframe, cmap, owned, req>>

\* Faulty: the page number, not its bit in the block, or-ed into
\* locked_bits.
PteWrite_frame(t) ==
    LET d == pde[DirOf(vp[t])]
        newleft == (left[t] - 1) % UIntMod
    IN /\ pc[t] = "pte_write"
       /\ tbl' = [tbl EXCEPT ![d][vp[t] % Span] = frame[t]]
       /\ lbits' = [lbits EXCEPT ![t] = @ \cup {frame[t]}]
       /\ cmap' = [cmap EXCEPT ![t] = @ \cup {<<vp[t], frame[t]>>}]
       /\ vp' = [vp EXCEPT ![t] = NextPage(@)]
       /\ left' = [left EXCEPT ![t] = newleft]
       /\ pc' = [pc EXCEPT ![t] = IF newleft = 0 THEN "va_unlock" ELSE "va_bit"]
       /\ UNCHANGED <<blocks, pde, vptr, calls, addr, blk, scan, frame,
                      pblk, pbits, tframe, owned, req>>

\* Faulty: `locked_bits |= testbit` left out.
PteWrite_nomark(t) ==
    LET d == pde[DirOf(vp[t])]
        newleft == (left[t] - 1) % UIntMod
    IN /\ pc[t] = "pte_write"
       /\ tbl' = [tbl EXCEPT ![d][vp[t] % Span] = frame[t]]
       /\ cmap' = [cmap EXCEPT ![t] = @ \cup {<<vp[t], frame[t]>>}]
       /\ vp' = [vp EXCEPT ![t] = NextPage(@)]
       /\ left' = [left EXCEPT ![t] = newleft]
       /\ pc' = [pc EXCEPT ![t] = IF newleft = 0 THEN "va_unlock" ELSE "va_bit"]
       /\ UNCHANGED <<blocks, pde, vptr, calls, addr, blk, lbits, scan, frame,
                      pblk, pbits, tframe, owned, req>>

\* Faulty: `pages_left` tested before it is decremented, one page late.
PteWrite_late(t) ==
    LET d == pde[DirOf(vp[t])]
        newleft == (left[t] - 1) % UIntMod
    IN /\ pc[t] = "pte_write"
       /\ tbl' = [tbl EXCEPT ![d][vp[t] % Span] = frame[t]]
       /\ lbits' = [lbits EXCEPT ![t] = @ \cup {frame[t] % BlockBits}]
       /\ cmap' = [cmap EXCEPT ![t] = @ \cup {<<vp[t], frame[t]>>}]
       /\ vp' = [vp EXCEPT ![t] = NextPage(@)]
       /\ left' = [left EXCEPT ![t] = newleft]
       /\ pc' = [pc EXCEPT ![t] = IF left[t] = 0 THEN "va_unlock" ELSE "va_bit"]
       /\ UNCHANGED <<blocks, pde, vptr, calls, addr, blk, scan, frame,
                      pblk, pbits, tframe, owned, req>>

\* `pte->val = (uint) p_addr | attributes`, written through the self-map
\* into the table the PDE names now; back in virt_alloc_pages:
\* `locked_bits |= testbit; virt_addr_ptr++; pages_left--` and the test
\* `pages_left <= 0` (uint, so == 0).
PteWrite(t) ==
    LET d == pde[DirOf(vp[t])]
        newleft == (left[t] - 1) % UIntMod
    IN /\ pc[t] = "pte_write"
       /\ tbl' = [tbl EXCEPT ![d][vp[t] % Span] = frame[t]]
       /\ lbits' = [lbits EXCEPT ![t] = @ \cup {frame[t] % BlockBits}]
       /\ cmap' = [cmap EXCEPT ![t] = @ \cup {<<vp[t], frame[t]>>}]
       /\ vp' = [vp EXCEPT ![t] = NextPage(@)]
       /\ left' = [left EXCEPT ![t] = newleft]
       /\ pc' = [pc EXCEPT ![t] = IF newleft = 0 THEN "va_unlock" ELSE "va_bit"]
       /\ UNCHANGED <<blocks, pde, vptr, calls, addr, blk, scan, frame,
                      pblk, pbits, tframe, owned, req>>

\* `page_allocator->unlock_block(locked_bits, block_index); return address`.
VaUnlock(t) ==
    /\ pc[t] = "va_unlock"
    /\ blocks' = [blocks EXCEPT ![blk[t]] = lbits[t]]
    /\ owned' = owned \cup cmap[t]
    /\ pc' = [pc EXCEPT ![t] = "idle"]
    /\ UNCHANGED <<pde, tbl, vptr, calls, addr, vp, left, blk, lbits, scan,
                   frame, pblk, pbits, tframe, cmap, req>>

\* A new syscall_alloc or syscall_alloc_at call, within the bounds.
Call(t) ==
    \/ \E n \in AllocSizes : SysAlloc(t, n)
    \/ \E n \in AllocSizes, a \in AllocAtAddrs : a + n <= NDirs * Span /\ SysAllocAt(t, n, a)

\* The model's end: every call returned and no further call fits the bounds
\* (MaxCalls, the user region).  The threads could go on calling; the
\* bounds stop them, so this is not a deadlock.
CallsSpent ==
    /\ \A t \in Threads : pc[t] = "idle"
    /\ ~ENABLED (\E t \in Threads : Call(t))
    /\ UNCHANGED vars

Next ==
    \E t \in Threads :
        \/ Call(t) \/ VaLockNext(t) \/ VaNextBit(t) \/ PdeCheck(t) \/ LnpLockNext(t)
        \/ LnpUnlock(t) \/ PdeWrite(t) \/ PteWrite(t) \/ VaUnlock(t)
    \/ CallsSpent

Spec == Init /\ [][Next]_vars

-----------------------------------------------------------------------------
\* Blocks a thread holds locked (value -1 in the bitmap, real bits local).
HeldBlocks(t) ==
    (IF pc[t] \in {"va_bit", "pde_check", "lnp_lnb", "lnp_unlock", "pde_write",
                   "pte_write", "va_unlock"} THEN {blk[t]} ELSE {})
    \cup (IF pc[t] = "lnp_unlock" THEN {pblk[t]} ELSE {})

Used(f) == f % BlockBits \in blocks[f \div BlockBits]
TableFrames == {pde[d] : d \in {e \in Dirs : pde[e] # NoFrame}}
MappedPages == {v \in VPages : PteOf(v) # NoFrame}

(* The xchg in lock_block is the only lock on a bitmap block: a block      *)
(* held by virt_alloc_pages or lock_next_page reads -1 until its holder's  *)
(* unlock_block, and no two threads hold the same block, even while a      *)
(* thread holding one block scans for a page-table page.                   *)
BlockLockExclusive ==
    /\ \A t \in Threads : \A b \in HeldBlocks(t) : blocks[b] = FullBlock
    /\ \A t, u \in Threads : t # u => HeldBlocks(t) \cap HeldBlocks(u) = {}

(* Every frame a PDE or a present PTE refers to is marked used in the      *)
(* page bitmap: unlock_block publishes each bit taken by virt_alloc_pages   *)
(* and lock_next_page, so no frame in use can be handed out again.         *)
BitmapCoversFrames ==
    /\ \A f \in TableFrames : Used(f)
    /\ \A v \in MappedPages : Used(PteOf(v))

(* spec 5 (Exclusivity) for physical pages: two mapped virtual pages never *)
(* share a frame, and no page table is also a data page.                  *)
FramesExclusive ==
    /\ \A v, w \in MappedPages : v # w => PteOf(v) # PteOf(w)
    /\ \A v \in MappedPages : PteOf(v) \notin TableFrames

(* virt_alloc_pages(pages, address) maps only pages of its own range      *)
(* [address, address + pages): its loop stops when the uint pages_left    *)
(* reaches 0, never after more than `pages` PTE stores, whichever thread  *)
(* interleaves with it and however its bit scan wraps.                    *)
AllocWithinRequest ==
    \A t \in Threads : \A m \in cmap[t] :
        (m[1] - addr[t]) % (NDirs * Span) \in 0..(req[t] - 1)

(* An address returned by virt_alloc_pages stays mapped to the frames it   *)
(* was given: syscall_alloc's caller owns those pages (spec 4.2).          *)
AllocationsStayMapped == \A m \in owned : PteOf(m[1]) = m[2]
====
