------------------------------ MODULE LockSpec ------------------------------
(***************************************************************************)
(* What a kernel Lock promises (spec.md, locks): a mutex per lock object   *)
(* whose blocked threads are granted it in first-come first-served order.  *)
(* The owner may lock again without blocking (no recursion count), and     *)
(* release hands the lock straight to the longest waiter.  Kernel.tla      *)
(* implements this with the owner/next/lock_next pointers of process.cpp.  *)
(***************************************************************************)
EXTENDS Sequences, SequencesExt

CONSTANTS
    LockIds,     \* every lock object of every process
    Threads,     \* every thread slot of every process
    NoThread     \* the null thread pointer

VARIABLES
    owner,       \* owner[l]: the thread holding l, or NoThread
    waiting      \* waiting[l]: the threads blocked on l, oldest first

vars == <<owner, waiting>>

TypeOK ==
    /\ owner \in [LockIds -> Threads \cup {NoThread}]
    /\ waiting \in [LockIds -> Seq(Threads)]

Init ==
    /\ owner = [l \in LockIds |-> NoThread]
    /\ waiting = [l \in LockIds |-> <<>>]

\* t takes a free lock, or locks again a lock it already owns.
Acquire(t, l) ==
    /\ owner[l] \in {t, NoThread}
    /\ owner' = [owner EXCEPT ![l] = t]
    /\ UNCHANGED waiting

\* t finds the lock held by another thread and joins the end of the queue.
Block(t, l) ==
    /\ owner[l] \notin {t, NoThread}
    /\ t \notin ToSet(waiting[l])
    /\ waiting' = [waiting EXCEPT ![l] = Append(@, t)]
    /\ UNCHANGED owner

\* The lock passes to the oldest waiter, or becomes free.
Release(l) ==
    /\ owner[l] # NoThread
    /\ owner' = [owner EXCEPT ![l] = IF waiting[l] = <<>> THEN NoThread
                                                        ELSE Head(waiting[l])]
    /\ waiting' = [waiting EXCEPT ![l] = IF @ = <<>> THEN @ ELSE Tail(@)]

Next ==
    \/ \E t \in Threads, l \in LockIds : Acquire(t, l) \/ Block(t, l)
    \/ \E l \in LockIds : Release(l)

Spec == Init /\ [][Next]_vars

=============================================================================
