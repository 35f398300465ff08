------------------------------- MODULE Kernel -------------------------------
(***************************************************************************)
(* Threads, locks, monitors and the timer scheduler of the kernel          *)
(* (system/process.cpp, system/scheduler.cpp, system/threads.cpp).         *)
(*                                                                         *)
(* One CPU.  Only the current thread, threads[proc_id][thread_index],      *)
(* takes steps; the timer interrupt (Tick) may switch threads between any  *)
(* two of them, because each step below is one stretch of code that runs   *)
(* with interrupts disabled (a syscall, or code between cli and sti) and   *)
(* the gaps between steps are the places where interrupts are enabled.     *)
(*                                                                         *)
(* Process 0 is the kernel: thread 0 is the boot thread, parked WAITING in *)
(* SPINHLT, thread 1 is the event thread of enter_event_loop.  Every other *)
(* process is a user process whose threads call the lock, monitor and      *)
(* notify syscalls on their own process's objects, in any order a program *)
(* could, unlocking only what they own.  Input interrupts post kernel      *)
(* messages (new_user_event and friends).                                  *)
(***************************************************************************)
EXTENDS Integers, Sequences, FiniteSets, FiniteSetsExt, SequencesExt

CONSTANTS
    NP,            \* num_procs: processes 0..NP-1, 0 is the kernel
    NT,            \* MAX_PROC_THREADS, scaled down
    LockHandles,   \* lock handles a user program passes to syscall_lock
    MonHandles,    \* monitor handles a user program passes to syscall_monitor
    MSG_MONITOR,   \* the message monitor every process has (events.h)
    Diffs,         \* diff arguments of monitor and notify
    NoThread,      \* the null Thread pointer
    NoHandle,      \* "no operation in progress"
    UIntMod,       \* 2^32 for the uint num_running_threads, scaled down
    MaxSignal,     \* bound on a monitor signal raised by notify
    MaxMsgs        \* bound on kernel messages queued and not yet consumed

ASSUME /\ NP \in Nat \ {0, 1} /\ NT \in Nat \ {0, 1}
       /\ MSG_MONITOR \notin MonHandles /\ LockHandles \cap MonHandles = {}
       /\ Diffs \subseteq Nat /\ UIntMod > NT

Procs == 0..(NP - 1)
Tids == 0..(NT - 1)
Threads == Procs \X Tids
UserProcs == Procs \ {0}
BootThread == <<0, 0>>
EventThread == <<0, 1>>
AllMonitors == MonHandles \cup {MSG_MONITOR}
\* A monitor's lock is named by the monitor's handle.
LockObjs == LockHandles \cup AllMonitors
LockKeys == Procs \X LockObjs
MonKeys == Procs \X AllMonitors
RunStates == {"NULL", "RUNNING", "WAITING"}

VARIABLES
    runState,      \* Thread::runState
    num_running,   \* Process::num_running_threads (uint)
    owner,         \* Lock::owner
    lnext,         \* Lock::next, head of the wait list
    lock_next,     \* Thread::lock_next, the wait list links
    signal,        \* Monitor::signal
    signal_wait,   \* Thread::signal_wait: the monitor it sleeps on, or NoHandle
    proc_id,       \* proc_id
    thread_index,  \* Process::thread_index
    pc,            \* where each thread is in its code
    op,            \* the lock or monitor handle of the call in progress
    opdiff,        \* the diff argument of the monitor call in progress
    cs,            \* the locks each thread has returned from locking: ghost
    kmsgs          \* kernel messages enqueued and not yet consumed

vars == <<runState, num_running, owner, lnext, lock_next, signal, signal_wait,
          proc_id, thread_index, pc, op, opdiff, cs, kmsgs>>

PCs == {"idle", "user", "ev_loop", "ev_run", "lock_wait", "mon_lock_wait",
        "mon_check", "mon_setwait", "mon_sleep", "mon_wait"}

UInc(x) == (x + 1) % UIntMod
UDec(x) == (x - 1 + UIntMod) % UIntMod

\* The thread executing now.
Cur == <<proc_id, thread_index[proc_id]>>

\* Where a thread goes when monitor() returns.
AfterMonitor(t) == IF t = EventThread THEN "ev_run" ELSE "user"

\* The wait list of a lock, following lock_next from Lock::next; it is cut
\* off after |Threads| + 1 nodes so that a cycle shows as an overlong list.
RECURSIVE ChainFrom(_, _)
ChainFrom(n, k) ==
    IF n = NoThread \/ k = 0 THEN <<>> ELSE <<n>> \o ChainFrom(lock_next[n], k - 1)
WaitList(k) == ChainFrom(lnext[k], Cardinality(Threads) + 1)

TypeOK ==
    /\ runState \in [Threads -> RunStates]
    /\ num_running \in [Procs -> 0..(UIntMod - 1)]
    /\ owner \in [LockKeys -> Threads \cup {NoThread}]
    /\ lnext \in [LockKeys -> Threads \cup {NoThread}]
    /\ lock_next \in [Threads -> Threads \cup {NoThread}]
    /\ signal \in [MonKeys -> Int]
    /\ signal_wait \in [Threads -> MonKeys \cup {NoHandle}]
    /\ proc_id \in Procs /\ thread_index \in [Procs -> Tids]
    /\ pc \in [Threads -> PCs] /\ op \in [Threads -> LockObjs \cup {NoHandle}]
    /\ opdiff \in [Threads -> Diffs \cup {0}]
    /\ cs \in [Threads -> SUBSET LockObjs] /\ kmsgs \in Nat

(***************************************************************************)
(* A state the kernel reaches after boot: init_processes and init_events *)
(* ran, the boot thread parked WAITING in SPINHLT (main.cpp), the event   *)
(* thread ran the spawn callbacks (new_user_process, new_user_thread: one *)
(* RUNNING thread per user process) and the REDRAW message, is back at    *)
(* the top of enter_event_loop, and one input message has been posted     *)
(* since; the timer has just switched to the event thread.                *)
(***************************************************************************)
Init ==
    /\ runState = [t \in Threads |->
                     IF t = BootThread THEN "WAITING"
                     ELSE IF t = EventThread \/ (t[1] # 0 /\ t[2] = 0)
                          THEN "RUNNING" ELSE "NULL"]
    /\ num_running = [p \in Procs |-> 1]
    /\ owner = [k \in LockKeys |-> NoThread]
    /\ lnext = [k \in LockKeys |-> NoThread]
    /\ lock_next = [t \in Threads |-> NoThread]
    /\ signal = [k \in MonKeys |-> IF k = <<0, MSG_MONITOR>> THEN 1 ELSE 0]
    /\ signal_wait = [t \in Threads |-> NoHandle]
    /\ proc_id = 0 /\ thread_index = [p \in Procs |-> IF p = 0 THEN 1 ELSE 0]
    /\ pc = [t \in Threads |-> IF t = BootThread THEN "idle"
                               ELSE IF t = EventThread THEN "ev_loop" ELSE "user"]
    /\ op = [t \in Threads |-> NoHandle] /\ opdiff = [t \in Threads |-> 0]
    /\ cs = [t \in Threads |-> {}]
    /\ kmsgs = 1

(***************************************************************************)
(* Faulty variants of the operations below, each a slip the C code could  *)
(* easily make; every property checked in a passing run is violated by   *)
(* one of them (see PROJECT.json, mutants).                                *)
(***************************************************************************)
\* lock() deciding "free" by the empty wait list instead of the owner.
LockFreeIfNoWaiters(t, k, ret) ==
    /\ lnext[k] = NoThread
    /\ owner' = [owner EXCEPT ![k] = t]
    /\ pc' = [pc EXCEPT ![t] = ret]
    /\ cs' = [cs EXCEPT ![t] = @ \cup {k[2]}]
    /\ UNCHANGED <<lnext, lock_next, runState, num_running>>

\* lock() pushing the caller at the head of the wait list.
LockBlockAtHead(t, k, wait) ==
    /\ owner[k] \notin {t, NoThread}
    /\ lnext' = [lnext EXCEPT ![k] = t]
    /\ lock_next' = [lock_next EXCEPT ![t] = lnext[k]]
    /\ runState' = [runState EXCEPT ![t] = "WAITING"]
    /\ num_running' = [num_running EXCEPT ![k[1]] = UDec(@)]
    /\ pc' = [pc EXCEPT ![t] = wait]
    /\ UNCHANGED <<owner, cs>>

\* unlock() without `lock->next = lock->owner->lock_next`.
UnlockKeepHead(k) ==
    LET n == lnext[k] IN
    /\ owner' = [owner EXCEPT ![k] = n]
    /\ IF n # NoThread
       THEN /\ runState' = [runState EXCEPT ![n] = "RUNNING"]
            /\ lock_next' = [lock_next EXCEPT ![n] = NoThread]
            /\ UNCHANGED lnext
       ELSE UNCHANGED <<runState, lnext, lock_next>>

\* notify() waking the owner without clearing its signal_wait.
NotifyKeepWait(k, d) ==
    LET s == signal[k] + d
        o == owner[k]
    IN /\ signal' = [signal EXCEPT ![k] = s]
       /\ UNCHANGED signal_wait
       /\ IF s > 0 /\ o # NoThread /\ signal_wait[o] = k
          THEN /\ runState' = [runState EXCEPT ![o] = "RUNNING"]
               /\ num_running' = [num_running EXCEPT ![k[1]] = UInc(@)]
          ELSE UNCHANGED <<runState, num_running>>

(***************************************************************************)
(* Process::lock, process.cpp.  Called with interrupts off (cli, or the   *)
(* syscall entry), so each outcome is one step.  k is <<process, lock>>.  *)
(***************************************************************************)
\* The lock is free or already ours: take it and return.
LockFree(t, k, ret) ==
    /\ owner[k] \in {t, NoThread}
    /\ owner' = [owner EXCEPT ![k] = t]
    /\ pc' = [pc EXCEPT ![t] = ret]
    /\ cs' = [cs EXCEPT ![t] = @ \cup {k[2]}]
    /\ UNCHANGED <<lnext, lock_next, runState, num_running>>

\* Owned by another thread: append to the wait list, sleep, yield.
LockBlock(t, k, wait) ==
    /\ owner[k] \notin {t, NoThread}
    /\ IF lnext[k] = NoThread
       THEN /\ lnext' = [lnext EXCEPT ![k] = t]
            /\ lock_next' = [lock_next EXCEPT ![t] = NoThread]
       ELSE /\ lock_next' = [lock_next EXCEPT ![t] = NoThread,
                                              ![Last(WaitList(k))] = t]
            /\ UNCHANGED lnext
    /\ runState' = [runState EXCEPT ![t] = "WAITING"]
    /\ num_running' = [num_running EXCEPT ![k[1]] = UDec(@)]
    /\ pc' = [pc EXCEPT ![t] = wait]
    /\ UNCHANGED <<owner, cs>>

\* Process::unlock: the head of the wait list becomes the owner and is
\* woken; num_running_threads is left as it is.
Unlock(k) ==
    LET n == lnext[k] IN
    /\ owner' = [owner EXCEPT ![k] = n]
    /\ IF n # NoThread
       THEN /\ runState' = [runState EXCEPT ![n] = "RUNNING"]
            /\ lnext' = [lnext EXCEPT ![k] = lock_next[n]]
            /\ lock_next' = [lock_next EXCEPT ![n] = NoThread]
       ELSE UNCHANGED <<runState, lnext, lock_next>>

\* Process::notify with interrupts off: raise the signal and wake the lock
\* owner if it sleeps on this monitor.
Notify(k, d) ==
    LET s == signal[k] + d
        o == owner[k]
    IN /\ signal' = [signal EXCEPT ![k] = s]
       /\ IF s > 0 /\ o # NoThread /\ signal_wait[o] = k
          THEN /\ signal_wait' = [signal_wait EXCEPT ![o] = NoHandle]
               /\ runState' = [runState EXCEPT ![o] = "RUNNING"]
               /\ num_running' = [num_running EXCEPT ![k[1]] = UInc(@)]
          ELSE UNCHANGED <<signal_wait, runState, num_running>>

\* monitor()'s `mon->signal -= diff; if (mon->signal < 0) mon->signal = 0;`
Consume(k, d) == signal' = [signal EXCEPT ![k] = Max({@ - d, 0})]

(***************************************************************************)
(* Steps of the current thread t, which is RUNNING (a thread that is not  *)
(* RUNNING only spins in yield's hlt loop).                               *)
(***************************************************************************)
Running(t) == t = Cur /\ runState[t] = "RUNNING"

\* syscall_lock -> Process::lock on the caller's own process.
SysLock(t, h) ==
    /\ pc[t] = "user"
    /\ \/ LockFree(t, <<t[1], h>>, "user") /\ UNCHANGED op
       \/ LockBlock(t, <<t[1], h>>, "lock_wait") /\ op' = [op EXCEPT ![t] = h]
    /\ UNCHANGED <<signal, signal_wait, opdiff>>

\* yield() returns in a thread woken by unlock: lock() returns.
LockResume(t) ==
    /\ pc[t] \in {"lock_wait", "mon_lock_wait"}
    /\ cs' = [cs EXCEPT ![t] = @ \cup {op[t]}]
    /\ IF pc[t] = "lock_wait"
       THEN pc' = [pc EXCEPT ![t] = "user"] /\ op' = [op EXCEPT ![t] = NoHandle]
       ELSE pc' = [pc EXCEPT ![t] = "mon_check"] /\ UNCHANGED op
    /\ UNCHANGED <<runState, num_running, owner, lnext, lock_next, signal,
                   signal_wait, opdiff>>

\* syscall_unlock -> Process::unlock, by the owner.
SysUnlock(t, h) ==
    /\ pc[t] = "user" /\ owner[<<t[1], h>>] = t
    /\ Unlock(<<t[1], h>>)
    /\ cs' = [cs EXCEPT ![t] = @ \ {h}]
    /\ UNCHANGED <<num_running, signal, signal_wait, pc, op, opdiff>>

\* monitor(m, d): cli, then this->lock(&mon->lock).  User threads call it
\* through syscall_monitor; the event thread calls procs[0].monitor(MSG_MONITOR, 0).
MonitorCall(t, m, d) ==
    LET k == <<t[1], m>> IN
    /\ \/ pc[t] = "user" /\ m \in MonHandles
       \/ pc[t] = "ev_loop" /\ m = MSG_MONITOR /\ d = 0
    /\ op' = [op EXCEPT ![t] = m] /\ opdiff' = [opdiff EXCEPT ![t] = d]
    /\ LockFree(t, k, "mon_check") \/ LockBlock(t, k, "mon_lock_wait")
    /\ UNCHANGED <<signal, signal_wait>>

ResetOp(t) == op' = [op EXCEPT ![t] = NoHandle] /\ opdiff' = [opdiff EXCEPT ![t] = 0]

\* monitor() after lock() returned, interrupts enabled: the signal test,
\* and either the fast path (consume, return) or the start of the wait.
MonCheck(t) ==
    LET k == <<t[1], op[t]>> IN
    /\ pc[t] = "mon_check"
    /\ \/ /\ signal[k] <= 0
          /\ pc' = [pc EXCEPT ![t] = "mon_setwait"]
          /\ UNCHANGED <<signal, op, opdiff>>
       \/ /\ signal[k] > 0
          /\ Consume(k, opdiff[t])
          /\ pc' = [pc EXCEPT ![t] = AfterMonitor(t)]
          /\ ResetOp(t)
    /\ UNCHANGED <<runState, num_running, owner, lnext, lock_next, signal_wait, cs>>

\* `thisThread->signal_wait = &mon->signal;`, interrupts enabled.
MonSetWait(t) ==
    /\ pc[t] = "mon_setwait"
    /\ signal_wait' = [signal_wait EXCEPT ![t] = <<t[1], op[t]>>]
    /\ pc' = [pc EXCEPT ![t] = "mon_sleep"]
    /\ UNCHANGED <<runState, num_running, owner, lnext, lock_next, signal, op,
                   opdiff, cs>>

\* `runState = WAITING; this->num_running_threads--; sti(); yield();`
MonSleep(t) ==
    /\ pc[t] = "mon_sleep"
    /\ runState' = [runState EXCEPT ![t] = "WAITING"]
    /\ num_running' = [num_running EXCEPT ![t[1]] = UDec(@)]
    /\ pc' = [pc EXCEPT ![t] = "mon_wait"]
    /\ UNCHANGED <<owner, lnext, lock_next, signal, signal_wait, op, opdiff, cs>>

\* yield() returns in a thread woken by notify: cli, consume, sti, return.
MonWake(t) ==
    /\ pc[t] = "mon_wait"
    /\ Consume(<<t[1], op[t]>>, opdiff[t])
    /\ pc' = [pc EXCEPT ![t] = AfterMonitor(t)]
    /\ ResetOp(t)
    /\ UNCHANGED <<runState, num_running, owner, lnext, lock_next, signal_wait, cs>>

\* syscall_unmonitor -> Process::unmonitor: unlock the monitor's lock.
SysUnmonitor(t, m) ==
    /\ pc[t] = "user" /\ owner[<<t[1], m>>] = t
    /\ Unlock(<<t[1], m>>)
    /\ cs' = [cs EXCEPT ![t] = @ \ {m}]
    /\ UNCHANGED <<num_running, signal, signal_wait, pc, op, opdiff>>

\* syscall_notify -> Process::notify on the caller's process.
SysNotify(t, m, d) ==
    /\ pc[t] = "user"
    /\ signal[<<t[1], m>>] + d <= MaxSignal
    /\ Notify(<<t[1], m>>, d)
    /\ UNCHANGED <<owner, lnext, lock_next, pc, op, opdiff, cs>>

\* syscall_new_thread -> new_user_thread: the first NULL slot of the
\* caller's process becomes a RUNNING thread.
SysNewThread(t) ==
    LET free == {i \in Tids : runState[<<t[1], i>>] = "NULL"}
        n == <<t[1], Min(free)>>
    IN /\ pc[t] = "user" /\ free # {}
       /\ runState' = [runState EXCEPT ![n] = "RUNNING"]
       /\ num_running' = [num_running EXCEPT ![t[1]] = UInc(@)]
       /\ lock_next' = [lock_next EXCEPT ![n] = NoThread]
       /\ signal_wait' = [signal_wait EXCEPT ![n] = NoHandle]
       /\ pc' = [pc EXCEPT ![n] = "user"]
       /\ UNCHANGED <<owner, lnext, signal, op, opdiff, cs>>

\* enter_event_loop after monitor() returned: each worker consumes what
\* it finds queued and subtracts it from procs[0].msg_signal (the
\* SharedQueue module models a worker step by step); the display worker
\* is throttled by a TSC deadline and may leave its messages for a later
\* round, so any number c of the queued messages is consumed; then yield().
EvRun(t) ==
    LET k == <<0, MSG_MONITOR>> IN
    /\ t = EventThread /\ pc[t] = "ev_run"
    /\ \E c \in 0..kmsgs : /\ signal' = [signal EXCEPT ![k] = @ - c]
                           /\ kmsgs' = kmsgs - c
    /\ pc' = [pc EXCEPT ![t] = "ev_loop"]
    /\ UNCHANGED <<runState, num_running, owner, lnext, lock_next, signal_wait,
                   op, opdiff, cs>>

ThreadStep(t) ==
    \/ \E h \in LockHandles : SysLock(t, h) \/ SysUnlock(t, h)
    \/ \E m \in AllMonitors, d \in Diffs \cup {0} : MonitorCall(t, m, d)
    \/ \E m \in MonHandles : SysUnmonitor(t, m)
    \/ \E m \in MonHandles, d \in Diffs : SysNotify(t, m, d)
    \/ SysNewThread(t)
    \/ LockResume(t) \/ MonCheck(t) \/ MonSetWait(t) \/ MonSleep(t)
    \/ MonWake(t)

(***************************************************************************)
(* An input interrupt posts a kernel message: new_user_event and          *)
(* new_callback_event enqueue, then increment procs[0].msg_signal.       *)
(***************************************************************************)
InputEvent ==
    LET k == <<0, MSG_MONITOR>> IN
    /\ kmsgs < MaxMsgs
    /\ kmsgs' = kmsgs + 1
    /\ signal' = [signal EXCEPT ![k] = @ + 1]
    /\ UNCHANGED <<runState, num_running, owner, lnext, lock_next, signal_wait,
                   proc_id, thread_index, pc, op, opdiff, cs>>

(***************************************************************************)
(* timer_interrupt (scheduler.cpp), one step with interrupts off.         *)
(* get_next_proc notifies procs[0]'s message monitor, then visits the     *)
(* other processes in the order proc_id+1, proc_id+2, ... (the current    *)
(* process is not among them), notifying each one's message monitor with  *)
(* diff 0 and stopping at the first with num_running_threads > 0; if none *)
(* has, it picks process 0.  get_next_thread then picks the next RUNNING  *)
(* thread after thread_index, round robin, or, if there is none, zeroes   *)
(* num_running_threads and keeps thread_index (0 for process 0).          *)
(***************************************************************************)
MsgKey(p) == <<p, MSG_MONITOR>>

\* notify(MSG_MONITOR, 0) on p wakes the owner sleeping on the monitor.
WakesOnMsg(p) ==
    LET o == owner[MsgKey(p)] IN
    signal[MsgKey(p)] > 0 /\ o # NoThread /\ signal_wait[o] = MsgKey(p)

CountAfterNotify(p) == IF WakesOnMsg(p) THEN UInc(num_running[p]) ELSE num_running[p]

RotOrder(i) == (proc_id + i) % NP

\* Loop indices i of get_next_proc at which it would return.
Hits == {i \in 1..(NP - 1) : CountAfterNotify(RotOrder(i)) > 0}

get_next_proc == IF Hits = {} THEN 0 ELSE RotOrder(Min(Hits))

\* The processes whose message monitor get_next_proc notifies and that wake.
Woken ==
    LET last == IF Hits = {} THEN NP - 1 ELSE Min(Hits)
    IN {p \in {0} \cup {RotOrder(i) : i \in 1..last} : WakesOnMsg(p)}

\* Faulty: the loop index used without `% MAX_PROC_THREADS`.
get_next_thread_nowrap(p, rs) ==
    LET offs == {i \in 1..NT : rs[<<p, (thread_index[p] + i) % NT>>] = "RUNNING"}
    IN IF offs = {} THEN IF p = 0 THEN 0 ELSE thread_index[p]
                    ELSE thread_index[p] + Min(offs)

get_next_thread(p, rs) ==
    LET offs == {i \in 1..NT : rs[<<p, (thread_index[p] + i) % NT>>] = "RUNNING"}
    IN IF offs = {} THEN IF p = 0 THEN 0 ELSE thread_index[p]
                    ELSE (thread_index[p] + Min(offs)) % NT

Tick ==
    LET np == get_next_proc
        wt == {owner[MsgKey(p)] : p \in Woken}
        rs == [t \in Threads |-> IF t \in wt THEN "RUNNING" ELSE runState[t]]
        cnt == [p \in Procs |-> IF p \in Woken THEN UInc(num_running[p])
                                             ELSE num_running[p]]
    IN /\ runState' = rs
       /\ signal_wait' = [t \in Threads |-> IF t \in wt THEN NoHandle
                                                       ELSE signal_wait[t]]
       /\ num_running' = IF \E i \in Tids : rs[<<np, i>>] = "RUNNING" THEN cnt
                         ELSE [cnt EXCEPT ![np] = 0]
       /\ proc_id' = np
       /\ thread_index' = [thread_index EXCEPT ![np] = get_next_thread(np, rs)]
       /\ UNCHANGED <<owner, lnext, lock_next, signal, pc, op, opdiff, cs, kmsgs>>

\* Kernel code a thread runs without a choice of the program: resuming
\* from yield, the rest of monitor(), and the event thread's loop.
Continue(t) ==
    \/ LockResume(t) \/ MonCheck(t) \/ MonSetWait(t) \/ MonSleep(t) \/ MonWake(t)
    \/ t = EventThread /\ MonitorCall(t, MSG_MONITOR, 0)

\* A step of thread t, which must be the current thread.
Step(t) ==
    /\ Running(t)
    /\ \/ ThreadStep(t) /\ UNCHANGED <<proc_id, thread_index, kmsgs>>
       \/ EvRun(t) /\ UNCHANGED <<proc_id, thread_index>>

Next == Tick \/ InputEvent \/ Step(Cur)

\* The timer keeps interrupting.  A thread that is scheduled again and
\* again runs its kernel code on (strong fairness: it is runnable only
\* while it is the current thread); user code may stop making syscalls.
Spec ==
    /\ Init /\ [][Next]_vars /\ WF_vars(Tick)
    /\ \A t \in Threads :
           SF_vars(Running(t) /\ UNCHANGED <<proc_id, thread_index>>
                   /\ ((Continue(t) /\ UNCHANGED kmsgs) \/ EvRun(t)))

(***************************************************************************)
(* Properties                                                              *)
(***************************************************************************)

\* Mutual exclusion of Process::lock: no two threads are past lock() (or
\* monitor()'s lock) on the same lock object without having unlocked it,
\* across the fast path, the FIFO hand-off in unlock, and re-locking.
MutualExclusion ==
    \A k \in LockKeys :
        Cardinality({t \in Threads : t[1] = k[1] /\ k[2] \in cs[t]}) <= 1

\* The wait list built from Lock::next and Thread::lock_next holds exactly
\* the threads asleep in lock() on that lock, each once, with no cycle:
\* lock()'s append walk and unlock()'s unlinking never lose, duplicate or
\* keep a thread.
WaitersQueued ==
    \A k \in LockKeys :
        LET w == WaitList(k) IN
        /\ Len(w) <= Cardinality(Threads) /\ IsInjective(w)
        /\ ToSet(w) = {t \in Threads : /\ t[1] = k[1] /\ op[t] = k[2]
                                       /\ pc[t] \in {"lock_wait", "mon_lock_wait"}
                                       /\ runState[t] = "WAITING"}

\* spec.md, Monitor: only the current lock owner may be parked waiting on
\* the monitor.  A thread's signal_wait pointer names a monitor whose lock
\* it owns (notify clears it before the owner can unmonitor).
WaiterIsOwner ==
    \A t \in Threads : signal_wait[t] # NoHandle => owner[signal_wait[t]] = t

\* Lock objects behave as the FIFO mutex of LockSpec, the wait list being
\* the chain of lock_next pointers.
LockAbs == INSTANCE LockSpec WITH LockIds <- LockKeys,
               waiting <- [k \in LockKeys |-> WaitList(k)]
LockFifo == LockAbs!Spec

\* A thread asleep in monitor()'s yield loop can still be woken: its
\* signal_wait is set, so a notify of the monitor finds it.  Broken when
\* notify runs between monitor()'s `signal_wait = &mon->signal` and its
\* `runState = WAITING`, both done with interrupts enabled.
SleeperWakeable ==
    \A t \in Threads :
        pc[t] = "mon_wait" /\ runState[t] = "WAITING" => signal_wait[t] # NoHandle

\* The scheduler never starves a thread: a RUNNING thread is eventually
\* the current thread (get_next_proc only picks processes whose
\* num_running_threads is nonzero, so the count must cover it).
StarvationFree ==
    \A t \in Threads : runState[t] = "RUNNING" ~> t = Cur

=============================================================================
