----------------------------- MODULE SharedQueue -----------------------------
(***************************************************************************)
(* The lock-free ring queue SharedQueue<T,N> of include/std/queue.h and    *)
(* the consumer loop the kernel's event workers run over it               *)
(* (CallbackWorker/UserEventWorker::run in system/events.cpp).             *)
(*                                                                         *)
(* q_locked = {head, tail} brackets the slots claimed by producers and not *)
(* yet reclaimed; q_safe = {head, tail} brackets the slots published to    *)
(* consumers.  All four counters are 16-bit (ushort) and wrap; the C      *)
(* arithmetic on them is kept: a difference of two ushorts is an int      *)
(* (integer promotion), and an int converted to uint is taken modulo      *)
(* UIntMod.  CounterMod stands for 2^16 and UIntMod for 2^32; any values   *)
(* with N | CounterMod | UIntMod and UIntMod > CounterMod + DequeueMax give *)
(* the comparisons below the same outcomes as the real widths.             *)
(*                                                                         *)
(* A slot holds a record {hdr, body}: hdr is the first int of T (msg_id   *)
(* or event), the only word gather_new_data and garbage_collect test and   *)
(* the only word release zeroes; body is the rest of the record.  A record *)
(* is modelled by the identity of the message that wrote it (1..MaxMsgs); *)
(* 0 is an empty hdr.                                                      *)
(*                                                                         *)
(* Producers are either interrupt handlers (IsrProducers: keyboard and    *)
(* mouse ISRs calling new_user_event; they run with interrupts off, so    *)
(* their whole enqueue is one step) or threads that can be preempted      *)
(* between the claiming CAS, the record copy and the signal increment     *)
(* (new_display_msg reached from syscall_write via GUITerminal::write).   *)
(* The claiming snapshot+CAS of enqueue is one step: on one core the CAS  *)
(* can only fail if the thread is preempted inside a two-instruction      *)
(* window by another enqueue to the same queue, and it then retries.      *)
(* Each queue has one consumer, the kernel event thread.                   *)
(***************************************************************************)
EXTENDS Integers, Sequences, FiniteSets, FiniteSetsExt, SequencesExt

CONSTANTS
  N,              \* max_size: the template argument (MAX_EVENTS = 16)
  CounterMod,     \* modulus of the ushort counters (2^16)
  UIntMod,        \* modulus of uint (2^32)
  DequeueMax,     \* the worker's dequeue(10) argument
  Producers,      \* producer contexts
  IsrProducers,   \* the producers that are interrupt handlers
  MaxMsgs         \* bound on the number of enqueue calls

ASSUME /\ N \in Nat \ {0}
       /\ CounterMod % N = 0
       /\ UIntMod > CounterMod + DequeueMax
       /\ UIntMod % CounterMod = 0
       /\ IsrProducers \subseteq Producers
       /\ MaxMsgs \in Nat

VARIABLES
  q_locked,    \* [head, tail] ushort counters
  q_safe,      \* [head, tail] ushort counters
  queue,       \* slot -> [hdr, body]
  msg_signal,  \* procs[0].msg_signal, raised per enqueue, lowered per consume
  ppc,         \* producer -> "idle" | "write" | "signal"
  pres,        \* producer -> claimed index (my_index)
  pmsg,        \* producer -> message it is enqueueing
  pwritten,    \* producer -> parts of its record already copied
  cpc,         \* consumer program point in Worker::run
  qr,          \* the range the consumer dequeued
  nextMsg,     \* identity of the next message a producer enqueues
  order,       \* history: messages in the order of their claimed index
  delivered    \* history: records the consumer read, in order

prodVars == <<ppc, pres, pmsg, pwritten>>
consVars == <<cpc, qr>>
vars == <<q_locked, q_safe, queue, msg_signal, prodVars, consVars,
          nextMsg, order, delivered>>

Slots == 0..(N - 1)
Ctr == 0..(CounterMod - 1)
Msgs == 1..MaxMsgs
Parts == {"hdr", "body"}
EmptyRecord == [hdr |-> 0, body |-> 0]

(* ushort arithmetic: increments wrap modulo 2^16. *)
UShort(x) == x % CounterMod

(* An int (possibly negative) converted to uint. *)
ToUInt(x) == IF x >= 0 THEN x ELSE x + UIntMod

(* queue[i % max_size] for an index of either width. *)
SlotOf(i) == i % N

(***************************************************************************)
(* The loops of gather_new_data and garbage_collect read the slots and    *)
(* stop at the first one whose hdr satisfies Stop, or after `limit`       *)
(* iterations.  The slots they read do not change while the loop runs     *)
(* (producers only write claimed, unpublished slots and the consumer is    *)
(* the loop itself), so the number of iterations is the first offset k    *)
(* below `limit` whose slot stops the loop, looking at one lap of the ring. *)
(* gather_new_data stops at an empty hdr (stopOnEmpty = TRUE),             *)
(* garbage_collect at a nonempty one (stopOnEmpty = FALSE).                *)
(***************************************************************************)
Iterations(start, limit, stopOnEmpty) ==
  LET hits == {k \in 0..(N - 1) : (queue[SlotOf(start + k)].hdr = 0) = stopOnEmpty}
  IN  IF hits # {} /\ Min(hits) < limit THEN Min(hits) ELSE limit

(***************************************************************************)
(* SharedQueue::enqueue: the full test on the snapshot of q_locked.       *)
(* my_length = q_new.tail - q_new.head is an int stored into a uint.       *)
(***************************************************************************)
(* Faulty: the full test off by one (`my_length + 1 < max_size`). *)
HasRoomOffByOne == ToUInt(q_locked.tail - q_locked.head) + 1 < N

HasRoom == ToUInt(q_locked.tail - q_locked.head) + 1 <= N

(* enqueue's winning CAS: q_locked.tail++ and my_index = the old tail. *)
Claim(p) ==
  /\ q_locked' = [q_locked EXCEPT !.tail = UShort(@ + 1)]
  /\ pres' = [pres EXCEPT ![p] = q_locked.tail]
  /\ pmsg' = [pmsg EXCEPT ![p] = nextMsg]
  /\ order' = Append(order, nextMsg)

(* A thread producer calls enqueue and loses the record: the queue reads  *)
(* as full; new_display_msg still increments the signal afterwards.        *)
EnqueueFull(p) ==
  /\ p \notin IsrProducers
  /\ ppc[p] = "idle"
  /\ nextMsg <= MaxMsgs
  /\ ~HasRoom
  /\ nextMsg' = nextMsg + 1
  /\ ppc' = [ppc EXCEPT ![p] = "signal"]
  /\ UNCHANGED <<q_locked, q_safe, queue, msg_signal, pres, pmsg, pwritten,
                 consVars, order, delivered>>

(* A thread producer wins the CAS and holds an unwritten slot. *)
EnqueueClaim(p) ==
  /\ p \notin IsrProducers
  /\ ppc[p] = "idle"
  /\ nextMsg <= MaxMsgs
  /\ HasRoom
  /\ Claim(p)
  /\ nextMsg' = nextMsg + 1
  /\ ppc' = [ppc EXCEPT ![p] = "write"]
  /\ pwritten' = [pwritten EXCEPT ![p] = {}]
  /\ UNCHANGED <<q_safe, queue, msg_signal, consVars, delivered>>

(* The record copy into queue[my_index % max_size] is a struct copy.  Which *)
(* word the compiled copy stores first is not fixed by the source, so     *)
(* either part may be written first.                                       *)
EnqueueWrite(p, part) ==
  /\ ppc[p] = "write"
  /\ part \notin pwritten[p]
  /\ queue' = [queue EXCEPT ![SlotOf(pres[p])][part] = pmsg[p]]
  /\ pwritten' = [pwritten EXCEPT ![p] = @ \cup {part}]
  /\ ppc' = [ppc EXCEPT ![p] = IF pwritten'[p] = Parts THEN "signal" ELSE "write"]
  /\ UNCHANGED <<q_locked, q_safe, msg_signal, pres, pmsg, consVars,
                 nextMsg, order, delivered>>

(* msg_signal++ after enqueue returns, whether it succeeded or not. *)
SignalRaise(p) ==
  /\ ppc[p] = "signal"
  /\ msg_signal' = msg_signal + 1
  /\ ppc' = [ppc EXCEPT ![p] = "idle"]
  /\ UNCHANGED <<q_locked, q_safe, queue, pres, pmsg, pwritten, consVars,
                 nextMsg, order, delivered>>

(* new_user_event from an interrupt handler: enqueue, copy and signal     *)
(* with interrupts disabled, as one step.                                  *)
IsrEnqueue(p) ==
  /\ p \in IsrProducers
  /\ nextMsg <= MaxMsgs
  /\ IF HasRoom
       THEN /\ Claim(p)
            /\ queue' = [queue EXCEPT ![SlotOf(q_locked.tail)] =
                                        [hdr |-> nextMsg, body |-> nextMsg]]
       ELSE UNCHANGED <<q_locked, queue, pres, pmsg, order>>
  /\ nextMsg' = nextMsg + 1
  /\ msg_signal' = msg_signal + 1
  /\ UNCHANGED <<q_safe, ppc, pwritten, consVars, delivered>>

(***************************************************************************)
(* Consumer.  Worker::run: gather_new_data(); if size() <= 0 return;      *)
(* qr = dequeue(10).  Only the consumer writes q_safe, so the three calls *)
(* form one step.  gather_new_data: q_size = q_locked.tail - q_safe.tail   *)
(* (int), compared with the uint new_found, so taken as uint.             *)
(***************************************************************************)
(* Faulty: gather_new_data publishing every claimed slot without testing *)
(* that its record has been copied.                                       *)
GatheredTailUnchecked == UShort(q_safe.tail + ToUInt(q_locked.tail - q_safe.tail))

(* Faulty: gather_new_data looping to q_size - 1. *)
GatheredTailShort ==
  LET limit == ToUInt(q_locked.tail - q_safe.tail)
  IN  UShort(q_safe.tail + Iterations(q_safe.tail, Max({limit - 1, 0}), TRUE))

GatheredTail ==
  LET limit == ToUInt(q_locked.tail - q_safe.tail)
  IN  UShort(q_safe.tail + Iterations(q_safe.tail, limit, TRUE))

TakeRange ==
  /\ cpc = "take"
  /\ LET st   == GatheredTail
         len  == ToUInt(st - q_safe.head)   \* size() and dequeue's my_length
         num  == IF DequeueMax > len THEN len ELSE DequeueMax
         head == UShort(q_safe.head + num)
     IN  IF len = 0
           THEN /\ q_safe' = [q_safe EXCEPT !.tail = st]
                /\ UNCHANGED <<cpc, qr>>
           ELSE /\ q_safe' = [head |-> head, tail |-> st]
                /\ qr' = [head |-> q_safe.head, tail |-> head]
                /\ cpc' = "consume"
  /\ UNCHANGED <<q_locked, queue, msg_signal, prodVars, nextMsg, order, delivered>>

(* Faulty: the range loops run to i <= qr.tail. *)
RangeIndicesInclusive == qr.head..qr.tail

(* The indices of `for (int i = qr.head; i < qr.tail; i++)`. *)
RangeIndices == qr.head..(qr.tail - 1)

(* The worker reads get(i) for every index of the range. *)
Consume ==
  /\ cpc = "consume"
  /\ delivered' = delivered \o
        [k \in 1..Cardinality(RangeIndices) |-> queue[SlotOf(qr.head + k - 1)]]
  /\ cpc' = "release"
  /\ UNCHANGED <<q_locked, q_safe, queue, msg_signal, prodVars, qr, nextMsg, order>>

(* SharedQueue::release: zero the first int of every record of the range. *)
Release ==
  /\ cpc = "release"
  /\ queue' = [j \in Slots |->
                 IF \E i \in RangeIndices : SlotOf(i) = j
                   THEN [queue[j] EXCEPT !.hdr = 0] ELSE queue[j]]
  /\ cpc' = "collect"
  /\ UNCHANGED <<q_locked, q_safe, msg_signal, prodVars, qr, nextMsg, order, delivered>>

(* SharedQueue::garbage_collect: q_size = q_safe.head - q_locked.head is  *)
(* an int and the loop counter an int, so a negative q_size runs nothing. *)
(* The test-and-set on locked_head_mtx is always won by the sole consumer. *)
CollectedHead ==
  LET limit == IF q_safe.head - q_locked.head > 0
                 THEN q_safe.head - q_locked.head ELSE 0
  IN  UShort(q_locked.head + Iterations(q_locked.head, limit, FALSE))

GarbageCollect ==
  /\ cpc = "collect"
  /\ q_locked' = [q_locked EXCEPT !.head = CollectedHead]
  /\ cpc' = "account"
  /\ UNCHANGED <<q_safe, queue, msg_signal, prodVars, qr, nextMsg, order, delivered>>

(* msg_signal -= (qr.tail - qr.head), an int difference. *)
Account ==
  /\ cpc = "account"
  /\ msg_signal' = msg_signal - (qr.tail - qr.head)
  /\ cpc' = "take"
  /\ UNCHANGED <<q_locked, q_safe, queue, prodVars, qr, nextMsg, order, delivered>>

Init ==
  /\ q_locked = [head |-> 0, tail |-> 0]
  /\ q_safe = [head |-> 0, tail |-> 0]
  /\ queue = [j \in Slots |-> EmptyRecord]
  /\ msg_signal = 0
  /\ ppc = [p \in Producers |-> "idle"]
  /\ pres = [p \in Producers |-> 0]
  /\ pmsg = [p \in Producers |-> 0]
  /\ pwritten = [p \in Producers |-> {}]
  /\ cpc = "take"
  /\ qr = [head |-> 0, tail |-> 0]
  /\ nextMsg = 1
  /\ order = <<>>
  /\ delivered = <<>>

ProducerStep(p) ==
  \/ EnqueueFull(p)
  \/ EnqueueClaim(p)
  \/ \E part \in Parts : EnqueueWrite(p, part)
  \/ SignalRaise(p)
  \/ IsrEnqueue(p)

ConsumerStep == TakeRange \/ Consume \/ Release \/ GarbageCollect \/ Account

Next == (\E p \in Producers : ProducerStep(p)) \/ ConsumerStep

(* The event thread is scheduled again and again, and a preempted        *)
(* producer thread is resumed: weak fairness on both.  Starting a new     *)
(* enqueue is left unfair: input may stop.                                 *)
Fairness ==
  /\ WF_vars(ConsumerStep)
  /\ \A p \in Producers :
       /\ WF_vars(\E part \in Parts : EnqueueWrite(p, part))
       /\ WF_vars(SignalRaise(p))

Spec == Init /\ [][Next]_vars /\ Fairness

-----------------------------------------------------------------------------
TypeOK ==
  /\ q_locked \in [head : Ctr, tail : Ctr]
  /\ q_safe \in [head : Ctr, tail : Ctr]
  /\ queue \in [Slots -> [hdr : 0..MaxMsgs, body : 0..MaxMsgs]]
  /\ msg_signal \in Int
  /\ ppc \in [Producers -> {"idle", "write", "signal"}]
  /\ pres \in [Producers -> Ctr]
  /\ pmsg \in [Producers -> 0..MaxMsgs]
  /\ pwritten \in [Producers -> SUBSET Parts]
  /\ cpc \in {"take", "consume", "release", "collect", "account"}
  /\ nextMsg \in 1..(MaxMsgs + 1)
  /\ order \in Seq(Msgs)
  /\ delivered \in Seq([hdr : Msgs, body : 0..MaxMsgs])

(* The consumer receives the claimed messages exactly once each and in    *)
(* the order of the indices enqueue's CAS handed out: gather_new_data      *)
(* never publishes a claimed slot before its record is copied, nor skips   *)
(* over one, and garbage_collect never frees a slot still to be read.      *)
DeliveredInOrder ==
  IsPrefix([k \in 1..Len(delivered) |-> delivered[k].hdr], order)

(* A record the consumer reads is the one a single producer wrote: its    *)
(* body belongs to the same message as its hdr.  gather_new_data tests    *)
(* only the hdr word, so this is about the order of the record copy.       *)
DeliveredIntact ==
  \A k \in 1..Len(delivered) : delivered[k].body = delivered[k].hdr

(* enqueue reports the queue full only when N claimed slots are still     *)
(* unreclaimed (spec section 8, Capacity): a step in which a producer's    *)
(* enqueue fails starts from a ring with N reserved slots.                 *)
NoSpuriousFull ==
  [][ (\E p \in Producers :
         \/ EnqueueFull(p)
         \/ (IsrEnqueue(p) /\ ~HasRoom))
      => (q_locked.tail - q_locked.head) % CounterMod = N ]_vars

(* Every claimed message is eventually read by the consumer. *)
AllDelivered ==
  \A m \in Msgs :
    (\E k \in 1..Len(order) : order[k] = m)
      ~> (\E k \in 1..Len(delivered) : delivered[k].hdr = m)
=============================================================================
