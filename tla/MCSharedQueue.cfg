\* Counters do not wrap: 16 > MaxMsgs, so the run checks the protocol
\* before the 16-bit counters wrap; slots are reused (MaxMsgs > N).
CONSTANTS
  N = 2
  CounterMod = 16
  DequeueMax = 10
  MaxMsgs = 4
  UIntMod <- MCUIntMod
  isr = isr
  t1 = t1
  t2 = t2
  Producers <- MCProducers
  IsrProducers <- MCIsrProducers
SPECIFICATION Spec
INVARIANT TypeOK
INVARIANT DeliveredInOrder
PROPERTY NoSpuriousFull
PROPERTY AllDelivered
