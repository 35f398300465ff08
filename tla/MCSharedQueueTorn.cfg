\* The display queue: a user thread inside syscall_write (interrupts on)
\* produces through GUITerminal::write and gui_redraw_proc; the event
\* thread consumes.  No counter wraps.
CONSTANTS
  N = 2
  CounterMod = 16
  DequeueMax = 10
  MaxMsgs = 3
  UIntMod <- MCUIntMod
  isr = isr
  t1 = t1
  t2 = t2
  Producers <- MCThreadProducers
  IsrProducers <- MCNoProducers
SPECIFICATION Spec
INVARIANT DeliveredIntact
