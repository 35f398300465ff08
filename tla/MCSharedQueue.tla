---------------------------- MODULE MCSharedQueue ----------------------------
(* Instantiates SharedQueue for TLC: a ring of 2 slots, one interrupt     *)
(* producer and two preemptible thread producers, one consumer.            *)
EXTENDS SharedQueue

CONSTANTS isr, t1, t2

MCProducers == {isr, t1, t2}
MCIsrProducers == {isr}
MCThreadProducers == {t1}
MCNoProducers == {}

(* 2^20 stands for the uint modulus 2^32 (see SharedQueue's header). *)
MCUIntMod == 2^20
=============================================================================
