------------------------------ MODULE MCMemory ------------------------------
(* Model values and definitions for checking Memory with TLC.             *)
EXTENDS Memory

CONSTANTS t1, t2

MCThreads == {t1, t2}

====
