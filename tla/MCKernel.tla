------------------------------ MODULE MCKernel ------------------------------
(* Kernel with model values for handles and a scaled-down uint width. *)
EXTENDS Kernel

CONSTANTS l1, m1, msg

MCLockHandles == {l1}
MCMonHandles == {m1}
\* num_running_threads wraps modulo 2^20 instead of 2^32; the counts the
\* model reaches stay far below either bound unless they underflow.
MCUIntMod == 2^20
=============================================================================
