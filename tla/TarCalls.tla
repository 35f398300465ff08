----------------------------- MODULE TarCalls ------------------------------
(***************************************************************************)
(* Tar with a user program of kind "any" that opens each name of its Loads *)
(* and then makes the seek and read calls of its Script on it, in order.   *)
(* No program of the repository reads files this way; the module is here  *)
(* to replay call sequences the File contract allows against TarFS.       *)
(***************************************************************************)
EXTENDS Tar

CONSTANT Script      \* per thread: the calls, [op |-> "seek" or "read", arg]

Call(t) ==
    /\ pc[t] = "call" /\ ncalls[t] < Len(Script[t])
    /\ LET c == Script[t][ncalls[t] + 1] IN
       IF c.op = "seek" THEN SysSeek(t, c.arg) /\ UNCHANGED last
       ELSE SysRead(t, c.arg)
    /\ ncalls' = [ncalls EXCEPT ![t] = ncalls[t] + 1]
    /\ UNCHANGED <<hdr, fsize, files, pc, tfile, hf, fh, li, si>>

Exit(t) ==
    /\ pc[t] = "call" /\ ncalls[t] = Len(Script[t])
    /\ IF li[t] < Len(Loads[t])
       THEN /\ pc' = [pc EXCEPT ![t] = "open"]
            /\ li' = [li EXCEPT ![t] = li[t] + 1]
            /\ ncalls' = [ncalls EXCEPT ![t] = 0]
       ELSE /\ pc' = [pc EXCEPT ![t] = "done"]
            /\ UNCHANGED <<li, ncalls>>
    /\ UNCHANGED <<tarfs, files, tfile, hf, fh, si, fpos, last>>

NextCalls ==
    \/ \E t \in Threads : Step(t) \/ (UNCHANGED archive /\ (Call(t) \/ Exit(t)))
    \/ Quiescent

SpecCalls == Init /\ [][NextCalls]_vars
=============================================================================
