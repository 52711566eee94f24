---------------------------- MODULE BoundedFifo ----------------------------
(***************************************************************************)
(* What a byte queue of this firmware promises: at most Size bytes wait,   *)
(* they leave in the order they arrived, a byte that finds the queue full  *)
(* is dropped and nothing already queued is disturbed.  ByteRing is the    *)
(* array and the two free-running u32 indices that implement it.           *)
(***************************************************************************)
EXTENDS Integers, Sequences

CONSTANTS Size,   \* how many bytes the queue holds
          Byte    \* the bytes

VARIABLES queue,  \* the bytes waiting, oldest first
          got     \* the bytes the last call handed to its caller

vars == <<queue, got>>

Init == queue = <<>> /\ got = <<>>

Put(c) ==
    /\ queue' = IF Len(queue) < Size THEN Append(queue, c) ELSE queue
    /\ got' = <<>>

Take(n) ==
    /\ n <= Len(queue)
    /\ got' = SubSeq(queue, 1, n)
    /\ queue' = SubSeq(queue, n + 1, Len(queue))

Empty == queue' = <<>> /\ got' = <<>>

Next == (\E c \in Byte : Put(c)) \/ (\E n \in 1 .. Size : Take(n)) \/ Empty

Spec == Init /\ [][Next]_vars
=============================================================================
