------------------------------ MODULE ByteRing ------------------------------
(***************************************************************************)
(* The ring every byte queue of hwtest is built on: an array and two       *)
(* free-running u32 indices, masked only when the array is addressed.      *)
(* core.c keeps the console's 16-byte push-back FIFO in one, gui/usbser.c  *)
(* its 16 KiB transmit queue and its 256-byte receive queue.               *)
(*                                                                         *)
(* The indices wrap at IndexMod (2^32 in the code).  head - tail is the    *)
(* fill level only because u32 subtraction wraps the same way, and an      *)
(* index addresses the right slot across the wrap only because IndexMod is *)
(* a multiple of Size.                                                     *)
(***************************************************************************)
EXTENDS Integers, Sequences

CONSTANTS Size,      \* UART_PUSHBACK_N, TX_SIZE or RX_SIZE
          IndexMod,  \* 2^32: where the indices wrap
          Byte,      \* the bytes
          Zero       \* what the array holds before anything is put

ASSUME SizeAssumption == Size \in Nat /\ Size > 0
ASSUME WidthAssumption ==
    /\ IndexMod \in Nat /\ IndexMod > Size
    /\ IndexMod % Size = 0

VARIABLES buf,   \* the array
          head,  \* where the next byte goes
          tail,  \* where the oldest byte is
          got    \* the bytes the last call handed to its caller

vars == <<buf, head, tail, got>>

Slot(i) == i % Size
Wrap(i) == i % IndexMod
Queued == Wrap(head - tail)

Init ==
    /\ buf = [s \in 0 .. Size - 1 |-> Zero]
    /\ head = 0 /\ tail = 0
    /\ got = <<>>

\* Mutant: a full ring overwrites its oldest byte.
PutOverwrites(c) ==
    /\ buf' = [buf EXCEPT ![Slot(head)] = c]
    /\ head' = Wrap(head + 1)
    /\ tail' = IF Queued = Size THEN Wrap(tail + 1) ELSE tail
    /\ got' = <<>>

\* Queue c; drop it when the ring is full.
Put(c) ==
    /\ IF Queued < Size
         THEN /\ buf' = [buf EXCEPT ![Slot(head)] = c]
              /\ head' = Wrap(head + 1)
         ELSE UNCHANGED <<buf, head>>
    /\ got' = <<>>
    /\ UNCHANGED tail

\* Hand out the oldest byte.
Get ==
    /\ head # tail
    /\ got' = <<buf[Slot(tail)]>>
    /\ tail' = Wrap(tail + 1)
    /\ UNCHANGED <<buf, head>>

\* Hand out the n oldest bytes in one go: a USB transfer.
Chunk(n) ==
    /\ head # tail /\ n <= Queued
    /\ got' = [i \in 1 .. n |-> buf[Slot(tail + i - 1)]]
    /\ tail' = Wrap(tail + n)
    /\ UNCHANGED <<buf, head>>

\* Throw away what waits by moving tail to head: nobody listens.
Discard ==
    /\ tail' = head /\ got' = <<>>
    /\ UNCHANGED <<buf, head>>

\* Both indices back to zero: the port starts over.
Reset ==
    /\ head' = 0 /\ tail' = 0 /\ got' = <<>>
    /\ UNCHANGED buf

Next ==
    \/ \E c \in Byte : Put(c)
    \/ Get
    \/ \E n \in 1 .. Size : Chunk(n)
    \/ Discard
    \/ Reset

Spec == Init /\ [][Next]_vars

-----------------------------------------------------------------------------
(* Type correctness: the indices stay u32, the slots hold bytes.           *)
TypeOK ==
    /\ buf \in [0 .. Size - 1 -> Byte \cup {Zero}]
    /\ head \in 0 .. IndexMod - 1
    /\ tail \in 0 .. IndexMod - 1
    /\ got \in Seq(Byte \cup {Zero})

(* head - tail, taken across the wrap, never exceeds the array: a ring     *)
(* that over-fills would hand out bytes it has already overwritten.        *)
NeverOverfull == Queued <= Size

(* The bytes that wait, read off the array from tail to head. *)
Contents == [k \in 1 .. Queued |-> buf[Slot(tail + k - 1)]]

(* The ring is a bounded FIFO: whatever the calls and wherever the indices *)
(* wrap, bytes come out once, in order and unchanged, and only a byte that *)
(* finds Size others waiting is lost.                                      *)
Fifo == INSTANCE BoundedFifo WITH queue <- Contents, Byte <- Byte \cup {Zero}
FifoSpec == Fifo!Spec
=============================================================================
