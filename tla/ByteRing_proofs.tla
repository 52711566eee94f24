-------------------------- MODULE ByteRing_proofs --------------------------
(***************************************************************************)
(* The ring is type correct, never over-fills, and implements the bounded  *)
(* FIFO, for every ring size and every index width that is a multiple of   *)
(* it.  The arithmetic of % comes first; then one lemma per operation on   *)
(* Contents, the refinement mapping.                                       *)
(***************************************************************************)
EXTENDS ByteRing, SequenceTheorems, TLAPS

USE SizeAssumption, WidthAssumption

(* The remainder is in range, and rebuilds the dividend.                   *)
LEMMA ModRange ==
    ASSUME NEW a \in Int, NEW m \in Nat, m > 0
    PROVE  a % m \in 0 .. m - 1
  OBVIOUS

\* A number is its quotient times the modulus, plus its remainder.
LEMMA ModSplit ==
    ASSUME NEW a \in Int, NEW m \in Nat, m > 0
    PROVE  a = m * (a \div m) + (a % m) /\ a \div m \in Int
  OBVIOUS

\* The remainder is the only number in range at a multiple's distance.
LEMMA ModUnique ==
    ASSUME NEW m \in Nat, m > 0, NEW q \in Int, NEW r \in 0 .. m - 1
    PROVE  (m * q + r) % m = r
  OBVIOUS

\* A number below the modulus is its own remainder.
LEMMA ModSmall ==
    ASSUME NEW m \in Nat, m > 0, NEW r \in 0 .. m - 1
    PROVE  r % m = r
  OBVIOUS

(* Adding a multiple of the modulus changes nothing.                       *)
LEMMA ModShift ==
    ASSUME NEW m \in Nat, m > 0, NEW q \in Int, NEW a \in Int
    PROVE  (m * q + a) % m = a % m
  <1> DEFINE d == a \div m
             r == a % m
  <1>1. a = m * d + r /\ d \in Int /\ r \in 0 .. m - 1
    BY ModSplit, ModRange
  <1> HIDE DEF d, r
  <1>2. m * q + a = m * (q + d) + r
    BY <1>1
  <1>3. (m * (q + d) + r) % m = r
    BY <1>1, ModUnique
  <1> QED
    BY <1>2, <1>3 DEF r

(* Two numbers less than m apart have different remainders.                *)
LEMMA ModDistinct ==
    ASSUME NEW m \in Nat, m > 0, NEW a \in Int, NEW b \in Int,
           a < b, b - a < m
    PROVE  a % m # b % m
  <1> DEFINE da == a \div m
             db == b \div m
             k == db - da
  <1>1. SUFFICES ASSUME a % m = b % m PROVE FALSE
    OBVIOUS
  <1>2. a = m * da + (a % m) /\ b = m * db + (b % m) /\ da \in Int /\ db \in Int
    BY ModSplit
  <1>3. a % m \in Int /\ b % m \in Int
    BY ModRange
  <1> HIDE DEF da, db
  <1>4. k \in Int /\ m * k = b - a
    BY <1>1, <1>2, <1>3
  <1> HIDE DEF k
  <1>5. k >= 1
    BY <1>4
  <1>6. m * k >= m
    BY <1>4, <1>5
  <1> QED
    BY <1>4, <1>6

(* The indices wrap at a multiple of Size, so wrapping an index never      *)
(* changes the slot it addresses.                                          *)
LEMMA SlotOfWrap ==
    ASSUME NEW i \in Int
    PROVE  Slot(Wrap(i)) = Slot(i)
  <1> DEFINE n == IndexMod \div Size
             q == i \div IndexMod
             w == i % IndexMod
  <1>1. IndexMod = Size * n /\ n \in Int
    <2>1. IndexMod = Size * n + (IndexMod % Size) /\ n \in Int
      BY ModSplit
    <2> HIDE DEF n
    <2> QED BY <2>1
  <1>2. i = IndexMod * q + w /\ q \in Int /\ w \in 0 .. IndexMod - 1
    BY ModSplit, ModRange
  <1> HIDE DEF n, q, w
  <1>3. i = Size * (n * q) + w /\ n * q \in Int /\ w \in Int
    BY <1>1, <1>2
  <1>4. i % Size = w % Size
    <2> DEFINE p == n * q
    <2>1. i = Size * p + w /\ p \in Int /\ w \in Int
      BY <1>3
    <2> HIDE DEF p
    <2> QED BY <2>1, ModShift
  <1> QED
    BY <1>4 DEF Slot, Wrap, w

\* One turn of the index space later is the same slot.
LEMMA SlotTurn ==
    ASSUME NEW i \in Int
    PROVE  Slot(i - IndexMod) = Slot(i)
  <1> DEFINE n == IndexMod \div Size
  <1>1. IndexMod = Size * n /\ n \in Int
    <2>1. IndexMod = Size * n + (IndexMod % Size) /\ n \in Int
      BY ModSplit
    <2> HIDE DEF n
    <2> QED BY <2>1
  <1> HIDE DEF n
  <1>2. i - IndexMod = Size * (-n) + i /\ -n \in Int
    BY <1>1
  <1> QED
    BY <1>2, ModShift DEF Slot

-----------------------------------------------------------------------------
(* Wrapping, once, of what is at most one turn away.                       *)
LEMMA WrapCases ==
    ASSUME NEW i \in Int, -IndexMod < i, i < 2 * IndexMod
    PROVE  Wrap(i) = IF i < 0 THEN i + IndexMod
                     ELSE IF i < IndexMod THEN i ELSE i - IndexMod
  <1>1. CASE i < 0
    <2>1. i + IndexMod \in 0 .. IndexMod - 1
      BY <1>1
    <2>2. (IndexMod * (-1) + (i + IndexMod)) % IndexMod = i + IndexMod
      BY <2>1, ModUnique
    <2> QED BY <1>1, <2>1, <2>2 DEF Wrap
  <1>2. CASE 0 <= i /\ i < IndexMod
    BY <1>2, ModSmall DEF Wrap
  <1>3. CASE IndexMod <= i
    <2>1. i - IndexMod \in 0 .. IndexMod - 1
      BY <1>3
    <2>2. (IndexMod * 1 + (i - IndexMod)) % IndexMod = i - IndexMod
      BY <2>1, ModUnique
    <2> QED BY <1>3, <2>1, <2>2 DEF Wrap
  <1> QED
    BY <1>1, <1>2, <1>3

(* Both indices are u32.                                                   *)
IndexOK == head \in 0 .. IndexMod - 1 /\ tail \in 0 .. IndexMod - 1

\* The fill level is head - tail, or that plus one turn of the indices.
LEMMA QueuedCases ==
    ASSUME IndexOK
    PROVE  /\ Queued = IF head < tail THEN head - tail + IndexMod ELSE head - tail
           /\ Queued \in 0 .. IndexMod - 1
           /\ Queued = 0 <=> head = tail
  <1>1. head - tail \in Int /\ -IndexMod < head - tail /\ head - tail < 2 * IndexMod
    BY DEF IndexOK
  <1>2. Queued = IF head < tail THEN head - tail + IndexMod ELSE head - tail
    BY <1>1, WrapCases DEF Queued, IndexOK
  <1> QED
    BY <1>2 DEF IndexOK

(* The fill level counts: one more byte, n fewer bytes.                    *)
LEMMA QueuedPut ==
    ASSUME IndexOK, Queued < Size, head' = Wrap(head + 1), tail' = tail
    PROVE  IndexOK' /\ Queued' = Queued + 1
  <1>1. Wrap(head + 1) = IF head + 1 < IndexMod THEN head + 1 ELSE 0
    BY WrapCases DEF IndexOK
  <1>2. IndexOK'
    BY <1>1 DEF IndexOK
  <1>3. Queued' = IF head' < tail' THEN head' - tail' + IndexMod ELSE head' - tail'
    BY <1>2, WrapCases DEF Queued, IndexOK
  <1> QED
    BY <1>1, <1>2, <1>3, QueuedCases DEF IndexOK

\* Taking n bytes leaves n fewer waiting.
LEMMA QueuedTake ==
    ASSUME IndexOK, NEW n \in Nat, n <= Queued, n <= Size,
           head' = head, tail' = Wrap(tail + n)
    PROVE  IndexOK' /\ Queued' = Queued - n
  <1>1. Wrap(tail + n) = IF tail + n < IndexMod THEN tail + n ELSE tail + n - IndexMod
    BY WrapCases DEF IndexOK
  <1>2. IndexOK'
    BY <1>1 DEF IndexOK
  <1>3. Queued' = IF head' < tail' THEN head' - tail' + IndexMod ELSE head' - tail'
    BY <1>2, WrapCases DEF Queued, IndexOK
  <1> QED
    BY <1>1, <1>2, <1>3, QueuedCases DEF IndexOK

(* Where the next byte goes is the slot after the last that waits, and no  *)
(* waiting byte is in it while there is room.                              *)
LEMMA SlotOfHead ==
    ASSUME IndexOK
    PROVE  Slot(head) = Slot(tail + Queued)
  <1>1. head = Wrap(tail + Queued)
    <2>1. tail + Queued \in Int /\ -IndexMod < tail + Queued
          /\ tail + Queued < 2 * IndexMod
      BY QueuedCases DEF IndexOK
    <2> QED BY <2>1, WrapCases, QueuedCases DEF IndexOK
  <1>2. tail + Queued \in Int
    BY QueuedCases DEF IndexOK
  <1> QED
    BY <1>1, <1>2, SlotOfWrap

\* The slot head addresses holds no waiting byte while there is room.
LEMMA SlotFree ==
    ASSUME IndexOK, Queued < Size, NEW k \in 1 .. Queued
    PROVE  Slot(tail + k - 1) # Slot(head)
  <1>1. tail + k - 1 \in Int /\ tail + Queued \in Int
    BY QueuedCases DEF IndexOK
  <1>2. tail + k - 1 < tail + Queued /\ (tail + Queued) - (tail + k - 1) < Size + 1
    BY QueuedCases DEF IndexOK
  <1>3. (tail + Queued) - (tail + k - 1) < Size
    BY QueuedCases DEF IndexOK
  <1>4. (tail + k - 1) % Size # (tail + Queued) % Size
    BY <1>1, <1>2, <1>3, ModDistinct
  <1> QED
    BY <1>4, SlotOfHead DEF Slot

\* Every index addresses a slot of the array.
LEMMA SlotRange == ASSUME NEW i \in Int PROVE Slot(i) \in 0 .. Size - 1
  BY ModRange DEF Slot

-----------------------------------------------------------------------------
(* The invariant: the indices, the array and the capacity.                 *)
IInv == TypeOK /\ NeverOverfull

\* The type invariant bounds the two indices.
LEMMA TypeIndex == TypeOK => IndexOK
  BY DEF TypeOK, IndexOK

\* The zeroed ring satisfies the invariant.
LEMMA InitInv == Init => IInv
  <1> SUFFICES ASSUME Init PROVE IInv
    OBVIOUS
  <1>1. TypeOK
    BY DEF Init, TypeOK
  <1>2. Queued = 0
    BY <1>1, QueuedCases, TypeIndex DEF Init
  <1> QED BY <1>1, <1>2 DEF IInv, NeverOverfull

\* Every call of the ring's functions keeps the invariant.
LEMMA NextInv == IInv /\ [Next]_vars => IInv'
  <1> SUFFICES ASSUME IInv, [Next]_vars PROVE IInv'
    OBVIOUS
  <1>0. TypeOK /\ IndexOK /\ Queued <= Size /\ Queued \in Nat
    BY TypeIndex, QueuedCases DEF IInv, NeverOverfull
  <1>1. ASSUME NEW c \in Byte, Put(c) PROVE IInv'
    <2>1. CASE Queued < Size
      <3>1. head' = Wrap(head + 1) /\ tail' = tail /\ got' = <<>>
            /\ buf' = [buf EXCEPT ![Slot(head)] = c]
        BY <1>1, <2>1 DEF Put
      <3>2. IndexOK' /\ Queued' = Queued + 1
        BY <1>0, <2>1, <3>1, QueuedPut
      <3>3. TypeOK'
        BY <1>0, <3>1, <3>2 DEF TypeOK, IndexOK
      <3> QED BY <1>0, <2>1, <3>2, <3>3 DEF IInv, NeverOverfull
    <2>2. CASE ~(Queued < Size)
      <3>1. UNCHANGED <<buf, head, tail>> /\ got' = <<>>
        BY <1>1, <2>2 DEF Put
      <3>2. TypeOK'
        BY <1>0, <3>1 DEF TypeOK
      <3>3. Queued' = Queued
        BY <3>1 DEF Queued
      <3> QED BY <1>0, <3>2, <3>3 DEF IInv, NeverOverfull
    <2> QED BY <2>1, <2>2
  <1>2. CASE Get
    <2>1. head' = head /\ tail' = Wrap(tail + 1) /\ buf' = buf
          /\ got' = <<buf[Slot(tail)]>> /\ head # tail
      BY <1>2 DEF Get
    <2>2. 1 <= Queued
      BY <1>0, <2>1, QueuedCases
    <2>3. IndexOK' /\ Queued' = Queued - 1
      BY <1>0, <2>1, <2>2, QueuedTake
    <2>4. buf[Slot(tail)] \in Byte \cup {Zero}
      <3>1. tail \in Int
        BY <1>0 DEF IndexOK
      <3> QED BY <1>0, <3>1, SlotRange DEF TypeOK
    <2>5. TypeOK'
      BY <1>0, <2>1, <2>3, <2>4 DEF TypeOK, IndexOK
    <2> QED BY <1>0, <2>3, <2>5 DEF IInv, NeverOverfull
  <1>3. ASSUME NEW n \in 1 .. Size, Chunk(n) PROVE IInv'
    <2>1. head' = head /\ tail' = Wrap(tail + n) /\ buf' = buf /\ n <= Queued
          /\ got' = [i \in 1 .. n |-> buf[Slot(tail + i - 1)]]
      BY <1>3 DEF Chunk
    <2>2. IndexOK' /\ Queued' = Queued - n
      BY <1>0, <2>1, QueuedTake
    <2>3. \A i \in 1 .. n : buf[Slot(tail + i - 1)] \in Byte \cup {Zero}
      <3> TAKE i \in 1 .. n
      <3>1. tail + i - 1 \in Int
        BY <1>0 DEF IndexOK
      <3> QED BY <1>0, <3>1, SlotRange DEF TypeOK
    <2>4. TypeOK'
      BY <1>0, <2>1, <2>2, <2>3 DEF TypeOK, IndexOK
    <2> QED BY <1>0, <2>2, <2>4 DEF IInv, NeverOverfull
  <1>4. CASE Discard
    <2>1. head' = head /\ tail' = head /\ buf' = buf /\ got' = <<>>
      BY <1>4 DEF Discard
    <2>2. TypeOK'
      BY <1>0, <2>1 DEF TypeOK
    <2>3. Queued' = 0
      BY <1>0, <2>1, WrapCases DEF Queued, IndexOK
    <2> QED BY <1>0, <2>2, <2>3 DEF IInv, NeverOverfull
  <1>5. CASE Reset
    <2>1. head' = 0 /\ tail' = 0 /\ buf' = buf /\ got' = <<>>
      BY <1>5 DEF Reset
    <2>2. TypeOK'
      BY <1>0, <2>1 DEF TypeOK
    <2>3. Queued' = 0
      BY <2>1, WrapCases DEF Queued
    <2> QED BY <1>0, <2>2, <2>3 DEF IInv, NeverOverfull
  <1>6. CASE UNCHANGED vars
    BY <1>6 DEF vars, IInv, TypeOK, NeverOverfull, Queued
  <1> QED
    BY <1>1, <1>2, <1>3, <1>4, <1>5, <1>6 DEF Next

(* The indices stay u32 and the array holds bytes, whatever the calls.     *)
THEOREM RingTypeCorrect == Spec => []TypeOK
  <1>1. Spec => []IInv
    BY InitInv, NextInv, PTL DEF Spec
  <1>2. IInv => TypeOK
    BY DEF IInv
  <1> QED BY <1>1, <1>2, PTL

(* No byte waiting in the ring is ever overwritten by a later one: the     *)
(* fill level, taken across the wrap of the u32 indices, stays within the  *)
(* array.                                                                  *)
THEOREM RingNeverOverfull == Spec => []NeverOverfull
  <1>1. Spec => []IInv
    BY InitInv, NextInv, PTL DEF Spec
  <1>2. IInv => NeverOverfull
    BY DEF IInv
  <1> QED BY <1>1, <1>2, PTL

-----------------------------------------------------------------------------
(* A sequence is the function of its positions.                            *)
LEMMA SeqIsFunction ==
    ASSUME NEW S, NEW s \in Seq(S), NEW n, Len(s) = n
    PROVE  s = [k \in 1 .. n |-> s[k]]
  OBVIOUS

(* The refinement: what each operation does to Contents.                   *)
LEMMA ContentsSeq ==
    ASSUME IndexOK, Queued <= Size
    PROVE  /\ Queued \in Nat
           /\ Len(Contents) = Queued
           /\ DOMAIN Contents = 1 .. Queued
           /\ \A k \in 1 .. Queued : Contents[k] = buf[Slot(tail + k - 1)]
  BY QueuedCases DEF Contents

\* The waiting bytes, oldest first, are a sequence of bytes.
LEMMA ContentsTyped == ASSUME TypeOK PROVE Contents \in Seq(Byte \cup {Zero})
  <1>1. IndexOK /\ Queued \in Nat
    BY TypeIndex, QueuedCases
  <1>2. \A k \in 1 .. Queued : buf[Slot(tail + k - 1)] \in Byte \cup {Zero}
    <2> TAKE k \in 1 .. Queued
    <2>1. tail + k - 1 \in Int
      BY <1>1 DEF IndexOK
    <2> QED BY <2>1, SlotRange DEF TypeOK
  <1> QED
    BY <1>1, <1>2 DEF Contents

\* A put appends to the waiting bytes, or drops the byte when full.
LEMMA PutRefines ==
    ASSUME IInv, NEW c \in Byte, Put(c)
    PROVE  Fifo!Put(c)
  <1>0. TypeOK /\ IndexOK /\ Queued <= Size /\ Queued \in Nat
        /\ Len(Contents) = Queued /\ Contents \in Seq(Byte \cup {Zero})
    BY TypeIndex, QueuedCases, ContentsSeq, ContentsTyped DEF IInv, NeverOverfull
  <1>1. CASE Queued < Size
    <2>1. head' = Wrap(head + 1) /\ tail' = tail /\ got' = <<>>
          /\ buf' = [buf EXCEPT ![Slot(head)] = c]
      BY <1>1 DEF Put
    <2>2. Queued' = Queued + 1
      BY <1>0, <1>1, <2>1, QueuedPut
    <2>3. \A k \in 1 .. Queued : buf'[Slot(tail + k - 1)] = buf[Slot(tail + k - 1)]
      <3> TAKE k \in 1 .. Queued
      <3>1. tail + k - 1 \in Int
        BY <1>0 DEF IndexOK
      <3>2. Slot(tail + k - 1) # Slot(head)
        BY <1>0, <1>1, SlotFree
      <3> QED BY <1>0, <2>1, <3>1, <3>2, SlotRange DEF TypeOK
    <2>4. buf'[Slot(tail + (Queued + 1) - 1)] = c
      <3>1. tail + (Queued + 1) - 1 = tail + Queued
        BY <1>0 DEF IndexOK
      <3>2. head \in Int
        BY <1>0 DEF IndexOK
      <3> QED BY <1>0, <2>1, <3>1, <3>2, SlotOfHead, SlotRange DEF TypeOK
    <2>5. Contents' = [k \in 1 .. Queued + 1 |-> buf'[Slot(tail + k - 1)]]
      BY <2>1, <2>2 DEF Contents, Slot
    <2>6. Contents' = Append(Contents, c)
      <3>1. \A k \in 1 .. Queued + 1 :
              buf'[Slot(tail + k - 1)] = IF k <= Queued THEN Contents[k] ELSE c
        BY <1>0, <2>3, <2>4, ContentsSeq
      <3>2. Append(Contents, c)
              = [k \in 1 .. Queued + 1 |-> IF k <= Queued THEN Contents[k] ELSE c]
        <4> DEFINE C == Contents
                   L == Queued
        <4>1. C \in Seq(Byte \cup {Zero}) /\ Len(C) = L /\ L \in Nat
          BY <1>0
        <4> HIDE DEF C, L
        <4>2. Append(C, c) = [k \in 1 .. L + 1 |-> IF k <= L THEN C[k] ELSE c]
          <5>1. /\ Append(C, c) \in Seq(Byte \cup {Zero})
                /\ Len(Append(C, c)) = L + 1
                /\ \A k \in 1 .. L : Append(C, c)[k] = C[k]
                /\ Append(C, c)[L + 1] = c
            BY <4>1, AppendProperties
          <5>2. Append(C, c) = [k \in 1 .. L + 1 |-> Append(C, c)[k]]
            BY <5>1, SeqIsFunction
          <5> QED BY <4>1, <5>1, <5>2
        <4> QED BY <4>2 DEF C, L
      <3> QED BY <2>5, <3>1, <3>2
    <2> QED BY <1>0, <1>1, <2>1, <2>6 DEF Fifo!Put
  <1>2. CASE ~(Queued < Size)
    <2>1. UNCHANGED <<buf, head, tail>> /\ got' = <<>>
      BY <1>2 DEF Put
    <2>2. Contents' = Contents
      BY <2>1 DEF Contents, Queued, Slot
    <2> QED BY <1>0, <1>2, <2>1, <2>2 DEF Fifo!Put
  <1> QED BY <1>1, <1>2

(* Get and Chunk: n bytes from the front.                                  *)
LEMMA TakeRefines ==
    ASSUME IInv, NEW n \in 1 .. Size, n <= Queued,
           got' = [i \in 1 .. n |-> buf[Slot(tail + i - 1)]],
           tail' = Wrap(tail + n), UNCHANGED <<buf, head>>
    PROVE  Fifo!Take(n)
  <1>0. TypeOK /\ IndexOK /\ Queued <= Size /\ Queued \in Nat
        /\ Len(Contents) = Queued /\ Contents \in Seq(Byte \cup {Zero})
    BY TypeIndex, QueuedCases, ContentsSeq, ContentsTyped DEF IInv, NeverOverfull
  <1>1. IndexOK' /\ Queued' = Queued - n
    BY <1>0, QueuedTake
  <1>2. got' = SubSeq(Contents, 1, n)
    <2>1. SubSeq(Contents, 1, n) = [i \in 1 .. n |-> Contents[i]]
      BY <1>0
    <2> QED BY <1>0, <2>1, ContentsSeq
  <1>3. \A k \in 1 .. Queued - n : Slot(tail' + k - 1) = Slot(tail + (n + k) - 1)
    <2> TAKE k \in 1 .. Queued - n
    <2>1. tail \in Int /\ k \in Int /\ n \in Int /\ IndexMod \in Int
      BY <1>0 DEF IndexOK
    <2>2. tail' = tail + n \/ tail' = (tail + n) - IndexMod
      BY <1>0, WrapCases DEF IndexOK
    <2>3. (tail + (n + k) - 1) - IndexMod = ((tail + n) - IndexMod) + k - 1
      BY <2>1
    <2>4. Slot(((tail + n) - IndexMod) + k - 1) = Slot(tail + (n + k) - 1)
      <3> DEFINE i == tail + (n + k) - 1
      <3>1. i \in Int
        BY <2>1
      <3>2. Slot(i - IndexMod) = Slot(i)
        BY <3>1, SlotTurn
      <3> QED BY <2>3, <3>2
    <2>5. Slot((tail + n) + k - 1) = Slot(tail + (n + k) - 1)
      <3>1. (tail + n) + k - 1 = tail + (n + k) - 1
        BY <2>1
      <3> QED BY <3>1
    <2> QED BY <2>2, <2>4, <2>5
  <1>4. Contents' = [k \in 1 .. Queued - n |-> Contents[n + k]]
    <2>1. Contents' = [k \in 1 .. Queued - n |-> buf[Slot(tail' + k - 1)]]
      BY <1>1 DEF Contents, Slot
    <2>2. \A k \in 1 .. Queued - n : buf[Slot(tail' + k - 1)] = Contents[n + k]
      <3> TAKE k \in 1 .. Queued - n
      <3>1. n + k \in 1 .. Queued
        BY <1>0
      <3>2. Contents[n + k] = buf[Slot(tail + (n + k) - 1)]
        BY <1>0, <3>1, ContentsSeq
      <3> QED BY <1>3, <3>2
    <2> QED BY <2>1, <2>2
  <1>5. SubSeq(Contents, n + 1, Len(Contents)) = [k \in 1 .. Queued - n |-> Contents[n + k]]
    <2> DEFINE C == Contents
               L == Queued
    <2>1. C \in Seq(Byte \cup {Zero}) /\ Len(C) = L /\ L \in Nat /\ n \in 1 .. L
      BY <1>0
    <2> HIDE DEF C, L
    <2>2. SubSeq(C, n + 1, L) = [k \in 1 .. L - n |-> C[n + k]]
      <3>1. SubSeq(C, n + 1, L) = [k \in 1 .. (1 + L - (n + 1)) |-> C[k + (n + 1) - 1]]
        BY <2>1
      <3>2. 1 + L - (n + 1) = L - n
        BY <2>1
      <3>3. \A k \in 1 .. L - n : k + (n + 1) - 1 = n + k
        BY <2>1
      <3> QED BY <3>1, <3>2, <3>3
    <2> QED BY <2>1, <2>2 DEF C, L
  <1> QED BY <1>0, <1>2, <1>4, <1>5 DEF Fifo!Take

\* Every call of the ring's functions is a call of the FIFO, or no change.
LEMMA NextRefines == IInv /\ [Next]_vars => [Fifo!Next]_Fifo!vars
  <1> SUFFICES ASSUME IInv, [Next]_vars PROVE [Fifo!Next]_Fifo!vars
    OBVIOUS
  <1>0. TypeOK /\ IndexOK /\ Queued <= Size /\ Queued \in Nat
    BY TypeIndex, QueuedCases DEF IInv, NeverOverfull
  <1>1. ASSUME NEW c \in Byte, Put(c) PROVE Fifo!Next
    BY <1>1, PutRefines DEF Fifo!Next
  <1>2. CASE Get
    <2>1. head # tail /\ 1 <= Queued /\ 1 \in 1 .. Size
      BY <1>0, <1>2, QueuedCases DEF Get
    <2>2. tail \in Int
      BY <1>0 DEF IndexOK
    <2>3. got' = [i \in 1 .. 1 |-> buf[Slot(tail + i - 1)]]
      <3>1. got' = <<buf[Slot(tail)]>>
        BY <1>2 DEF Get
      <3>2. \A i \in 1 .. 1 : tail + i - 1 = tail
        BY <2>2
      <3> QED BY <3>1, <3>2
    <2>4. tail' = Wrap(tail + 1) /\ UNCHANGED <<buf, head>>
      BY <1>2 DEF Get
    <2>5. Fifo!Take(1)
      BY <2>1, <2>3, <2>4, TakeRefines
    <2> QED BY <2>1, <2>5 DEF Fifo!Next
  <1>3. ASSUME NEW n \in 1 .. Size, Chunk(n) PROVE Fifo!Next
    <2>1. Fifo!Take(n)
      BY <1>3, TakeRefines DEF Chunk
    <2> QED BY <2>1 DEF Fifo!Next
  <1>4. CASE Discard
    <2>1. head' = head /\ tail' = head /\ buf' = buf /\ got' = <<>>
      BY <1>4 DEF Discard
    <2>2. Queued' = 0
      BY <1>0, <2>1, WrapCases DEF Queued, IndexOK
    <2>3. Contents' = <<>>
      BY <2>2 DEF Contents
    <2> QED BY <2>1, <2>3 DEF Fifo!Next, Fifo!Empty
  <1>5. CASE Reset
    <2>1. head' = 0 /\ tail' = 0 /\ buf' = buf /\ got' = <<>>
      BY <1>5 DEF Reset
    <2>2. Queued' = 0
      BY <2>1, WrapCases DEF Queued
    <2>3. Contents' = <<>>
      BY <2>2 DEF Contents
    <2> QED BY <2>1, <2>3 DEF Fifo!Next, Fifo!Empty
  <1>6. CASE UNCHANGED vars
    <2>1. Contents' = Contents /\ got' = got
      BY <1>6 DEF vars, Contents, Queued, Slot
    <2> QED BY <2>1 DEF Fifo!vars
  <1> QED
    BY <1>1, <1>2, <1>3, <1>4, <1>5, <1>6 DEF Next

\* The zeroed ring is the empty FIFO.
LEMMA InitRefines == Init => Fifo!Init
  <1> SUFFICES ASSUME Init PROVE Fifo!Init
    OBVIOUS
  <1>1. Queued = 0
    BY QueuedCases DEF Init, IndexOK
  <1> QED BY <1>1 DEF Init, Contents, Fifo!Init

(* The array and its two wrapping indices implement the bounded FIFO:      *)
(* every call of uart_ungetc, uart_getc and of the USB queues is a call of *)
(* the FIFO with the same result.                                          *)
THEOREM RingImplementsFifo == Spec => FifoSpec
  <1>1. Spec => []IInv
    BY InitInv, NextInv, PTL DEF Spec
  <1> QED
    BY <1>1, InitRefines, NextRefines, PTL DEF Spec, FifoSpec, Fifo!Spec
=============================================================================
