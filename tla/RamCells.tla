------------------------------ MODULE RamCells ------------------------------
(***************************************************************************)
(* ramtest_main.c's words, and the memory it writes them to through one    *)
(* 4 MiB window and the BPMP's cache.                                      *)
(*                                                                         *)
(* A word, and an address, is the set of its bits that are 1: exclusive or *)
(* is the symmetric difference, a shift moves the elements.  Everything is *)
(* narrower than in the code and keeps its shape: a region's address has   *)
(* bits within the low word and above it, its offsets have low bits only,  *)
(* and the upper bits, rotated by half a word, land among the offsets.     *)
(***************************************************************************)
EXTENDS Integers, Sequences, FiniteSets

CONSTANTS WordBits,    \* bits of a word: 32
          Regions,     \* the DRAM's 4 MiB regions, a sequence of addresses
          Protected,   \* those that are not to be written
          Offsets,     \* the words of a region that are looked at, in order
          Salt,        \* the salt of each pattern
          HiHash,      \* the multiple of the upper bits a PRBS seed takes
          NonZero      \* the seed in place of zero

Bits == 0 .. WordBits - 1
ASSUME CellsAssumption ==
    /\ WordBits \in Nat \ {0}
    /\ \A i, j \in DOMAIN Regions : Regions[i] = Regions[j] => i = j
    /\ Offsets \in Seq(SUBSET Bits)

(* ---- words ---- *)

Xor(a, b) == (a \ b) \cup (b \ a)
Complement(a) == Bits \ a
Shl(a, k) == {b + k : b \in a} \cap Bits
Shr(a, k) == {b - k : b \in a} \cap Bits

Lo(phys) == phys \cap Bits
Hi(phys) == {b - WordBits : b \in phys \ Bits}

\* Mutant: the upper address bits are left out of the pattern.
AddrWordLowOnly(p, phys, o) == Xor(Lo(phys) \cup o, Salt[p])

\* A word that is its own address, the upper half rotated into the lower.
HighMix(phys) == {(b + WordBits \div 2) % WordBits : b \in Hi(phys)}
AddrWord(p, phys, o) == Xor(Xor(Lo(phys) \cup o, HighMix(phys)), Salt[p])

\* The generator's step, with shifts that fit the narrow word.
PrbsStep(x) == LET a == Xor(x, Shl(x, 1))
                   b == Xor(a, Shr(a, 2))
               IN  Xor(b, Shl(b, 1))
PatternSeed(phys) ==
    LET x == Xor(Xor(Lo(phys), HiHash[Hi(phys)]), Salt["prbs"])
    IN  IF x = {} THEN NonZero ELSE x
PrbsWord(phys, n) ==
    LET state[i \in 0 .. n] == IF i = 0 THEN PatternSeed(phys)
                               ELSE PrbsStep(state[i - 1])
    IN  state[n]

\* The n-th word pattern p has at a region.
Word(p, phys, n) ==
    CASE p = "addr"     -> AddrWord(p, phys, Offsets[n])
      [] p = "addr_inv" -> Complement(AddrWord(p, phys, Offsets[n]))
      [] p = "zero"     -> {}
      [] p = "ones"     -> Bits
      [] p = "aa"       -> {b \in Bits : b % 2 = 1}
      [] p = "55"       -> {b \in Bits : b % 2 = 0}
      [] OTHER          -> PrbsWord(phys, n)

(* ---- regions ---- *)

Testable == SelectSeq(Regions, LAMBDA r : r \notin Protected)
TestableSet == {Testable[i] : i \in DOMAIN Testable}
Lines == DOMAIN Offsets

\* There is a region to test.
ASSUME TestableAssumption == Testable \in Seq(SUBSET Nat) \ {<<>>}

\* Regions are 4 MiB: offsets, and the few upper bits once rotated, stay below
\* the bits in which the addresses of two regions differ in the low word.
ASSUME LayoutAssumption ==
    \E page \in Bits :
        /\ \A n \in Lines : \A b \in Offsets[n] : b < page
        /\ \A r \in TestableSet : /\ \A b \in Lo(r) : b >= page
                                  /\ \A b \in Hi(r) : b + WordBits \div 2 < page

\* The generator steps no word but 0 to 0, and no two words to the same; no two
\* regions start it from the same seed.
ASSUME PrbsAssumption ==
    /\ \A r \in TestableSet, n \in Lines : PrbsWord(r, n) # {}
    /\ \A r, s \in TestableSet : r # s => \E n \in Lines : PrbsWord(r, n) # PrbsWord(s, n)

(* ---- the cells, and what may be wrong with them ---- *)

\* A fault is none; one bit of a cell, or a data line, at 0 or 1; a region
\* that decodes to another's cells; a cell that does not keep its word.
NoFault == [kind |-> "none", at |-> <<{}, 0>>, bit |-> 0, as |-> {}]

\* A fault of this memory, in a part of it that is tested.
Fits(f) ==
    \/ f.kind = "none"
    \/ f.kind = "line0" /\ f.bit \in Bits
    \/ f.kind \in {"stuck0", "stuck1", "fades"} /\ f.at \in TestableSet \X Lines
    \/ f.kind = "alias" /\ f.at[1] \in TestableSet /\ f.as \in TestableSet \ {f.at[1]}

Decoded(f, phys) == IF f.kind = "alias" /\ phys = f.at[1] THEN f.as ELSE phys
Stored(f, phys, n, w) ==
    LET hit == <<phys, n>> = f.at IN
    CASE f.kind = "stuck0" /\ hit -> w \ {f.bit}
      [] f.kind = "stuck1" /\ hit -> w \cup {f.bit}
      [] f.kind = "line0"         -> w \ {f.bit}
      [] OTHER                    -> w
Faded(f, cells) ==
    IF f.kind = "fades" THEN [cells EXCEPT ![f.at[1]][f.at[2]] = {}] ELSE cells

NoLine == [in |-> FALSE, dirty |-> FALSE, word |-> {}]
Blank == [cells |-> [r \in TestableSet |-> [n \in Lines |-> {}]],
          cache |-> [n \in Lines |-> NoLine], at |-> Testable[1]]

(* ---- the window: mem is the cells, the cached lines and the mapping ---- *)

Cell(f, mem, n) == mem.cells[Decoded(f, mem.at)][n]
Line(w, dirty) == [in |-> TRUE, dirty |-> dirty, word |-> w]

\* Clean and invalidate: dirty lines go to wherever the window points now.
Maintained(f, mem) ==
    LET d == Decoded(f, mem.at) IN
    [mem EXCEPT !.cells[d] = [n \in Lines |->
                    IF mem.cache[n].dirty THEN Stored(f, d, n, mem.cache[n].word)
                    ELSE @[n]],
                !.cache = [n \in Lines |-> NoLine]]

\* Mutant: the window moves under the cache.
MapRegionOldLines(f, mem, phys) == [mem EXCEPT !.at = phys]

\* The window moves: cleaned before, and nothing of it cached after.
MapRegion(f, mem, phys) == [Maintained(f, mem) EXCEPT !.at = phys]

\* A region written: through the cache, then committed.
Written(f, mem, phys, p) ==
    LET m == MapRegion(f, mem, phys) IN
    Maintained(f, [m EXCEPT !.cache = [n \in Lines |-> Line(Word(p, phys, n), TRUE)]])

\* A region read back: which words are not what was written, and the window
\* after, with some of the lines it read still cached.
Read(f, mem, n) == IF mem.cache[n].in THEN mem.cache[n].word ELSE Cell(f, mem, n)
Wrong(f, mem, phys, p) ==
    LET m == MapRegion(f, mem, phys) IN
    {n \in Lines : Read(f, m, n) # Word(p, phys, n)}
Looked(f, mem, phys, kept) ==
    LET m == MapRegion(f, mem, phys) IN
    [m EXCEPT !.cache = [n \in Lines |->
                            IF n \in kept THEN Line(Read(f, m, n), FALSE) ELSE m.cache[n]]]

\* The preflight: each data bit alone, and its complement, in one word of the
\* first region.  What is left in that word is the last one written; when it
\* fails no pattern runs, and what it leaves is not looked at.
BusWords == {{b} : b \in Bits} \cup {Complement({b}) : b \in Bits}
BusOk(f) == LET r == Decoded(f, Testable[1]) IN
            \A w \in BusWords : Stored(f, r, 1, w) = w
Preflighted(f, mem) ==
    LET m == MapRegion(f, mem, Testable[1])
        w == Complement({WordBits - 1})
    IN  [m EXCEPT !.cells[Decoded(f, m.at)][1] = Stored(f, Decoded(f, m.at), 1, w),
                  !.cache[1] = Line(w, FALSE)]
=============================================================================
