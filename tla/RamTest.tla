------------------------------ MODULE RamTest ------------------------------
(***************************************************************************)
(* ramtest/source/ramtest_main.c: the RAM test, a payload of its own.      *)
(*                                                                         *)
(* One loop: a menu chooses the patterns; the DRAM is trained if it is not *)
(* already; every testable region is written with a pattern and then read  *)
(* back, pattern after pattern; a report waits for a key.  Training goes   *)
(* stale while the console idles, which a compensation every 100 ms finds  *)
(* out (mtc_tick).  A tick here may find an error at any time the code     *)
(* ticks; how often it does is left out.  One step is a region.            *)
(***************************************************************************)
EXTENDS RamCells, Menus

CONSTANTS Order,      \* the patterns, in the order they run
          Faults,     \* what may be wrong with the memory
          MaxErrors   \* where the count of errors stops: 2^32 - 1

ASSUME OrderAssumption ==
    /\ MaxErrors \in Nat \ {0}
    /\ Order \in Seq({"addr", "addr_inv", "zero", "ones", "aa", "55", "prbs"})
    /\ \A i, j \in DOMAIN Order : Order[i] = Order[j] => i = j
    /\ \E i \in DOMAIN Order : Order[i] = "addr"
ASSUME FaultsAssumption == \A f \in Faults : Fits(f)

VARIABLES at,         \* where ipl_main is
          key,        \* the keys down right now
          acts,       \* what the keys down have done since one of them moved
          platform,   \* the SoC, read once
          fault,      \* what is wrong with this console's memory
          menu,       \* choose_mode and custom_menu
          mtc,        \* the memory clock, whether it is trained, its errors
          mem,        \* the cells and the window they are reached through
          run         \* g_pattern_mask and what a run counts

ramVars == <<at, key, acts, platform, fault, menu, mtc, mem, run>>

AllPatterns == {Order[i] : i \in DOMAIN Order}
Fresh == [mask |-> {}, pass |-> 0, region |-> 1, errors |-> 0, done |-> 0,
          abort |-> FALSE, failed |-> FALSE, result |-> "none"]
BootClock == "204"
MtcInit == [clock |-> BootClock, trained |-> FALSE, bad |-> FALSE]

RamInit == /\ at = "away" /\ platform = "unknown" /\ fault = NoFault
           /\ menu = MenuInit(AllPatterns) /\ mtc = MtcInit
           /\ mem = Blank /\ run = Fresh

\* The payload starts, injected or chainloaded.  An unknown SoC trains nothing.
Boots(p, f) ==
    /\ platform' = p /\ fault' = f
    /\ at' = IF p = "unknown" THEN "halted" ELSE "menu"
    /\ menu' = MenuInit(AllPatterns) /\ mtc' = MtcInit
    /\ mem' = Blank /\ run' = Fresh

(* ---- the user ---- *)

\* What the program did on the keys that are down now, counted up to two.
Acted == acts' = IF acts < 2 THEN acts + 1 ELSE acts

\* A key goes down or up.
KeyMoves == (\E k \in KeySets \ {key} : key' = k) /\ acts' = 0
Keys == /\ at \notin {"away", "halted", "entry_clock", "off"}
        /\ KeyMoves
        /\ UNCHANGED <<at, platform, fault, menu, mtc, mem, run>>

(* ---- compensation ---- *)

\* Where the code ticks, an error may come up.  There is none to find before
\* the first training.
Ticked(m) == {m} \cup IF m.trained THEN {[m EXCEPT !.bad = TRUE]} ELSE {}

(* ---- the menus ---- *)

Ticks(ticked, p) == IF p \in ticked THEN ticked \ {p} ELSE ticked \cup {p}

MaskOf(chosen) == CASE chosen = "first"  -> {"addr"}
                    [] chosen = "second" -> AllPatterns
                    [] OTHER             -> menu.ticked

\* A turn of the menu's loop: a tick, then the keys.
MenuTurn ==
    /\ at = "menu" /\ menu.held = {}
    /\ mtc' \in Ticked(mtc)
    /\ LET c == Chosen(menu, key, Order) IN
         IF c \in {"first", "second", "run"}
         THEN /\ at' = "train"
              /\ run' = [run EXCEPT !.mask = MaskOf(c)]
              /\ menu' = MenuInit(menu.ticked)
         ELSE /\ at' = IF c = "off" THEN "off_release" ELSE at
              /\ menu' = IF c = "off" THEN menu ELSE Polled(menu, key, Order, Ticks(menu.ticked, Item(menu, Order)))
              /\ UNCHANGED run
    /\ IF key = {} THEN UNCHANGED acts ELSE Acted
    /\ UNCHANGED <<key, platform, fault, mem>>

\* The wait for the key to be let go does not tick.
MenuReleased ==
    /\ at = "menu" /\ menu.held # {} /\ key # menu.held
    /\ menu' = Released(menu)
    /\ UNCHANGED <<at, key, acts, platform, fault, mtc, mem, run>>

OffReleased ==
    /\ at = "off_release" /\ "power" \notin key
    /\ at' = "off"
    /\ UNCHANGED <<key, acts, platform, fault, menu, mtc, mem, run>>

(* ---- training ---- *)

\* Where a restore leaves the clock: on Mariko at the boot clock, on Erista at
\* 800 MHz, and on either where it was if the PLL does not lock.
Restored(m) == {[m EXCEPT !.trained = FALSE, !.clock = c] :
                c \in {"1600", IF platform = "mariko" THEN BootClock ELSE "800"}}
StaleTraining(m) == m.trained /\ m.bad

\* Mutant: every run trains again.
TrainsEveryRun(m) == TRUE
\* Training is kept while it is good.
Trains(m) == ~m.trained

\* The clock restored if the training went stale; then training, unless it is
\* kept; then the window.  A failure halts for good.
Train ==
    /\ at = "train"
    /\ \E m \in (IF StaleTraining(mtc) THEN Restored(mtc) ELSE {mtc}) :
         IF ~Trains(m) THEN at' \in {"bus", "no_smmu"} /\ mtc' = m
         ELSE IF m.clock # BootClock
              THEN at' = "entry_clock" /\ mtc' = [m EXCEPT !.bad = TRUE]
              ELSE \/ /\ at' \in {"bus", "no_smmu"}
                      /\ mtc' = [clock |-> "1600", trained |-> TRUE, bad |-> FALSE]
                   \/ at' = "halted" /\ mtc' = [m EXCEPT !.bad = TRUE]
    /\ UNCHANGED <<key, acts, platform, fault, menu, mem, run>>

\* No window: the clock is restored and the payload stops.
NoSmmu ==
    /\ at = "no_smmu"
    /\ at' = "halted"
    /\ mtc' \in Restored(mtc)
    /\ UNCHANGED <<key, acts, platform, fault, menu, mem, run>>

(* ---- a run ---- *)

\* Mutant: the count of errors does not stop.
CountedOn(n) == n
CountedUpTo(n) == IF n > MaxErrors THEN MaxErrors ELSE n

\* The next selected pattern after the i-th, zero when there is none.
NextPass(mask, i) ==
    LET later == {j \in DOMAIN Order : j > i /\ Order[j] \in mask}
    IN  IF later = {} THEN 0 ELSE CHOOSE j \in later : \A k \in later : j <= k

\* Where a run goes with pattern number i: to its first region, or the end.
BeginPass(r, i) ==
    /\ run' = [r EXCEPT !.pass = i, !.region = 1]
    /\ at' = IF i = 0 THEN "report" ELSE "write"

\* Data lines; a bad one is an error, and no pattern runs.
DataBus ==
    /\ at = "bus"
    /\ mem' = Preflighted(fault, mem)
    /\ IF BusOk(fault) THEN BeginPass(run, NextPass(run.mask, 0))
       ELSE BeginPass([run EXCEPT !.failed = TRUE, !.errors = CountedUpTo(@ + 1)], 0)
    /\ UNCHANGED <<key, acts, platform, fault, menu, mtc>>

Pattern == Order[run.pass]
Region == Testable[run.region]
Last == run.region = Len(Testable)

\* After each region, and every 10 ms of the hold: a compensation error fails
\* the run, VOL- aborts it, in that order.  r is the run otherwise, and then
\* the step goes on as `ok` says.
Training(r, ok) ==
    /\ mtc' \in Ticked(mtc)
    /\ LET stop == mtc'.bad \/ "vol-" \in key IN
         /\ IF stop THEN /\ run' = [r EXCEPT !.failed = @ \/ mtc'.bad,
                                              !.abort = ~mtc'.bad]
                         /\ at' = "report"
            ELSE ok
         /\ IF stop /\ ~mtc'.bad THEN Acted ELSE UNCHANGED acts

Goes(r, to) == run' = r /\ at' = to

\* A region of the write sweep; PRBS is held before it is read back.
WriteRegion ==
    /\ at = "write"
    /\ mem' = Written(fault, mem, Region, Pattern)
    /\ Training(run, IF ~Last THEN Goes([run EXCEPT !.region = @ + 1], "write")
                     ELSE Goes([run EXCEPT !.region = 1],
                               IF Pattern = "prbs" THEN "hold" ELSE "verify"))
    /\ UNCHANGED <<key, platform, fault, menu>>

\* Two seconds pass, with a tick every 10 ms.
Hold ==
    /\ at = "hold"
    /\ mem' = [mem EXCEPT !.cells = Faded(fault, @)]
    /\ Training(run, Goes(run, "verify"))
    /\ UNCHANGED <<key, platform, fault, menu>>

\* A region of the verify sweep; after the last one the pass is done.
VerifyRegion(kept) ==
    LET wrong == Wrong(fault, mem, Region, Pattern)
        r == [run EXCEPT !.errors = CountedUpTo(@ + Cardinality(wrong))]
    IN  /\ at = "verify"
        /\ mem' = Looked(fault, mem, Region, kept)
        /\ Training(r, IF ~Last THEN Goes([r EXCEPT !.region = @ + 1], "verify")
                       ELSE BeginPass([r EXCEPT !.done = @ + 1],
                                      NextPass(run.mask, run.pass)))
        /\ UNCHANGED <<key, platform, fault, menu>>

(* ---- the report ---- *)

Result(r) == IF r.abort THEN "ABORTED"
             ELSE IF r.failed \/ r.errors > 0 THEN "FAIL" ELSE "PASS"

\* Mutant: the report takes a key that is still down for an answer.
ReportTakesHeldKey ==
    /\ at = "report"
    /\ at' = "answer"
    /\ run' = [run EXCEPT !.result = Result(run), !.region = 1]
    /\ mem' = Blank
    /\ UNCHANGED <<key, acts, platform, fault, menu, mtc>>

\* The window goes; what the cells hold from here on no run looks at before
\* it has written it.  Then the keys must be let go, which does not tick.
Report ==
    /\ at = "report"
    /\ at' = "release"
    /\ run' = [run EXCEPT !.result = Result(run), !.region = 1]
    /\ mem' = Blank
    /\ UNCHANGED <<key, acts, platform, fault, menu, mtc>>

ReportReleased ==
    /\ at = "release" /\ key = {}
    /\ at' = "answer"
    /\ UNCHANGED <<key, acts, platform, fault, menu, mtc, mem, run>>

\* POWER goes back to the menu, VOL- switches off.
Answer ==
    /\ at = "answer"
    /\ mtc' \in Ticked(mtc)
    /\ at' = IF "power" \in key THEN "again"
             ELSE IF "vol-" \in key THEN "off" ELSE at
    /\ IF at' # at THEN Acted ELSE UNCHANGED acts
    /\ UNCHANGED <<key, platform, fault, menu, mem, run>>

\* POWER let go: the run's counters start over, and the menu is up.
Again ==
    /\ at = "again" /\ "power" \notin key
    /\ at' = "menu"
    /\ run' = Fresh
    /\ UNCHANGED <<key, acts, platform, fault, menu, mtc, mem>>

RamNext ==
    \/ Keys
    \/ MenuTurn \/ MenuReleased \/ OffReleased
    \/ Train \/ NoSmmu \/ DataBus
    \/ WriteRegion \/ Hold
    \/ \E kept \in SUBSET Lines : VerifyRegion(kept)
    \/ Report \/ ReportReleased \/ Answer \/ Again

-----------------------------------------------------------------------------
Places == {"away", "halted", "off", "menu", "off_release", "train", "entry_clock",
           "no_smmu", "bus", "write", "hold", "verify", "report", "release",
           "answer", "again"}

(* Type correctness: rows, passes and regions stay inside their tables.    *)
RamTypeOK ==
    /\ at \in Places /\ key \in KeySets /\ acts \in 0 .. 2
    /\ menu.row \in 0 .. Rows(menu, Order) - 1
    /\ menu.ticked \subseteq AllPatterns
    /\ mtc.clock \in {BootClock, "800", "1600"}
    /\ run.pass \in 0 .. Len(Order) /\ run.region \in DOMAIN Testable
    /\ run.errors \in 0 .. MaxErrors
    /\ run.done <= Cardinality(run.mask)

(* Memory with nothing wrong is not reported faulty: no word of one region *)
(* is read from another's cached lines, and nothing of an earlier run      *)
(* counts in this one.  Only lost training may still fail it.              *)
GoodMemoryPasses ==
    run.result = "FAIL" => fault.kind # "none" \/ mtc.bad

(* What a run that passes has excluded: a bad data line; a cell that does  *)
(* not take a word a selected pattern wrote to it; a region that decodes   *)
(* to another, by any pattern made of the address; and, by PRBS, a cell    *)
(* that does not keep its word.  And every selected pattern ran through.   *)
AddressPatterns == {"addr", "addr_inv", "prbs"}
Excluded(f, mask) ==
    CASE f.kind = "line0" -> TRUE
      [] f.kind \in {"stuck0", "stuck1"} ->
           \E p \in mask : Stored(f, f.at[1], f.at[2], Word(p, f.at[1], f.at[2]))
                             # Word(p, f.at[1], f.at[2])
      [] f.kind = "alias" -> mask \cap AddressPatterns # {}
      [] f.kind = "fades" -> "prbs" \in mask
      [] OTHER -> FALSE
PassIsEarned ==
    run.result = "PASS" =>
        /\ ~Excluded(fault, run.mask)
        /\ run.done = Cardinality(run.mask)

(* Training starts from a clock it can start from: it is refused for the   *)
(* entry clock only after compensation was lost, never by just running     *)
(* again.                                                                  *)
RunsAgain ==
    [][at' = "entry_clock" /\ at # "entry_clock"
         => mtc.bad]_ramVars
=============================================================================
