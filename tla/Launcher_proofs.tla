-------------------------- MODULE Launcher_proofs --------------------------
(***************************************************************************)
(* The launcher and the RAM test, for every number of regions, patterns    *)
(* and groups, every fault and every way of holding the keys: a volume key *)
(* does one thing per press, training starts from a clock it can start     *)
(* from, and memory with nothing wrong is not reported faulty.             *)
(***************************************************************************)
EXTENDS Launcher, FiniteSetTheorems, FunctionTheorems, WellFoundedInduction, TLAPS

-----------------------------------------------------------------------------
(* Volume keys.                                                            *)

Volume == key # {} /\ "power" \notin key

\* Where a program that acted on a volume key stands: at a wait for another
\* key, or at its end.
WaitsForRelease ==
    \/ place = "skip" /\ "vol-" \in key
    \/ place = "menu" /\ boxes.held = key
    \/ /\ place = "ram"
       /\ \/ at = "menu" /\ menu.held = key
          \/ at \in {"report", "release", "off"}

ActsInv ==
    /\ key \in SUBSET AllKeys /\ acts \in 0 .. 2
    /\ (at = "away") = (place # "ram")
    /\ "held" \in DOMAIN menu /\ "held" \in DOMAIN boxes
    /\ acts > 0 /\ Volume => acts = 1 /\ WaitsForRelease

(* A volume key alone selects nothing.                                     *)
LEMMA VolumeSelectsNothing ==
    ASSUME Volume, NEW m, NEW items PROVE Chosen(m, key, items) = "none"
<1>1. key # {"power"} BY DEF Volume
<1>2. ~Selects(key) BY <1>1 DEF Selects
<1>. QED BY <1>2 DEF Chosen

(* A turn of a menu's loop leaves a volume key to be waited for.           *)
LEMMA VolumeIsHeld ==
    ASSUME Volume, NEW m, "held" \in DOMAIN m, NEW items, NEW ticked
    PROVE  Polled(m, key, items, ticked).held = key
  BY VolumeSelectsNothing DEF Polled

(* A menu keeps its shape.                                                 *)
LEMMA PolledShape ==
    ASSUME NEW m, "held" \in DOMAIN m, NEW items, NEW ticked
    PROVE  "held" \in DOMAIN Polled(m, key, items, ticked)
  BY DEF Polled

(* At the start the keys that are down have done nothing.                  *)
LEMMA ActsInit == Init => ActsInv
<1>. SUFFICES ASSUME Init PROVE ActsInv
  OBVIOUS
<1>1. key \in SUBSET AllKeys BY KeySetsAssumption DEF Init
<1>. QED BY <1>1 DEF Init, RamInit, ActsInv, MenuInit

\* A step of the program that acts on no key: nothing it waits for is over.
Quietly == /\ UNCHANGED <<key, acts>>
           /\ (at' = "away") = (place' # "ram")
           /\ "held" \in DOMAIN menu' /\ "held" \in DOMAIN boxes'
           /\ acts > 0 /\ Volume /\ WaitsForRelease => WaitsForRelease'

(* Such a step keeps the press at its one act.                             *)
LEMMA QuietSafe == ActsInv /\ Quietly => ActsInv'
  BY DEF ActsInv, Quietly, Volume

(* A key that moves has done nothing yet.                                  *)
LEMMA KeySafe ==
    ActsInv /\ KeyMoves /\ UNCHANGED <<at, place, menu, boxes>> => ActsInv'
  BY KeySetsAssumption DEF ActsInv, KeyMoves

(* A step of the launcher acts on a press once, and waits for its release. *)
LEMMA LauncherActs ==
    ASSUME ActsInv,
           LauncherKeys \/ Boot \/ SkipReleased \/ Turn \/ TurnReleased \/ SwitchedOff
           \/ RamStarts \/ LoadFails \/ FailureSeen \/ FailureReleased
    PROVE  ActsInv'
<1>1. CASE LauncherKeys BY <1>1, KeySafe DEF LauncherKeys
<1>2. CASE Boot
  BY <1>2 DEF Boot, Stays, Acted, ActsInv, WaitsForRelease, Volume
<1>3. CASE SkipReleased
  BY <1>3, QuietSafe DEF SkipReleased, Stays, Quietly, ActsInv, WaitsForRelease
<1>4. CASE Turn
  <2>. DEFINE turned == TicksGroup(boxes.ticked, Item(boxes, Groups))
  <2>1. /\ UNCHANGED <<key, at, menu>> /\ Acted
        /\ place = "menu" /\ boxes.held = {} /\ key # {}
    BY <1>4 DEF Turn, Stays
  <2>2. acts = 0 \/ ~Volume
    BY <2>1 DEF ActsInv, WaitsForRelease
  <2>3. "held" \in DOMAIN boxes'
    <3>1. \/ boxes' = Polled(boxes, key, Groups, turned)
          \/ boxes' = MenuInit(AllGroups) \/ boxes' = boxes
      BY <1>4 DEF Turn
    <3>. HIDE DEF turned
    <3>. QED BY <3>1, PolledShape DEF MenuInit, ActsInv
  <2>4. Volume => place' = place /\ boxes'.held = key
    <3>. SUFFICES ASSUME Volume PROVE place' = place /\ boxes'.held = key
      OBVIOUS
    <3>1. place' = place BY <1>4, <2>1, VolumeSelectsNothing DEF Turn
    <3>2. boxes' = Polled(boxes, key, Groups, turned) BY <1>4, <3>1 DEF Turn
    <3>. HIDE DEF turned
    <3>. QED BY <3>1, <3>2, VolumeIsHeld DEF ActsInv
  <2>5. place' # "ram"
    BY <1>4 DEF Turn
  <2>. QED BY <2>1, <2>2, <2>3, <2>4, <2>5 DEF Acted, ActsInv, WaitsForRelease, Volume
<1>5. CASE TurnReleased
  <2>1. "held" \in DOMAIN boxes' BY <1>5 DEF TurnReleased, Released, ActsInv
  <2>. QED BY <1>5, <2>1, QuietSafe
           DEF TurnReleased, Stays, Quietly, ActsInv, WaitsForRelease
<1>6. CASE SwitchedOff
  BY <1>6, QuietSafe DEF SwitchedOff, Stays, Quietly, ActsInv, WaitsForRelease
<1>7. CASE RamStarts
  BY <1>7, QuietSafe DEF RamStarts, Boots, MenuInit, Quietly, ActsInv, WaitsForRelease
<1>8. CASE LoadFails
  BY <1>8, QuietSafe DEF LoadFails, Stays, Quietly, ActsInv, WaitsForRelease
<1>9. CASE FailureSeen
  BY <1>9 DEF FailureSeen, Stays, Acted, ActsInv, Volume
<1>10. CASE FailureReleased
  BY <1>10, QuietSafe DEF FailureReleased, Stays, Quietly, ActsInv, WaitsForRelease
<1>. QED BY <1>1, <1>2, <1>3, <1>4, <1>5, <1>6, <1>7, <1>8, <1>9, <1>10

(* Where a run is stopped by VOL- the press has done its one thing.        *)
LEMMA TrainingActs ==
    ASSUME ActsInv, NEW r, NEW ok \in BOOLEAN, Training(r, ok),
           at \notin {"away", "menu", "report", "release", "off"},
           ok => at' # "away", UNCHANGED <<key, menu, place, boxes>>
    PROVE  ActsInv'
<1>1. place = "ram" /\ (acts = 0 \/ ~Volume)
  BY DEF ActsInv, WaitsForRelease
<1>2. \/ at' = "report" /\ (Acted \/ UNCHANGED acts)
      \/ at' # "away" /\ UNCHANGED acts
  BY DEF Training
<1>. QED BY <1>1, <1>2 DEF ActsInv, Acted, Volume, WaitsForRelease

(* So does a step of the RAM test.                                         *)
LEMMA RamActs == ASSUME ActsInv, RamNext, UNCHANGED <<place, boxes>> PROVE ActsInv'
<1>1. CASE Keys BY <1>1, KeySafe DEF Keys
<1>2. CASE MenuTurn
  <2>. DEFINE turned == Ticks(menu.ticked, Item(menu, Order))
  <2>1. key' = key /\ at = "menu" /\ menu.held = {} /\ (IF key = {} THEN UNCHANGED acts ELSE Acted)
    BY <1>2 DEF MenuTurn
  <2>2. acts = 0 \/ ~Volume
    BY <2>1 DEF ActsInv, WaitsForRelease, Volume
  <2>3. "held" \in DOMAIN menu'
    <3>1. menu' = Polled(menu, key, Order, turned) \/ menu' = MenuInit(menu.ticked) \/ menu' = menu
      BY <1>2 DEF MenuTurn
    <3>. HIDE DEF turned
    <3>. QED BY <3>1, PolledShape DEF MenuInit, ActsInv
  <2>4. Volume => at' = "menu" /\ menu'.held = key
    <3>. SUFFICES ASSUME Volume PROVE at' = "menu" /\ menu'.held = key
      OBVIOUS
    <3>1. at' = "menu" /\ menu' = Polled(menu, key, Order, turned)
      BY <1>2, <2>1, VolumeSelectsNothing DEF MenuTurn
    <3>. HIDE DEF turned
    <3>. QED BY <3>1, VolumeIsHeld DEF ActsInv
  <2>5. at' # "away" BY <1>2 DEF MenuTurn
  <2>. QED BY <2>1, <2>2, <2>3, <2>4, <2>5 DEF Acted, ActsInv, WaitsForRelease, Volume
<1>3. CASE MenuReleased
  <2>1. "held" \in DOMAIN menu' BY <1>3 DEF MenuReleased, Released, ActsInv
  <2>. QED BY <1>3, <2>1, QuietSafe DEF MenuReleased, Quietly, ActsInv, WaitsForRelease
<1>4. CASE OffReleased
  BY <1>4, QuietSafe DEF OffReleased, Quietly, ActsInv, WaitsForRelease
<1>5. CASE Train
  <2>1. at = "train" /\ at' # "away" /\ UNCHANGED <<key, acts, menu>> BY <1>5 DEF Train
  <2>. QED BY <2>1, QuietSafe DEF Quietly, ActsInv, WaitsForRelease
<1>6. CASE NoSmmu
  BY <1>6, QuietSafe DEF NoSmmu, Quietly, ActsInv, WaitsForRelease
<1>7. CASE DataBus
  <2>1. at = "bus" /\ at' # "away" /\ UNCHANGED <<key, acts, menu>>
    BY <1>7 DEF DataBus, BeginPass
  <2>. QED BY <2>1, QuietSafe DEF Quietly, ActsInv, WaitsForRelease
<1>8. CASE WriteRegion
  BY <1>8, TrainingActs DEF WriteRegion, Goes
<1>9. CASE Hold
  BY <1>9, TrainingActs DEF Hold, Goes
<1>10. ASSUME NEW kept \in SUBSET Lines, VerifyRegion(kept) PROVE ActsInv'
  BY <1>10, TrainingActs DEF VerifyRegion, Goes, BeginPass
<1>11. CASE Report
  BY <1>11, QuietSafe DEF Report, Quietly, ActsInv, WaitsForRelease
<1>12. CASE ReportReleased
  BY <1>12, QuietSafe DEF ReportReleased, Quietly, ActsInv, WaitsForRelease, Volume
<1>13. CASE Answer
  BY <1>13 DEF Answer, Acted, ActsInv, WaitsForRelease, Volume
<1>14. CASE Again
  BY <1>14, QuietSafe DEF Again, Quietly, ActsInv, WaitsForRelease
<1>. QED BY <1>1, <1>2, <1>3, <1>4, <1>5, <1>6, <1>7, <1>8, <1>9, <1>10, <1>11,
            <1>12, <1>13, <1>14 DEF RamNext

(* And so does any step.                                                   *)
LEMMA ActsStep == ActsInv /\ [Next]_vars => ActsInv'
<1>. SUFFICES ASSUME ActsInv, [Next]_vars PROVE ActsInv'
  OBVIOUS
<1>1. CASE UNCHANGED vars
  BY <1>1 DEF vars, ramVars, ActsInv, Volume, WaitsForRelease
<1>. QED BY <1>1, LauncherActs, RamActs DEF Next

(* A press of a volume key does one thing, however long it is held and     *)
(* whatever screen it takes the user to (ui_menu.c's and ramtest_main.c's  *)
(* waits for a release).                                                   *)
THEOREM VolumeKeysActOnce == Spec => []VolumeActsOnce
<1>1. ActsInv => VolumeActsOnce BY DEF ActsInv, VolumeActsOnce, Volume
<1>. QED BY <1>1, ActsInit, ActsStep, PTL DEF Spec
-----------------------------------------------------------------------------
(* Training.                                                               *)

\* The clock is the boot clock until a training, and again after a restore
\* that gets there.
ClockInv ==
    /\ platform \in {"erista", "mariko", "unknown"}
    /\ at \notin {"away", "halted"} => platform # "unknown"
    /\ mtc \in [clock : {BootClock, "800", "1600"}, trained : BOOLEAN, bad : BOOLEAN]
    /\ at \notin {"entry_clock", "halted"} => mtc.trained \/ mtc.clock = BootClock

(* A step that at most ticks keeps the clock's invariant.                  *)
LEMMA TickSafe ==
    ASSUME ClockInv, mtc' \in Ticked(mtc) \/ UNCHANGED mtc, UNCHANGED platform,
           at \notin {"away", "halted", "entry_clock"}, at' # "entry_clock"
    PROVE  ClockInv'
<1>1. /\ mtc' \in [clock : {BootClock, "800", "1600"}, trained : BOOLEAN, bad : BOOLEAN]
      /\ mtc'.trained = mtc.trained /\ mtc'.clock = mtc.clock
  <2>1. CASE UNCHANGED mtc BY <2>1 DEF ClockInv
  <2>2. CASE mtc' \in Ticked(mtc) BY <2>2 DEF Ticked, ClockInv
  <2>. QED BY <2>1, <2>2
<1>. QED BY <1>1 DEF ClockInv

(* Training keeps the invariant, and reaches the entry clock only after    *)
(* compensation was lost.                                                  *)
LEMMA TrainSafe ==
    ASSUME ClockInv, Train
    PROVE  ClockInv' /\ (at' = "entry_clock" => mtc.bad)
<1>1. at = "train" /\ platform' = platform /\ platform \in {"erista", "mariko"}
  BY DEF Train, ClockInv
<1>2. PICK m \in (IF StaleTraining(mtc) THEN Restored(mtc) ELSE {mtc}) :
         IF ~Trains(m) THEN at' \in {"bus", "no_smmu"} /\ mtc' = m
         ELSE IF m.clock # BootClock
              THEN at' = "entry_clock" /\ mtc' = [m EXCEPT !.bad = TRUE]
              ELSE \/ /\ at' \in {"bus", "no_smmu"}
                      /\ mtc' = [clock |-> "1600", trained |-> TRUE, bad |-> FALSE]
                   \/ at' = "halted" /\ mtc' = [m EXCEPT !.bad = TRUE]
  BY DEF Train
<1>3. /\ m \in [clock : {BootClock, "800", "1600"}, trained : BOOLEAN, bad : BOOLEAN]
      /\ m.clock # BootClock /\ ~m.trained => mtc.bad
  <2>1. CASE StaleTraining(mtc)
    <3>1. PICK c \in {BootClock, "800", "1600"} :
             m = [mtc EXCEPT !.trained = FALSE, !.clock = c]
      BY <1>2, <2>1 DEF Restored
    <3>. QED BY <1>1, <2>1, <3>1 DEF StaleTraining, ClockInv
  <2>2. CASE ~StaleTraining(mtc)
    BY <1>1, <1>2, <2>2 DEF ClockInv
  <2>. QED BY <2>1, <2>2
<1>4. CASE ~Trains(m)
  BY <1>1, <1>2, <1>3, <1>4 DEF Trains, ClockInv
<1>5. CASE Trains(m) /\ m.clock # BootClock
  BY <1>1, <1>2, <1>3, <1>5 DEF Trains, ClockInv
<1>6. CASE Trains(m) /\ m.clock = BootClock
  <2>1. at' # "entry_clock" /\ platform' = platform
    BY <1>1, <1>2, <1>6
  <2>2. CASE /\ at' \in {"bus", "no_smmu"}
             /\ mtc' = [clock |-> "1600", trained |-> TRUE, bad |-> FALSE]
    BY <1>1, <2>1, <2>2 DEF ClockInv
  <2>3. CASE at' = "halted" /\ mtc' = [m EXCEPT !.bad = TRUE]
    BY <1>1, <1>3, <2>1, <2>3 DEF ClockInv
  <2>. QED BY <1>2, <1>6, <2>1, <2>2, <2>3
<1>. QED BY <1>4, <1>5, <1>6

(* A step of the payload.                                                  *)
LEMMA RamClock ==
    ASSUME ClockInv, RamNext
    PROVE  /\ ClockInv'
           /\ at' = "entry_clock" /\ at # "entry_clock" => mtc.bad
<1>1. CASE Keys BY <1>1 DEF Keys, ClockInv
<1>2. CASE MenuTurn
  <2>1. at = "menu" /\ at' # "entry_clock" /\ mtc' \in Ticked(mtc) /\ platform' = platform
    BY <1>2 DEF MenuTurn
  <2>. QED BY <2>1, TickSafe
<1>3. CASE MenuReleased BY <1>3, TickSafe DEF MenuReleased
<1>4. CASE OffReleased BY <1>4, TickSafe DEF OffReleased
<1>5. CASE Train BY <1>5, TrainSafe
<1>6. CASE NoSmmu
  <2>1. PICK c \in {BootClock, "800", "1600"} :
           mtc' = [mtc EXCEPT !.trained = FALSE, !.clock = c]
    BY <1>6 DEF NoSmmu, Restored
  <2>. QED BY <1>6, <2>1 DEF NoSmmu, ClockInv
<1>7. CASE DataBus
  <2>1. at = "bus" /\ at' # "entry_clock" /\ UNCHANGED <<mtc, platform>>
    BY <1>7 DEF DataBus, BeginPass
  <2>. QED BY <2>1, TickSafe
<1>8. CASE WriteRegion
  <2>1. at = "write" /\ at' # "entry_clock" /\ mtc' \in Ticked(mtc) /\ platform' = platform
    BY <1>8 DEF WriteRegion, Training, Goes
  <2>. QED BY <2>1, TickSafe
<1>9. CASE Hold
  <2>1. at = "hold" /\ at' # "entry_clock" /\ mtc' \in Ticked(mtc) /\ platform' = platform
    BY <1>9 DEF Hold, Training, Goes
  <2>. QED BY <2>1, TickSafe
<1>10. ASSUME NEW kept \in SUBSET Lines, VerifyRegion(kept)
       PROVE  /\ ClockInv'
              /\ at' # "entry_clock"
  <2>1. at = "verify" /\ at' # "entry_clock" /\ mtc' \in Ticked(mtc) /\ platform' = platform
    BY <1>10 DEF VerifyRegion, Training, Goes, BeginPass
  <2>. QED BY <2>1, TickSafe
<1>11. CASE Report BY <1>11, TickSafe DEF Report
<1>12. CASE ReportReleased BY <1>12, TickSafe DEF ReportReleased
<1>13. CASE Answer
  <2>1. at = "answer" /\ at' # "entry_clock" /\ mtc' \in Ticked(mtc) /\ platform' = platform
    BY <1>13 DEF Answer
  <2>. QED BY <2>1, TickSafe
<1>14. CASE Again BY <1>14, TickSafe DEF Again
<1>. QED BY <1>1, <1>2, <1>3, <1>4, <1>5, <1>6, <1>7, <1>8, <1>9, <1>10, <1>11,
            <1>12, <1>13, <1>14, Zenon DEF RamNext

(* A step of the launcher leaves the payload alone, or starts it afresh.   *)
LEMMA LauncherLeavesRam ==
    ASSUME LauncherKeys \/ Boot \/ SkipReleased \/ Turn \/ TurnReleased \/ SwitchedOff
           \/ RamStarts \/ LoadFails \/ FailureSeen \/ FailureReleased
    PROVE  \/ UNCHANGED <<at, platform, fault, mtc, mem, run>>
           \/ \E p \in Platforms, f \in Faults : Boots(p, f)
  BY DEF LauncherKeys, Boot, SkipReleased, Turn, TurnReleased, SwitchedOff,
         RamStarts, LoadFails, FailureSeen, FailureReleased, Stays

(* The payload starts on the boot clock.                                   *)
LEMMA ClockInit == Init => ClockInv
  BY DEF Init, RamInit, MtcInit, ClockInv, BootClock

(* So any step keeps the clock's invariant.                                *)
LEMMA ClockStep ==
    ASSUME ClockInv, [Next]_vars
    PROVE  /\ ClockInv'
           /\ at' = "entry_clock" /\ at # "entry_clock" => mtc.bad
<1>1. CASE UNCHANGED vars BY <1>1 DEF vars, ramVars, ClockInv
<1>2. CASE RamNext BY <1>2, RamClock
<1>3. CASE UNCHANGED <<at, platform, fault, mtc, mem, run>> BY <1>3 DEF ClockInv
<1>4. ASSUME NEW p \in Platforms, NEW f \in Faults, Boots(p, f)
      PROVE  ClockInv' /\ at' # "entry_clock"
  BY <1>4, PlatformsAssumption DEF Boots, ClockInv, MtcInit, BootClock
<1>. QED BY <1>1, <1>2, <1>3, <1>4, LauncherLeavesRam DEF Next

(* Training starts from a clock it can start from, but after compensation   *)
(* was lost (the refusal of any other entry clock).                        *)
THEOREM TrainingStarts == Spec => RunsAgain
<1>1. ClockInv /\ [Next]_vars
        => ClockInv' /\ [at' = "entry_clock" /\ at # "entry_clock"
                           => mtc.bad]_ramVars
  BY ClockStep
<1>. QED BY <1>1, ClockInit, PTL DEF Spec, RunsAgain
-----------------------------------------------------------------------------
(* Memory with nothing wrong.                                              *)

Nothing == fault.kind = "none"

\* The window points at a region, and the cells and the lines have their shape.
MemShape(m) ==
    /\ {"cells", "cache", "at"} \subseteq DOMAIN m
    /\ DOMAIN m.cells = TestableSet /\ m.at \in TestableSet
    /\ \A r \in TestableSet : DOMAIN m.cells[r] = Lines
    /\ DOMAIN m.cache = Lines

\* No line holds what its cell does not have yet.
Clean(m) == \A n \in Lines : ~m.cache[n].dirty

\* Region r holds a pattern's words.
Has(m, r, p) == \A n \in Lines : m.cells[r][n] = Word(p, r, n)

\* What a sweep has got to.  Nothing has counted before a run, and nothing but
\* lost training fails one.
SweepInv ==
    /\ {"mask", "pass", "region", "errors", "done", "abort", "failed", "result"} \subseteq DOMAIN run
    /\ run.region \in DOMAIN Testable /\ run.errors = 0
    /\ run.failed \/ run.result = "FAIL" => mtc.bad
    /\ at \in {"menu", "train", "no_smmu", "bus"} => ~run.failed /\ run.result # "FAIL"
    /\ "bad" \in DOMAIN mtc
    /\ MemShape(mem) /\ Clean(mem)
    /\ at = "write" => \A j \in DOMAIN Testable : j < run.region => Has(mem, Testable[j], Pattern)
    /\ at \in {"hold", "verify"} => \A j \in DOMAIN Testable : Has(mem, Testable[j], Pattern)

GoodInv == Nothing => SweepInv

(* Without a fault an address is its own and a word is stored as it is.    *)
LEMMA NothingWrong ==
    ASSUME Nothing
    PROVE  /\ \A r : Decoded(fault, r) = r
           /\ \A r, n, w : Stored(fault, r, n, w) = w
           /\ \A c : Faded(fault, c) = c
  BY DEF Nothing, Decoded, Stored, Faded

\* Every address decodes to one of the regions.
Decodes == \A r \in TestableSet : Decoded(fault, r) \in TestableSet

(* A clean and invalidate: the dirty words reach the cells their address   *)
(* decodes to, the others are as they were, and no line is left.           *)
LEMMA MaintainedKeeps ==
    ASSUME Decodes, NEW m, MemShape(m)
    PROVE  /\ MemShape(Maintained(fault, m)) /\ Clean(Maintained(fault, m))
           /\ \A n \in Lines : ~Maintained(fault, m).cache[n].in
           /\ Maintained(fault, m).at = m.at
           /\ \A r \in TestableSet, n \in Lines :
                Maintained(fault, m).cells[r][n]
                  = IF r = Decoded(fault, m.at) /\ m.cache[n].dirty
                    THEN Stored(fault, r, n, m.cache[n].word) ELSE m.cells[r][n]
<1>. DEFINE d == Decoded(fault, m.at)
            row == [n \in Lines |-> IF m.cache[n].dirty THEN Stored(fault, d, n, m.cache[n].word)
                                    ELSE m.cells[d][n]]
            k == Maintained(fault, m)
<1>1. k = [m EXCEPT !.cells[d] = row, !.cache = [n \in Lines |-> NoLine]]
  BY DEF Maintained
<1>2. d \in TestableSet BY DEF Decodes, MemShape
<1>. HIDE DEF d
<1>3. k.cells = [m.cells EXCEPT ![d] = row]
  BY <1>1 DEF MemShape
<1>4. k.cache = [n \in Lines |-> NoLine] /\ k.at = m.at /\ DOMAIN k = DOMAIN m
  BY <1>1 DEF MemShape
<1>5. MemShape(k)
  BY <1>3, <1>4 DEF MemShape
<1>6. \A n \in Lines : ~k.cache[n].in /\ ~k.cache[n].dirty
  BY <1>4 DEF NoLine
<1>7. \A r \in TestableSet, n \in Lines :
        k.cells[r][n] = IF r = d /\ m.cache[n].dirty THEN Stored(fault, r, n, m.cache[n].word)
                        ELSE m.cells[r][n]
  BY <1>2, <1>3 DEF MemShape
<1>. QED BY <1>4, <1>5, <1>6, <1>7 DEF Clean, d

(* The window moved while no line is dirty: every cell is as it was.       *)
LEMMA MappedKeeps ==
    ASSUME Decodes, NEW m, MemShape(m), Clean(m), NEW phys \in TestableSet
    PROVE  LET k == MapRegion(fault, m, phys) IN
           /\ MemShape(k) /\ Clean(k) /\ k.at = phys
           /\ \A n \in Lines : ~k.cache[n].in
           /\ \A r \in TestableSet, n \in Lines : k.cells[r][n] = m.cells[r][n]
<1>. DEFINE d == Maintained(fault, m)
            k == MapRegion(fault, m, phys)
<1>1. k = [d EXCEPT !.at = phys] BY DEF MapRegion
<1>2. /\ MemShape(d) /\ Clean(d) /\ \A n \in Lines : ~d.cache[n].in
      /\ \A r \in TestableSet, n \in Lines : d.cells[r][n] = m.cells[r][n]
  BY MaintainedKeeps DEF Clean
<1>. HIDE DEF d
<1>3. k.at = phys /\ k.cells = d.cells /\ k.cache = d.cache /\ DOMAIN k = DOMAIN d
  BY <1>1, <1>2 DEF MemShape
<1>. HIDE DEF k
<1>4. MemShape(k) BY <1>2, <1>3 DEF MemShape
<1>5. Clean(k) BY <1>2, <1>3 DEF Clean
<1>6. QED BY <1>2, <1>3, <1>4, <1>5 DEF k

(* A region written: the cells it decodes to take the pattern's words, and *)
(* the others keep what they had.                                          *)
LEMMA WrittenCells ==
    ASSUME Decodes, NEW m, MemShape(m), Clean(m), NEW phys \in TestableSet, NEW p
    PROVE  LET w == Written(fault, m, phys, p) IN
           /\ MemShape(w) /\ Clean(w)
           /\ \A r \in TestableSet, n \in Lines :
                w.cells[r][n] = IF r = Decoded(fault, phys)
                                THEN Stored(fault, r, n, Word(p, phys, n)) ELSE m.cells[r][n]
<1>. DEFINE k == MapRegion(fault, m, phys)
            full == [k EXCEPT !.cache = [n \in Lines |-> Line(Word(p, phys, n), TRUE)]]
            w == Written(fault, m, phys, p)
<1>1. w = Maintained(fault, full) BY DEF Written
<1>2. /\ MemShape(k) /\ k.at = phys
      /\ \A r \in TestableSet, n \in Lines : k.cells[r][n] = m.cells[r][n]
  BY MappedKeeps
<1>. HIDE DEF k
<1>3. /\ full.cache = [n \in Lines |-> Line(Word(p, phys, n), TRUE)]
      /\ full.at = phys /\ full.cells = k.cells /\ DOMAIN full = DOMAIN k
  BY <1>2 DEF MemShape
<1>4. MemShape(full) BY <1>2, <1>3 DEF MemShape
<1>5. \A n \in Lines : full.cache[n].dirty /\ full.cache[n].word = Word(p, phys, n)
  BY <1>3 DEF Line
<1>. HIDE DEF full
<1>6. /\ MemShape(w) /\ Clean(w)
      /\ \A r \in TestableSet, n \in Lines :
           w.cells[r][n] = IF r = Decoded(fault, full.at) /\ full.cache[n].dirty
                           THEN Stored(fault, r, n, full.cache[n].word)
                           ELSE full.cells[r][n]
  BY <1>1, <1>4, MaintainedKeeps
<1>. HIDE DEF w
<1>7. ASSUME NEW r \in TestableSet, NEW n \in Lines
      PROVE  w.cells[r][n] = IF r = Decoded(fault, phys)
                             THEN Stored(fault, r, n, Word(p, phys, n)) ELSE m.cells[r][n]
  <2>1. full.cells[r][n] = m.cells[r][n] /\ full.at = phys
    BY <1>2, <1>3
  <2>2. full.cache[n].dirty /\ full.cache[n].word = Word(p, phys, n)
    BY <1>5
  <2>3. w.cells[r][n] = IF r = Decoded(fault, full.at) /\ full.cache[n].dirty
                        THEN Stored(fault, r, n, full.cache[n].word)
                        ELSE full.cells[r][n]
    BY <1>6
  <2>. QED BY <2>1, <2>2, <2>3
<1>. QED BY <1>6, <1>7 DEF w

(* A region read, through a window with no line of another region in it:   *)
(* what is wrong is what its cells do not have, and every cell stays.      *)
LEMMA LookedCells ==
    ASSUME Decodes, NEW m, MemShape(m), Clean(m), NEW phys \in TestableSet, NEW p, NEW kept
    PROVE  LET l == Looked(fault, m, phys, kept) IN
           /\ Wrong(fault, m, phys, p)
                = {n \in Lines : m.cells[Decoded(fault, phys)][n] # Word(p, phys, n)}
           /\ MemShape(l) /\ Clean(l)
           /\ \A r \in TestableSet, n \in Lines : l.cells[r][n] = m.cells[r][n]
<1>. DEFINE k == MapRegion(fault, m, phys)
            l == Looked(fault, m, phys, kept)
<1>1. /\ MemShape(k) /\ Clean(k) /\ k.at = phys
      /\ \A n \in Lines : ~k.cache[n].in
      /\ \A r \in TestableSet, n \in Lines : k.cells[r][n] = m.cells[r][n]
  BY MappedKeeps
<1>2. \A n \in Lines : Read(fault, k, n) = m.cells[Decoded(fault, phys)][n]
  <2>. HIDE DEF k
  <2>1. Decoded(fault, phys) \in TestableSet BY DEF Decodes
  <2>. QED BY <1>1, <2>1 DEF Read, Cell
<1>3. Wrong(fault, m, phys, p)
        = {n \in Lines : m.cells[Decoded(fault, phys)][n] # Word(p, phys, n)}
  BY <1>2 DEF Wrong
<1>4. l = [k EXCEPT !.cache = [n \in Lines |-> IF n \in kept THEN Line(Read(fault, k, n), FALSE)
                                               ELSE k.cache[n]]]
  BY DEF Looked
<1>. HIDE DEF k, l
<1>5. /\ l.cells = k.cells /\ l.at = k.at /\ DOMAIN l = DOMAIN k
      /\ l.cache = [n \in Lines |-> IF n \in kept THEN Line(Read(fault, k, n), FALSE)
                                    ELSE k.cache[n]]
  BY <1>1, <1>4 DEF MemShape
<1>6. MemShape(l) BY <1>1, <1>5 DEF MemShape
<1>7. Clean(l) BY <1>1, <1>5 DEF Clean, Line
<1>. QED BY <1>1, <1>3, <1>5, <1>6, <1>7 DEF l

(* The preflight leaves no line dirty.                                     *)
LEMMA PreflightCells ==
    ASSUME Decodes, NEW m, MemShape(m), Clean(m)
    PROVE  MemShape(Preflighted(fault, m)) /\ Clean(Preflighted(fault, m))
<1>. DEFINE k == MapRegion(fault, m, Testable[1])
            w == Complement({WordBits - 1})
            d == Decoded(fault, k.at)
            v == Stored(fault, d, 1, w)
            b == Preflighted(fault, m)
<1>1. Testable[1] \in TestableSet
  BY TestableAssumption DEF TestableSet
<1>2. MemShape(k) /\ Clean(k)
  BY <1>1, MappedKeeps
<1>3. b = [k EXCEPT !.cells[d][1] = v, !.cache[1] = Line(w, FALSE)]
  BY DEF Preflighted
<1>. HIDE DEF k, w, d, v, b
<1>4. /\ b.cells = [k.cells EXCEPT ![d][1] = v] /\ b.at = k.at /\ DOMAIN b = DOMAIN k
      /\ b.cache = [k.cache EXCEPT ![1] = Line(w, FALSE)]
  BY <1>2, <1>3 DEF MemShape
<1>5. MemShape(b) BY <1>2, <1>4 DEF MemShape
<1>6. Clean(b) BY <1>2, <1>4 DEF Clean, Line, MemShape
<1>. QED BY <1>5, <1>6 DEF b

(* With nothing wrong a region written has its pattern.                    *)
LEMMA WrittenHas ==
    ASSUME Nothing, NEW m, MemShape(m), Clean(m), NEW phys \in TestableSet, NEW p
    PROVE  LET w == Written(fault, m, phys, p) IN
           /\ MemShape(w) /\ Clean(w) /\ Has(w, phys, p)
           /\ \A r \in TestableSet : Has(m, r, p) => Has(w, r, p)
<1>. DEFINE w == Written(fault, m, phys, p)
<1>1. Decodes BY NothingWrong DEF Decodes
<1>2. MemShape(w) /\ Clean(w) BY <1>1, WrittenCells
<1>3. \A r \in TestableSet, n \in Lines :
        w.cells[r][n] = IF r = phys THEN Word(p, phys, n) ELSE m.cells[r][n]
  <2>1. \A r \in TestableSet, n \in Lines :
          w.cells[r][n] = IF r = Decoded(fault, phys)
                          THEN Stored(fault, r, n, Word(p, phys, n)) ELSE m.cells[r][n]
    BY <1>1, WrittenCells
  <2>. HIDE DEF w
  <2>. QED BY <2>1, NothingWrong
<1>. HIDE DEF w
<1>4. Has(w, phys, p) /\ \A r \in TestableSet : Has(m, r, p) => Has(w, r, p)
  BY <1>3 DEF Has
<1>. QED BY <1>2, <1>4 DEF w

(* And is read back as it was written.                                     *)
LEMMA ReadBack ==
    ASSUME Nothing, NEW m, MemShape(m), Clean(m), NEW phys \in TestableSet, NEW p,
           NEW kept, Has(m, phys, p)
    PROVE  /\ Wrong(fault, m, phys, p) = {}
           /\ MemShape(Looked(fault, m, phys, kept)) /\ Clean(Looked(fault, m, phys, kept))
           /\ \A r \in TestableSet : Has(m, r, p) => Has(Looked(fault, m, phys, kept), r, p)
<1>. DEFINE l == Looked(fault, m, phys, kept)
<1>1. Decodes BY NothingWrong DEF Decodes
<1>2. MemShape(l) /\ Clean(l) /\ \A r \in TestableSet, n \in Lines : l.cells[r][n] = m.cells[r][n]
  BY <1>1, LookedCells
<1>3. Wrong(fault, m, phys, p)
        = {n \in Lines : m.cells[Decoded(fault, phys)][n] # Word(p, phys, n)}
  BY <1>1, LookedCells
<1>4. Wrong(fault, m, phys, p) = {}
  BY <1>3, NothingWrong DEF Has
<1>. HIDE DEF l
<1>5. \A r \in TestableSet : Has(m, r, p) => Has(l, r, p)
  BY <1>2 DEF Has
<1>. QED BY <1>2, <1>4, <1>5 DEF l

(* A run that is stopped by lost training or by VOL- fails for the first   *)
(* reason only.                                                            *)
LEMMA TrainingGood ==
    ASSUME SweepInv, NEW r, NEW ok \in BOOLEAN, Training(r, ok),
           DOMAIN r = DOMAIN run, r.region \in DOMAIN Testable, r.errors = 0,
           r.failed = run.failed, r.result = run.result,
           MemShape(mem'), Clean(mem')
    PROVE  /\ "bad" \in DOMAIN mtc' /\ (mtc.bad => mtc'.bad)
           /\ ok \/ SweepInv'
<1>1. mtc' = mtc \/ mtc' = [mtc EXCEPT !.bad = TRUE]
  BY DEF Training, Ticked
<1>2. "bad" \in DOMAIN mtc' /\ (mtc.bad => mtc'.bad)
  BY <1>1 DEF SweepInv
<1>3. CASE ~(mtc'.bad \/ "vol-" \in key)
  BY <1>2, <1>3 DEF Training
<1>4. CASE mtc'.bad \/ "vol-" \in key
  <2>1. run' = [r EXCEPT !.failed = @ \/ mtc'.bad, !.abort = ~mtc'.bad] /\ at' = "report"
    BY <1>4 DEF Training
  <2>2. /\ DOMAIN run' = DOMAIN run /\ run'.region = r.region /\ run'.errors = 0
        /\ run'.failed = (r.failed \/ mtc'.bad) /\ run'.result = run.result
    BY <2>1 DEF SweepInv
  <2>3. run'.failed \/ run'.result = "FAIL" => mtc'.bad
    BY <1>2, <2>2 DEF SweepInv
  <2>. QED BY <1>2, <2>1, <2>2, <2>3 DEF SweepInv
<1>. QED BY <1>2, <1>3, <1>4

(* The pass begins at the first region, which nothing needs to hold yet.   *)
LEMMA BeginGood ==
    ASSUME SweepInv, NEW r, NEW i, BeginPass(r, i),
           DOMAIN r = DOMAIN run, r.errors = 0,
           r.failed \/ r.result = "FAIL" => mtc'.bad, "bad" \in DOMAIN mtc',
           MemShape(mem'), Clean(mem')
    PROVE  SweepInv'
<1>1. /\ DOMAIN run' = DOMAIN run /\ run'.region = 1 /\ run'.errors = 0
      /\ run'.failed = r.failed /\ run'.result = r.result
      /\ at' \in {"report", "write"}
  BY DEF BeginPass, SweepInv
<1>2. \A j \in DOMAIN Testable : ~(j < 1)
  BY TestableAssumption
<1>3. 1 \in DOMAIN Testable
  BY TestableAssumption
<1>. QED BY <1>1, <1>2, <1>3 DEF SweepInv

(* A region of the write sweep.                                            *)
LEMMA WriteGood == ASSUME Nothing, SweepInv, WriteRegion PROVE SweepInv'
<1>. DEFINE on == [run EXCEPT !.region = @ + 1]
            over == [run EXCEPT !.region = 1]
            ok == IF ~Last THEN Goes(on, "write")
                  ELSE Goes(over, IF Pattern = "prbs" THEN "hold" ELSE "verify")
<1>1. at = "write" /\ mem' = Written(fault, mem, Region, Pattern) /\ Training(run, ok)
  BY DEF WriteRegion
<1>2. Region \in TestableSet BY DEF Region, TestableSet, SweepInv
<1>3. /\ MemShape(mem') /\ Clean(mem') /\ Has(mem', Region, Pattern)
      /\ \A r \in TestableSet : Has(mem, r, Pattern) => Has(mem', r, Pattern)
  BY <1>1, <1>2, WrittenHas DEF SweepInv
<1>4. \A j \in DOMAIN Testable : j <= run.region => Has(mem', Testable[j], Pattern)
  <2>1. SUFFICES ASSUME NEW j \in DOMAIN Testable, j <= run.region
                 PROVE  Has(mem', Testable[j], Pattern)
    OBVIOUS
  <2>2. CASE j = run.region BY <1>3, <2>2 DEF Region
  <2>3. CASE j # run.region
    <3>1. j < run.region BY <2>1, <2>3, TestableAssumption DEF SweepInv
    <3>2. Has(mem, Testable[j], Pattern) BY <1>1, <3>1 DEF SweepInv
    <3>. QED BY <1>3, <3>2 DEF TestableSet
  <2>. QED BY <2>2, <2>3
<1>5. ok \in BOOLEAN BY DEF Goes
<1>. HIDE DEF ok
<1>6. /\ "bad" \in DOMAIN mtc' /\ (mtc.bad => mtc'.bad)
      /\ ok \/ SweepInv'
  BY <1>1, <1>3, <1>5, TrainingGood DEF SweepInv
<1>7. ASSUME ok, ~Last PROVE SweepInv'
  <2>1. run' = on /\ at' = "write" BY <1>7 DEF ok, Goes
  <2>2. /\ DOMAIN run' = DOMAIN run /\ run'.region = run.region + 1 /\ run'.errors = 0
        /\ run'.failed = run.failed /\ run'.result = run.result /\ run'.pass = run.pass
    BY <2>1 DEF SweepInv
  <2>3. run'.region \in DOMAIN Testable
    BY <2>2, <1>7, TestableAssumption DEF Last, SweepInv
  <2>4. \A j \in DOMAIN Testable : j < run'.region => Has(mem', Testable[j], Pattern')
    BY <1>4, <2>2, TestableAssumption DEF Pattern, SweepInv
  <2>. QED BY <1>3, <1>6, <2>1, <2>2, <2>3, <2>4 DEF SweepInv
<1>8. ASSUME ok, Last PROVE SweepInv'
  <2>1. run' = over /\ at' \in {"hold", "verify"} BY <1>8 DEF ok, Goes
  <2>2. /\ DOMAIN run' = DOMAIN run /\ run'.region = 1 /\ run'.errors = 0
        /\ run'.failed = run.failed /\ run'.result = run.result /\ run'.pass = run.pass
    BY <2>1 DEF SweepInv
  <2>3. 1 \in DOMAIN Testable BY TestableAssumption
  <2>4. \A j \in DOMAIN Testable : Has(mem', Testable[j], Pattern')
    BY <1>4, <1>8, <2>2, TestableAssumption DEF Pattern, Last, SweepInv
  <2>. QED BY <1>3, <1>6, <2>1, <2>2, <2>3, <2>4 DEF SweepInv
<1>. QED BY <1>6, <1>7, <1>8

(* The hold.                                                               *)
LEMMA HoldGood == ASSUME Nothing, SweepInv, Hold PROVE SweepInv'
<1>1. at = "hold" /\ Training(run, Goes(run, "verify"))
      /\ mem' = [mem EXCEPT !.cells = Faded(fault, @)]
  BY DEF Hold
<1>2. mem'.cells = mem.cells /\ mem'.cache = mem.cache /\ mem'.at = mem.at
      /\ DOMAIN mem' = DOMAIN mem
  BY <1>1, NothingWrong DEF SweepInv, MemShape
<1>3. MemShape(mem') /\ Clean(mem')
  BY <1>2 DEF SweepInv, MemShape, Clean
<1>4. \A j \in DOMAIN Testable : Has(mem', Testable[j], Pattern)
  BY <1>1, <1>2 DEF SweepInv, Has
<1>5. Goes(run, "verify") \in BOOLEAN BY DEF Goes
<1>6. /\ "bad" \in DOMAIN mtc' /\ (mtc.bad => mtc'.bad)
      /\ Goes(run, "verify") \/ SweepInv'
  BY <1>1, <1>3, <1>5, TrainingGood DEF SweepInv
<1>7. ASSUME Goes(run, "verify") PROVE SweepInv'
  BY <1>3, <1>4, <1>6, <1>7 DEF Goes, SweepInv, Pattern
<1>. QED BY <1>6, <1>7

(* A region of the verify sweep finds nothing.                             *)
LEMMA VerifyGood ==
    ASSUME Nothing, SweepInv, NEW kept \in SUBSET Lines, VerifyRegion(kept) PROVE SweepInv'
<1>. DEFINE wrong == Wrong(fault, mem, Region, Pattern)
            r == [run EXCEPT !.errors = CountedUpTo(@ + Cardinality(wrong))]
            on == [r EXCEPT !.region = @ + 1]
            over == [r EXCEPT !.done = @ + 1]
            next == NextPass(run.mask, run.pass)
            ok == IF ~Last THEN Goes(on, "verify") ELSE BeginPass(over, next)
<1>1. at = "verify" /\ mem' = Looked(fault, mem, Region, kept) /\ Training(r, ok)
  BY DEF VerifyRegion
<1>2. Region \in TestableSet /\ Has(mem, Region, Pattern)
  BY <1>1 DEF Region, TestableSet, SweepInv
<1>3. /\ wrong = {} /\ MemShape(mem') /\ Clean(mem')
      /\ \A c \in TestableSet : Has(mem, c, Pattern) => Has(mem', c, Pattern)
  BY <1>1, <1>2, ReadBack DEF SweepInv
<1>4. \A j \in DOMAIN Testable : Has(mem', Testable[j], Pattern)
  BY <1>1, <1>3 DEF SweepInv, TestableSet
<1>5. ok \in BOOLEAN BY DEF Goes, BeginPass
<1>6. CountedUpTo(run.errors + Cardinality(wrong)) = 0
  <2>1. Cardinality(wrong) = 0 BY <1>3, FS_EmptySet
  <2>. HIDE DEF wrong
  <2>. QED BY <2>1, OrderAssumption DEF CountedUpTo, SweepInv
<1>. HIDE DEF wrong
<1>7. /\ DOMAIN r = DOMAIN run /\ r.errors = 0 /\ r.region = run.region
      /\ r.failed = run.failed /\ r.result = run.result /\ r.pass = run.pass
  BY <1>6 DEF SweepInv
<1>. HIDE DEF ok, r
<1>8. /\ "bad" \in DOMAIN mtc' /\ (mtc.bad => mtc'.bad)
      /\ ok \/ SweepInv'
  BY <1>1, <1>3, <1>5, <1>7, TrainingGood DEF SweepInv
<1>9. ASSUME ok, ~Last PROVE SweepInv'
  <2>1. run' = on /\ at' = "verify" BY <1>9 DEF ok, Goes
  <2>2. /\ DOMAIN run' = DOMAIN run /\ run'.region = run.region + 1 /\ run'.errors = 0
        /\ run'.failed = run.failed /\ run'.result = run.result /\ run'.pass = run.pass
    BY <1>7, <2>1 DEF SweepInv
  <2>3. run'.region \in DOMAIN Testable
    BY <2>2, <1>9, TestableAssumption DEF Last, SweepInv
  <2>4. \A j \in DOMAIN Testable : Has(mem', Testable[j], Pattern')
    BY <1>4, <2>2 DEF Pattern
  <2>. QED BY <1>3, <1>8, <2>1, <2>2, <2>3, <2>4 DEF SweepInv
<1>10. ASSUME ok, Last PROVE SweepInv'
  <2>1. BeginPass(over, next) BY <1>10 DEF ok
  <2>2. /\ DOMAIN over = DOMAIN run /\ over.errors = 0
        /\ over.failed = run.failed /\ over.result = run.result
    BY <1>7 DEF SweepInv
  <2>3. over.failed \/ over.result = "FAIL" => mtc'.bad
    BY <1>8, <2>2 DEF SweepInv
  <2>. HIDE DEF over, next
  <2>. QED BY <1>3, <1>8, <2>1, <2>2, <2>3, BeginGood
<1>. QED BY <1>8, <1>9, <1>10

(* The preflight finds nothing.                                            *)
LEMMA BusGood == ASSUME Nothing, SweepInv, DataBus PROVE SweepInv'
<1>1. at = "bus" /\ mem' = Preflighted(fault, mem) /\ mtc' = mtc
  BY DEF DataBus
<1>2. MemShape(mem') /\ Clean(mem') /\ BusOk(fault)
  BY <1>1, NothingWrong, PreflightCells DEF Decodes, SweepInv, BusOk
<1>3. BeginPass(run, NextPass(run.mask, 0))
  BY <1>2 DEF DataBus
<1>. QED BY <1>1, <1>2, <1>3, BeginGood DEF SweepInv

(* A run starts with training that may fail, but with nothing counted.     *)
LEMMA TrainGood == ASSUME SweepInv, Train PROVE SweepInv'
<1>1. /\ at = "train" /\ at' \in {"bus", "no_smmu", "entry_clock", "halted"}
      /\ UNCHANGED <<mem, run>>
  BY DEF Train
<1>2. "bad" \in DOMAIN mtc'
  <2>1. PICK m \in (IF StaleTraining(mtc) THEN Restored(mtc) ELSE {mtc}) :
           \/ mtc' = m \/ mtc' = [m EXCEPT !.bad = TRUE]
           \/ mtc' = [clock |-> "1600", trained |-> TRUE, bad |-> FALSE]
    BY <1>1, Zenon DEF Train
  <2>2. "bad" \in DOMAIN m
    BY DEF Restored, SweepInv
  <2>. QED BY <2>1, <2>2
<1>. QED BY <1>1, <1>2 DEF SweepInv

(* The memory a start or a report leaves to the next run is blank.         *)
LEMMA BlankIsClean == MemShape(Blank) /\ Clean(Blank)
  BY TestableAssumption DEF Blank, NoLine, MemShape, Clean, TestableSet

(* A step of the payload counts nothing against good memory.               *)
LEMMA RamGood == ASSUME Nothing, SweepInv, RamNext PROVE SweepInv'
<1>1. CASE Keys BY <1>1 DEF Keys, SweepInv, Pattern
<1>2. CASE MenuTurn
  <2>1. /\ at = "menu" /\ mem' = mem
        /\ mtc' = mtc \/ mtc' = [mtc EXCEPT !.bad = TRUE]
        /\ at' \in {"train", "menu", "off_release"}
    BY <1>2 DEF MenuTurn, Ticked
  <2>2. run' = run \/ \E mask : run' = [run EXCEPT !.mask = mask]
    BY <1>2 DEF MenuTurn
  <2>3. /\ DOMAIN run' = DOMAIN run /\ run'.region = run.region /\ run'.errors = 0
        /\ run'.failed = run.failed /\ run'.result = run.result
    BY <2>2 DEF SweepInv
  <2>. QED BY <2>1, <2>3 DEF SweepInv
<1>3. CASE MenuReleased BY <1>3 DEF MenuReleased, SweepInv
<1>4. CASE OffReleased BY <1>4 DEF OffReleased, SweepInv
<1>5. CASE Train BY <1>5, TrainGood
<1>6. CASE NoSmmu BY <1>6 DEF NoSmmu, Restored, SweepInv
<1>7. CASE DataBus BY <1>7, BusGood
<1>8. CASE WriteRegion BY <1>8, WriteGood
<1>9. CASE Hold BY <1>9, HoldGood
<1>10. ASSUME NEW kept \in SUBSET Lines, VerifyRegion(kept) PROVE SweepInv'
  BY <1>10, VerifyGood
<1>11. CASE Report
  <2>1. /\ at' = "release" /\ mem' = Blank /\ mtc' = mtc
        /\ run' = [run EXCEPT !.result = Result(run), !.region = 1]
    BY <1>11 DEF Report
  <2>2. /\ DOMAIN run' = DOMAIN run /\ run'.region = 1 /\ run'.errors = 0
        /\ run'.failed = run.failed /\ run'.result = Result(run)
    BY <2>1 DEF SweepInv
  <2>3. Result(run) = "FAIL" => mtc.bad
    BY DEF Result, SweepInv
  <2>4. 1 \in DOMAIN Testable BY TestableAssumption
  <2>. QED BY <2>1, <2>2, <2>3, <2>4, BlankIsClean DEF SweepInv
<1>12. CASE ReportReleased BY <1>12 DEF ReportReleased, SweepInv
<1>13. CASE Answer
  <2>1. /\ mem' = mem /\ run' = run
        /\ mtc' = mtc \/ mtc' = [mtc EXCEPT !.bad = TRUE]
        /\ at = "answer" /\ at' \in {"answer", "again", "off"}
    BY <1>13 DEF Answer, Ticked
  <2>. QED BY <2>1 DEF SweepInv
<1>14. CASE Again
  <2>1. at' = "menu" /\ run' = Fresh /\ UNCHANGED <<mtc, mem>> BY <1>14 DEF Again
  <2>. QED BY <2>1, TestableAssumption DEF SweepInv, Fresh
<1>. QED BY <1>1, <1>2, <1>3, <1>4, <1>5, <1>6, <1>7, <1>8, <1>9, <1>10, <1>11,
            <1>12, <1>13, <1>14, Zenon DEF RamNext

(* Memory with nothing wrong is never reported faulty, unless training was *)
(* lost under the run (ramtest_main.c's maps, commits and counters).       *)
THEOREM GoodMemoryIsPassed == Spec => []GoodMemoryPasses
<1>1. Init => GoodInv
  BY BlankIsClean, TestableAssumption DEF Init, RamInit, MtcInit, Fresh, GoodInv, SweepInv
<1>2. ASSUME GoodInv, [Next]_vars PROVE GoodInv'
  <2>1. CASE UNCHANGED vars
    BY <1>2, <2>1 DEF vars, ramVars, GoodInv, Nothing, SweepInv, Pattern
  <2>2. CASE RamNext
    <3>1. fault' = fault
      BY <2>2 DEF RamNext, Keys, MenuTurn, MenuReleased, OffReleased, Train, NoSmmu, DataBus,
                  WriteRegion, Hold, VerifyRegion, Report, ReportReleased, Answer, Again
    <3>. QED BY <1>2, <2>2, <3>1, RamGood DEF GoodInv, Nothing
  <2>3. CASE UNCHANGED <<at, platform, fault, mtc, mem, run>>
    BY <1>2, <2>3 DEF GoodInv, Nothing, SweepInv, Pattern
  <2>4. ASSUME NEW p \in Platforms, NEW f \in Faults, Boots(p, f) PROVE GoodInv'
    BY <2>4, BlankIsClean, TestableAssumption
       DEF Boots, MtcInit, Fresh, GoodInv, SweepInv
  <2>. QED BY <1>2, <2>1, <2>2, <2>3, <2>4, LauncherLeavesRam DEF Next
<1>3. GoodInv => GoodMemoryPasses
  BY DEF GoodInv, SweepInv, Nothing, GoodMemoryPasses
<1>. QED BY <1>1, <1>2, <1>3, PTL DEF Spec

-----------------------------------------------------------------------------
(* Menus.                                                                  *)

\* A menu over some boxes: the selected row is one of the screen's.
MenuOK(m, items, all) ==
    /\ m \in [screen : {"main", "custom"}, row : Nat, ticked : SUBSET all,
              held : SUBSET AllKeys]
    /\ m.row < Rows(m, items)

(* A menu starts on its first row.                                         *)
LEMMA MenuStarts ==
    ASSUME NEW items, NEW all, NEW ticked \in SUBSET all
    PROVE  MenuOK(MenuInit(ticked), items, all)
  BY DEF MenuOK, MenuInit, Rows

(* A release waited for keeps the row.                                     *)
LEMMA MenuLetGo ==
    ASSUME NEW items, NEW all, NEW m, MenuOK(m, items, all)
    PROVE  MenuOK(Released(m), items, all) /\ Released(m).ticked = m.ticked
  BY DEF MenuOK, Released, Rows

(* A row moved up or down, round the end, is a row.                        *)
LEMMA RowMoved ==
    ASSUME NEW rows \in Nat \ {0}, NEW row \in 0 .. rows - 1
    PROVE  /\ (row + rows - 1) % rows \in 0 .. rows - 1
           /\ (row + 1) % rows \in 0 .. rows - 1
  OBVIOUS

(* A turn of a menu's loop leaves a menu, with what was ticked or what the *)
(* turned box leaves ticked.                                               *)
LEMMA MenuPolled ==
    ASSUME NEW Item0, NEW items \in Seq(Item0), NEW all, NEW m, MenuOK(m, items, all),
           NEW k \in SUBSET AllKeys, NEW ticked,
           Chosen(m, k, items) = "tick" => ticked \subseteq all
    PROVE  /\ MenuOK(Polled(m, k, items, ticked), items, all)
           /\ \/ Chosen(m, k, items) = "tick" /\ Polled(m, k, items, ticked).ticked = ticked
              \/ Polled(m, k, items, ticked).ticked = m.ticked
<1>. DEFINE c == Chosen(m, k, items)
            n == Len(items)
            p == Polled(m, k, items, ticked)
            MenuType == [screen : {"main", "custom"}, row : Nat, ticked : SUBSET all,
                         held : SUBSET AllKeys]
<1>1. n \in Nat /\ m \in MenuType /\ m.row < Rows(m, items)
      /\ Rows(m, items) = IF m.screen = "main" THEN 4 ELSE n + 2
  BY DEF MenuOK, Rows
<1>2. CASE c = "custom"
  <2>1. p = [m EXCEPT !.screen = "custom", !.row = 0] BY <1>2 DEF Polled
  <2>. HIDE DEF p, n
  <2>2. p \in MenuType /\ p.screen = "custom" /\ p.row = 0 /\ p.ticked = m.ticked
    BY <1>1, <2>1
  <2>3. p.row < Rows(p, items) BY <1>1, <2>2 DEF Rows, n
  <2>. QED BY <2>2, <2>3 DEF MenuOK, p
<1>3. CASE c = "tick"
  <2>1. p = [m EXCEPT !.ticked = ticked, !.held = k] BY <1>3 DEF Polled
  <2>. HIDE DEF p, n
  <2>2. p \in MenuType /\ p.screen = m.screen /\ p.row = m.row /\ p.ticked = ticked
    BY <1>1, <1>3, <2>1
  <2>3. p.row < Rows(p, items) BY <1>1, <2>2 DEF Rows, n
  <2>. QED BY <1>3, <2>2, <2>3 DEF MenuOK, p
<1>4. CASE c = "back"
  <2>1. p = [m EXCEPT !.screen = "main", !.row = 2, !.held = k] BY <1>4 DEF Polled
  <2>. HIDE DEF p, n
  <2>2. p \in MenuType /\ p.screen = "main" /\ p.row = 2 /\ p.ticked = m.ticked
    BY <1>1, <2>1
  <2>3. p.row < Rows(p, items) BY <2>2 DEF Rows
  <2>. QED BY <2>2, <2>3 DEF MenuOK, p
<1>5. CASE c \notin {"custom", "tick", "back"}
  <2>. DEFINE rows == Rows(m, items)
              row == Moved(m, k, items)
  <2>1. p = [m EXCEPT !.row = row, !.held = k] BY <1>5, Zenon DEF Polled
  <2>2. row \in Nat /\ row < rows
    <3>1. rows \in Nat \ {0} /\ m.row \in 0 .. rows - 1
      <4>. HIDE DEF n
      <4>. QED BY <1>1
    <3>2. row \in {(m.row + rows - 1) % rows, (m.row + 1) % rows, m.row}
      BY DEF Moved
    <3>. HIDE DEF rows, row
    <3>3. /\ (m.row + rows - 1) % rows \in 0 .. rows - 1
          /\ (m.row + 1) % rows \in 0 .. rows - 1
      BY <3>1, RowMoved
    <3>. QED BY <3>1, <3>2, <3>3
  <2>. HIDE DEF p, n, row
  <2>3. p \in MenuType /\ p.screen = m.screen /\ p.row = row /\ p.ticked = m.ticked
    BY <1>1, <2>1, <2>2
  <2>4. p.row < Rows(p, items) BY <1>1, <2>2, <2>3 DEF Rows, n
  <2>. QED BY <2>3, <2>4 DEF MenuOK, p
<1>. QED BY <1>2, <1>3, <1>4, <1>5

(* A box that can be turned over is one of the list's.                     *)
LEMMA ItemIsListed ==
    ASSUME NEW Item0, NEW items \in Seq(Item0), NEW all, NEW m, MenuOK(m, items, all),
           NEW k, Chosen(m, k, items) = "tick"
    PROVE  Item(m, items) \in {items[i] : i \in DOMAIN items}
<1>. DEFINE n == Len(items)
<1>1. m.row < n /\ m.row \in Nat /\ n \in Nat /\ DOMAIN items = 1 .. n
  BY DEF Chosen, MenuOK
<1>. HIDE DEF n
<1>2. m.row + 1 \in DOMAIN items BY <1>1
<1>. QED BY <1>2 DEF Item

\* The launcher's boxes: sound output is never ticked without the audio hardware.
BoxesInv == /\ MenuOK(boxes, Groups, AllGroups)
            /\ "sound" \in boxes.ticked => "audio" \in boxes.ticked
PatternsInv == MenuOK(menu, Order, AllPatterns)

(* A group turned over leaves groups ticked, and sound output only with    *)
(* the audio hardware.                                                     *)
LEMMA GroupTicked ==
    ASSUME NEW ticked \in SUBSET AllGroups, "sound" \in ticked => "audio" \in ticked,
           NEW g \in AllGroups
    PROVE  /\ TicksGroup(ticked, g) \subseteq AllGroups
           /\ "sound" \in TicksGroup(ticked, g) => "audio" \in TicksGroup(ticked, g)
<1>1. "audio" \in AllGroups /\ "sound" \in AllGroups
  BY GroupsAssumption DEF AllGroups
<1>2. CASE g = "audio" /\ g \in ticked
  <2>1. TicksGroup(ticked, g) = ticked \ {"audio", "sound"} BY <1>2 DEF TicksGroup
  <2>. QED BY <2>1
<1>3. CASE g = "sound" /\ g \notin ticked
  <2>1. TicksGroup(ticked, g) = ticked \cup {"audio", "sound"} BY <1>3 DEF TicksGroup
  <2>. QED BY <1>1, <2>1
<1>4. CASE ~(g = "audio" /\ g \in ticked) /\ ~(g = "sound" /\ g \notin ticked)
  <2>1. TicksGroup(ticked, g) = IF g \in ticked THEN ticked \ {g} ELSE ticked \cup {g}
    BY <1>4 DEF TicksGroup, Ticks
  <2>. QED BY <1>4, <2>1
<1>. QED BY <1>2, <1>3, <1>4

(* At the start everything is ticked.                                      *)
LEMMA MenusInit == Init => BoxesInv /\ PatternsInv
<1>. SUFFICES ASSUME Init PROVE BoxesInv /\ PatternsInv
  OBVIOUS
<1>1. boxes = MenuInit(AllGroups) /\ menu = MenuInit(AllPatterns)
  BY DEF Init, RamInit
<1>2. "audio" \in AllGroups
  BY GroupsAssumption DEF AllGroups
<1>. QED BY <1>1, <1>2, MenuStarts DEF BoxesInv, PatternsInv, MenuInit

(* A turn of the launcher's menu.                                          *)
LEMMA TurnBoxes == ASSUME key \in SUBSET AllKeys, BoxesInv, Turn PROVE BoxesInv'
<1>. DEFINE c == Chosen(boxes, key, Groups)
            turned == TicksGroup(boxes.ticked, Item(boxes, Groups))
<1>1. \/ boxes' = Polled(boxes, key, Groups, turned)
      \/ boxes' = MenuInit(AllGroups) \/ boxes' = boxes
  BY DEF Turn
<1>2. "audio" \in AllGroups
  BY GroupsAssumption DEF AllGroups
<1>3. CASE boxes' = Polled(boxes, key, Groups, turned)
  <2>1. c = "tick" => turned \subseteq AllGroups /\ ("sound" \in turned => "audio" \in turned)
    <3>1. SUFFICES ASSUME c = "tick"
                   PROVE  turned \subseteq AllGroups /\ ("sound" \in turned => "audio" \in turned)
      OBVIOUS
    <3>2. Item(boxes, Groups) \in AllGroups
      BY <3>1, ItemIsListed, GroupsAssumption DEF BoxesInv, AllGroups
    <3>. QED BY <3>2, GroupTicked DEF BoxesInv, MenuOK
  <2>. HIDE DEF turned
  <2>2. /\ MenuOK(Polled(boxes, key, Groups, turned), Groups, AllGroups)
        /\ \/ c = "tick" /\ Polled(boxes, key, Groups, turned).ticked = turned
           \/ Polled(boxes, key, Groups, turned).ticked = boxes.ticked
    BY <2>1, MenuPolled, GroupsAssumption DEF BoxesInv
  <2>. QED BY <1>3, <2>1, <2>2 DEF BoxesInv
<1>4. CASE boxes' = MenuInit(AllGroups)
  BY <1>2, <1>4, MenuStarts DEF BoxesInv, MenuInit
<1>. QED BY <1>1, <1>3, <1>4 DEF BoxesInv

(* A turn of the RAM test's.                                               *)
LEMMA TurnPatterns == ASSUME key \in SUBSET AllKeys, PatternsInv, MenuTurn PROVE PatternsInv'
<1>. DEFINE c == Chosen(menu, key, Order)
            turned == Ticks(menu.ticked, Item(menu, Order))
<1>1. \/ menu' = Polled(menu, key, Order, turned)
      \/ menu' = MenuInit(menu.ticked) \/ menu' = menu
  BY DEF MenuTurn
<1>2. CASE menu' = Polled(menu, key, Order, turned)
  <2>1. c = "tick" => turned \subseteq AllPatterns
    <3>1. SUFFICES ASSUME c = "tick" PROVE turned \subseteq AllPatterns
      OBVIOUS
    <3>2. Item(menu, Order) \in AllPatterns
      BY <3>1, ItemIsListed, OrderAssumption DEF PatternsInv, AllPatterns
    <3>. QED BY <3>2 DEF PatternsInv, MenuOK, Ticks
  <2>. HIDE DEF turned
  <2>2. MenuOK(Polled(menu, key, Order, turned), Order, AllPatterns)
    BY <2>1, MenuPolled, OrderAssumption DEF PatternsInv
  <2>. QED BY <1>2, <2>2 DEF PatternsInv
<1>3. CASE menu' = MenuInit(menu.ticked)
  BY <1>3, MenuStarts DEF PatternsInv, MenuOK
<1>. QED BY <1>1, <1>2, <1>3 DEF PatternsInv

(* Any step keeps both menus.                                              *)
LEMMA MenusStep == ASSUME ActsInv, BoxesInv, PatternsInv, [Next]_vars
                   PROVE  BoxesInv' /\ PatternsInv'
<1>. USE DEF BoxesInv, PatternsInv
<1>1. key \in SUBSET AllKeys BY DEF ActsInv
<1>2. CASE UNCHANGED <<menu, boxes>> BY <1>2
<1>3. CASE Turn
  <2>1. menu' = menu BY <1>3 DEF Turn, Stays
  <2>2. PatternsInv' BY <2>1
  <2>3. BoxesInv' BY <1>1, <1>3, TurnBoxes
  <2>. QED BY <2>2, <2>3
<1>4. CASE TurnReleased
  <2>1. menu' = menu /\ boxes' = Released(boxes) BY <1>4 DEF TurnReleased, Stays
  <2>2. MenuOK(boxes', Groups, AllGroups) /\ boxes'.ticked = boxes.ticked
    BY <2>1, MenuLetGo
  <2>. QED BY <2>1, <2>2
<1>5. CASE RamStarts
  <2>1. boxes' = boxes /\ menu' = MenuInit(AllPatterns) BY <1>5 DEF RamStarts, Boots
  <2>2. PatternsInv' BY <2>1, MenuStarts
  <2>. QED BY <2>1, <2>2
<1>6. CASE MenuTurn /\ boxes' = boxes
  <2>1. PatternsInv' BY <1>1, <1>6, TurnPatterns
  <2>. QED BY <1>6, <2>1
<1>7. CASE MenuReleased /\ boxes' = boxes
  <2>1. menu' = Released(menu) BY <1>7 DEF MenuReleased
  <2>2. PatternsInv' BY <2>1, MenuLetGo
  <2>. QED BY <1>7, <2>2
<1>8. \/ UNCHANGED <<menu, boxes>> \/ Turn \/ TurnReleased \/ RamStarts
      \/ (MenuTurn /\ boxes' = boxes) \/ (MenuReleased /\ boxes' = boxes)
  <2>1. CASE UNCHANGED vars BY <2>1 DEF vars, ramVars
  <2>2. CASE LauncherKeys \/ Boot \/ SkipReleased \/ SwitchedOff \/ LoadFails \/ FailureSeen
             \/ FailureReleased
    BY <2>2 DEF LauncherKeys, Boot, SkipReleased, SwitchedOff, LoadFails, FailureSeen,
                FailureReleased, Stays
  <2>3. CASE RamNext /\ UNCHANGED <<place, boxes>>
    <3>1. UNCHANGED menu \/ MenuTurn \/ MenuReleased
      BY <2>3 DEF RamNext, Keys, OffReleased, Train, NoSmmu, DataBus, WriteRegion, Hold,
                  VerifyRegion, Report, ReportReleased, Answer, Again
    <3>. QED BY <2>3, <3>1
  <2>. QED BY <2>1, <2>2, <2>3 DEF Next
<1>. QED BY <1>2, <1>3, <1>4, <1>5, <1>6, <1>7, <1>8

-----------------------------------------------------------------------------
(* Passes.                                                                 *)

\* The places in the order of the patterns a mask selects, and those before i.
Picked(mask) == {j \in DOMAIN Order : Order[j] \in mask}
PickedBefore(mask, i) == {j \in Picked(mask) : j < i}

(* A mask selects as many places as it has patterns.                       *)
LEMMA PickedCount ==
    ASSUME NEW mask \in SUBSET AllPatterns
    PROVE  /\ IsFiniteSet(Picked(mask)) /\ IsFiniteSet(mask)
           /\ Cardinality(Picked(mask)) = Cardinality(mask)
<1>. DEFINE f == [j \in Picked(mask) |-> Order[j]]
            n == Len(Order)
<1>1. n \in Nat /\ DOMAIN Order = 1 .. n
  BY OrderAssumption
<1>. HIDE DEF n
<1>2. IsFiniteSet(1 .. n)
  BY <1>1, FS_Interval
<1>3. IsFiniteSet(Picked(mask))
  BY <1>1, <1>2, FS_Subset DEF Picked
<1>4. f \in Bijection(Picked(mask), mask)
  <2>1. f \in [Picked(mask) -> mask] BY DEF Picked
  <2>2. \A i, j \in Picked(mask) : f[i] = f[j] => i = j
    BY OrderAssumption DEF Picked
  <2>3. \A p \in mask : \E j \in Picked(mask) : f[j] = p
    BY DEF Picked, AllPatterns
  <2>. HIDE DEF f
  <2>. QED BY <2>1, <2>2, <2>3, Fun_IsBij
<1>5. ExistsBijection(Picked(mask), mask)
  BY <1>4 DEF ExistsBijection
<1>. QED BY <1>3, <1>5, FS_Bijection

(* The places before i are counted too.                                    *)
LEMMA BeforeCount ==
    ASSUME NEW mask \in SUBSET AllPatterns, NEW i
    PROVE  /\ IsFiniteSet(PickedBefore(mask, i)) /\ Cardinality(PickedBefore(mask, i)) \in Nat
           /\ Cardinality(PickedBefore(mask, i)) <= Cardinality(mask)
<1>1. PickedBefore(mask, i) \subseteq Picked(mask) BY DEF PickedBefore
<1>. QED BY <1>1, PickedCount, FS_Subset, FS_CardinalityType

(* A set of numbers that is not empty has a least one.                     *)
LEMMA LeastNatural ==
    ASSUME NEW T, T \subseteq Nat, T # {} PROVE \E x \in T : \A y \in T : x <= y
<1>. DEFINE R == {ss \in Nat \X Nat : ss[1] < ss[2]}
<1>1. R = OpToRel(<, Nat) BY DEF OpToRel
<1>2. IsWellFoundedOn(R, Nat) BY <1>1, NatLessThanWellFounded
<1>3. \A x, y \in Nat : <<y, x>> \in R <=> y < x
  OBVIOUS
<1>. HIDE DEF R
<1>4. PICK x \in T : \A y \in T : ~(<<y, x>> \in R) BY <1>2, WFMin
<1>5. ASSUME NEW y \in T PROVE x <= y
  <2>1. x \in Nat /\ y \in Nat /\ ~(y < x) BY <1>3, <1>4
  <2>. QED BY <2>1
<1>. QED BY <1>5

(* The next pass is the first selected place after i, or none is left.     *)
LEMMA NextPassIs ==
    ASSUME NEW mask, NEW i \in Nat
    PROVE  /\ NextPass(mask, i) \in 0 .. Len(Order)
           /\ NextPass(mask, i) = 0 => \A j \in Picked(mask) : j <= i
           /\ NextPass(mask, i) # 0 =>
                /\ NextPass(mask, i) \in Picked(mask) /\ NextPass(mask, i) > i
                /\ \A j \in Picked(mask) : j > i => NextPass(mask, i) <= j
<1>. DEFINE later == {j \in DOMAIN Order : j > i /\ Order[j] \in mask}
            n == Len(Order)
            x == NextPass(mask, i)
<1>1. n \in Nat /\ DOMAIN Order = 1 .. n
  BY OrderAssumption
<1>2. \A j : j \in later <=> j \in Picked(mask) /\ j > i
  BY DEF Picked
<1>3. x = IF later = {} THEN 0 ELSE CHOOSE j \in later : \A k \in later : j <= k
  BY DEF NextPass
<1>4. later \subseteq Nat
  <2>. HIDE DEF n
  <2>. QED BY <1>1
<1>. HIDE DEF n, later, x
<1>5. CASE later = {}
  <2>1. x = 0 BY <1>3, <1>5
  <2>2. \A j \in Picked(mask) : j <= i
    <3>1. Picked(mask) \subseteq Nat BY <1>1 DEF Picked
    <3>. QED BY <1>2, <1>5, <3>1
  <2>. QED BY <1>1, <2>1, <2>2 DEF n, x
<1>6. CASE later # {}
  <2>1. \E j \in later : \A k \in later : j <= k
    BY <1>4, <1>6, LeastNatural
  <2>2. x \in later /\ \A k \in later : x <= k
    BY <1>3, <1>6, <2>1
  <2>3. x \in Picked(mask) /\ x > i /\ \A j \in Picked(mask) : j > i => x <= j
    BY <1>2, <2>2
  <2>4. x \in 0 .. n /\ x # 0
    BY <1>1, <1>4, <2>2, <2>3 DEF Picked
  <2>. QED BY <2>3, <2>4 DEF n, x
<1>. QED BY <1>5, <1>6

-----------------------------------------------------------------------------
(* A run's counts.                                                         *)

RunType == [mask : SUBSET AllPatterns, pass : 0 .. Len(Order), region : DOMAIN Testable,
            errors : 0 .. MaxErrors, done : Nat, abort : BOOLEAN, failed : BOOLEAN,
            result : {"none", "PASS", "FAIL", "ABORTED"}]

\* Where a run has not begun, where it sweeps, and where it has its result.
NotBegun == {"away", "menu", "off_release", "train", "entry_clock", "no_smmu", "bus"}
Sweeping == {"write", "hold", "verify"}
Over == {"release", "answer", "again", "off"}

\* The passes done are those selected before the one that runs; a run that
\* was not stopped has done them all.
RunInv ==
    /\ run \in RunType
    /\ at \in NotBegun => run.done = 0 /\ run.errors = 0 /\ ~run.abort /\ ~run.failed
    /\ at \in Sweeping => /\ run.pass \in Picked(run.mask)
                          /\ run.done = Cardinality(PickedBefore(run.mask, run.pass))
                          /\ ~run.abort /\ ~run.failed
    /\ at = "report" => run.abort \/ run.failed \/ run.done = Cardinality(run.mask)
    /\ run.result = "PASS" => run.done = Cardinality(run.mask)
    /\ at \notin Over => run.result = "none"
    /\ run.done <= Cardinality(run.mask)

(* The counters as they start.                                             *)
LEMMA FreshRun ==
    Fresh \in RunType /\ Fresh.done = 0 /\ Cardinality(Fresh.mask) = 0
<1>1. 1 \in DOMAIN Testable BY TestableAssumption
<1>2. 0 \in 0 .. Len(Order) /\ 0 \in 0 .. MaxErrors BY OrderAssumption
<1>. QED BY <1>1, <1>2, FS_EmptySet DEF Fresh, RunType

(* An error counted is counted up to the limit.                            *)
LEMMA CountStops ==
    ASSUME NEW e \in 0 .. MaxErrors, NEW k \in Nat
    PROVE  /\ CountedUpTo(e + k) \in 0 .. MaxErrors
           /\ CountedUpTo(e + k) = 0 => e = 0 /\ k = 0
  BY OrderAssumption DEF CountedUpTo

(* A run goes to its first pass, to the next, or to the report when every  *)
(* selected pass is done.                                                  *)
LEMMA PassBegins ==
    ASSUME NEW r \in RunType, NEW i \in Nat, BeginPass(r, NextPass(r.mask, i)),
           ~r.abort, ~r.failed, r.result = "none",
           r.done = Cardinality({j \in Picked(r.mask) : j <= i})
    PROVE  RunInv'
<1>. DEFINE x == NextPass(r.mask, i)
            n == Len(Order)
            upTo == {j \in Picked(r.mask) : j <= i}
<1>1. /\ x \in 0 .. n
      /\ x = 0 => \A j \in Picked(r.mask) : j <= i
      /\ x # 0 => /\ x \in Picked(r.mask) /\ x > i
                  /\ \A j \in Picked(r.mask) : j > i => x <= j
  BY NextPassIs
<1>2. run' = [r EXCEPT !.pass = x, !.region = 1] /\ at' = IF x = 0 THEN "report" ELSE "write"
  BY DEF BeginPass
<1>3. 1 \in DOMAIN Testable BY TestableAssumption
<1>. HIDE DEF x
<1>4. /\ run' \in RunType /\ run'.pass = x /\ run'.done = r.done /\ run'.mask = r.mask
      /\ run'.abort = r.abort /\ run'.failed = r.failed /\ run'.result = "none"
  BY <1>1, <1>2, <1>3 DEF RunType
<1>5. r.mask \in SUBSET AllPatterns BY DEF RunType
<1>6. n \in Nat /\ DOMAIN Order = 1 .. n BY OrderAssumption
<1>. HIDE DEF n
<1>7. CASE x = 0
  <2>1. upTo = Picked(r.mask) BY <1>1, <1>7
  <2>2. run'.done = Cardinality(run'.mask) BY <1>4, <1>5, <2>1, PickedCount
  <2>3. Cardinality(r.mask) \in Nat BY <1>5, PickedCount, FS_CardinalityType
  <2>. QED BY <1>2, <1>4, <1>7, <2>2, <2>3 DEF RunInv, NotBegun, Sweeping, Over
<1>8. CASE x # 0
  <2>1. upTo = PickedBefore(r.mask, x)
    <3>1. \A j \in Picked(r.mask) : j \in Nat /\ x \in Nat
      BY <1>1, <1>6 DEF Picked
    <3>2. \A j \in Picked(r.mask) : j <= i <=> j < x
      BY <1>1, <1>8, <3>1
    <3>. QED BY <3>2 DEF PickedBefore
  <2>2. run'.done = Cardinality(PickedBefore(run'.mask, run'.pass)) BY <1>4, <2>1
  <2>3. run'.done <= Cardinality(run'.mask) BY <1>4, <1>5, <2>2, BeforeCount
  <2>. QED BY <1>1, <1>2, <1>4, <1>8, <2>2, <2>3 DEF RunInv, NotBegun, Sweeping, Over
<1>. QED BY <1>7, <1>8

(* A run that goes on after a region, or is stopped there.                 *)
LEMMA TrainingRuns ==
    ASSUME RunInv, at \in Sweeping, NEW r \in RunType, NEW ok \in BOOLEAN, Training(r, ok),
           r.mask = run.mask, r.pass = run.pass, r.done = run.done, ~r.failed, ~r.abort,
           r.result = run.result, mtc.bad \in BOOLEAN
    PROVE  ok \/ RunInv'
<1>1. CASE ~(mtc'.bad \/ "vol-" \in key)
  BY <1>1 DEF Training
<1>2. CASE mtc'.bad \/ "vol-" \in key
  <2>1. run' = [r EXCEPT !.failed = @ \/ mtc'.bad, !.abort = ~mtc'.bad] /\ at' = "report"
    BY <1>2 DEF Training
  <2>2. mtc' = mtc \/ mtc' = [mtc EXCEPT !.bad = TRUE]
    BY DEF Training, Ticked
  <2>3. /\ (r.failed \/ mtc'.bad) \in BOOLEAN /\ (~mtc'.bad) \in BOOLEAN
    OBVIOUS
  <2>4. /\ run' \in RunType /\ run'.mask = run.mask /\ run'.done = run.done
        /\ run'.failed = (r.failed \/ mtc'.bad) /\ run'.abort = ~mtc'.bad
        /\ run'.result = run.result
    BY <2>1, <2>3 DEF RunType
  <2>5. run'.failed \/ run'.abort BY <2>4
  <2>6. run.result = "none" /\ run.done <= Cardinality(run.mask)
    BY DEF RunInv, Sweeping, Over
  <2>. QED BY <2>1, <2>4, <2>5, <2>6 DEF RunInv, NotBegun, Sweeping, Over
<1>. QED BY <1>1, <1>2

(* A region of the write sweep counts nothing.                             *)
LEMMA WriteRuns == ASSUME RunInv, mtc.bad \in BOOLEAN, WriteRegion PROVE RunInv'
<1>. DEFINE on == [run EXCEPT !.region = @ + 1]
            over == [run EXCEPT !.region = 1]
            ok == IF ~Last THEN Goes(on, "write")
                  ELSE Goes(over, IF Pattern = "prbs" THEN "hold" ELSE "verify")
<1>1. at = "write" /\ Training(run, ok) BY DEF WriteRegion
<1>2. ok \in BOOLEAN BY DEF Goes
<1>3. run \in RunType /\ ~run.failed /\ ~run.abort BY <1>1 DEF RunInv, Sweeping
<1>. HIDE DEF ok
<1>4. ok \/ RunInv' BY <1>1, <1>2, <1>3, TrainingRuns DEF Sweeping
<1>5. ASSUME ok PROVE RunInv'
  <2>1. run' \in {on, over} /\ (~Last => run' = on) /\ (Last => run' = over)
        /\ at' \in {"write", "hold", "verify"}
    BY <1>5 DEF ok, Goes
  <2>2. Len(Testable) \in Nat /\ DOMAIN Testable = 1 .. Len(Testable) /\ 1 \in DOMAIN Testable
    BY TestableAssumption
  <2>3. run.region + 1 \in DOMAIN Testable \/ Last
    BY <1>3, <2>2 DEF Last, RunType
  <2>4. /\ run' \in RunType /\ run'.mask = run.mask /\ run'.pass = run.pass
        /\ run'.done = run.done /\ run'.abort = run.abort /\ run'.failed = run.failed
        /\ run'.result = run.result
    BY <1>3, <2>1, <2>2, <2>3 DEF RunType
  <2>. QED BY <1>1, <2>1, <2>4 DEF RunInv, NotBegun, Sweeping, Over
<1>. QED BY <1>4, <1>5

(* Nor does the hold.                                                      *)
LEMMA HoldRuns == ASSUME RunInv, mtc.bad \in BOOLEAN, Hold PROVE RunInv'
<1>1. at = "hold" /\ Training(run, Goes(run, "verify")) /\ Goes(run, "verify") \in BOOLEAN
  BY DEF Hold, Goes
<1>2. run \in RunType /\ ~run.failed /\ ~run.abort BY <1>1 DEF RunInv, Sweeping
<1>3. Goes(run, "verify") \/ RunInv' BY <1>1, <1>2, TrainingRuns DEF Sweeping
<1>4. ASSUME Goes(run, "verify") PROVE RunInv'
  BY <1>1, <1>4 DEF Goes, RunInv, NotBegun, Sweeping, Over
<1>. QED BY <1>3, <1>4

(* A region of the verify sweep counts its errors, the last one the pass.  *)
LEMMA VerifyRuns ==
    ASSUME RunInv, mtc.bad \in BOOLEAN, NEW kept, VerifyRegion(kept) PROVE RunInv'
<1>. DEFINE wrong == Wrong(fault, mem, Region, Pattern)
            e == CountedUpTo(run.errors + Cardinality(wrong))
            r == [run EXCEPT !.errors = CountedUpTo(@ + Cardinality(wrong))]
            on == [r EXCEPT !.region = @ + 1]
            over == [r EXCEPT !.done = @ + 1]
            next == NextPass(run.mask, run.pass)
            ok == IF ~Last THEN Goes(on, "verify") ELSE BeginPass(over, next)
<1>1. at = "verify" /\ Training(r, ok) BY DEF VerifyRegion
<1>2. ok \in BOOLEAN BY DEF Goes, BeginPass
<1>3. /\ run \in RunType /\ ~run.failed /\ ~run.abort /\ run.result = "none"
      /\ run.pass \in Picked(run.mask)
      /\ run.done = Cardinality(PickedBefore(run.mask, run.pass))
  BY <1>1 DEF RunInv, Sweeping, Over
<1>4. Cardinality(wrong) \in Nat
  <2>1. IsFiniteSet(Lines)
    <3>1. Len(Offsets) \in Nat /\ Lines = 1 .. Len(Offsets) BY CellsAssumption DEF Lines
    <3>. QED BY <3>1, FS_Interval
  <2>2. wrong \subseteq Lines BY DEF Wrong
  <2>. QED BY <2>1, <2>2, FS_Subset, FS_CardinalityType
<1>5. e \in 0 .. MaxErrors
  <2>1. run.errors \in 0 .. MaxErrors BY <1>3 DEF RunType
  <2>. HIDE DEF wrong
  <2>. QED BY <1>4, <2>1, CountStops
<1>6. r = [run EXCEPT !.errors = e]
  BY <1>3 DEF RunType
<1>. HIDE DEF wrong, e, r, ok
<1>7. /\ r \in RunType /\ r.mask = run.mask /\ r.pass = run.pass /\ r.done = run.done
      /\ r.region = run.region /\ ~r.failed /\ ~r.abort /\ r.result = run.result
  BY <1>3, <1>5, <1>6 DEF RunType
<1>8. ok \/ RunInv' BY <1>1, <1>2, <1>7, TrainingRuns DEF Sweeping
<1>9. ASSUME ok, ~Last PROVE RunInv'
  <2>1. run' = on /\ at' = "verify" BY <1>9 DEF ok, Goes
  <2>2. run.region + 1 \in DOMAIN Testable
    <3>1. Len(Testable) \in Nat /\ DOMAIN Testable = 1 .. Len(Testable)
      BY TestableAssumption
    <3>. QED BY <1>3, <1>9, <3>1 DEF Last, RunType
  <2>3. /\ run' \in RunType /\ run'.mask = run.mask /\ run'.pass = run.pass
        /\ run'.done = run.done /\ ~run'.abort /\ ~run'.failed /\ run'.result = run.result
    BY <1>7, <2>1, <2>2 DEF RunType
  <2>. QED BY <1>1, <2>1, <2>3 DEF RunInv, NotBegun, Sweeping, Over
<1>10. ASSUME ok, Last PROVE RunInv'
  <2>1. BeginPass(over, next) BY <1>10 DEF ok
  <2>2. /\ over \in RunType /\ over.mask = run.mask /\ over.done = run.done + 1
        /\ ~over.abort /\ ~over.failed /\ over.result = "none"
    BY <1>3, <1>7 DEF RunType
  <2>3. run.pass \in Nat /\ run.mask \in SUBSET AllPatterns
    BY <1>3, OrderAssumption DEF RunType
  <2>. DEFINE upTo == {j \in Picked(run.mask) : j <= run.pass}
              before == PickedBefore(run.mask, run.pass)
  <2>4. upTo = before \cup {run.pass} /\ run.pass \notin before
    <3>1. Picked(run.mask) \subseteq Nat BY OrderAssumption DEF Picked
    <3>2. \A j \in Picked(run.mask) : j <= run.pass <=> j < run.pass \/ j = run.pass
      BY <2>3, <3>1
    <3>. QED BY <1>3, <2>3, <3>2 DEF PickedBefore
  <2>5. Cardinality(upTo) = Cardinality(before) + 1
    <3>1. IsFiniteSet(before) BY <2>3, BeforeCount
    <3>. HIDE DEF upTo, before
    <3>. QED BY <2>4, <3>1, FS_AddElement
  <2>6. over.done = Cardinality({j \in Picked(over.mask) : j <= run.pass})
    BY <1>3, <2>2, <2>5
  <2>7. BeginPass(over, NextPass(over.mask, run.pass)) BY <2>1, <2>2
  <2>. HIDE DEF over
  <2>. QED BY <2>2, <2>3, <2>6, <2>7, PassBegins
<1>. QED BY <1>8, <1>9, <1>10

(* The preflight begins the first pass, or counts its error and fails.     *)
LEMMA BusRuns == ASSUME RunInv, DataBus PROVE RunInv'
<1>1. /\ at = "bus" /\ run \in RunType /\ run.done = 0 /\ ~run.abort /\ ~run.failed
      /\ run.result = "none" /\ run.errors = 0 /\ run.done <= Cardinality(run.mask)
  BY DEF DataBus, RunInv, NotBegun, Over
<1>2. CASE BusOk(fault)
  <2>1. BeginPass(run, NextPass(run.mask, 0)) BY <1>2 DEF DataBus
  <2>2. {j \in Picked(run.mask) : j <= 0} = {}
    <3>1. \A j \in Picked(run.mask) : j \in Nat \ {0} BY OrderAssumption DEF Picked
    <3>. QED BY <3>1
  <2>3. run.done = Cardinality({j \in Picked(run.mask) : j <= 0})
    BY <1>1, <2>2, FS_EmptySet
  <2>. QED BY <1>1, <2>1, <2>3, PassBegins
<1>3. CASE ~BusOk(fault)
  <2>. DEFINE e == CountedUpTo(run.errors + 1)
              r == [run EXCEPT !.failed = TRUE, !.errors = CountedUpTo(@ + 1)]
  <2>1. run' = [r EXCEPT !.pass = 0, !.region = 1] /\ at' = "report"
    BY <1>3 DEF DataBus, BeginPass
  <2>2. e \in 0 .. MaxErrors BY <1>1, CountStops DEF RunType
  <2>3. 1 \in DOMAIN Testable /\ 0 \in 0 .. Len(Order)
    BY TestableAssumption, OrderAssumption
  <2>4. r = [run EXCEPT !.failed = TRUE, !.errors = e] BY <1>1 DEF RunType
  <2>. HIDE DEF e, r
  <2>5. /\ run' \in RunType /\ run'.failed /\ run'.done = run.done /\ run'.mask = run.mask
        /\ run'.result = run.result
    BY <1>1, <2>1, <2>2, <2>3, <2>4 DEF RunType
  <2>. QED BY <1>1, <2>1, <2>5 DEF RunInv, NotBegun, Sweeping, Over
<1>. QED BY <1>2, <1>3

(* The menu's choice is what a run selects.                                *)
LEMMA MenuRuns == ASSUME RunInv, PatternsInv, MenuTurn PROVE RunInv'
<1>1. /\ at = "menu" /\ run \in RunType /\ run.done = 0 /\ run.errors = 0 /\ ~run.abort
      /\ ~run.failed /\ run.result = "none" /\ run.done <= Cardinality(run.mask)
  BY DEF MenuTurn, RunInv, NotBegun, Over
<1>2. CASE run' = run /\ at' \in {"menu", "off_release"}
  BY <1>1, <1>2 DEF RunInv, NotBegun, Sweeping, Over
<1>3. ASSUME NEW c, at' = "train", run' = [run EXCEPT !.mask = MaskOf(c)] PROVE RunInv'
  <2>1. MaskOf(c) \in SUBSET AllPatterns
    <3>1. "addr" \in AllPatterns BY OrderAssumption DEF AllPatterns
    <3>2. menu.ticked \in SUBSET AllPatterns BY DEF PatternsInv, MenuOK
    <3>. QED BY <3>1, <3>2 DEF MaskOf
  <2>2. /\ run' \in RunType /\ run'.mask = MaskOf(c) /\ run'.done = 0 /\ run'.errors = 0
        /\ ~run'.abort /\ ~run'.failed /\ run'.result = "none"
    BY <1>1, <1>3, <2>1 DEF RunType
  <2>3. Cardinality(MaskOf(c)) \in Nat BY <2>1, PickedCount, FS_CardinalityType
  <2>. QED BY <1>3, <2>2, <2>3 DEF RunInv, NotBegun, Sweeping, Over
<1>. QED BY <1>2, <1>3, Zenon DEF MenuTurn

(* Any step of the payload keeps the counts.                               *)
LEMMA RamRuns == ASSUME RunInv, PatternsInv, ClockInv, RamNext PROVE RunInv'
<1>0. mtc.bad \in BOOLEAN BY DEF ClockInv
<1>1. CASE Keys BY <1>1 DEF Keys, RunInv
<1>2. CASE MenuTurn BY <1>2, MenuRuns
<1>3. CASE MenuReleased BY <1>3 DEF MenuReleased, RunInv
<1>4. CASE OffReleased BY <1>4 DEF OffReleased, RunInv, NotBegun, Sweeping, Over
<1>5. CASE Train
  <2>1. at = "train" /\ run' = run /\ at' \in {"bus", "no_smmu", "entry_clock", "halted"}
    BY <1>5 DEF Train
  <2>. QED BY <2>1 DEF RunInv, NotBegun, Sweeping, Over
<1>6. CASE NoSmmu BY <1>6 DEF NoSmmu, RunInv, NotBegun, Sweeping, Over
<1>7. CASE DataBus BY <1>7, BusRuns
<1>8. CASE WriteRegion BY <1>0, <1>8, WriteRuns
<1>9. CASE Hold BY <1>0, <1>9, HoldRuns
<1>10. ASSUME NEW kept \in SUBSET Lines, VerifyRegion(kept) PROVE RunInv'
  BY <1>0, <1>10, VerifyRuns
<1>11. CASE Report
  <2>1. /\ at = "report" /\ at' = "release"
        /\ run' = [run EXCEPT !.result = Result(run), !.region = 1]
    BY <1>11 DEF Report
  <2>2. Result(run) \in {"none", "PASS", "FAIL", "ABORTED"} BY DEF Result
  <2>3. Result(run) = "PASS" => ~run.abort /\ ~run.failed BY DEF Result
  <2>4. 1 \in DOMAIN Testable BY TestableAssumption
  <2>5. /\ run' \in RunType /\ run'.result = Result(run) /\ run'.mask = run.mask
        /\ run'.done = run.done
    BY <2>1, <2>2, <2>4 DEF RunInv, RunType
  <2>. QED BY <2>1, <2>3, <2>5 DEF RunInv, NotBegun, Sweeping, Over
<1>12. CASE ReportReleased
  BY <1>12 DEF ReportReleased, RunInv, NotBegun, Sweeping, Over
<1>13. CASE Answer
  <2>1. run' = run /\ at = "answer" /\ at' \in Over BY <1>13 DEF Answer, Over
  <2>. QED BY <2>1 DEF RunInv, NotBegun, Sweeping, Over
<1>14. CASE Again
  <2>1. run' = Fresh /\ at' = "menu" BY <1>14 DEF Again
  <2>2. Fresh.errors = 0 /\ ~Fresh.abort /\ ~Fresh.failed /\ Fresh.result = "none" BY DEF Fresh
  <2>. QED BY <2>1, <2>2, FreshRun DEF RunInv, NotBegun, Sweeping, Over
<1>. QED BY <1>1, <1>2, <1>3, <1>4, <1>5, <1>6, <1>7, <1>8, <1>9, <1>10, <1>11,
            <1>12, <1>13, <1>14, Zenon DEF RamNext

(* The counts start at zero.                                               *)
LEMMA RunInit == Init => RunInv
<1>. SUFFICES ASSUME Init PROVE RunInv
  OBVIOUS
<1>1. run = Fresh /\ at = "away" BY DEF Init, RamInit
<1>2. Fresh.errors = 0 /\ ~Fresh.abort /\ ~Fresh.failed /\ Fresh.result = "none" BY DEF Fresh
<1>. QED BY <1>1, <1>2, FreshRun DEF RunInv, NotBegun, Sweeping, Over

(* And any step keeps them.                                                *)
LEMMA RunStep == ASSUME RunInv, PatternsInv, ClockInv, [Next]_vars PROVE RunInv'
<1>1. CASE UNCHANGED vars BY <1>1 DEF vars, ramVars, RunInv
<1>2. CASE RamNext BY <1>2, RamRuns
<1>3. CASE UNCHANGED <<at, platform, fault, mtc, mem, run>> BY <1>3 DEF RunInv
<1>4. ASSUME NEW p \in Platforms, NEW f \in Faults, Boots(p, f) PROVE RunInv'
  <2>1. run' = Fresh /\ at' \in {"menu", "halted"} BY <1>4 DEF Boots
  <2>2. Fresh.errors = 0 /\ ~Fresh.abort /\ ~Fresh.failed /\ Fresh.result = "none" BY DEF Fresh
  <2>. QED BY <2>1, <2>2, FreshRun DEF RunInv, NotBegun, Sweeping, Over
<1>. QED BY <1>1, <1>2, <1>3, <1>4, LauncherLeavesRam DEF Next

\* Where the RAM test is, and the sets of keys.
AtInv == at \in Places /\ key \in KeySets

(* The RAM test stays where it has a place to be.                          *)
LEMMA AtStep == ASSUME AtInv, [Next]_vars PROVE AtInv'
<1>1. key' \in KeySets
  <2>1. key' = key \/ KeyMoves
    BY DEF Next, vars, ramVars, LauncherKeys, Boot, SkipReleased, Turn, TurnReleased,
           SwitchedOff, RamStarts, LoadFails, FailureSeen, FailureReleased, Stays,
           RamNext, Keys, MenuTurn, MenuReleased, OffReleased, Train, NoSmmu, DataBus,
           WriteRegion, Hold, VerifyRegion, Report, ReportReleased, Answer, Again
  <2>. QED BY <2>1 DEF KeyMoves, AtInv
<1>2. at' \in Places
  <2>1. CASE UNCHANGED vars BY <2>1 DEF vars, ramVars, AtInv
  <2>2. CASE RamNext
    <3>1. ASSUME NEW kept \in SUBSET Lines, VerifyRegion(kept) PROVE at' \in Places
      BY <3>1 DEF VerifyRegion, Training, Goes, BeginPass, Places
    <3>2. CASE Keys \/ MenuTurn \/ MenuReleased \/ OffReleased
      BY <3>2 DEF Keys, MenuTurn, MenuReleased, OffReleased, Places, AtInv
    <3>3. CASE Train
      <4>1. at' \in {"bus", "no_smmu", "entry_clock", "halted"} BY <3>3 DEF Train
      <4>. QED BY <4>1 DEF Places
    <3>4. CASE NoSmmu \/ DataBus \/ WriteRegion \/ Hold
      BY <3>4 DEF NoSmmu, DataBus, BeginPass, WriteRegion, Hold, Training, Goes, Places
    <3>5. CASE Report \/ ReportReleased \/ Answer \/ Again
      BY <3>5 DEF Report, ReportReleased, Answer, Again, Places, AtInv
    <3>. QED BY <2>2, <3>1, <3>2, <3>3, <3>4, <3>5 DEF RamNext
  <2>3. CASE UNCHANGED <<at, platform, fault, mtc, mem, run>> BY <2>3 DEF AtInv
  <2>4. ASSUME NEW p \in Platforms, NEW f \in Faults, Boots(p, f) PROVE at' \in Places
    BY <2>4 DEF Boots, Places
  <2>. QED BY <2>1, <2>2, <2>3, <2>4, LauncherLeavesRam DEF Next
<1>. QED BY <1>1, <1>2 DEF AtInv

\* Everything the launcher's and the RAM test's types rest on.
TypesInv == ActsInv /\ ClockInv /\ BoxesInv /\ PatternsInv /\ RunInv /\ AtInv

(* They hold at the start and after any step.                              *)
LEMMA TypesKept == (Init => TypesInv) /\ (TypesInv /\ [Next]_vars => TypesInv')
<1>1. Init => AtInv BY DEF Init, RamInit, AtInv, Places
<1>2. Init => TypesInv
  BY <1>1, ActsInit, ClockInit, MenusInit, RunInit DEF TypesInv
<1>3. TypesInv /\ [Next]_vars => TypesInv'
  BY ActsStep, ClockStep, MenusStep, RunStep, AtStep DEF TypesInv
<1>. QED BY <1>2, <1>3

(* The type invariant of the launcher and the RAM test: the rows stay on   *)
(* the screen, the counters and cursors of a run inside its tables, and    *)
(* sound output is never ticked without the audio hardware (ui_menu.c,     *)
(* ramtest.c).                                                             *)
THEOREM TypesHold == Spec => []TypeOK
<1>1. TypesInv => TypeOK
  <2>. SUFFICES ASSUME TypesInv PROVE TypeOK
    OBVIOUS
  <2>1. RamTypeOK
    <3>1. at \in Places /\ key \in KeySets /\ acts \in 0 .. 2
      BY DEF TypesInv, AtInv, ActsInv
    <3>2. menu.row \in 0 .. Rows(menu, Order) - 1 /\ menu.ticked \subseteq AllPatterns
      <4>1. Len(Order) \in Nat BY OrderAssumption
      <4>. QED BY <4>1 DEF TypesInv, PatternsInv, MenuOK, Rows
    <3>3. mtc.clock \in {BootClock, "800", "1600"} BY DEF TypesInv, ClockInv
    <3>4. /\ run.pass \in 0 .. Len(Order) /\ run.region \in DOMAIN Testable
          /\ run.errors \in 0 .. MaxErrors /\ run.done <= Cardinality(run.mask)
      BY DEF TypesInv, RunInv, RunType
    <3>. QED BY <3>1, <3>2, <3>3, <3>4 DEF RamTypeOK
  <2>2. (at = "away") = (place # "ram") BY DEF TypesInv, ActsInv
  <2>3. boxes.row \in 0 .. Rows(boxes, Groups) - 1 /\ boxes.ticked \subseteq AllGroups
        /\ ("sound" \in boxes.ticked => "audio" \in boxes.ticked)
    <3>1. Len(Groups) \in Nat BY GroupsAssumption
    <3>. QED BY <3>1 DEF TypesInv, BoxesInv, MenuOK, Rows
  <2>. QED BY <2>1, <2>2, <2>3 DEF TypeOK
<1>. QED BY <1>1, TypesKept, PTL DEF Spec

-----------------------------------------------------------------------------
(* What a pass finds.                                                      *)

(* A number below the width is its own remainder.                          *)
LEMMA SmallMod == ASSUME NEW w \in Nat \ {0}, NEW a \in 0 .. w - 1 PROVE a % w = a
  OBVIOUS

(* Two regions whose addresses differ in a bit have address words that     *)
(* differ in a bit, at every offset.                                       *)
LEMMA AddressBit ==
    ASSUME NEW p, NEW r \in TestableSet, NEW s \in TestableSet, NEW n \in Lines,
           NEW b \in r, b \notin s
    PROVE  \E c \in Bits : ~(c \in AddrWord(p, r, Offsets[n]) <=> c \in AddrWord(p, s, Offsets[n]))
<1>. DEFINE o == Offsets[n]
            half == WordBits \div 2
<1>1. PICK page \in Bits :
         /\ \A k \in Lines : \A x \in Offsets[k] : x < page
         /\ \A q \in TestableSet : /\ \A x \in Lo(q) : x >= page
                                   /\ \A x \in Hi(q) : x + WordBits \div 2 < page
  BY LayoutAssumption
<1>2. WordBits \in Nat \ {0} /\ half \in Nat
  BY CellsAssumption
<1>. HIDE DEF half
<1>3. r \subseteq Nat /\ s \subseteq Nat
  BY TestableAssumption DEF TestableSet
<1>4. page \in 0 .. WordBits - 1 /\ Bits = 0 .. WordBits - 1 /\ page \in Nat
  BY <1>1, <1>2 DEF Bits
<1>5. /\ \A x \in o : x < page
      /\ \A x \in Lo(r) : x >= page
      /\ \A x \in Lo(s) : x >= page
      /\ \A x \in Hi(r) : x + half < page
      /\ \A x \in Hi(s) : x + half < page
  BY <1>1 DEF half
<1>6. o \subseteq Bits
  <2>1. n \in DOMAIN Offsets BY DEF Lines
  <2>. QED BY <2>1, CellsAssumption
<1>7. ASSUME NEW q, q \subseteq Nat, \A x \in Hi(q) : x + half < page
      PROVE  HighMix(q) = {x + half : x \in Hi(q)} /\ \A x \in HighMix(q) : x \in Nat /\ x < page
  <2>1. \A x \in Hi(q) : x \in Nat
    <3>1. SUFFICES ASSUME NEW x \in q \ Bits PROVE x - WordBits \in Nat
      BY DEF Hi
    <3>. QED BY <1>2, <1>4, <1>7, <3>1
  <2>2. \A x \in Hi(q) : (x + half) % WordBits = x + half
    <3>1. SUFFICES ASSUME NEW x \in Hi(q) PROVE (x + half) % WordBits = x + half
      OBVIOUS
    <3>2. x + half \in 0 .. WordBits - 1 BY <1>2, <1>4, <1>7, <2>1
    <3>. QED BY <1>2, <3>2, SmallMod
  <2>3. HighMix(q) = {(x + half) % WordBits : x \in Hi(q)} BY DEF HighMix, half
  <2>4. HighMix(q) = {x + half : x \in Hi(q)} BY <2>2, <2>3
  <2>. QED BY <1>2, <1>7, <2>1, <2>4
<1>8. /\ HighMix(r) = {x + half : x \in Hi(r)} /\ \A x \in HighMix(r) : x \in Nat /\ x < page
      /\ HighMix(s) = {x + half : x \in Hi(s)} /\ \A x \in HighMix(s) : x \in Nat /\ x < page
  BY <1>3, <1>5, <1>7
<1>. HIDE DEF o
<1>9. CASE b \in Bits
  <2>1. b \in Lo(r) /\ b \notin Lo(s) /\ b \in Nat BY <1>3, <1>9 DEF Lo
  <2>2. b >= page BY <1>5, <2>1
  <2>3. b \notin o /\ b \notin HighMix(r) /\ b \notin HighMix(s)
    BY <1>4, <1>5, <1>8, <2>1, <2>2
  <2>4. ~(b \in AddrWord(p, r, o) <=> b \in AddrWord(p, s, o))
    BY <2>1, <2>3 DEF AddrWord, Xor
  <2>. QED BY <1>9, <2>4 DEF o
<1>10. CASE b \notin Bits
  <2>. DEFINE h == b - WordBits
              c == h + half
  <2>1. h \in Hi(r) BY <1>10 DEF Hi
  <2>2. h \notin Hi(s)
    <3>1. SUFFICES ASSUME NEW x \in s \ Bits, x - WordBits = b - WordBits PROVE FALSE
      BY DEF Hi
    <3>2. x = b BY <1>2, <1>3, <3>1
    <3>. QED BY <3>1, <3>2
  <2>3. c \in HighMix(r) BY <1>8, <2>1
  <2>4. c \notin HighMix(s)
    <3>1. SUFFICES ASSUME NEW x \in Hi(s), x + half = c PROVE FALSE
      BY <1>8
    <3>2. x \in Int BY <1>2, <1>3 DEF Hi
    <3>3. x = h BY <1>2, <1>3, <3>1, <3>2
    <3>. QED BY <2>2, <3>1, <3>3
  <2>. HIDE DEF c
  <2>5. c \in Nat /\ c < page BY <1>8, <2>3
  <2>6. c \in Bits BY <1>2, <1>4, <2>5
  <2>7. c \notin Lo(r) /\ c \notin Lo(s) BY <1>4, <1>5, <2>5
  <2>8. ~(c \in AddrWord(p, r, o) <=> c \in AddrWord(p, s, o))
    BY <2>3, <2>4, <2>7 DEF AddrWord, Xor
  <2>. QED BY <2>6, <2>8 DEF o
<1>. QED BY <1>9, <1>10

(* A pattern made of the address writes no two regions the same words.     *)
LEMMA WordsDiffer ==
    ASSUME NEW p \in AddressPatterns, NEW r \in TestableSet, NEW s \in TestableSet, r # s
    PROVE  \E n \in Lines : Word(p, r, n) # Word(p, s, n)
<1>1. PICK n \in Lines : PrbsWord(r, n) # PrbsWord(s, n)
  BY PrbsAssumption
<1>2. CASE p = "prbs"
  BY <1>1, <1>2 DEF Word
<1>3. CASE p \in {"addr", "addr_inv"}
  <2>. DEFINE x == AddrWord(p, r, Offsets[n])
              y == AddrWord(p, s, Offsets[n])
  <2>1. \E c \in Bits : ~(c \in x <=> c \in y)
    <3>1. CASE \E b \in r : b \notin s BY <3>1, AddressBit
    <3>2. CASE \E b \in s : b \notin r BY <3>2, AddressBit
    <3>. QED BY <3>1, <3>2
  <2>. HIDE DEF x, y
  <2>2. x # y /\ Complement(x) # Complement(y) BY <2>1 DEF Complement
  <2>3. \/ Word(p, r, n) = x /\ Word(p, s, n) = y
        \/ Word(p, r, n) = Complement(x) /\ Word(p, s, n) = Complement(y)
    BY <1>3 DEF Word, x, y
  <2>. QED BY <2>2, <2>3
<1>. QED BY <1>2, <1>3 DEF AddressPatterns

\* What a pattern has to find of the fault.
Exposes(f, p) ==
    CASE f.kind \in {"stuck0", "stuck1"} ->
           Stored(f, f.at[1], f.at[2], Word(p, f.at[1], f.at[2]))
             # Word(p, f.at[1], f.at[2])
      [] f.kind = "alias" -> p \in AddressPatterns
      [] f.kind = "fades" -> p = "prbs"
      [] OTHER -> FALSE

(* A run excludes a bad data line, and what one of its patterns exposes.   *)
LEMMA ExcludedIs ==
    ASSUME NEW mask
    PROVE  Excluded(fault, mask) <=> fault.kind = "line0" \/ \E p \in mask : Exposes(fault, p)
  BY DEF Excluded, Exposes

(* A fault of this memory decodes every address to a region of it.         *)
LEMMA FaultDecodes ==
    ASSUME Fits(fault)
    PROVE  /\ Decodes
           /\ fault.kind # "alias" => \A r : Decoded(fault, r) = r
           /\ fault.kind = "alias" => /\ Decoded(fault, fault.at[1]) = fault.as
                                      /\ Decoded(fault, fault.as) = fault.as
                                      /\ \A r : r # fault.at[1] => Decoded(fault, r) = r
                                      /\ \A r, n, w : Stored(fault, r, n, w) = w
  BY DEF Fits, Decodes, Decoded, Stored

\* What the cells hold once the first regions, those before k, are written.
WrittenUpTo(f, m, p, k) ==
    IF f.kind = "alias"
    THEN (\E j \in DOMAIN Testable : j < k /\ Testable[j] \in {f.at[1], f.as})
         => \E x \in {f.at[1], f.as} : \A n \in Lines : m.cells[f.as][n] = Word(p, x, n)
    ELSE \A j \in DOMAIN Testable : j < k =>
           \A n \in Lines : m.cells[Testable[j]][n]
                              = Stored(f, Testable[j], n, Word(p, Testable[j], n))

\* And what a verify sweep looks at.
AsLeft(f, m, p) == IF f.kind = "fades"
                   THEN p = "prbs" => m.cells[f.at[1]][f.at[2]] = {}
                   ELSE WrittenUpTo(f, m, p, Len(Testable) + 1)

\* The regions before k were read back as they were written.
ReadUpTo(f, m, p, k) ==
    \A j \in DOMAIN Testable : j < k =>
      \A n \in Lines : m.cells[Decoded(f, Testable[j])][n] = Word(p, Testable[j], n)

(* A pattern that exposes the fault reads some region back wrong.          *)
LEMMA ExposedIsRead ==
    ASSUME Fits(fault), NEW m, NEW p, AsLeft(fault, m, p), ReadUpTo(fault, m, p, Len(Testable) + 1)
    PROVE  ~Exposes(fault, p)
<1>. DEFINE len == Len(Testable)
<1>1. \A r \in TestableSet, n \in Lines : m.cells[Decoded(fault, r)][n] = Word(p, r, n)
  <2>1. len \in Nat /\ DOMAIN Testable = 1 .. len BY TestableAssumption
  <2>2. \A j \in DOMAIN Testable : j < len + 1
    <3>. HIDE DEF len
    <3>. QED BY <2>1
  <2>. QED BY <2>2 DEF ReadUpTo, TestableSet
<1>2. CASE fault.kind \in {"stuck0", "stuck1"}
  <2>1. PICK r \in TestableSet, n \in Lines : fault.at = <<r, n>> BY <1>2 DEF Fits
  <2>2. PICK j \in DOMAIN Testable : Testable[j] = r BY DEF TestableSet
  <2>3. j < len + 1
    <3>1. len \in Nat /\ DOMAIN Testable = 1 .. len BY TestableAssumption
    <3>. HIDE DEF len
    <3>. QED BY <3>1
  <2>4. m.cells[r][n] = Stored(fault, r, n, Word(p, r, n))
    BY <1>2, <2>2, <2>3 DEF AsLeft, WrittenUpTo
  <2>5. m.cells[r][n] = Word(p, r, n) BY <1>1, <1>2, FaultDecodes
  <2>6. fault.at[1] = r /\ fault.at[2] = n BY <2>1
  <2>7. Exposes(fault, p) => Stored(fault, r, n, Word(p, r, n)) # Word(p, r, n)
    BY <1>2, <2>6, Zenon DEF Exposes
  <2>. QED BY <2>4, <2>5, <2>7
<1>3. CASE fault.kind = "alias"
  <2>1. SUFFICES ASSUME p \in AddressPatterns PROVE FALSE
    BY <1>3 DEF Exposes
  <2>. DEFINE a == fault.at[1]
              s == fault.as
  <2>2. a \in TestableSet /\ s \in TestableSet /\ a # s BY <1>3 DEF Fits
  <2>3. Decoded(fault, a) = s /\ Decoded(fault, s) = s BY <1>3, FaultDecodes
  <2>. HIDE DEF a, s
  <2>4. \A n \in Lines : Word(p, a, n) = Word(p, s, n)
    BY <1>1, <2>2, <2>3
  <2>. QED BY <2>1, <2>2, <2>4, WordsDiffer
<1>4. CASE fault.kind = "fades"
  <2>1. SUFFICES ASSUME p = "prbs" PROVE FALSE
    BY <1>4 DEF Exposes
  <2>2. PICK r \in TestableSet, n \in Lines : fault.at = <<r, n>> BY <1>4 DEF Fits
  <2>3. m.cells[r][n] = {} BY <1>4, <2>1, <2>2 DEF AsLeft
  <2>4. m.cells[r][n] = Word(p, r, n) BY <1>1, <1>4, FaultDecodes
  <2>5. Word(p, r, n) = PrbsWord(r, n) BY <2>1 DEF Word
  <2>. QED BY <2>3, <2>4, <2>5, PrbsAssumption
<1>5. CASE fault.kind \notin {"stuck0", "stuck1", "alias", "fades"}
  BY <1>5 DEF Exposes
<1>. QED BY <1>2, <1>3, <1>4, <1>5

(* One more region written.                                                *)
LEMMA WritesOn ==
    ASSUME Fits(fault), NEW m, MemShape(m), Clean(m), NEW p, NEW i \in DOMAIN Testable,
           WrittenUpTo(fault, m, p, i)
    PROVE  WrittenUpTo(fault, Written(fault, m, Testable[i], p), p, i + 1)
<1>. DEFINE w == Written(fault, m, Testable[i], p)
            r == Testable[i]
<1>1. r \in TestableSet BY DEF TestableSet
<1>2. \A q \in TestableSet, n \in Lines :
        w.cells[q][n] = IF q = Decoded(fault, r) THEN Stored(fault, q, n, Word(p, r, n))
                        ELSE m.cells[q][n]
  <2>. HIDE DEF r
  <2>. QED BY <1>1, FaultDecodes, WrittenCells DEF r
<1>. HIDE DEF w
<1>3. \A j \in DOMAIN Testable : j < i + 1 <=> j < i \/ j = i
  <2>1. Len(Testable) \in Nat /\ DOMAIN Testable = 1 .. Len(Testable) BY TestableAssumption
  <2>. QED BY <2>1
<1>4. CASE fault.kind = "alias"
  <2>. DEFINE s == fault.as
              both == {fault.at[1], s}
  <2>1. s \in TestableSet BY <1>4 DEF Fits
  <2>2. CASE r \in both
    <3>1. Decoded(fault, r) = s BY <1>4, <2>2, FaultDecodes
    <3>2. \A n \in Lines : w.cells[s][n] = Word(p, r, n)
      <4>1. \A n \in Lines : w.cells[s][n] = Stored(fault, s, n, Word(p, r, n))
        BY <1>2, <2>1, <3>1
      <4>. QED BY <1>4, <4>1, FaultDecodes
    <3>. QED BY <1>4, <2>2, <3>2 DEF WrittenUpTo, w
  <2>3. CASE r \notin both
    <3>1. Decoded(fault, r) # s BY <1>4, <2>3, FaultDecodes
    <3>2. \A n \in Lines : w.cells[s][n] = m.cells[s][n] BY <1>2, <2>1, <3>1
    <3>3. (\E j \in DOMAIN Testable : j < i + 1 /\ Testable[j] \in both)
          => \E j \in DOMAIN Testable : j < i /\ Testable[j] \in both
      BY <1>3, <2>3
    <3>. HIDE DEF r
    <3>. QED BY <1>4, <3>2, <3>3 DEF WrittenUpTo, w, r
  <2>. QED BY <2>2, <2>3
<1>5. CASE fault.kind # "alias"
  <2>1. \A q \in TestableSet, n \in Lines :
          w.cells[q][n] = IF q = r THEN Stored(fault, r, n, Word(p, r, n)) ELSE m.cells[q][n]
    BY <1>2, <1>5, FaultDecodes
  <2>2. ASSUME NEW j \in DOMAIN Testable, j < i + 1, NEW n \in Lines
        PROVE  w.cells[Testable[j]][n] = Stored(fault, Testable[j], n, Word(p, Testable[j], n))
    <3>1. Testable[j] \in TestableSet BY DEF TestableSet
    <3>2. CASE Testable[j] = r BY <2>1, <3>1, <3>2
    <3>3. CASE Testable[j] # r
      <4>1. j < i BY <1>3, <2>2, <3>3
      <4>. QED BY <1>5, <2>1, <3>1, <3>3, <4>1 DEF WrittenUpTo
    <3>. QED BY <3>2, <3>3
  <2>. QED BY <1>5, <2>2 DEF WrittenUpTo, w
<1>. QED BY <1>4, <1>5

\* What a run has found: while no error is counted, no pattern done so far
\* exposed the fault, and the regions looked at hold what was written.
CatchInv ==
    /\ Fits(fault) /\ MemShape(mem) /\ Clean(mem)
    /\ at \in Sweeping =>
         /\ fault.kind # "line0"
         /\ run.errors = 0 =>
              \A j \in PickedBefore(run.mask, run.pass) : ~Exposes(fault, Order[j])
    /\ at = "write" => WrittenUpTo(fault, mem, Pattern, run.region)
    /\ at = "hold" => run.region = 1 /\ WrittenUpTo(fault, mem, Pattern, Len(Testable) + 1)
    /\ at = "verify" => /\ AsLeft(fault, mem, Pattern)
                        /\ run.errors = 0 => ReadUpTo(fault, mem, Pattern, run.region)
    /\ at = "report" /\ ~run.abort /\ ~run.failed /\ run.errors = 0
         => ~Excluded(fault, run.mask)
    /\ run.result = "PASS" => ~Excluded(fault, run.mask)

(* Where nothing is swept there is nothing to have found yet.              *)
LEMMA IdleCatches ==
    ASSUME Fits(fault), UNCHANGED fault, MemShape(mem'), Clean(mem'), RunInv',
           at' \notin Sweeping \cup Over, at' = "report" => run'.abort \/ run'.failed
    PROVE  CatchInv'
<1>1. run'.result = "none" BY DEF RunInv
<1>. QED BY <1>1 DEF CatchInv, Sweeping

(* A run that is stopped has nothing more to find.                         *)
LEMMA TrainingCatches ==
    ASSUME CatchInv, UNCHANGED fault, MemShape(mem'), Clean(mem'), RunInv', mtc.bad \in BOOLEAN,
           NEW r, {"abort", "failed"} \subseteq DOMAIN r, NEW ok \in BOOLEAN, Training(r, ok)
    PROVE  ok \/ CatchInv'
<1>1. CASE ~(mtc'.bad \/ "vol-" \in key)
  BY <1>1 DEF Training
<1>2. CASE mtc'.bad \/ "vol-" \in key
  <2>1. run' = [r EXCEPT !.failed = @ \/ mtc'.bad, !.abort = ~mtc'.bad] /\ at' = "report"
    BY <1>2 DEF Training
  <2>2. run'.failed = (r.failed \/ mtc'.bad) /\ run'.abort = ~mtc'.bad BY <2>1
  <2>3. run'.failed \/ run'.abort BY <2>2
  <2>4. Fits(fault) BY DEF CatchInv
  <2>. QED BY <2>1, <2>3, <2>4, IdleCatches DEF Sweeping, Over
<1>. QED BY <1>1, <1>2

(* A pass begins with what the ones before it found; the report has what   *)
(* all of them did.                                                        *)
LEMMA BeginCatches ==
    ASSUME Fits(fault), UNCHANGED fault, MemShape(mem'), Clean(mem'), RunInv',
           NEW r \in RunType, NEW i \in Nat, BeginPass(r, NextPass(r.mask, i)),
           fault.kind # "line0", r.result = "none",
           r.errors = 0 => \A j \in Picked(r.mask) : j <= i => ~Exposes(fault, Order[j])
    PROVE  CatchInv'
<1>. DEFINE x == NextPass(r.mask, i)
<1>1. /\ x = 0 => \A j \in Picked(r.mask) : j <= i
      /\ x # 0 => x \in Picked(r.mask) /\ \A j \in Picked(r.mask) : j > i => x <= j
  BY NextPassIs
<1>2. run' = [r EXCEPT !.pass = x, !.region = 1] /\ at' = IF x = 0 THEN "report" ELSE "write"
  BY DEF BeginPass
<1>. HIDE DEF x
<1>3. /\ run'.pass = x /\ run'.region = 1 /\ run'.mask = r.mask /\ run'.errors = r.errors
      /\ run'.result = "none" /\ r.mask \in SUBSET AllPatterns
  BY <1>2 DEF RunType
<1>4. Picked(r.mask) \subseteq Nat BY OrderAssumption DEF Picked
<1>5. CASE x = 0
  <2>1. ASSUME run'.errors = 0 PROVE ~Excluded(fault, run'.mask)
    <3>1. \A p \in r.mask : \E j \in Picked(r.mask) : Order[j] = p
      BY <1>3 DEF AllPatterns, Picked
    <3>2. \A p \in r.mask : ~Exposes(fault, p)
      BY <1>1, <1>3, <1>5, <2>1, <3>1
    <3>. QED BY <1>3, <3>2, ExcludedIs
  <2>. QED BY <1>2, <1>3, <1>5, <2>1 DEF CatchInv, Sweeping
<1>6. CASE x # 0
  <2>1. ASSUME run'.errors = 0
        PROVE  \A j \in PickedBefore(run'.mask, run'.pass) : ~Exposes(fault, Order[j])
    <3>1. \A j \in PickedBefore(r.mask, x) : j \in Picked(r.mask) /\ j <= i
      BY <1>1, <1>4, <1>6 DEF PickedBefore
    <3>. QED BY <1>3, <2>1, <3>1
  <2>2. \A p : WrittenUpTo(fault, mem', p, 1)
    <3>1. \A j \in DOMAIN Testable : ~(j < 1) BY TestableAssumption
    <3>. QED BY <3>1 DEF WrittenUpTo
  <2>. QED BY <1>2, <1>3, <1>6, <2>1, <2>2 DEF CatchInv, Sweeping
<1>. QED BY <1>5, <1>6

(* The preflight finds a bad data line.                                    *)
LEMMA BusCatches ==
    ASSUME CatchInv, RunInv, RunInv', DataBus PROVE CatchInv'
<1>1. /\ at = "bus" /\ mem' = Preflighted(fault, mem) /\ fault' = fault /\ Fits(fault)
      /\ run \in RunType /\ run.result = "none"
  BY DEF DataBus, CatchInv, RunInv, Over
<1>2. MemShape(mem') /\ Clean(mem')
  BY <1>1, FaultDecodes, PreflightCells DEF CatchInv
<1>3. CASE BusOk(fault)
  <2>1. BeginPass(run, NextPass(run.mask, 0)) BY <1>3 DEF DataBus
  <2>2. fault.kind # "line0"
    <3>1. SUFFICES ASSUME fault.kind = "line0" PROVE FALSE
      OBVIOUS
    <3>2. fault.bit \in Bits /\ {fault.bit} \in BusWords
      BY <1>1, <3>1 DEF Fits, BusWords
    <3>3. Stored(fault, Decoded(fault, Testable[1]), 1, {fault.bit}) = {fault.bit}
      BY <1>3, <3>2 DEF BusOk
    <3>4. Stored(fault, Decoded(fault, Testable[1]), 1, {fault.bit}) = {fault.bit} \ {fault.bit}
      BY <3>1 DEF Stored
    <3>. QED BY <3>3, <3>4
  <2>3. \A j \in Picked(run.mask) : ~(j <= 0)
    BY OrderAssumption DEF Picked
  <2>. QED BY <1>1, <1>2, <2>1, <2>2, <2>3, BeginCatches
<1>4. CASE ~BusOk(fault)
  <2>. DEFINE r == [run EXCEPT !.failed = TRUE, !.errors = CountedUpTo(@ + 1)]
  <2>1. run' = [r EXCEPT !.pass = 0, !.region = 1] /\ at' = "report"
    BY <1>4 DEF DataBus, BeginPass
  <2>2. r.failed /\ DOMAIN r = DOMAIN run BY <1>1 DEF RunType
  <2>. HIDE DEF r
  <2>3. run'.failed BY <2>1, <2>2
  <2>. QED BY <1>1, <1>2, <2>1, <2>3, IdleCatches DEF Sweeping, Over
<1>. QED BY <1>3, <1>4

(* A region written holds what the pattern makes of it.                    *)
LEMMA WriteCatches ==
    ASSUME CatchInv, RunInv, RunInv', mtc.bad \in BOOLEAN, WriteRegion PROVE CatchInv'
<1>. DEFINE on == [run EXCEPT !.region = @ + 1]
            over == [run EXCEPT !.region = 1]
            ok == IF ~Last THEN Goes(on, "write")
                  ELSE Goes(over, IF Pattern = "prbs" THEN "hold" ELSE "verify")
            len == Len(Testable)
<1>1. /\ at = "write" /\ mem' = Written(fault, mem, Region, Pattern) /\ Training(run, ok)
      /\ fault' = fault /\ Fits(fault) /\ MemShape(mem) /\ Clean(mem)
      /\ run \in RunType /\ run.region \in DOMAIN Testable
      /\ WrittenUpTo(fault, mem, Pattern, run.region)
  BY DEF WriteRegion, CatchInv, RunInv, RunType
<1>2. Region \in TestableSet /\ Region = Testable[run.region]
  BY <1>1 DEF Region, TestableSet
<1>3. MemShape(mem') /\ Clean(mem')
  BY <1>1, <1>2, FaultDecodes, WrittenCells
<1>4. WrittenUpTo(fault, mem', Pattern, run.region + 1)
  BY <1>1, <1>2, WritesOn
<1>5. ok \in BOOLEAN BY DEF Goes
<1>6. {"abort", "failed"} \subseteq DOMAIN run BY <1>1 DEF RunType
<1>7. len \in Nat /\ DOMAIN Testable = 1 .. len BY TestableAssumption
<1>. HIDE DEF ok, len
<1>8. ok \/ CatchInv' BY <1>1, <1>3, <1>5, <1>6, TrainingCatches
<1>9. ASSUME ok, ~Last PROVE CatchInv'
  <2>1. run' = on /\ at' = "write" BY <1>9 DEF ok, Goes
  <2>2. /\ run'.region = run.region + 1 /\ run'.mask = run.mask /\ run'.pass = run.pass
        /\ run'.errors = run.errors /\ run'.result = run.result
    BY <1>1, <2>1 DEF RunType
  <2>3. Pattern' = Pattern BY <2>2 DEF Pattern
  <2>. QED BY <1>1, <1>3, <1>4, <2>1, <2>2, <2>3 DEF CatchInv, Sweeping
<1>10. ASSUME ok, Last PROVE CatchInv'
  <2>1. run' = over /\ at' = IF Pattern = "prbs" THEN "hold" ELSE "verify"
    BY <1>10 DEF ok, Goes
  <2>2. /\ run'.region = 1 /\ run'.mask = run.mask /\ run'.pass = run.pass
        /\ run'.errors = run.errors /\ run'.result = run.result
    BY <1>1, <2>1 DEF RunType
  <2>3. Pattern' = Pattern BY <2>2 DEF Pattern
  <2>4. WrittenUpTo(fault, mem', Pattern, Len(Testable) + 1)
    BY <1>4, <1>10 DEF Last
  <2>5. \A p : ReadUpTo(fault, mem', p, 1)
    BY <1>7 DEF ReadUpTo
  <2>6. Pattern # "prbs" => AsLeft(fault, mem', Pattern)
    BY <2>4 DEF AsLeft
  <2>7. CASE Pattern = "prbs"
    BY <1>1, <1>3, <2>1, <2>2, <2>3, <2>4, <2>7 DEF CatchInv, Sweeping
  <2>8. CASE Pattern # "prbs"
    BY <1>1, <1>3, <2>1, <2>2, <2>3, <2>5, <2>6, <2>8 DEF CatchInv, Sweeping
  <2>. QED BY <2>7, <2>8
<1>. QED BY <1>8, <1>9, <1>10

(* A cell that does not keep its word has lost it by the end of the hold.  *)
LEMMA HoldCatches ==
    ASSUME CatchInv, RunInv, RunInv', mtc.bad \in BOOLEAN, Hold PROVE CatchInv'
<1>. DEFINE ok == Goes(run, "verify")
<1>1. /\ at = "hold" /\ Training(run, ok) /\ mem' = [mem EXCEPT !.cells = Faded(fault, @)]
      /\ fault' = fault /\ Fits(fault) /\ MemShape(mem) /\ Clean(mem) /\ run \in RunType
      /\ WrittenUpTo(fault, mem, Pattern, Len(Testable) + 1) /\ run.region = 1
  BY DEF Hold, CatchInv, RunInv
<1>2. /\ DOMAIN mem' = DOMAIN mem /\ mem'.cells = Faded(fault, mem.cells)
      /\ mem'.cache = mem.cache /\ mem'.at = mem.at
  BY <1>1 DEF MemShape
<1>3. ASSUME fault.kind = "fades"
      PROVE  MemShape(mem') /\ Clean(mem') /\ AsLeft(fault, mem', Pattern)
  <2>1. PICK r \in TestableSet, n \in Lines : fault.at = <<r, n>> BY <1>1, <1>3 DEF Fits
  <2>2. mem'.cells = [mem.cells EXCEPT ![r][n] = {}] BY <1>2, <1>3, <2>1 DEF Faded
  <2>3. MemShape(mem') /\ Clean(mem')
    BY <1>1, <1>2, <2>2 DEF MemShape, Clean
  <2>4. mem'.cells[r][n] = {} BY <1>1, <2>2 DEF MemShape
  <2>5. AsLeft(fault, mem', Pattern) BY <1>3, <2>1, <2>4 DEF AsLeft
  <2>. QED BY <2>3, <2>5
<1>4. ASSUME fault.kind # "fades"
      PROVE  MemShape(mem') /\ Clean(mem') /\ AsLeft(fault, mem', Pattern)
  <2>1. mem'.cells = mem.cells BY <1>2, <1>4 DEF Faded
  <2>2. MemShape(mem') /\ Clean(mem')
    BY <1>1, <1>2, <2>1 DEF MemShape, Clean
  <2>3. AsLeft(fault, mem', Pattern) BY <1>1, <1>4, <2>1 DEF AsLeft, WrittenUpTo
  <2>. QED BY <2>2, <2>3
<1>5. MemShape(mem') /\ Clean(mem') /\ AsLeft(fault, mem', Pattern) BY <1>3, <1>4
<1>6. ok \in BOOLEAN /\ {"abort", "failed"} \subseteq DOMAIN run BY <1>1 DEF Goes, RunType
<1>. HIDE DEF ok
<1>7. ok \/ CatchInv' BY <1>1, <1>5, <1>6, TrainingCatches
<1>8. ASSUME ok PROVE CatchInv'
  <2>1. run' = run /\ at' = "verify" BY <1>8 DEF ok, Goes
  <2>2. Pattern' = Pattern BY <2>1 DEF Pattern
  <2>3. run.region = 1 => ReadUpTo(fault, mem', Pattern, run.region)
    <3>1. \A j \in DOMAIN Testable : ~(j < 1) BY TestableAssumption
    <3>. QED BY <3>1 DEF ReadUpTo
  <2>. QED BY <1>1, <1>5, <2>1, <2>2, <2>3 DEF CatchInv, Sweeping
<1>. QED BY <1>7, <1>8

(* A region is looked at: its errors count, and after the last one without *)
(* any the pattern has exposed nothing.                                    *)
LEMMA VerifyCatches ==
    ASSUME CatchInv, RunInv, RunInv', mtc.bad \in BOOLEAN, NEW kept, VerifyRegion(kept)
    PROVE  CatchInv'
<1>. DEFINE wrong == Wrong(fault, mem, Region, Pattern)
            e == CountedUpTo(run.errors + Cardinality(wrong))
            r == [run EXCEPT !.errors = CountedUpTo(@ + Cardinality(wrong))]
            on == [r EXCEPT !.region = @ + 1]
            over == [r EXCEPT !.done = @ + 1]
            next == NextPass(run.mask, run.pass)
            ok == IF ~Last THEN Goes(on, "verify") ELSE BeginPass(over, next)
            len == Len(Testable)
<1>1. /\ at = "verify" /\ mem' = Looked(fault, mem, Region, kept) /\ Training(r, ok)
      /\ fault' = fault /\ Fits(fault) /\ MemShape(mem) /\ Clean(mem)
      /\ run \in RunType /\ run.region \in DOMAIN Testable /\ run.result = "none"
      /\ AsLeft(fault, mem, Pattern) /\ fault.kind # "line0"
      /\ run.errors = 0 => ReadUpTo(fault, mem, Pattern, run.region)
      /\ run.errors = 0 => \A j \in PickedBefore(run.mask, run.pass) : ~Exposes(fault, Order[j])
  BY DEF VerifyRegion, CatchInv, RunInv, RunType, Sweeping, Over
<1>2. Region \in TestableSet /\ Region = Testable[run.region] /\ Pattern = Order[run.pass]
  BY <1>1 DEF Region, TestableSet, Pattern
<1>3. /\ wrong = {n \in Lines : mem.cells[Decoded(fault, Region)][n] # Word(Pattern, Region, n)}
      /\ MemShape(mem') /\ Clean(mem')
      /\ \A q \in TestableSet, n \in Lines : mem'.cells[q][n] = mem.cells[q][n]
  BY <1>1, <1>2, FaultDecodes, LookedCells
<1>4. AsLeft(fault, mem', Pattern)
  <2>1. CASE fault.kind = "fades"
    <3>1. PICK q \in TestableSet, n \in Lines : fault.at = <<q, n>> BY <1>1, <2>1 DEF Fits
    <3>. QED BY <1>1, <1>3, <2>1, <3>1 DEF AsLeft
  <2>2. CASE fault.kind # "fades"
    <3>1. fault.kind = "alias" => fault.as \in TestableSet BY <1>1 DEF Fits
    <3>2. WrittenUpTo(fault, mem, Pattern, Len(Testable) + 1) BY <1>1, <2>2 DEF AsLeft
    <3>3. \A j \in DOMAIN Testable : Testable[j] \in TestableSet BY DEF TestableSet
    <3>4. WrittenUpTo(fault, mem', Pattern, Len(Testable) + 1)
      BY <1>3, <3>1, <3>2, <3>3 DEF WrittenUpTo
    <3>. QED BY <2>2, <3>4 DEF AsLeft
  <2>. QED BY <2>1, <2>2
<1>5. IsFiniteSet(wrong) /\ Cardinality(wrong) \in Nat
  <2>1. IsFiniteSet(Lines)
    <3>1. Len(Offsets) \in Nat /\ Lines = 1 .. Len(Offsets) BY CellsAssumption DEF Lines
    <3>. QED BY <3>1, FS_Interval
  <2>2. wrong \subseteq Lines BY DEF Wrong
  <2>. QED BY <2>1, <2>2, FS_Subset, FS_CardinalityType
<1>6. e = 0 => run.errors = 0 /\ wrong = {}
  <2>1. run.errors \in 0 .. MaxErrors BY <1>1 DEF RunType
  <2>2. e = 0 => run.errors = 0 /\ Cardinality(wrong) = 0
    <3>. HIDE DEF wrong
    <3>. QED BY <1>5, <2>1, CountStops
  <2>3. Cardinality(wrong) = 0 => wrong = {}
    <3>. HIDE DEF wrong
    <3>. QED BY <1>5, FS_EmptySet
  <2>. QED BY <2>2, <2>3
<1>7. e \in 0 .. MaxErrors
  <2>1. run.errors \in 0 .. MaxErrors BY <1>1 DEF RunType
  <2>. HIDE DEF wrong
  <2>. QED BY <1>5, <2>1, CountStops
<1>8. \A j \in DOMAIN Testable : j < run.region + 1 <=> j < run.region \/ j = run.region
  <2>1. Len(Testable) \in Nat /\ DOMAIN Testable = 1 .. Len(Testable) BY TestableAssumption
  <2>. QED BY <1>1, <2>1
<1>9. e = 0 => ReadUpTo(fault, mem', Pattern, run.region + 1)
  <2>1. SUFFICES ASSUME e = 0, NEW j \in DOMAIN Testable, j < run.region + 1, NEW n \in Lines
                 PROVE  mem'.cells[Decoded(fault, Testable[j])][n] = Word(Pattern, Testable[j], n)
    BY Zenon DEF ReadUpTo
  <2>2. Testable[j] \in TestableSet BY DEF TestableSet
  <2>3. Decoded(fault, Testable[j]) \in TestableSet BY <1>1, <2>2, FaultDecodes DEF Decodes
  <2>4. mem'.cells[Decoded(fault, Testable[j])][n] = mem.cells[Decoded(fault, Testable[j])][n]
    BY <1>3, <2>3
  <2>5. CASE j < run.region
    BY <1>1, <1>6, <2>1, <2>4, <2>5 DEF ReadUpTo
  <2>6. CASE j = run.region
    <3>1. wrong = {} BY <1>6, <2>1
    <3>. QED BY <1>2, <1>3, <2>4, <2>6, <3>1
  <2>. QED BY <1>8, <2>1, <2>5, <2>6
<1>10. r = [run EXCEPT !.errors = e]
  BY <1>1 DEF RunType
<1>11. ok \in BOOLEAN BY DEF Goes, BeginPass
<1>. HIDE DEF wrong, e, r, ok
<1>12. /\ r \in RunType /\ r.mask = run.mask /\ r.pass = run.pass /\ r.region = run.region
       /\ r.errors = e /\ r.result = run.result
  BY <1>1, <1>7, <1>10 DEF RunType
<1>13. {"abort", "failed"} \subseteq DOMAIN r BY <1>12 DEF RunType
<1>14. ok \/ CatchInv' BY <1>1, <1>3, <1>11, <1>13, TrainingCatches
<1>15. ASSUME ok, ~Last PROVE CatchInv'
  <2>1. run' = on /\ at' = "verify" BY <1>15 DEF ok, Goes
  <2>2. /\ run'.region = run.region + 1 /\ run'.mask = run.mask /\ run'.pass = run.pass
        /\ run'.errors = e /\ run'.result = "none"
    BY <1>1, <1>12, <2>1 DEF RunType
  <2>3. Pattern' = Pattern BY <2>2 DEF Pattern
  <2>4. run'.errors = 0 => ReadUpTo(fault, mem', Pattern, run'.region)
    BY <1>9, <2>2
  <2>5. run'.errors = 0 =>
          \A j \in PickedBefore(run'.mask, run'.pass) : ~Exposes(fault, Order[j])
    BY <1>1, <1>6, <2>2
  <2>. QED BY <1>1, <1>3, <1>4, <2>1, <2>2, <2>3, <2>4, <2>5 DEF CatchInv, Sweeping
<1>16. ASSUME ok, Last PROVE CatchInv'
  <2>1. BeginPass(over, NextPass(over.mask, run.pass))
    BY <1>12, <1>16 DEF ok, RunType
  <2>2. /\ over \in RunType /\ over.mask = run.mask /\ over.errors = e /\ over.result = "none"
    BY <1>1, <1>12 DEF RunType
  <2>3. run.pass \in Nat BY <1>1, OrderAssumption DEF RunType
  <2>4. e = 0 => ~Exposes(fault, Pattern)
    BY <1>1, <1>4, <1>9, <1>16, ExposedIsRead DEF Last
  <2>5. e = 0 => \A j \in Picked(run.mask) : j <= run.pass => ~Exposes(fault, Order[j])
    <3>1. SUFFICES ASSUME e = 0, NEW j \in Picked(run.mask), j <= run.pass
                   PROVE  ~Exposes(fault, Order[j])
      OBVIOUS
    <3>2. CASE j = run.pass BY <1>2, <2>4, <3>1, <3>2
    <3>3. CASE j # run.pass
      <4>1. j \in Nat BY OrderAssumption DEF Picked
      <4>2. j \in PickedBefore(run.mask, run.pass)
        BY <2>3, <3>1, <3>3, <4>1 DEF PickedBefore
      <4>. QED BY <1>1, <1>6, <3>1, <4>2
    <3>. QED BY <3>2, <3>3
  <2>. HIDE DEF over
  <2>6. over.errors = 0 => \A j \in Picked(over.mask) : j <= run.pass => ~Exposes(fault, Order[j])
    BY <2>2, <2>5
  <2>. QED BY <1>1, <1>3, <2>1, <2>2, <2>3, <2>6, BeginCatches
<1>. QED BY <1>14, <1>15, <1>16

(* Any step of the payload keeps what was found.                           *)
LEMMA RamCatches ==
    ASSUME CatchInv, RunInv, RunInv', ClockInv, RamNext PROVE CatchInv'
<1>0. mtc.bad \in BOOLEAN BY DEF ClockInv
<1>1. CASE Keys BY <1>1 DEF Keys, CatchInv, Pattern
<1>2. CASE MenuTurn \/ OffReleased \/ Train \/ NoSmmu
  <2>1. /\ UNCHANGED <<fault, mem>> /\ at' \notin Sweeping /\ at' # "report"
        /\ at' \notin Over \/ run' = run
    BY <1>2 DEF MenuTurn, OffReleased, Train, NoSmmu, Sweeping, Over
  <2>2. Fits(fault) /\ MemShape(mem') /\ Clean(mem') BY <2>1 DEF CatchInv
  <2>3. CASE at' \notin Over
    BY <2>1, <2>2, <2>3, IdleCatches
  <2>4. CASE run' = run
    BY <2>1, <2>4 DEF CatchInv, Sweeping
  <2>. QED BY <2>1, <2>3, <2>4
<1>3. CASE MenuReleased
  BY <1>3 DEF MenuReleased, CatchInv, Pattern
<1>4. CASE DataBus BY <1>4, BusCatches
<1>5. CASE WriteRegion BY <1>0, <1>5, WriteCatches
<1>6. CASE Hold BY <1>0, <1>6, HoldCatches
<1>7. ASSUME NEW kept \in SUBSET Lines, VerifyRegion(kept) PROVE CatchInv'
  BY <1>0, <1>7, VerifyCatches
<1>8. CASE Report
  <2>1. /\ at = "report" /\ at' = "release" /\ fault' = fault /\ mem' = Blank
        /\ run' = [run EXCEPT !.result = Result(run), !.region = 1] /\ run \in RunType
    BY <1>8 DEF Report, RunInv
  <2>2. run'.result = Result(run) /\ run'.mask = run.mask BY <2>1 DEF RunType
  <2>3. Result(run) = "PASS" => ~run.abort /\ ~run.failed /\ run.errors = 0
    BY <2>1, OrderAssumption DEF Result, RunType
  <2>4. Fits(fault) /\ (Result(run) = "PASS" => ~Excluded(fault, run.mask))
    BY <2>1, <2>3 DEF CatchInv
  <2>. QED BY <2>1, <2>2, <2>4, BlankIsClean DEF CatchInv, Sweeping
<1>9. CASE ReportReleased \/ Answer
  <2>1. UNCHANGED <<fault, mem, run>> /\ at' \notin Sweeping /\ at' # "report"
    BY <1>9 DEF ReportReleased, Answer, Sweeping
  <2>. QED BY <2>1 DEF CatchInv, Sweeping
<1>10. CASE Again
  <2>1. at' = "menu" /\ UNCHANGED <<fault, mem>> BY <1>10 DEF Again
  <2>2. Fits(fault) /\ MemShape(mem') /\ Clean(mem') BY <2>1 DEF CatchInv
  <2>. QED BY <2>1, <2>2, IdleCatches DEF Sweeping, Over
<1>. QED BY <1>1, <1>2, <1>3, <1>4, <1>5, <1>6, <1>7, <1>8, <1>9, <1>10, Zenon DEF RamNext

(* PASS is never shown for memory with a fault that one of the selected    *)
(* patterns is there to find, nor before every selected pass was done      *)
(* (ramtest.c's sweeps, its counting and its report): for every layout of  *)
(* the regions, every choice of patterns and every way the run is stopped. *)
THEOREM PassesAreEarned == Spec => []PassIsEarned
<1>1. Init => CatchInv
  <2>. SUFFICES ASSUME Init PROVE CatchInv
    OBVIOUS
  <2>1. /\ at = "away" /\ fault = NoFault /\ mem = Blank /\ run = Fresh
    BY DEF Init, RamInit
  <2>2. Fits(fault) BY <2>1 DEF Fits, NoFault
  <2>3. run.result = "none" BY <2>1 DEF Fresh
  <2>. QED BY <2>1, <2>2, <2>3, BlankIsClean DEF CatchInv, Sweeping
<1>2. ASSUME CatchInv, TypesInv, TypesInv', [Next]_vars PROVE CatchInv'
  <2>0. RunInv /\ RunInv' /\ ClockInv BY <1>2 DEF TypesInv
  <2>1. CASE UNCHANGED vars BY <1>2, <2>1 DEF vars, ramVars, CatchInv, Pattern
  <2>2. CASE RamNext BY <1>2, <2>0, <2>2, RamCatches
  <2>3. CASE UNCHANGED <<at, platform, fault, mtc, mem, run>>
    BY <1>2, <2>3 DEF CatchInv, Pattern
  <2>4. ASSUME NEW p \in Platforms, NEW f \in Faults, Boots(p, f) PROVE CatchInv'
    <3>1. fault' = f /\ mem' = Blank /\ at' \in {"menu", "halted"} /\ run' = Fresh
      BY <2>4 DEF Boots
    <3>2. Fits(f) BY FaultsAssumption
    <3>3. Fresh.result = "none" BY DEF Fresh
    <3>. QED BY <3>1, <3>2, <3>3, BlankIsClean DEF CatchInv, Sweeping
  <2>. QED BY <1>2, <2>1, <2>2, <2>3, <2>4, LauncherLeavesRam DEF Next
<1>3. CatchInv /\ TypesInv => PassIsEarned
  BY DEF CatchInv, TypesInv, RunInv, PassIsEarned
<1>. QED BY <1>1, <1>2, <1>3, TypesKept, PTL DEF Spec
=============================================================================
