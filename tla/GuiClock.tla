------------------------------ MODULE GuiClock ------------------------------
(***************************************************************************)
(* gui/gui_clock.c: the memory's clock, switched by the Minerva module, if *)
(* a copy of it answers, and the processor's with it.                      *)
(***************************************************************************)
EXTENDS Integers

CONSTANT Chips   \* "none": no copy of the module answers; else the console's chip

ASSUME ChipsAssumption == Chips \subseteq {"none", "mariko", "erista"} /\ Chips # {}

VARIABLES clk   \* s_fast, the memory's rate in MHz, the module, and whether it hung

\* s_dram_fast: what the module's training leaves.
FastRate(chip) == CASE chip = "none" -> 204 [] chip = "mariko" -> 408 [] chip = "erista" -> 1600

\* The module, asked to switch to the clock the memory is already at, hangs.
Switch(c, rate) == IF rate = c.rate THEN [c EXCEPT !.hung = TRUE] ELSE [c EXCEPT !.rate = rate]

\* Mutant: switched whatever the clock is.
DramSwitchAlways(c, rate) == IF c.chip # "none" THEN Switch(c, rate) ELSE c

\* _dram_switch
DramSwitch(c, rate) == IF c.chip # "none" /\ c.rate # rate THEN Switch(c, rate) ELSE c

\* gui_clock_fast
ClockFast(c, fast) ==
    IF fast = c.fast THEN c
    ELSE [DramSwitch(c, IF fast THEN FastRate(c.chip) ELSE 204) EXCEPT !.fast = fast]

\* _minerva_init trains the memory and leaves it at its fast rate; gui_clock_init
\* then asks for that.
Minerva(chip) == [chip |-> chip, fast |-> FALSE, hung |-> FALSE, rate |-> FastRate(chip)]
ClockInit(chip) == ClockFast(Minerva(chip), TRUE)

=============================================================================
