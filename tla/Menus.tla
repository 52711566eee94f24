------------------------------- MODULE Menus -------------------------------
(***************************************************************************)
(* The text screens' menus, worked with three keys: a main menu of four    *)
(* rows, of which the third opens a list of boxes to tick.  The launcher   *)
(* (ui_menu.c) and the RAM test (ramtest_main.c) have the same loops over  *)
(* different rows.  Keys are levels: a set of those down right now.        *)
(***************************************************************************)
EXTENDS Integers, Sequences, FiniteSets

CONSTANT KeySets   \* the sets of keys a user holds: subsets of AllKeys

AllKeys == {"vol-", "vol+", "power"}
ASSUME KeySetsAssumption == {} \in KeySets /\ KeySets \subseteq SUBSET AllKeys

\* A menu is its screen, the selected row, what is ticked, and the keys whose
\* release it waits for.
MenuInit(ticked) == [screen |-> "main", row |-> 0, ticked |-> ticked, held |-> {}]

Rows(m, items) == IF m.screen = "main" THEN 4 ELSE Len(items) + 2

\* VOL- beats VOL+, which beats POWER.
Moved(m, key, items) ==
    IF "vol-" \in key THEN (m.row + Rows(m, items) - 1) % Rows(m, items)
    ELSE IF "vol+" \in key THEN (m.row + 1) % Rows(m, items)
    ELSE m.row
Selects(key) == key = {"power"}

\* The row POWER selects, in words; "none" when it selects nothing.
Chosen(m, key, items) ==
    IF ~Selects(key) THEN "none"
    ELSE IF m.screen = "main"
         THEN CASE m.row = 0 -> "first" [] m.row = 1 -> "second"
                [] m.row = 2 -> "custom" [] OTHER -> "off"
         ELSE CASE m.row < Len(items) -> "tick"
                [] m.row = Len(items) -> IF m.ticked # {} THEN "run" ELSE "none"
                [] OTHER              -> "back"

\* The box of the selected row.
Item(m, items) == items[m.row + 1]

\* One turn of the loops: a key moves or selects, and is waited for; ticked is
\* what a box turned over leaves ticked.  The list
\* of boxes is entered with the key that chose it still down.
Polled(m, key, items, ticked) ==
    CASE Chosen(m, key, items) = "custom" ->
           [m EXCEPT !.screen = "custom", !.row = 0]
      [] Chosen(m, key, items) = "tick" ->
           [m EXCEPT !.ticked = ticked, !.held = key]
      [] Chosen(m, key, items) = "back" ->
           [m EXCEPT !.screen = "main", !.row = 2, !.held = key]
      [] OTHER -> [m EXCEPT !.row = Moved(m, key, items), !.held = key]

\* The wait for a release: over when the keys down are others.
Released(m) == [m EXCEPT !.held = {}]
=============================================================================
