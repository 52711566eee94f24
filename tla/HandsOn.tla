------------------------------ MODULE HandsOn ------------------------------
(***************************************************************************)
(* The touchscreen test (gui/gui_tests.c, 440-661) and the screen test     *)
(* (gui/gui_screen.c), with the finger on the panel, the samples the tests *)
(* take for themselves, and LVGL's pointer, which sees the others          *)
(* (_touch_read of gui/gui_main.c).  The panel is a line of areas, in one  *)
(* of which Finish and the message box's buttons are.                      *)
(***************************************************************************)
EXTENDS Integers, FiniteSets

CONSTANTS Areas,    \* the panel's squares, numbered along a stroke
          Button,   \* the one that Finish, and later the box's buttons, cover
          MaxPage   \* the screen test's last page, the backlight's

ASSUME HandsAssumption == /\ Areas \subseteq Nat \ {0} /\ Button \in Areas
                          /\ MaxPage \in Nat \ {0, 1}

VARIABLES finger,   \* where it is, or 0; two: a second one is on the panel
          pointer,  \* what LVGL has pressed
          tt,       \* the touchscreen test
          sc,       \* the screen test
          light     \* the backlight: as set, or swept

handsVars == <<finger, pointer, tt, sc, light>>

NoTouch == [hit |-> {}, over |-> FALSE, full |-> FALSE, pass |-> FALSE, last |-> 0, panel |-> TRUE]
NoScreen == [page |-> 1, over |-> FALSE, down |-> FALSE, keys |-> TRUE, locked |-> TRUE]

HandsInit == /\ finger = [at |-> 0, two |-> FALSE] /\ pointer = "none"
             /\ tt = NoTouch /\ sc = NoScreen /\ light = "set"

(* ---- the finger ---- *)

FingerMoves == /\ \E to \in Areas \ {finger.at} : finger' = [finger EXCEPT !.at = to]
               /\ UNCHANGED <<pointer, tt, sc, light>>
FingerLifts == /\ finger.at # 0 /\ finger' = [at |-> 0, two |-> FALSE]
               /\ UNCHANGED <<pointer, tt, sc, light>>
SecondFinger == /\ finger.at # 0 /\ ~finger.two /\ finger' = [finger EXCEPT !.two = TRUE]
                /\ UNCHANGED <<pointer, tt, sc, light>>

(* ---- the touchscreen test ---- *)

Between(a, b) == {i \in Areas : (a <= i /\ i <= b) \/ (b <= i /\ i <= a)}

\* _tt_sink: whose a sample is, and what it does.  A stroke that begins on
\* Finish is LVGL's to its end; any other takes the panel away and marks what
\* lies on its way.
TtSink(t, at) ==
    IF t.over THEN [t |-> t, mine |-> FALSE]
    ELSE IF at = 0 THEN [t |-> [t EXCEPT !.pass = FALSE, !.last = 0], mine |-> ~t.pass]
    ELSE IF t.pass \/ (t.last = 0 /\ t.panel /\ at = Button)
    THEN [t |-> [t EXCEPT !.pass = TRUE], mine |-> FALSE]
    ELSE LET hit == t.hit \cup (IF t.last = 0 THEN {at} ELSE Between(t.last, at))
         IN  [t |-> [t EXCEPT !.hit = hit, !.last = at, !.panel = @ /\ t.last # 0,
                              !.full = @ \/ hit = Areas],
              mine |-> TRUE]

\* _tt_result, once.
TtResult(t) == [t EXCEPT !.over = TRUE, !.panel = FALSE]

\* _tt_tick: the verdict of a full screen, or the panel back a second after the
\* finger lifted.
TtTick ==
    /\ ~tt.over /\ (tt.full \/ (tt.last = 0 /\ ~tt.panel))
    /\ tt' = IF tt.full THEN TtResult(tt) ELSE [tt EXCEPT !.panel = TRUE]
    /\ UNCHANGED <<finger, pointer, sc, light>>

\* Finish, pressed with POWER.
TtFinish == /\ ~tt.over /\ tt' = TtResult(tt)
            /\ UNCHANGED <<finger, pointer, sc, light>>

(* ---- the screen test ---- *)

\* _sc_result, _sc_apply
ScResult(t) == [t EXCEPT !.over = TRUE]
ScNext(t) == IF t.page = MaxPage THEN ScResult(t)
             ELSE [t EXCEPT !.page = @ + 1, !.locked = TRUE]
Light(t) == IF t.over \/ t.page # MaxPage THEN "set" ELSE light

\* _sc_sink
ScSink(t, at) ==
    IF t.over THEN [t |-> t, mine |-> FALSE]
    ELSE LET turned == IF at # 0 /\ ~t.down /\ ~t.locked THEN ScNext(t) ELSE t
         IN  [t |-> [turned EXCEPT !.down = (at # 0)], mine |-> TRUE]

\* _sc_tick: VOL+, VOL- or a Joy-Con button, and the backlight's sweep.
ScTick(pressed) ==
    /\ ~sc.over
    /\ LET t == IF pressed /\ ~sc.keys /\ ~sc.locked THEN ScNext(sc) ELSE sc IN
         /\ sc' = [t EXCEPT !.keys = pressed]
         /\ light' = IF t.page = MaxPage /\ ~t.over THEN "swept" ELSE Light(t)
    /\ UNCHANGED <<finger, pointer, tt>>

\* 400 ms after a page turn.
ScUnlock == /\ sc.locked /\ sc' = [sc EXCEPT !.locked = FALSE]
            /\ UNCHANGED <<finger, pointer, tt, light>>

\* _sc_leave
ScLeaves == "set"

(* ---- LVGL's pointer ---- *)

\* What it finds under the finger.
Under(at, box, panel) == IF at # Button THEN "other" ELSE IF box THEN "box"
                         ELSE IF panel THEN "finish" ELSE "other"
Pointed(mine, at, box, panel) == IF mine \/ at = 0 THEN "none" ELSE Under(at, box, panel)
\* Finish, let go.
Tapped(now) == pointer = "finish" /\ now = "none"
=============================================================================
