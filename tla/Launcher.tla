------------------------------ MODULE Launcher ------------------------------
(***************************************************************************)
(* ui_menu.c: from the injected payload to a test.  The GUI starts if the  *)
(* SD card carries one and VOL- is not held; otherwise a menu of four rows *)
(* starts the sweep, all of it or some groups, the RAM test's payload, or  *)
(* switches off.  The RAM test may also be injected by itself, or started  *)
(* from the GUI.                                                           *)
(***************************************************************************)
EXTENDS RamTest

CONSTANTS Groups,      \* the groups of probes a custom test ticks, in order
          Platforms    \* the SoCs the RAM test may find itself on

ASSUME PlatformsAssumption == Platforms \subseteq {"erista", "mariko", "unknown"}
ASSUME GroupsAssumption ==
    /\ Groups \in Seq(STRING)
    /\ \E i, j \in DOMAIN Groups : Groups[i] = "audio" /\ Groups[j] = "sound"

VARIABLES place,    \* where main, before any test, is
          boxes     \* ui_launcher's menu

vars == <<ramVars, place, boxes>>
AllGroups == {Groups[i] : i \in DOMAIN Groups}

\* Sound output needs the audio hardware's group.
TicksGroup(ticked, g) ==
    CASE g = "audio" /\ g \in ticked  -> ticked \ {"audio", "sound"}
      [] g = "sound" /\ g \notin ticked -> ticked \cup {"audio", "sound"}
      [] OTHER -> Ticks(ticked, g)

Init == /\ place \in {"boot", "injected"}
        /\ boxes = MenuInit(AllGroups)
        /\ key \in KeySets /\ acts = 0
        /\ RamInit

LauncherKeys ==
    /\ place \notin {"gui", "sweep", "ram", "off"}
    /\ KeyMoves
    /\ UNCHANGED <<at, platform, fault, menu, mtc, mem, run, place, boxes>>

Stays == UNCHANGED <<key, at, platform, fault, menu, mtc, mem, run>>

\* VOL- held skips the GUI, and is let go before the menu is up.  No card, no
\* GUI on it, or one that does not match: the menu.
Boot ==
    /\ place = "boot"
    /\ IF "vol-" \in key THEN place' = "skip" /\ Acted
       ELSE place' \in {"gui", "menu"} /\ UNCHANGED acts
    /\ UNCHANGED boxes /\ Stays

SkipReleased ==
    /\ place = "skip" /\ "vol-" \notin key
    /\ place' = "menu"
    /\ UNCHANGED <<boxes, acts>> /\ Stays

\* A turn of the menu's loop.
Turn ==
    /\ place = "menu" /\ boxes.held = {} /\ key # {}
    /\ LET c == Chosen(boxes, key, Groups) IN
         /\ place' = CASE c \in {"first", "run"} -> "sweep"
                       [] c = "second"           -> "load"
                       [] c = "off"              -> "off_release"
                       [] OTHER                  -> place
         /\ boxes' = IF place' = place THEN Polled(boxes, key, Groups, TicksGroup(boxes.ticked, Item(boxes, Groups)))
                     ELSE IF place' = "load" THEN MenuInit(AllGroups)
                     ELSE boxes
    /\ Acted
    /\ Stays

TurnReleased ==
    /\ place = "menu" /\ boxes.held # {} /\ key # boxes.held
    /\ boxes' = Released(boxes)
    /\ UNCHANGED <<place, acts>> /\ Stays

SwitchedOff ==
    /\ place = "off_release" /\ "power" \notin key
    /\ place' = "off"
    /\ UNCHANGED <<boxes, acts>> /\ Stays

\* The RAM test's payload runs: chainloaded, injected, or from the GUI.
RamStarts ==
    /\ place \in {"load", "injected", "gui"}
    /\ place' = "ram"
    /\ \E p \in Platforms, f \in Faults : Boots(p, f)
    /\ UNCHANGED <<key, acts, boxes>>

\* No card, no file or a damaged one; POWER goes back to the menu.
LoadFails ==
    /\ place = "load"
    /\ place' = "failed"
    /\ UNCHANGED <<boxes, acts>> /\ Stays
FailureSeen ==
    /\ place = "failed" /\ "power" \in key
    /\ place' = "failed_release"
    /\ Acted
    /\ UNCHANGED boxes /\ Stays
FailureReleased ==
    /\ place = "failed_release" /\ "power" \notin key
    /\ place' = "menu"
    /\ UNCHANGED <<boxes, acts>> /\ Stays

Next ==
    \/ LauncherKeys \/ Boot \/ SkipReleased \/ Turn \/ TurnReleased \/ SwitchedOff
    \/ RamStarts \/ LoadFails \/ FailureSeen \/ FailureReleased
    \/ RamNext /\ UNCHANGED <<place, boxes>>

Spec == Init /\ [][Next]_vars

-----------------------------------------------------------------------------
(* Type correctness of the launcher and of the RAM test under it.          *)
TypeOK ==
    /\ RamTypeOK
    /\ (at = "away") = (place # "ram")
    /\ boxes.row \in 0 .. Rows(boxes, Groups) - 1
    /\ boxes.ticked \subseteq AllGroups
    /\ "sound" \in boxes.ticked => "audio" \in boxes.ticked

(* A press of a volume key does one thing, however long it is held and     *)
(* whatever screen it takes the user to: the VOL- that skips the GUI does  *)
(* not move in the menu, the VOL- that aborts a run does not switch off.   *)
VolumeActsOnce == key # {} /\ "power" \notin key => acts <= 1

=============================================================================
