-------------------------------- MODULE Gui --------------------------------
(***************************************************************************)
(* The GUI stage (gui/gui_main.c): one thread, whose loop switches         *)
(* screens, reads the inputs and runs the screens' tasks.  A screen is     *)
(* shown by a request that the loop takes up at its next pass: what the    *)
(* screen before it may have changed is put back first.                    *)
(*                                                                         *)
(* A behaviour stays within one tour, a part of the screens with what can  *)
(* happen there; the Dock Test has a module of its own.                    *)
(***************************************************************************)
EXTENDS IrCamera, Motion, JoyCons, HealthRun, HandsOn

CONSTANT Tours   \* [parts, seated, moving, moves, losing, losses, chips, cards, ports] (bounds)

ASSUME ToursAssumption ==
    \A t \in Tours : /\ t.seated \subseteq Sides /\ t.moving \subseteq Sides /\ t.moves \in Nat
                    /\ t.losing \subseteq Sides /\ t.losses \in Nat
                    /\ t.chips \subseteq Chips /\ t.cards \subseteq BOOLEAN /\ t.ports \subseteq Ports

VARIABLES gui,   \* the screen, the one asked for, and what the screen has set
          tour   \* of Tours

sensorVars == <<wireVars, port, taken, jcVars, cam, restarts, mo>>
vars == <<gui, tour, sensorVars, checkVars, handsVars>>

Unasked == "none"
Screens == {"home", "joycon", "motion", "ir", "touch", "screen", "ram", "custom", "run",
            "results", "ramtest"}
HomeChoices == {"joycon", "touch", "screen", "ram", "custom"}

\* The input and navigation of a screen, as _switch_screen leaves them for it.
Plain(at) == [at |-> at, pending |-> Unasked, back |-> "home", nav |-> TRUE,
              sink |-> Unasked, hold |-> FALSE, box |-> FALSE, busy |-> FALSE]

Init ==
    /\ tour \in Tours
    /\ gui = Plain("home")
    /\ JcInit(tour.seated, tour.moves, tour.losses)
    /\ cam = CamOff /\ restarts = 0 /\ mo = [s \in Sides |-> MoOff]
    /\ \E chip \in tour.chips, card \in tour.cards : CheckInit(chip, card)
    /\ HandsInit

Visits(part) == part \in tour.parts
Free == ~Running /\ ~gui.busy /\ gui.at # "ramtest"

(* ---- navigation ---- *)

\* gui_show: the latest request holds.
Shows(screen) == /\ Visits(screen) /\ gui' = [gui EXCEPT !.pending = screen]

\* An action of the screen, while no message box is over it.
Acts == Free /\ ~gui.box
Chooses ==
    /\ Acts /\ gui.at = "home"
    /\ \E screen \in HomeChoices : Shows(screen)
    /\ UNCHANGED <<tour, sensorVars, checkVars, handsVars>>

\* gui_back: Close, B on a Joy-Con where it navigates, or Done in the box.
BPressed == gui.nav /\ \E s \in Sides : drv[s].conn
Backs ==
    /\ Free
    /\ gui.box \/ BPressed \/ gui.at \notin {"home", "touch", "screen"}
    /\ Shows(gui.back)
    /\ UNCHANGED <<tour, sensorVars, checkVars, handsVars>>

\* Again, in the box: the same screen anew.
AgainInBox == /\ Free /\ gui.box /\ Shows(gui.at)
              /\ UNCHANGED <<tour, sensorVars, checkVars, handsVars>>

Deeper == /\ Acts /\ gui.at = "joycon"
          /\ \E screen \in {"motion", "ir"} : Shows(screen)
          /\ UNCHANGED <<tour, sensorVars, checkVars, handsVars>>

CheckAll == /\ Acts /\ gui.at = "home" /\ Shows("run") /\ PickAll
            /\ UNCHANGED <<tour, sensorVars, body, disk, clk, sweep, findings, verdict, handsVars>>
CheckSome == /\ Acts /\ gui.at = "custom" /\ Shows("run")
             /\ \E mask \in Masks : PickSome(mask)
             /\ UNCHANGED <<tour, sensorVars, body, disk, clk, sweep, findings, verdict, handsVars>>
CheckAgain == /\ Acts /\ gui.at = "results" /\ Shows("run")
              /\ UNCHANGED <<tour, sensorVars, checkVars, handsVars>>
LastResults == /\ Acts /\ gui.at = "home" /\ ReportReady /\ Shows("results")
               /\ UNCHANGED <<tour, sensorVars, checkVars, handsVars>>

(* ---- _switch_screen: the way out, then the next screen ---- *)

\* What the screen being left put in s_leave.
StaleNow == [s \in Sides |-> [drv[s] EXCEPT !.stale = pads[s].on]]
LeavesSensors == drv' = StaleNow /\ resume' = (resume \/ \E s \in Sides : wire[s].owned)
Leave ==
    CASE gui.at = "joycon" -> /\ TestLeaves
                              /\ UNCHANGED <<wire, losses, cam, restarts, mo, drv, resume>>
      [] gui.at = "motion" -> /\ MoLeave /\ LeavesSensors
                              /\ UNCHANGED <<cam, restarts, test, rumble>>
      [] gui.at = "ir"     -> /\ IrLeave /\ LeavesSensors
                              /\ UNCHANGED <<mo, test, rumble>>
      [] OTHER -> UNCHANGED <<wireVars, cam, restarts, mo, drv, test, rumble, resume>>

\* What the screen sets as it is built; one that needs the rails is busy until
\* it has them.
Built(screen) ==
    CASE screen = "joycon"         -> [Plain(screen) EXCEPT !.nav = FALSE]
      [] screen \in {"motion", "ir"} ->
           [Plain(screen) EXCEPT !.nav = FALSE, !.back = "joycon", !.busy = TRUE]
      [] screen = "touch"          -> [Plain(screen) EXCEPT !.sink = screen]
      [] screen = "screen"         -> [Plain(screen) EXCEPT !.nav = FALSE, !.sink = screen]
      [] screen = "run"            -> [Plain(screen) EXCEPT !.hold = TRUE]
      [] OTHER                     -> Plain(screen)

Switches ==
    /\ Free /\ gui.pending # Unasked
    /\ gui' = Built(gui.pending)
    /\ Leave
    /\ told' = IF gui.pending = "joycon" THEN [s \in Sides |-> [told[s] EXCEPT !.lost = Unpolled(s)']]
               ELSE told
    /\ light' = IF gui.at = "screen" THEN ScLeaves ELSE light
    /\ tt' = NoTouch /\ sc' = NoScreen
    /\ IF gui.pending = "run" THEN RunStarts ELSE UNCHANGED checkVars
    /\ UNCHANGED <<tour, port, taken, moves, finger, pointer>>

\* gui_jc_state and what is on the rails: the sensor screens take them.
TakesRails ==
    /\ gui.busy
    /\ gui' = [gui EXCEPT !.busy = FALSE]
    /\ \E d \in Polled :
         /\ Poll(d)
         /\ IF gui.at = "ir" THEN IrOpen(d["R"].conn) /\ UNCHANGED mo
            ELSE MoOpen([s \in Sides |-> d[s].conn]) /\ UNCHANGED <<cam, restarts>>
    /\ UNCHANGED <<tour, moves, test, rumble, resume, checkVars, handsVars>>

(* ---- the Joy-Cons ---- *)

Uses(part) == part \cap tour.parts # {}
Sensors == Uses({"joycon", "motion", "ir"})
\* Where the driver is polled all along.
PolledHere == Free /\ (gui.nav \/ gui.at \in {"joycon", "screen"})

\* _keys_read where the Joy-Con navigates, and the screen test's tick.
NavPoll == /\ PolledHere /\ Sensors /\ gui.at # "joycon"
           /\ \E d \in Polled : Poll(d)
           /\ UNCHANGED <<gui, tour, wireVars, moves, test, rumble, resume,
                          cam, restarts, mo, checkVars, handsVars>>
TestTick == /\ Free /\ gui.at = "joycon"
            /\ \E d \in Polled : \E r \in {rumble, "gap", "right", "none"} : JcTick(d, r)
            /\ UNCHANGED <<gui, tour, cam, restarts, mo, checkVars, handsVars>>
Rumbles == /\ Free /\ gui.at = "joycon" /\ Visits("rumble") /\ ActRumble
           /\ UNCHANGED <<gui, tour, cam, restarts, mo, checkVars, handsVars>>

OnCamera == /\ Free /\ gui.at = "ir"
            /\ UNCHANGED <<gui, tour, port, taken, jcVars, mo, checkVars, handsVars>>
CameraStep == OnCamera /\ IrTick
CameraButton == OnCamera /\ \E bigger \in BOOLEAN : Restart(bigger)
MotionStep == /\ Free /\ gui.at = "motion" /\ \E s \in Sides : MoTick(s)
              /\ UNCHANGED <<gui, tour, port, taken, jcVars, cam, restarts, checkVars, handsVars>>

OnRails == UNCHANGED <<gui, tour, port, taken, jcVars, cam, restarts, mo, checkVars, handsVars>>
RailStep == (\E s \in Sides : PadAnswers(s)) /\ OnRails
RailLoss == (\E s \in tour.losing : Lose(s)) /\ OnRails
HandStep == /\ \E s \in tour.moving : Attach(s) \/ Pull(s) \/ (PolledHere /\ Silent(s))
            /\ UNCHANGED <<gui, tour, cam, restarts, mo, checkVars, handsVars>>
GlowStep == /\ \E s \in Sides : GlowFades(s)
            /\ UNCHANGED <<gui, tour, cam, restarts, mo, checkVars, handsVars>>

\* A box of the custom screen: the console moves.
PicksPort == /\ Acts /\ gui.at = "custom" /\ \E p \in tour.ports : Sets(p)
             /\ UNCHANGED <<gui, tour, wireVars, jcVars, cam, restarts, mo, checkVars, handsVars>>

(* ---- the health check and the RAM test ---- *)

CheckStep == /\ RunPage \/ RunVerdict
             /\ UNCHANGED <<gui, tour, sensorVars, handsVars>>

\* The end of gui_run: input again, and the results asked for.
CheckEnds == /\ RunSaves
             /\ gui' = [gui EXCEPT !.hold = FALSE, !.pending = "results"]
             /\ drv' = StaleNow
             /\ UNCHANGED <<tour, wireVars, port, taken, told, moves, test, rumble, resume,
                            cam, restarts, mo, handsVars>>

\* _act_start: the hand-over at the boot clock, or back with the card cycled.
\* The loader brings a card up and mounts it for itself.
RamStart ==
    /\ Acts /\ gui.at = "ram"
    /\ \/ clk' = ClockFast(clk, FALSE) /\ gui' = Plain("ramtest") /\ UNCHANGED disk
       \/ /\ \E ended, ok \in BOOLEAN : disk' = CardCycled(disk, ended, ok)
          /\ UNCHANGED <<clk, gui>>
    /\ UNCHANGED <<tour, sensorVars, body, sel, sweep, findings, verdict, handsVars>>

(* ---- the panel ---- *)

Hands == Uses({"touch", "screen"})

\* Two fingers, on a screen that takes no samples: gui_screenshot, which
\* blinks the backlight and mounts the card.
Screenshot ==
    /\ Visits("shot") /\ Free /\ ~gui.hold /\ gui.sink = Unasked
    /\ disk' = Mounted(disk) /\ light' = "set"
    /\ UNCHANGED <<gui, tour, sensorVars, body, clk, sel, sweep, findings, verdict,
                   finger, pointer, tt, sc>>

\* _touch_read in the touchscreen test: LVGL, given the sample or not, may find
\* Finish tapped.
TouchTestRead ==
    LET s == TtSink(tt, finger.at)
        now == Pointed(s.mine, finger.at, gui.box, tt.panel)
    IN  /\ pointer' = now
        /\ tt' = IF Tapped(now) /\ ~s.t.over THEN TtResult(s.t) ELSE s.t
        /\ UNCHANGED <<sc, light, disk>>

\* In the screen test.
ScreenTestRead ==
    LET s == ScSink(sc, finger.at)
    IN  /\ pointer' = Pointed(s.mine, finger.at, gui.box, FALSE)
        /\ sc' = s.t /\ light' = Light(s.t)
        /\ UNCHANGED <<tt, disk>>

\* With a second finger, in either.
ShotRead == /\ pointer' = "none" /\ light' = "set" /\ disk' = Mounted(disk)
            /\ UNCHANGED <<tt, sc>>

TouchRead ==
    /\ Free
    /\ \/ gui.sink # Unasked /\ finger.two /\ ShotRead
       \/ gui.sink = "touch" /\ ~finger.two /\ TouchTestRead
       \/ gui.sink = "screen" /\ ~finger.two /\ ScreenTestRead
    /\ gui' = [gui EXCEPT !.box = tt'.over \/ sc'.over]
    /\ UNCHANGED <<tour, finger, sensorVars, body, clk, sel, sweep, findings, verdict>>

TestTasks ==
    /\ Free
    /\ \/ gui.at = "touch" /\ (TtTick \/ TtFinish)
       \/ gui.at = "screen" /\ (ScUnlock \/ \E pressed \in BOOLEAN : ScTick(pressed))
    /\ gui' = [gui EXCEPT !.box = tt'.over \/ sc'.over]
    /\ UNCHANGED <<tour, sensorVars, checkVars>>

FingerStep == /\ Hands
              /\ FingerMoves \/ FingerLifts \/ SecondFinger
              /\ UNCHANGED <<gui, tour, sensorVars, checkVars>>

(* ---- all of it ---- *)

Next ==
    \/ Chooses \/ Backs \/ AgainInBox \/ Deeper
    \/ CheckAll \/ CheckSome \/ CheckAgain \/ LastResults
    \/ Switches \/ TakesRails \/ NavPoll \/ PicksPort
    \/ TestTick \/ Rumbles \/ CameraStep \/ CameraButton \/ MotionStep
    \/ RailStep \/ RailLoss \/ HandStep \/ GlowStep
    \/ CheckStep \/ CheckEnds \/ RamStart
    \/ Screenshot \/ TouchRead \/ TestTasks \/ FingerStep

\* The camera screen's tick is a task of the loop, which never stops, and a
\* Joy-Con works through what reaches it; nothing is assumed of the user, nor
\* of what is lost.
Fairness == WF_vars(CameraStep) /\ WF_vars(RailStep)
Spec == Init /\ [][Next]_vars /\ Fairness

(* ---- properties ---- *)

\* The type invariant of the composition.
TypeOK ==
    /\ gui.at \in Screens /\ gui.pending \in Screens \cup {Unasked} /\ gui.back \in {"home", "joycon"}
    /\ gui.sink \in {Unasked, "touch", "screen"}
    /\ \A s \in Sides :
         /\ pads[s].mcu \in {"off", "booting", "standby", "entering", "ir"}
         /\ pads[s].size \in 0..Len(Frags) /\ pads[s].reports \in {"std", "mcu"}
         /\ Len(wire[s].inbox) <= MaxInbox /\ wire[s].owned \in BOOLEAN
         /\ test[s].drops \in Nat /\ mo[s].last \in {"zero", "still", "moving"}
    /\ cam.at \in {"off", "setup", "stream", "failed"} /\ cam.step \in DOMAIN Steps
    /\ cam.tries \in 0..Max({Tries, StatusTries}) /\ cam.frames \in 0..MaxFrames
    /\ port \in Ports /\ losses \in 0..tour.losses /\ moves \in 0..tour.moves
    /\ sweep.at \in 0..(Len(Pages) + 2) /\ Len(body.text) <= Cap
    /\ \A k \in AllKeys : findings[k] \in Severities \cup {NoFinding}
    /\ tt.hit \subseteq Areas /\ sc.page \in 1..MaxPage

\* What a screen changed is put back before the next one: no rail is owned
\* outside the sensor screens, and a Joy-Con nothing of whose was lost has its
\* sensors off there; none is left rumbling; the backlight is as set; and the
\* clocks are the GUI's, except in a check and for the RAM test, which get the
\* payload's 204 MHz, and no switch ever hangs.
LeftAsFound ==
    /\ \A s \in Sides :
         /\ wire[s].owned => gui.at \in {"motion", "ir"}
         /\ gui.at \notin {"motion", "ir"} /\ pads[s].on /\ ~wire[s].doubt =>
              ~pads[s].imu /\ pads[s].mcu = "off" /\ pads[s].reports = "std"
         /\ pads[s].buzz => gui.at = "joycon"
    /\ light # "set" => gui.at = "screen"
    /\ ~clk.hung
    /\ clk.rate = IF Running \/ gui.at = "ramtest" THEN 204 ELSE FastRate(clk.chip)

\* A rail has one owner: while a sensor screen reads it, neither the driver's
\* poll nor the debug console does, nor the console while the driver has a
\* Joy-Con there.
RailsHaveOneOwner ==
    \A s \in Sides :
        /\ wire[s].owned => ~PolledHere /\ ~ConsoleOn(s)
        /\ drv[s].conn /\ pads[s].on /\ told[s] = Quiet => ~ConsoleOn(s)

\* The camera screen shows a picture only of a camera that was told its size and
\* its registers, whatever was lost on the way, and also once Try Again or Image
\* Size was pressed in the middle of it.  More presses are left out: made before
\* what the earlier ones asked for was answered, each can take an older
\* acknowledgement for its own, which carries no number.
StreamIsConfigured ==
    cam.at = "stream" /\ pads[Side].on /\ moves = tour.moves /\ restarts <= 1 =>
        /\ pads[Side].mcu = "ir" /\ pads[Side].size = cam.size /\ pads[Side].regs
        /\ pads[Side].reports = "mcu"

\* The Joy-Con test counts a drop only for a Joy-Con that left its rail, fell
\* silent or had not been polled when the test was opened, and the glow is only
\* for one that was slid on: never for the driver coming back after a sensor
\* screen that took a rail.
OnlyTheRail ==
    [][\A s \in Sides : /\ test'[s].drops <= told'[s].lost
                        /\ drv'[s].glow /\ ~drv[s].glow => told[s].slid]_vars

\* A report said to be saved is the check's, whole, the verdict first or the
\* place where it was cut in it.
SavedReportIsHonest ==
    gui.at = "results" /\ disk.ret = 0 => disk.file = Sorted(body.text) /\ Honest(disk.file)

\* A run with the Storage pages finds the card's volume, if the card is up, whoever
\* unmounted it before.  save_report itself takes it to be mounted once it
\* was: a run without them finds none after a RAM test that could not be loaded,
\* which unmounts the card and only initializes it again.
StorageRunsSave ==
    ~Running /\ (\E page \in CardPages : PageEnabled(page, sel.ran)) => disk.ret # 4

\* The results screen, which goes by categories, agrees with the verdict, which
\* goes by findings: problems are there exactly when something failed, and it
\* never warns of what the verdict does not count.
ResultsTellTheVerdict ==
    verdict.known /\ ~Running /\ sel.run = sel.ran =>
        /\ (Headline = "Problems found") <=> verdict.fail > 0
        /\ Headline = "Mostly healthy" => verdict.warn > 0

\* Setting the camera up ends: in its picture, in a message, or with the screen
\* left, whatever is lost and whatever answers late.
CameraSettles == cam.at = "setup" ~> cam.at # "setup"
=============================================================================
