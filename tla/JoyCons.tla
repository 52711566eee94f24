------------------------------- MODULE JoyCons -------------------------------
(***************************************************************************)
(* The Joy-Cons as the GUI sees them through bdk's driver (gui/gui_main.c, *)
(* 255-309), and the Joy-Con test (gui/gui_tests.c, 1-437): who is on the  *)
(* rails, the glow for one slid on, the drops the test counts, and its     *)
(* rumble.  Sticks and buttons are left out.                               *)
(*                                                                         *)
(* Reading a Joy-Con's colour or calibration takes its rail and gives it   *)
(* back within one step, and leaves nothing behind.                        *)
(***************************************************************************)
EXTENDS DebugPort

VARIABLES drv,     \* each side in the driver, and the GUI's watch over it
          told,    \* what happened at each rail, to be told of
          moves,   \* times one may yet be slid on or off, or fall silent (bound)
          test,    \* each side in the Joy-Con test
          rumble,  \* its rumble test: which part it is in
          resume   \* s_jc_resume_at: a sensor screen was left not long ago

jcVars == <<drv, told, moves, test, rumble, resume>>

\* batt: the driver's battery byte is not zero.  stale: it has not been polled
\* for as long as a Joy-Con may be silent.
Unseen == [conn |-> FALSE, batt |-> FALSE, was |-> FALSE, gone |-> TRUE,
           stale |-> FALSE, glow |-> FALSE]
\* lost: times a Joy-Con left the rail or fell silent there since the test was
\* opened; slid: one was slid on and not yet shown.
Quiet == [lost |-> 0, slid |-> FALSE]
NoTest == [seen |-> FALSE, ever |-> FALSE, drops |-> 0, buzz |-> FALSE]

\* The Joy-Cons seated at the start were connected within the quiet time, and
\* not shown.
JcInit(seated, spareMoves, spareLosses) ==
    /\ WireInit(seated, spareLosses) /\ DbgInit
    /\ drv = [s \in Sides |-> IF s \in seated
                              THEN [Unseen EXCEPT !.conn = TRUE, !.batt = TRUE,
                                                  !.was = TRUE, !.gone = FALSE]
                              ELSE Unseen]
    /\ told = [s \in Sides |-> Quiet] /\ moves = spareMoves
    /\ test = [s \in Sides |-> NoTest] /\ rumble = "none" /\ resume = FALSE

(* ---- the rails ---- *)

Attach(s) ==
    /\ ~pads[s].on /\ moves > 0
    /\ pads' = [pads EXCEPT ![s] = Pad(TRUE)]
    /\ wire' = [wire EXCEPT ![s].doubt = FALSE]
    /\ told' = [told EXCEPT ![s].slid = TRUE]
    /\ moves' = moves - 1
    /\ UNCHANGED <<losses, port, taken, drv, test, rumble, resume>>

Pull(s) ==
    /\ pads[s].on /\ moves > 0
    /\ pads' = [pads EXCEPT ![s] = Pad(FALSE)]
    /\ told' = [told EXCEPT ![s] = [lost |-> @.lost + 1, slid |-> FALSE]]
    /\ moves' = moves - 1
    /\ UNCHANGED <<wire, losses, port, taken, drv, test, rumble, resume>>

(* ---- the driver, polled ---- *)

\* joycon_poll, one side: an empty rail clears the battery byte, silence does
\* not.  A poll after a sensor screen may find it was silent too long; bringing
\* a Joy-Con up takes several.
Polls(s) ==
    IF ~pads[s].on THEN {[drv[s] EXCEPT !.conn = FALSE, !.batt = FALSE, !.stale = FALSE]}
    ELSE {[drv[s] EXCEPT !.conn = TRUE, !.batt = TRUE, !.stale = FALSE]}
         \cup (IF drv[s].conn /\ drv[s].stale
               THEN {[drv[s] EXCEPT !.conn = FALSE, !.stale = FALSE], drv[s]} ELSE {})
         \cup (IF ~drv[s].conn THEN {drv[s]} ELSE {})

\* Mutant: the glow for every connection.
WatchAll(d) ==
    [d EXCEPT !.gone = FALSE, !.was = d.conn, !.glow = @ \/ (d.conn /\ ~d.was)]

\* _jc_attach_watch, one side: a connection after the rail was found empty.
Watch(d) ==
    LET gone == d.gone \/ (~d.conn /\ ~d.batt)
        new == d.conn /\ ~d.was /\ gone
    IN  [d EXCEPT !.gone = gone /\ ~new, !.was = d.conn, !.glow = @ \/ new]

Polled == {[L |-> l, R |-> r] : l \in {Watch(q) : q \in Polls("L")},
                                r \in {Watch(q) : q \in Polls("R")}}

\* gui_jc_state, _jc_poll: the console's rails first, then the driver, then the
\* watch over it.
Poll(d) ==
    /\ d \in Polled
    /\ taken' = Rails
    /\ told' = [s \in Sides |->
                  [told[s] EXCEPT !.slid = @ /\ ~(d[s].glow /\ ~drv[s].glow)]]
    /\ drv' = d
    /\ UNCHANGED port

\* A Joy-Con sends nothing for 1.8 s, on its rail and polled all along.
Silent(s) ==
    /\ pads[s].on /\ drv[s].conn /\ moves > 0
    /\ drv' = [drv EXCEPT ![s].conn = FALSE, ![s].was = FALSE]
    /\ told' = [told EXCEPT ![s].lost = @ + 1]
    /\ moves' = moves - 1
    /\ UNCHANGED <<wireVars, port, taken, test, rumble, resume>>

\* _gone: the glow has faded.
GlowFades(s) ==
    /\ drv[s].glow /\ drv' = [drv EXCEPT ![s].glow = FALSE]
    /\ UNCHANGED <<wireVars, port, taken, told, moves, test, rumble, resume>>

(* ---- the Joy-Con test ---- *)

\* One that was not polled for a while, the way it is in a health check and on
\* the camera's screen without a right Joy-Con, may be let go of once it is
\* polled again: only a screen that took a rail starts the resume window.
Unpolled(s) == IF drv[s].conn /\ drv[s].stale /\ ~resume THEN 1 ELSE 0

\* Mutant: a connection lost while the driver brings the Joy-Con up again counts.
CountsResume(t, conn) ==
    [t EXCEPT !.seen = conn, !.ever = @ \/ conn,
              !.drops = IF conn /\ ~t.seen /\ t.ever THEN @ + 1 ELSE @]

\* _jc_side_update: the comings and goings of the driver after a sensor screen
\* are not the rail's doing.
SideUpdate(t, conn) ==
    [t EXCEPT !.seen = conn, !.ever = @ \/ conn,
              !.drops = IF conn /\ ~t.seen /\ t.ever /\ ~resume THEN @ + 1 ELSE @]

\* Half a second each, with a gap between.
After(r) == CASE r = "left" -> "gap" [] r = "gap" -> "right" [] r = "right" -> "none"
Buzzing(r, s, t) == r = [L |-> "left", R |-> "right"][s] /\ t.seen

\* _jc_buzz: what is sent reaches a Joy-Con that is there.
Buzz(p, was, on) == IF (was \/ on) /\ p.on THEN [p EXCEPT !.buzz = on] ELSE p

\* Eight seconds are enough for the driver to bring back what is on the rails.
Back(s) == pads[s].on => drv[s].conn /\ ~drv[s].stale

\* _jc_tick: a poll, both sides, and the rumble test at the part r.
JcTick(d, r) ==
    /\ Poll(d)
    /\ rumble' = r /\ (r = rumble \/ (rumble # "none" /\ r = After(rumble)))
    /\ test' = [s \in Sides |-> LET t == SideUpdate(test[s], d[s].conn)
                                IN  [t EXCEPT !.buzz = Buzzing(r, s, t)]]
    /\ pads' = [s \in Sides |-> Buzz(pads[s], test[s].buzz, test'[s].buzz)]
    /\ resume' \in {resume, resume /\ ~(\A s \in Sides : Back(s))}
    /\ UNCHANGED <<wire, losses, moves>>

\* _act_rumble
ActRumble ==
    /\ rumble = "none" /\ rumble' = "left"
    /\ UNCHANGED <<wireVars, port, taken, drv, told, moves, test, resume>>

\* Mutant: leaving the test leaves the rumble on.
TestLeavesBuzz == /\ test' = [s \in Sides |-> NoTest] /\ rumble' = "none"
                  /\ UNCHANGED pads

\* _jc_leave.  The sides are built afresh when the test is opened.
TestLeaves ==
    /\ test' = [s \in Sides |-> NoTest] /\ rumble' = "none"
    /\ pads' = [s \in Sides |-> IF rumble = "none" THEN pads[s]
                                ELSE Buzz(pads[s], test[s].buzz, FALSE)]
=============================================================================
