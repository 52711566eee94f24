------------------------------ MODULE IrCamera ------------------------------
(***************************************************************************)
(* gui/gui_jcir.c: the infrared camera of the right Joy-Con, brought up    *)
(* step by step over the rail and then read fragment by fragment.  The     *)
(* screen's tick and its two buttons are the actions; the picture itself   *)
(* is left out.                                                            *)
(***************************************************************************)
EXTENDS JcWire

CONSTANTS Tries,        \* of a step before it is given up
          StatusTries,  \* of the two steps that wait for the controller
          MaxFrames,    \* frames counted (bound)
          MaxRestarts   \* presses of Try Again and Image Size (bound)

ASSUME IrAssumption == {Tries, StatusTries, MaxFrames} \subseteq Nat \ {0} /\ MaxRestarts \in Nat

VARIABLES cam,       \* the screen's state
          restarts   \* presses so far

Side == "R"
Steps == <<"reports", "wake", "ready", "mode", "moded", "size", "sensor", "lights">>

CamOff == [at |-> "off", step |-> 1, size |-> 1, tries |-> 0, heard |-> FALSE,
           frames |-> 0, frag |-> NoFrag, asked |-> FALSE, stalled |-> FALSE]

\* _send: a step's requests.  The sensor's registers are followed by a query.
Requests(c) ==
    IF c.at = "stream" THEN <<<<"ack", 0>>>>
    ELSE CASE Steps[c.step] = "reports"            -> <<Msg("mcu_reports")>>
           [] Steps[c.step] = "wake"               -> <<Msg("wake")>>
           [] Steps[c.step] \in {"ready", "moded"} -> <<Msg("status")>>
           [] Steps[c.step] = "mode"               -> <<Msg("ir_mode")>>
           [] Steps[c.step] = "size"               -> <<<<"size", c.size>>>>
           [] Steps[c.step] = "sensor"             -> <<Msg("regs"), Msg("query")>>
           [] Steps[c.step] = "lights"             -> <<Msg("lights")>>

\* Mutant: the registers the sensor answers with are not looked at.
MatchAnyRegs(c, k) ==
    CASE Steps[c.step] = "ready"   -> k = Msg("standby")
      [] Steps[c.step] = "moded"   -> k = Msg("ir")
      [] Steps[c.step] = "reports" -> k = Msg("ack03")
      [] Steps[c.step] = "wake"    -> k = Msg("ack22")
      [] Steps[c.step] = "sensor"  -> k \in {Msg("regs"), Msg("other")}
      [] OTHER                     -> k[1] \in {Steps[c.step], "regs"}

\* _match: whether a report answers the step.  The sensor's answer will also do
\* for the lights.
Match(c, k) ==
    CASE Steps[c.step] = "reports" -> k = Msg("ack03")
      [] Steps[c.step] = "wake"    -> k = Msg("ack22")
      [] Steps[c.step] = "ready"   -> k = Msg("standby")
      [] Steps[c.step] = "mode"    -> k = Msg("mode")
      [] Steps[c.step] = "moded"   -> k = Msg("ir")
      [] Steps[c.step] = "size"    -> k = Msg("size")
      [] Steps[c.step] = "sensor"  -> k = Msg("regs")
      [] Steps[c.step] = "lights"  -> k \in {Msg("lights"), Msg("regs")}

Limit(c) == IF Steps[c.step] \in {"ready", "moded"} THEN StatusTries ELSE Tries

\* The step after this one.
NextStep(c) ==
    IF c.step < Len(Steps) THEN [c EXCEPT !.step = @ + 1, !.tries = 0, !.heard = FALSE]
    ELSE [c EXCEPT !.at = "stream", !.tries = 0, !.heard = FALSE, !.frames = 0,
                   !.frag = NoFrag, !.asked = FALSE, !.stalled = FALSE]

\* Mutant: what is asked again is not counted.
RetriedFreely(c) == c

Retried(c) == [c EXCEPT !.tries = @ + 1]

Room(reqs) == Len(wire[Side].inbox) + Len(reqs) <= MaxInbox

\* The camera is c now, and what its step asks for goes out on a rail.
Asks(c, rail) ==
    /\ Room(Requests(c))
    /\ cam' = c
    /\ wire' = [wire EXCEPT ![Side] = Send(rail, Requests(c))]

(* ---- the tick ---- *)

\* A report while the camera is set up: the step's answer, or something else.
SetupReport ==
    /\ cam.at = "setup"
    /\ LET r == Recv(wire[Side].rx)
           rail == [wire[Side] EXCEPT !.rx = r.rx]
       IN  /\ r.got # None
           /\ IF Match(cam, r.got) THEN Asks(NextStep(cam), rail)
              ELSE /\ cam' = [cam EXCEPT !.heard = TRUE]
                   /\ wire' = [wire EXCEPT ![Side] = rail]
    /\ UNCHANGED <<pads, losses, restarts>>

\* Nothing for as long as a reply may take: once more, or the step is given up.
SetupQuiet ==
    /\ cam.at = "setup" /\ Recv(wire[Side].rx).got = None
    /\ IF cam.tries + 1 >= Limit(cam)
       THEN cam' = [Retried(cam) EXCEPT !.at = "failed"] /\ UNCHANGED wire
       ELSE Asks(Retried(cam), wire[Side])
    /\ UNCHANGED <<pads, losses, restarts>>

\* A report while it streams.  A fragment seen before was not acknowledged: it
\* is again, and counts for nothing.  The last one completes the frame.
StreamReport ==
    /\ cam.at = "stream"
    /\ LET r == Recv(wire[Side].rx)
           rail == [wire[Side] EXCEPT !.rx = r.rx]
           frag == r.got[2]
           whole == frag # cam.frag /\ frag = Frags[cam.size] - 1
       IN  /\ r.got # None
           /\ IF r.got[1] # "frag"
              THEN wire' = [wire EXCEPT ![Side] = rail] /\ UNCHANGED cam
              ELSE /\ Room(<<r.got>>)
                   /\ cam' = [cam EXCEPT !.stalled = FALSE, !.frag = frag, !.asked = FALSE,
                                         !.frames = IF whole /\ @ < MaxFrames THEN @ + 1 ELSE @]
                   /\ wire' = [wire EXCEPT ![Side] = Send(rail, <<<<"ack", frag>>>>)]
    /\ UNCHANGED <<pads, losses, restarts>>

\* Nothing for 200 ms: ask again for what follows the last fragment.
StreamAsks ==
    /\ cam.at = "stream" /\ Recv(wire[Side].rx).got = None
    /\ wire[Side].inbox = <<>>
    /\ wire' = [wire EXCEPT ![Side] =
                  Send(@, <<<<"ack", IF cam.frag = NoFrag THEN 0 ELSE cam.frag>>>>)]
    /\ cam' = [cam EXCEPT !.asked = TRUE]
    /\ UNCHANGED <<pads, losses, restarts>>

\* Nothing for 3 s, in which the same was asked for several times.
StreamStalls ==
    /\ cam.at = "stream" /\ cam.asked /\ ~cam.stalled
    /\ Recv(wire[Side].rx).got = None
    /\ cam' = [cam EXCEPT !.stalled = TRUE]
    /\ UNCHANGED <<wireVars, restarts>>

(* ---- the screen ---- *)

\* _start, on a rail.
Starts(size, rail) ==
    Asks([CamOff EXCEPT !.at = "setup", !.size = size], rail)

IrOpen(conn) ==
    /\ IF conn THEN \E noise \in BOOLEAN : Starts(1, Owned(wire[Side], noise))
               ELSE cam' = CamOff /\ UNCHANGED wire
    /\ UNCHANGED <<pads, losses, restarts>>

\* Try Again and Image Size: the controller to sleep, then from the top.
Resized(bigger) == IF bigger THEN (cam.size % Len(Frags)) + 1 ELSE cam.size
Restart(bigger) ==
    /\ wire[Side].owned /\ restarts < MaxRestarts
    /\ \E o \in Subcmds(pads[Side], wire[Side], Msg("sleep")) :
         /\ pads' = [pads EXCEPT ![Side] = o.pad]
         /\ Len(o.rail.inbox) < MaxInbox
         /\ cam' = [CamOff EXCEPT !.at = "setup", !.size = Resized(bigger)]
         /\ wire' = [wire EXCEPT ![Side] = Send(o.rail, Requests(cam'))]
    /\ restarts' = restarts + 1
    /\ UNCHANGED losses

\* Mutant: the way out forgets the ordinary reports.
IrLeaveKeepsReports ==
    /\ IF ~wire[Side].owned THEN UNCHANGED <<pads, wire>>
       ELSE \E o \in Subcmds(pads[Side], wire[Side], Msg("sleep")) :
              /\ pads' = [pads EXCEPT ![Side] = HandledAll(o.pad, o.rail.inbox)]
              /\ wire' = [wire EXCEPT ![Side] = Released(o.rail)]
    /\ cam' = CamOff /\ restarts' = 0
    /\ UNCHANGED losses

\* _ir_leave: to sleep, ordinary reports, and the rail back to the driver.
IrLeave ==
    /\ IF ~wire[Side].owned THEN UNCHANGED <<pads, wire>>
       ELSE \E o \in Subcmds(pads[Side], wire[Side], Msg("sleep")) :
            \E o2 \in Subcmds(o.pad, o.rail, Msg("std_reports")) :
              /\ pads' = [pads EXCEPT ![Side] = HandledAll(o2.pad, o2.rail.inbox)]
              /\ wire' = [wire EXCEPT ![Side] = Released(o2.rail)]
    /\ cam' = CamOff /\ restarts' = 0
    /\ UNCHANGED losses

\* _ir_tick
IrTick == SetupReport \/ SetupQuiet \/ StreamReport \/ StreamAsks \/ StreamStalls
=============================================================================
