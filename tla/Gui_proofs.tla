----------------------------- MODULE Gui_proofs -----------------------------
(***************************************************************************)
(* The GUI stage, for every tour of its screens, every module that may     *)
(* switch the memory's clock and every table of the results: a Joy-Con's   *)
(* rail has one owner, the clocks are back when a check is over, and the   *)
(* results screen says what the verdict says.                              *)
(***************************************************************************)
EXTENDS Gui, FiniteSetTheorems, WellFoundedInduction, TLAPS

-----------------------------------------------------------------------------
(* The rails.                                                              *)

SensorScreens == {"motion", "ir"}

Shape ==
    /\ {"at", "pending", "back", "nav", "sink", "hold", "box", "busy"} \subseteq DOMAIN gui
    /\ DOMAIN wire = Sides /\ DOMAIN pads = Sides /\ DOMAIN taken = Sides
    /\ DOMAIN drv = Sides /\ DOMAIN told = Sides
    /\ \A s \in Sides : /\ "owned" \in DOMAIN wire[s] /\ "conn" \in DOMAIN drv[s]
                        /\ {"slid", "lost"} \subseteq DOMAIN told[s]

\* A Joy-Con the driver has, that was not just slid on.
Driven(s) == drv[s].conn /\ pads[s].on /\ ~told[s].slid

RailInv ==
    /\ Shape
    /\ gui.at \in SensorScreens => ~gui.nav
    /\ gui.busy => gui.at \in SensorScreens
    /\ \A s \in Sides : wire[s].owned =>
         /\ gui.at \in SensorScreens /\ ~gui.busy /\ ~ConsoleOn(s)
         /\ gui.at = "ir" => s = Side
    /\ \A s \in Sides : Driven(s) => ~ConsoleOn(s)

SameScreen ==
    /\ {"at", "pending", "back", "nav", "sink", "hold", "box", "busy"} \subseteq DOMAIN gui'
    /\ gui'.at = gui.at /\ gui'.nav = gui.nav /\ gui'.busy = gui.busy

\* A step that takes no rail and hands none back.
KeepsRails ==
    /\ Shape' /\ UNCHANGED <<taken, port>>
    /\ \A s \in Sides : wire'[s].owned = wire[s].owned /\ (Driven(s)' => Driven(s))

(* Such a step, on the same screen, keeps every rail's owner.              *)
LEMMA QuietSafe == RailInv /\ SameScreen /\ KeepsRails => RailInv'
  BY DEF RailInv, SameScreen, KeepsRails, ConsoleOn

(* What does not touch the rails at all.                                   *)
LEMMA ElsewhereSafe == RailInv /\ SameScreen /\ UNCHANGED sensorVars => RailInv'
<1>. SUFFICES ASSUME RailInv, SameScreen, UNCHANGED sensorVars PROVE RailInv'
  OBVIOUS
<1>1. UNCHANGED <<wire, pads, taken, port, drv, told>>
  BY DEF sensorVars, wireVars, jcVars
<1>2. KeepsRails BY <1>1 DEF KeepsRails, Shape, RailInv, SameScreen, Driven
<1>. QED BY <1>2, QuietSafe

(* A request keeps the rail's owner, and puts no Joy-Con on the rail.      *)
LEMMA SubcmdsKeep ==
    ASSUME NEW p, NEW rail, NEW q, "owned" \in DOMAIN rail, NEW o \in Subcmds(p, rail, q)
    PROVE  /\ "owned" \in DOMAIN o.rail /\ o.rail.owned = rail.owned
           /\ ~p.on => o.pad = p
<1>. DEFINE Out(pad, rest, inbox, ok) ==
              [pad |-> pad, ok |-> ok,
               rail |-> [rail EXCEPT !.rx = rest, !.inbox = inbox, !.doubt = @ \/ ~ok]]
<1>1. \E pad, rest, inbox, ok : o = Out(pad, rest, inbox, ok) /\ (~p.on => pad = p)
  BY Zenon DEF Subcmds
<1>2. PICK pad, rest, inbox, ok : o = Out(pad, rest, inbox, ok) /\ (~p.on => pad = p)
  BY <1>1
<1>. QED BY <1>2

(* What a Joy-Con does with its requests does not put it on the rail.      *)
LEMMA HandledKeeps == ASSUME NEW p, NEW reqs, ~p.on PROVE HandledAll(p, reqs) = p
  BY DEF HandledAll

(* A poll finds only what is on the rails, and takes their ports.          *)
LEMMA PollTakes ==
    ASSUME RailInv, NEW d, Poll(d)
    PROVE  /\ DOMAIN drv' = Sides /\ DOMAIN told' = Sides /\ DOMAIN taken' = Sides
           /\ drv' = d /\ UNCHANGED port
           /\ \A s \in Sides : /\ "conn" \in DOMAIN d[s] /\ {"slid", "lost"} \subseteq DOMAIN told'[s]
                               /\ d[s].conn => pads[s].on
                               /\ pads[s].on => ~ConsoleOn(s)'
                               /\ ~ConsoleOn(s) => ~ConsoleOn(s)'
<1>1. /\ d \in Polled /\ taken' = Rails /\ drv' = d /\ port' = port
      /\ told' = [s \in Sides |->
                    [told[s] EXCEPT !.slid = @ /\ ~(d[s].glow /\ ~drv[s].glow)]]
  BY DEF Poll
<1>2. PICK l \in Polls("L"), r \in Polls("R") : d = [L |-> Watch(l), R |-> Watch(r)]
  BY <1>1 DEF Polled
<1>3. ASSUME NEW s \in Sides, NEW q \in Polls(s)
      PROVE  "conn" \in DOMAIN q /\ (~pads[s].on => ~q.conn)
  BY <1>3 DEF Polls, RailInv, Shape
<1>4. ASSUME NEW q, "conn" \in DOMAIN q
      PROVE  "conn" \in DOMAIN Watch(q) /\ Watch(q).conn = q.conn
  BY <1>4 DEF Watch
<1>5. \A s \in Sides : "conn" \in DOMAIN d[s] /\ (d[s].conn => pads[s].on)
  BY <1>2, <1>3, <1>4 DEF Sides
<1>6. \A s \in Sides : {"slid", "lost"} \subseteq DOMAIN told'[s]
  BY <1>1 DEF RailInv, Shape
<1>7. \A s \in Sides : /\ pads[s].on => ~ConsoleOn(s)'
                       /\ ~ConsoleOn(s) => ~ConsoleOn(s)'
  <2>1. SUFFICES ASSUME NEW s \in Sides
                 PROVE  /\ pads[s].on => ~ConsoleOn(s)'
                        /\ ~ConsoleOn(s) => ~ConsoleOn(s)'
    OBVIOUS
  <2>2. taken'[s] <=> taken[s] \/ (pads[s].on /\ (s = "R" \/ port = RailPort[s]))
    BY <1>1 DEF Rails
  <2>3. s = "R" \/ (s = "L" /\ RailPort[s] # "UART-B")
    BY DEF Sides, RailPort
  <2>4. ConsoleOn(s)' <=> ~taken'[s] /\ (port = RailPort[s] \/ RailPort[s] = "UART-B")
    BY <1>1 DEF ConsoleOn
  <2>5. ConsoleOn(s) <=> ~taken[s] /\ (port = RailPort[s] \/ RailPort[s] = "UART-B")
    BY DEF ConsoleOn
  <2>. QED BY <2>2, <2>3, <2>4, <2>5, Zenon
<1>8. DOMAIN drv' = Sides /\ DOMAIN told' = Sides /\ DOMAIN taken' = Sides
  BY <1>1, <1>2 DEF Rails, Sides
<1>. QED BY <1>1, <1>5, <1>6, <1>7, <1>8

(* A poll on the same screen, with no rail taken.                          *)
LEMMA PollSafe ==
    ASSUME RailInv, SameScreen, NEW d, Poll(d), UNCHANGED wire,
           DOMAIN pads' = Sides, \A s \in Sides : ~pads[s].on => pads'[s] = pads[s]
    PROVE  RailInv'
<1>1. Shape'
  BY PollTakes DEF RailInv, Shape, SameScreen
<1>2. \A s \in Sides : wire[s].owned => ~ConsoleOn(s)'
  BY PollTakes DEF RailInv
<1>3. ASSUME NEW s \in Sides, Driven(s)' PROVE ~ConsoleOn(s)'
  BY <1>3, PollTakes DEF Driven
<1>. QED BY <1>1, <1>2, <1>3 DEF RailInv, SameScreen

(* A rail's piece comes or goes, and a request reaches its Joy-Con.        *)
LEMMA WireSafe ==
    ASSUME RailInv, SameScreen, UNCHANGED <<taken, port, drv, told>>,
           DOMAIN wire' = Sides, DOMAIN pads' = Sides,
           \A s \in Sides : /\ "owned" \in DOMAIN wire'[s] /\ wire'[s].owned = wire[s].owned
                            /\ ~pads[s].on => pads'[s] = pads[s]
    PROVE  RailInv'
<1>1. KeepsRails
  BY DEF RailInv, Shape, SameScreen, KeepsRails, Driven
<1>. QED BY <1>1, QuietSafe

(* The camera's tick sends on its rail and takes from it.                  *)
LEMMA CameraSafe == ASSUME RailInv, IrTick, SameScreen, UNCHANGED <<taken, port, drv, told>>
                    PROVE  RailInv'
<1>. DEFINE Same(rail) == "owned" \in DOMAIN rail /\ rail.owned = wire[Side].owned
<1>1. Same(wire[Side])
  BY DEF RailInv, Shape, Sides, Side
<1>2. ASSUME NEW rail, Same(rail), NEW reqs PROVE Same(Send(rail, reqs))
  BY <1>2 DEF Send
<1>3. ASSUME NEW rx PROVE Same([wire[Side] EXCEPT !.rx = rx])
  BY <1>1
<1>4. /\ UNCHANGED pads
      /\ UNCHANGED wire \/ \E rail : Same(rail) /\ wire' = [wire EXCEPT ![Side] = rail]
  <2>. DEFINE rail == [wire[Side] EXCEPT !.rx = Recv(wire[Side].rx).rx]
  <2>1. CASE SetupReport
    <3>1. \/ wire' = [wire EXCEPT ![Side] = rail]
          \/ \E reqs : wire' = [wire EXCEPT ![Side] = Send(rail, reqs)]
      BY <2>1 DEF SetupReport, Asks
    <3>2. Same(rail) BY <1>3
    <3>. HIDE DEF Same, rail
    <3>. QED BY <1>2, <2>1, <3>1, <3>2 DEF SetupReport
  <2>2. CASE SetupQuiet
    <3>1. UNCHANGED wire \/ \E reqs : wire' = [wire EXCEPT ![Side] = Send(wire[Side], reqs)]
      BY <2>2 DEF SetupQuiet, Asks
    <3>. HIDE DEF Same
    <3>. QED BY <1>1, <1>2, <2>2, <3>1 DEF SetupQuiet
  <2>3. CASE StreamReport
    <3>1. \/ wire' = [wire EXCEPT ![Side] = rail]
          \/ \E reqs : wire' = [wire EXCEPT ![Side] = Send(rail, reqs)]
      BY <2>3 DEF StreamReport
    <3>2. Same(rail) BY <1>3
    <3>. HIDE DEF Same, rail
    <3>. QED BY <1>2, <2>3, <3>1, <3>2 DEF StreamReport
  <2>4. CASE StreamAsks
    <3>1. \E reqs : wire' = [wire EXCEPT ![Side] = Send(wire[Side], reqs)]
      BY <2>4 DEF StreamAsks
    <3>. HIDE DEF Same
    <3>. QED BY <1>1, <1>2, <2>4, <3>1 DEF StreamAsks
  <2>5. CASE StreamStalls BY <2>5 DEF StreamStalls, wireVars
  <2>. QED BY <2>1, <2>2, <2>3, <2>4, <2>5 DEF IrTick
<1>5. /\ DOMAIN wire' = Sides
      /\ \A s \in Sides : "owned" \in DOMAIN wire'[s] /\ wire'[s].owned = wire[s].owned
  BY <1>4 DEF RailInv, Shape
<1>. QED BY <1>4, <1>5, WireSafe DEF RailInv, Shape

(* Try Again keeps the rail.                                               *)
LEMMA RestartSafe ==
    ASSUME RailInv, NEW bigger \in BOOLEAN, Restart(bigger), SameScreen,
           UNCHANGED <<taken, port, drv, told>>
    PROVE  RailInv'
<1>1. PICK o \in Subcmds(pads[Side], wire[Side], Msg("sleep")) :
         /\ pads' = [pads EXCEPT ![Side] = o.pad]
         /\ wire' = [wire EXCEPT ![Side] = Send(o.rail, Requests(cam'))]
  BY DEF Restart
<1>2. "owned" \in DOMAIN wire[Side] BY DEF RailInv, Shape, Sides, Side
<1>3. /\ "owned" \in DOMAIN o.rail /\ o.rail.owned = wire[Side].owned
      /\ ~pads[Side].on => o.pad = pads[Side]
  BY <1>2, SubcmdsKeep
<1>4. /\ "owned" \in DOMAIN Send(o.rail, Requests(cam'))
      /\ Send(o.rail, Requests(cam')).owned = wire[Side].owned
  BY <1>3 DEF Send
<1>. QED BY <1>1, <1>3, <1>4, WireSafe DEF RailInv, Shape

(* What happens on the rails by itself.                                    *)
LEMMA RailsSafe ==
    ASSUME RailInv, RailStep \/ RailLoss PROVE RailInv'
<1>0. SameScreen /\ UNCHANGED <<taken, port, drv, told>>
  BY DEF RailStep, RailLoss, OnRails, jcVars, SameScreen, RailInv, Shape
<1>1. CASE RailStep
  <2>1. PICK s \in Sides : PadAnswers(s) BY <1>1 DEF RailStep
  <2>2. /\ DOMAIN pads' = Sides
        /\ \A r \in Sides : ~pads[r].on => pads'[r] = pads[r]
    BY <2>1 DEF PadAnswers, RailInv, Shape
  <2>3. PICK rx, inbox : wire' = [wire EXCEPT ![s].inbox = inbox, ![s].rx = rx]
    BY <2>1 DEF PadAnswers
  <2>4. /\ DOMAIN wire' = Sides
        /\ \A r \in Sides : "owned" \in DOMAIN wire'[r] /\ wire'[r].owned = wire[r].owned
    BY <2>3 DEF RailInv, Shape
  <2>. QED BY <1>0, <2>2, <2>4, WireSafe
<1>2. CASE RailLoss
  <2>1. PICK s : Lose(s) BY <1>2 DEF RailLoss
  <2>2. \E v : \/ wire' = [wire EXCEPT ![s].inbox = v, ![s].doubt = TRUE]
               \/ wire' = [wire EXCEPT ![s].rx = v, ![s].doubt = TRUE]
    BY <2>1 DEF Lose
  <2>3. /\ DOMAIN wire' = Sides
        /\ \A r \in Sides : "owned" \in DOMAIN wire'[r] /\ wire'[r].owned = wire[r].owned
    BY <2>2 DEF RailInv, Shape
  <2>. QED BY <1>0, <2>1, <2>3, WireSafe DEF Lose, RailInv, Shape
<1>. QED BY <1>1, <1>2

(* A Joy-Con slid on, pulled or silent, and the glow that fades.           *)
LEMMA HandSafe == ASSUME RailInv, HandStep \/ GlowStep PROVE RailInv'
<1>0. SameScreen BY DEF HandStep, GlowStep, SameScreen, RailInv, Shape
<1>1. ASSUME NEW s, Attach(s) PROVE RailInv'
  <2>1. KeepsRails BY <1>0, <1>1 DEF Attach, KeepsRails, RailInv, Shape, SameScreen, Driven
  <2>. QED BY <1>0, <2>1, QuietSafe
<1>2. ASSUME NEW s, Pull(s) PROVE RailInv'
  <2>1. KeepsRails BY <1>0, <1>2 DEF Pull, Pad, KeepsRails, RailInv, Shape, SameScreen, Driven
  <2>. QED BY <1>0, <2>1, QuietSafe
<1>3. ASSUME NEW s, Silent(s) PROVE RailInv'
  <2>1. KeepsRails
    BY <1>0, <1>3 DEF Silent, wireVars, KeepsRails, RailInv, Shape, SameScreen, Driven
  <2>. QED BY <1>0, <2>1, QuietSafe
<1>4. ASSUME NEW s, GlowFades(s) PROVE RailInv'
  <2>1. KeepsRails
    BY <1>0, <1>4 DEF GlowFades, wireVars, KeepsRails, RailInv, Shape, SameScreen, Driven
  <2>. QED BY <1>0, <2>1, QuietSafe
<1>. QED BY <1>1, <1>2, <1>3, <1>4 DEF HandStep, GlowStep

(* The motion screen's tick reads its rails to the last.                   *)
LEMMA MotionSafe ==
    ASSUME RailInv, NEW s \in Sides, MoTick(s), SameScreen, UNCHANGED <<taken, port, drv, told>>
    PROVE  RailInv'
<1>1. wire' = [wire EXCEPT ![s].rx = <<>>] /\ UNCHANGED pads BY DEF MoTick
<1>. QED BY <1>1, WireSafe DEF RailInv, Shape

(* The port that is picked has no Joy-Con on it, or it is the Joy-Con's.   *)
LEMMA PicksSafe == ASSUME RailInv, PicksPort PROVE RailInv'
<1>1. PICK p \in tour.ports : Sets(p)
  BY DEF PicksPort
<1>2. /\ gui.at = "custom"
      /\ UNCHANGED <<gui, wire, pads, drv, told>>
  BY DEF PicksPort, wireVars, jcVars
<1>3. Shape'
  BY <1>1, <1>2 DEF Sets, RailInv, Shape
<1>4. \A s \in Sides : ~wire[s].owned
  BY <1>2 DEF RailInv, SensorScreens
<1>5. ASSUME NEW s \in Sides, Driven(s)' PROVE ~ConsoleOn(s)'
  <2>1. Driven(s) /\ ~ConsoleOn(s) /\ pads[s].on
    BY <1>2, <1>5 DEF Driven, RailInv
  <2>2. CASE s = "L"
    <3>1. port' = "UART-C" => taken'["L"]
      BY <1>1, <2>1, <2>2 DEF Sets, RailInv, Shape, Sides
    <3>. QED BY <2>2, <3>1 DEF ConsoleOn, RailPort
  <2>3. CASE s = "R"
    <3>1. taken["R"] BY <2>1, <2>3 DEF ConsoleOn, RailPort
    <3>2. taken'["R"] = taken["R"] BY <1>1 DEF Sets, RailInv, Shape, Sides
    <3>. QED BY <2>3, <3>1, <3>2 DEF ConsoleOn
  <2>. QED BY <2>2, <2>3 DEF Sides
<1>. QED BY <1>2, <1>3, <1>4, <1>5 DEF RailInv

(* The way out of a screen hands back every rail it has.                   *)
LEMMA LeaveFrees ==
    ASSUME RailInv, Leave
    PROVE  /\ DOMAIN wire' = Sides /\ DOMAIN pads' = Sides /\ DOMAIN drv' = Sides
           /\ \A s \in Sides : /\ "owned" \in DOMAIN wire'[s] /\ ~wire'[s].owned
                               /\ ~pads[s].on => pads'[s] = pads[s]
                               /\ "conn" \in DOMAIN drv'[s] /\ drv'[s].conn = drv[s].conn
<1>1. ASSUME NEW rail, "owned" \in DOMAIN rail
      PROVE  "owned" \in DOMAIN Released(rail) /\ ~Released(rail).owned
  BY <1>1 DEF Released
<1>2. LeavesSensors => /\ DOMAIN drv' = Sides
                       /\ \A s \in Sides : "conn" \in DOMAIN drv'[s] /\ drv'[s].conn = drv[s].conn
  BY DEF LeavesSensors, StaleNow, RailInv, Shape
<1>3. CASE gui.at = "joycon"
  <2>1. TestLeaves /\ UNCHANGED <<wire, drv>> BY <1>3 DEF Leave
  <2>2. DOMAIN pads' = Sides /\ \A s \in Sides : ~pads[s].on => pads'[s] = pads[s]
    BY <2>1 DEF TestLeaves, Buzz
  <2>. QED BY <1>3, <2>1, <2>2 DEF RailInv, Shape, SensorScreens
<1>4. CASE gui.at = "motion"
  <2>1. MoLeave /\ LeavesSensors BY <1>4 DEF Leave
  <2>2. PICK l, r : /\ pads' = [L |-> l.pad, R |-> r.pad]
                    /\ wire' = [L |-> l.rail, R |-> r.rail]
                    /\ \/ \E o \in Imu("L", FALSE, wire["L"]) :
                            l = [pad |-> HandledAll(o.pad, o.rail.inbox), rail |-> Released(o.rail)]
                       \/ l = [pad |-> pads["L"], rail |-> Released(wire["L"])]
                    /\ \/ \E o \in Imu("R", FALSE, wire["R"]) :
                            r = [pad |-> HandledAll(o.pad, o.rail.inbox), rail |-> Released(o.rail)]
                       \/ r = [pad |-> pads["R"], rail |-> Released(wire["R"])]
    BY <2>1 DEF MoLeave
  <2>3. ASSUME NEW s \in Sides, NEW x,
               \/ \E o \in Imu(s, FALSE, wire[s]) :
                    x = [pad |-> HandledAll(o.pad, o.rail.inbox), rail |-> Released(o.rail)]
               \/ x = [pad |-> pads[s], rail |-> Released(wire[s])]
        PROVE  "owned" \in DOMAIN x.rail /\ ~x.rail.owned /\ (~pads[s].on => x.pad = pads[s])
    <3>1. "owned" \in DOMAIN wire[s] BY DEF RailInv, Shape
    <3>2. CASE x = [pad |-> pads[s], rail |-> Released(wire[s])] BY <1>1, <3>1, <3>2
    <3>3. ASSUME NEW o \in Imu(s, FALSE, wire[s]),
                 x = [pad |-> HandledAll(o.pad, o.rail.inbox), rail |-> Released(o.rail)]
          PROVE  "owned" \in DOMAIN x.rail /\ ~x.rail.owned /\ (~pads[s].on => x.pad = pads[s])
      <4>1. "owned" \in DOMAIN o.rail /\ (~pads[s].on => o.pad = pads[s])
        BY <3>1, SubcmdsKeep DEF Imu
      <4>. QED BY <1>1, <3>3, <4>1, HandledKeeps
    <3>. QED BY <2>3, <3>2, <3>3
  <2>4. /\ "owned" \in DOMAIN l.rail /\ ~l.rail.owned /\ (~pads["L"].on => l.pad = pads["L"])
        /\ "owned" \in DOMAIN r.rail /\ ~r.rail.owned /\ (~pads["R"].on => r.pad = pads["R"])
    BY <2>2, <2>3, Zenon DEF Sides
  <2>. QED BY <1>2, <2>1, <2>2, <2>4 DEF Sides
<1>5. CASE gui.at = "ir"
  <2>1. IrLeave /\ LeavesSensors BY <1>5 DEF Leave
  <2>2. \A s \in Sides : wire[s].owned => s = Side
    BY <1>5 DEF RailInv
  <2>3. CASE ~wire[Side].owned
    <3>1. UNCHANGED <<pads, wire>> BY <2>1, <2>3 DEF IrLeave
    <3>. QED BY <1>2, <2>1, <2>2, <2>3, <3>1 DEF RailInv, Shape
  <2>4. CASE wire[Side].owned
    <3>1. PICK o \in Subcmds(pads[Side], wire[Side], Msg("sleep")) :
            \E o2 \in Subcmds(o.pad, o.rail, Msg("std_reports")) :
              /\ pads' = [pads EXCEPT ![Side] = HandledAll(o2.pad, o2.rail.inbox)]
              /\ wire' = [wire EXCEPT ![Side] = Released(o2.rail)]
      BY <2>1, <2>4 DEF IrLeave
    <3>2. PICK o2 \in Subcmds(o.pad, o.rail, Msg("std_reports")) :
            /\ pads' = [pads EXCEPT ![Side] = HandledAll(o2.pad, o2.rail.inbox)]
            /\ wire' = [wire EXCEPT ![Side] = Released(o2.rail)]
      BY <3>1
    <3>3. "owned" \in DOMAIN o.rail /\ (~pads[Side].on => o.pad = pads[Side])
      BY SubcmdsKeep DEF RailInv, Shape, Sides, Side
    <3>4. "owned" \in DOMAIN o2.rail /\ (~o.pad.on => o2.pad = o.pad)
      BY <3>3, SubcmdsKeep
    <3>5. /\ "owned" \in DOMAIN Released(o2.rail) /\ ~Released(o2.rail).owned
          /\ ~pads[Side].on => HandledAll(o2.pad, o2.rail.inbox) = pads[Side]
      BY <1>1, <3>3, <3>4, HandledKeeps
    <3>. QED BY <1>2, <2>1, <2>2, <3>2, <3>5 DEF RailInv, Shape
  <2>. QED BY <2>3, <2>4
<1>6. CASE gui.at \notin {"joycon", "motion", "ir"}
  <2>1. UNCHANGED <<wire, pads, drv>> BY <1>6 DEF Leave, wireVars
  <2>. QED BY <1>6, <2>1 DEF RailInv, Shape, SensorScreens
<1>. QED BY <1>3, <1>4, <1>5, <1>6

(* A switch of screens.                                                    *)
LEMMA SwitchSafe == ASSUME RailInv, Switches PROVE RailInv'
<1>1. /\ gui' = Built(gui.pending) /\ Leave /\ UNCHANGED <<port, taken>>
      /\ told' = IF gui.pending = "joycon"
                 THEN [s \in Sides |-> [told[s] EXCEPT !.lost = Unpolled(s)']] ELSE told
  BY DEF Switches
<1>2. DOMAIN told' = Sides /\ \A s \in Sides : {"slid", "lost"} \subseteq DOMAIN told'[s]
                                              /\ told'[s].slid = told[s].slid
  BY <1>1 DEF RailInv, Shape
<1>3. /\ {"at", "pending", "back", "nav", "sink", "hold", "box", "busy"} \subseteq DOMAIN gui'
      /\ gui'.at \in SensorScreens => ~gui'.nav
      /\ gui'.busy => gui'.at \in SensorScreens
  <2>1. ASSUME NEW x
        PROVE  /\ {"at", "pending", "back", "nav", "sink", "hold", "box", "busy"} = DOMAIN Plain(x)
               /\ Plain(x).at = x /\ Plain(x).nav /\ ~Plain(x).busy
    BY DEF Plain
  <2>. QED BY <1>1, <2>1 DEF Built, SensorScreens
<1>4. Shape' BY <1>1, <1>2, <1>3, LeaveFrees DEF RailInv, Shape
<1>5. \A s \in Sides : ~wire'[s].owned /\ (Driven(s)' => Driven(s))
  BY <1>1, <1>2, LeaveFrees DEF Driven
<1>6. \A s \in Sides : ConsoleOn(s)' = ConsoleOn(s)
  BY <1>1 DEF ConsoleOn
<1>. QED BY <1>3, <1>4, <1>5, <1>6 DEF RailInv

(* A sensor screen takes the rails of those the poll found.                *)
LEMMA TakesSafe == ASSUME RailInv, TakesRails PROVE RailInv'
<1>1. /\ gui.busy /\ gui' = [gui EXCEPT !.busy = FALSE]
      /\ \A s \in Sides : ~wire[s].owned
      /\ gui.at \in SensorScreens
  BY DEF TakesRails, RailInv
<1>2. PICK d \in Polled :
         /\ Poll(d)
         /\ IF gui.at = "ir" THEN IrOpen(d["R"].conn)
            ELSE MoOpen([s \in Sides |-> d[s].conn])
  BY DEF TakesRails
<1>3. /\ DOMAIN drv' = Sides /\ DOMAIN told' = Sides /\ DOMAIN taken' = Sides
      /\ drv' = d
      /\ \A s \in Sides : /\ "conn" \in DOMAIN d[s] /\ {"slid", "lost"} \subseteq DOMAIN told'[s]
                          /\ d[s].conn => pads[s].on
                          /\ pads[s].on => ~ConsoleOn(s)'
  BY <1>2, PollTakes
<1>4. ASSUME NEW rail, "owned" \in DOMAIN rail, NEW noise
      PROVE  "owned" \in DOMAIN Owned(rail, noise)
  BY <1>4 DEF Owned
<1>5. /\ DOMAIN wire' = Sides /\ DOMAIN pads' = Sides
      /\ \A s \in Sides : /\ "owned" \in DOMAIN wire'[s] /\ (~pads[s].on => pads'[s] = pads[s])
                          /\ wire'[s].owned => d[s].conn /\ (gui.at = "ir" => s = Side)
  <2>1. CASE gui.at = "ir"
    <3>1. IrOpen(d["R"].conn) BY <1>2, <2>1
    <3>2. CASE ~d["R"].conn
      BY <1>1, <3>1, <3>2 DEF IrOpen, RailInv, Shape
    <3>3. CASE d["R"].conn
      <4>1. PICK noise : wire' = [wire EXCEPT ![Side] = Send(Owned(wire[Side], noise), Requests(cam'))]
        BY <3>1, <3>3 DEF IrOpen, Starts, Asks
      <4>2. "owned" \in DOMAIN Send(Owned(wire[Side], noise), Requests(cam'))
        BY <1>4 DEF Send, RailInv, Shape, Sides, Side
      <4>3. UNCHANGED pads BY <3>1 DEF IrOpen
      <4>. QED BY <1>1, <3>3, <4>1, <4>2, <4>3 DEF RailInv, Shape, Side
    <3>. QED BY <3>2, <3>3
  <2>2. CASE gui.at # "ir"
    <3>1. MoOpen([s \in Sides |-> d[s].conn]) BY <1>2, <2>2
    <3>2. PICK l, r : /\ pads' = [L |-> l.pad, R |-> r.pad]
                      /\ wire' = [L |-> l.rail, R |-> r.rail]
                      /\ \/ d["L"].conn /\ \E noise : l \in Imu("L", TRUE, Owned(wire["L"], noise))
                         \/ l = [pad |-> pads["L"], rail |-> wire["L"], ok |-> FALSE]
                      /\ \/ d["R"].conn /\ \E noise : r \in Imu("R", TRUE, Owned(wire["R"], noise))
                         \/ r = [pad |-> pads["R"], rail |-> wire["R"], ok |-> FALSE]
      BY <3>1 DEF MoOpen, Sides
    <3>3. ASSUME NEW s \in Sides, NEW x,
                 \/ d[s].conn /\ \E noise : x \in Imu(s, TRUE, Owned(wire[s], noise))
                 \/ x = [pad |-> pads[s], rail |-> wire[s], ok |-> FALSE]
          PROVE  /\ "owned" \in DOMAIN x.rail /\ (~pads[s].on => x.pad = pads[s])
                 /\ x.rail.owned => d[s].conn
      <4>1. "owned" \in DOMAIN wire[s] BY DEF RailInv, Shape
      <4>2. CASE x = [pad |-> pads[s], rail |-> wire[s], ok |-> FALSE] BY <1>1, <4>1, <4>2
      <4>3. ASSUME d[s].conn, NEW noise, x \in Imu(s, TRUE, Owned(wire[s], noise))
            PROVE  /\ "owned" \in DOMAIN x.rail /\ (~pads[s].on => x.pad = pads[s])
                   /\ x.rail.owned => d[s].conn
        BY <1>4, <4>1, <4>3, SubcmdsKeep DEF Imu
      <4>. QED BY <3>3, <4>2, <4>3
    <3>4. /\ "owned" \in DOMAIN l.rail /\ (~pads["L"].on => l.pad = pads["L"])
          /\ l.rail.owned => d["L"].conn
      BY <3>2, <3>3, Zenon DEF Sides
    <3>5. /\ "owned" \in DOMAIN r.rail /\ (~pads["R"].on => r.pad = pads["R"])
          /\ r.rail.owned => d["R"].conn
      BY <3>2, <3>3, Zenon DEF Sides
    <3>. QED BY <2>2, <3>2, <3>4, <3>5 DEF Sides
  <2>. QED BY <2>1, <2>2
<1>6. Shape' BY <1>1, <1>3, <1>5 DEF RailInv, Shape
<1>7. gui'.at = gui.at /\ gui'.nav = gui.nav /\ ~gui'.busy
  BY <1>1 DEF RailInv, Shape
<1>8. \A s \in Sides : Driven(s)' => ~ConsoleOn(s)'
  BY <1>3, <1>5 DEF Driven
<1>. QED BY <1>1, <1>3, <1>5, <1>6, <1>7, <1>8 DEF RailInv

(* The driver's polls, in the screens that leave it the rails.             *)
LEMMA PolledSafe == ASSUME RailInv, NavPoll \/ TestTick \/ Rumbles PROVE RailInv'
<1>0. SameScreen BY DEF NavPoll, TestTick, Rumbles, SameScreen, RailInv, Shape
<1>1. CASE NavPoll
  <2>1. PICK d \in Polled : Poll(d) BY <1>1 DEF NavPoll
  <2>2. UNCHANGED <<wire, pads>> BY <1>1 DEF NavPoll, wireVars
  <2>. QED BY <1>0, <2>1, <2>2, PollSafe DEF RailInv, Shape
<1>2. CASE TestTick
  <2>1. PICK d, r : JcTick(d, r) BY <1>2 DEF TestTick
  <2>2. /\ Poll(d) /\ UNCHANGED wire /\ DOMAIN pads' = Sides
        /\ \A s \in Sides : ~pads[s].on => pads'[s] = pads[s]
    BY <2>1 DEF JcTick, Buzz
  <2>. QED BY <1>0, <2>2, PollSafe
<1>3. CASE Rumbles
  <2>1. UNCHANGED <<wire, pads, taken, port, drv, told>>
    BY <1>3 DEF Rumbles, ActRumble, wireVars
  <2>. QED BY <1>0, <2>1, WireSafe DEF RailInv, Shape
<1>. QED BY <1>1, <1>2, <1>3

(* The sensor screens at work.                                             *)
LEMMA SensorsSafe == ASSUME RailInv, CameraStep \/ CameraButton \/ MotionStep PROVE RailInv'
<1>1. UNCHANGED <<gui, port, taken, drv, told>>
  BY DEF CameraStep, CameraButton, MotionStep, OnCamera, jcVars
<1>2. SameScreen BY <1>1 DEF SameScreen, RailInv, Shape
<1>3. CASE CameraStep BY <1>1, <1>2, <1>3, CameraSafe DEF CameraStep
<1>4. CASE CameraButton BY <1>1, <1>2, <1>4, RestartSafe DEF CameraButton
<1>5. CASE MotionStep BY <1>1, <1>2, <1>5, MotionSafe DEF MotionStep
<1>. QED BY <1>3, <1>4, <1>5

(* The end of a check asks the driver to look again.                       *)
LEMMA CheckEndsSafe == ASSUME RailInv, CheckEnds PROVE RailInv'
<1>1. SameScreen BY DEF CheckEnds, SameScreen, RailInv, Shape
<1>2. drv' = StaleNow /\ UNCHANGED <<wire, pads, port, taken, told>>
  BY DEF CheckEnds, wireVars
<1>3. KeepsRails
  BY <1>1, <1>2 DEF StaleNow, KeepsRails, RailInv, Shape, SameScreen, Driven
<1>. QED BY <1>1, <1>3, QuietSafe

(* The hand-over to the RAM test: no rail is owned on its screen.          *)
LEMMA RamStartSafe == ASSUME RailInv, RamStart PROVE RailInv'
<1>1. CASE UNCHANGED gui
  <2>1. SameScreen BY <1>1 DEF SameScreen, RailInv, Shape
  <2>. QED BY <2>1, ElsewhereSafe DEF RamStart
<1>2. CASE gui' = Plain("ramtest")
  <2>1. gui.at = "ram" /\ UNCHANGED <<wire, pads, port, taken, drv, told>>
    BY DEF RamStart, sensorVars, wireVars, jcVars
  <2>2. Shape' BY <1>2, <2>1 DEF Plain, RailInv, Shape
  <2>3. \A s \in Sides : ~wire[s].owned BY <2>1 DEF RailInv, SensorScreens
  <2>4. \A s \in Sides : Driven(s)' => ~ConsoleOn(s)'
    BY <2>1 DEF RailInv, Driven, ConsoleOn
  <2>5. gui'.at = "ramtest" /\ ~gui'.busy BY <1>2 DEF Plain
  <2>6. \A q \in Sides : wire'[q] = wire[q] BY <2>1
  <2>. QED BY <2>2, <2>3, <2>4, <2>5, <2>6 DEF RailInv, SensorScreens
<1>. QED BY <1>1, <1>2 DEF RamStart

(* Every other step is away from the rails, on the same screen.            *)
LEMMA OthersSafe ==
    ASSUME RailInv,
           \/ Chooses \/ Backs \/ AgainInBox \/ Deeper
           \/ CheckAll \/ CheckSome \/ CheckAgain \/ LastResults
           \/ CheckStep \/ Screenshot \/ TouchRead \/ TestTasks \/ FingerStep
    PROVE  RailInv'
<1>1. UNCHANGED sensorVars
  BY DEF Chooses, Backs, AgainInBox, Deeper, CheckAll, CheckSome, CheckAgain, LastResults,
         CheckStep, Screenshot, TouchRead, TestTasks, FingerStep
<1>2. \/ UNCHANGED gui
      \/ \E screen : gui' = [gui EXCEPT !.pending = screen]
      \/ \E box : gui' = [gui EXCEPT !.box = box]
  BY DEF Chooses, Backs, AgainInBox, Deeper, CheckAll, CheckSome, CheckAgain, LastResults,
         CheckStep, Screenshot, TouchRead, TestTasks, FingerStep, Shows
<1>3. SameScreen BY <1>2 DEF SameScreen, RailInv, Shape
<1>. QED BY <1>1, <1>3, ElsewhereSafe

(* At the start the console has given up the rails that are not empty.     *)
LEMMA RailInit == Init => RailInv
<1>. SUFFICES ASSUME Init PROVE RailInv
  OBVIOUS
<1>1. /\ gui = Plain("home") /\ wire = [s \in Sides |-> Rail]
      /\ pads = [s \in Sides |-> Pad(s \in tour.seated)]
      /\ port = "UART-B" /\ taken = [s \in Sides |-> s = "R" /\ pads[s].on]
      /\ told = [s \in Sides |-> Quiet]
      /\ drv = [s \in Sides |-> IF s \in tour.seated
                                THEN [Unseen EXCEPT !.conn = TRUE, !.batt = TRUE,
                                                    !.was = TRUE, !.gone = FALSE]
                                ELSE Unseen]
  BY DEF Init, JcInit, WireInit, DbgInit
<1>2. Shape BY <1>1 DEF Plain, Rail, Pad, Quiet, Unseen, Shape
<1>3. \A s \in Sides : Driven(s) => ~ConsoleOn(s)
  <2>1. ~ConsoleOn("L") BY <1>1 DEF ConsoleOn, RailPort
  <2>2. taken["R"] <=> pads["R"].on BY <1>1, Zenon DEF Sides
  <2>3. pads["R"].on => ~ConsoleOn("R") BY <2>2 DEF ConsoleOn
  <2>. QED BY <2>1, <2>3 DEF Driven, Sides
<1>4. \A s \in Sides : ~wire[s].owned BY <1>1 DEF Rail
<1>5. gui.at = "home" /\ ~gui.busy BY <1>1 DEF Plain
<1>. QED BY <1>2, <1>3, <1>4, <1>5 DEF RailInv, SensorScreens

(* Every step keeps every rail's owner.                                    *)
LEMMA RailStepSafe == RailInv /\ [Next]_vars => RailInv'
<1>. SUFFICES ASSUME RailInv, [Next]_vars PROVE RailInv'
  OBVIOUS
<1>1. CASE UNCHANGED vars
  <2>1. UNCHANGED <<gui, sensorVars>> BY <1>1 DEF vars
  <2>. QED BY <2>1, ElsewhereSafe DEF SameScreen, RailInv, Shape
<1>. QED BY <1>1, SwitchSafe, TakesSafe, PicksSafe, RailsSafe, HandSafe, PolledSafe, SensorsSafe,
            CheckEndsSafe, RamStartSafe, OthersSafe DEF Next

(* A rail has one owner: a sensor screen, the driver, or the debug console *)
(* (gui_jcwire.c's gui_jc_own, gui_dbg.c's s_taken, and the order in which *)
(* gui_main.c polls).                                                      *)
THEOREM OneOwner == Spec => []RailsHaveOneOwner
<1>1. RailInv => RailsHaveOneOwner
  <2>1. SUFFICES ASSUME RailInv, NEW s \in Sides
                 PROVE  /\ wire[s].owned => ~PolledHere /\ ~ConsoleOn(s)
                        /\ drv[s].conn /\ pads[s].on /\ told[s] = Quiet => ~ConsoleOn(s)
    BY DEF RailsHaveOneOwner
  <2>2. wire[s].owned => ~PolledHere /\ ~ConsoleOn(s)
    BY <2>1 DEF RailInv, PolledHere, SensorScreens
  <2>3. told[s] = Quiet => ~told[s].slid BY DEF Quiet
  <2>. QED BY <2>1, <2>2, <2>3 DEF RailInv, Driven
<1>. QED BY <1>1, RailInit, RailStepSafe, PTL DEF Spec

-----------------------------------------------------------------------------
(* The clocks.                                                             *)

ClocksAsFound ==
    /\ ~clk.hung
    /\ clk.rate = IF Running \/ gui.at = "ramtest" THEN 204 ELSE FastRate(clk.chip)

\* No request leads to the RAM test's screen but its own hand-over, and none is
\* taken up while a check runs.
ClockInv ==
    /\ clk \in [chip : {"none", "mariko", "erista"}, fast : BOOLEAN, hung : {FALSE}, rate : Int]
    /\ clk.fast = ~(Running \/ gui.at = "ramtest")
    /\ clk.rate = IF clk.fast THEN FastRate(clk.chip) ELSE 204
    /\ {"at", "pending", "back", "hold", "box", "busy"} \subseteq DOMAIN gui
    /\ gui.pending # "ramtest" /\ gui.back \in {"home", "joycon"}
    /\ Running => gui.at # "ramtest"
    /\ "at" \in DOMAIN sweep /\ sweep.at \in Nat

(* The clock asked for the speed it does not have.                         *)
LEMMA ClockTurns ==
    ASSUME NEW c \in [chip : {"none", "mariko", "erista"}, fast : BOOLEAN, hung : {FALSE}, rate : Int],
           NEW fast \in BOOLEAN, c.rate = IF c.fast THEN FastRate(c.chip) ELSE 204
    PROVE  LET d == ClockFast(c, fast) IN
           /\ d \in [chip : {"none", "mariko", "erista"}, fast : BOOLEAN, hung : {FALSE}, rate : Int]
           /\ d.fast = fast /\ d.rate = IF d.fast THEN FastRate(d.chip) ELSE 204
<1>1. FastRate(c.chip) = IF c.chip = "none" THEN 204 ELSE IF c.chip = "mariko" THEN 408 ELSE 1600
  BY DEF FastRate
<1>2. CASE fast = c.fast BY <1>2 DEF ClockFast
<1>3. CASE fast # c.fast
  <2>. DEFINE rate == IF fast THEN FastRate(c.chip) ELSE 204
              w == DramSwitch(c, rate)
  <2>1. rate \in Int BY <1>1
  <2>2. ClockFast(c, fast) = [w EXCEPT !.fast = fast] BY <1>3 DEF ClockFast
  <2>3. w = c \/ w = [c EXCEPT !.rate = rate]
    BY DEF DramSwitch, Switch
  <2>4. w.rate = rate
    BY <1>1, <1>3, <2>1 DEF DramSwitch, Switch
  <2>5. /\ w \in [chip : {"none", "mariko", "erista"}, fast : BOOLEAN, hung : {FALSE}, rate : Int]
        /\ w.chip = c.chip
    <3>. HIDE DEF rate, w
    <3>1. CASE w = c BY <3>1
    <3>2. CASE w = [c EXCEPT !.rate = rate] BY <2>1, <3>2
    <3>. QED BY <2>3, <3>1, <3>2
  <2>6. rate = IF fast THEN FastRate(w.chip) ELSE 204 BY <2>5
  <2>. HIDE DEF rate, w
  <2>. QED BY <2>2, <2>4, <2>5, <2>6
<1>. QED BY <1>2, <1>3

(* A set of naturals has a least one.                                      *)
LEMMA LeastNatural ==
    ASSUME NEW T, T \subseteq Nat, T # {} PROVE \E x \in T : \A y \in T : x <= y
<1>. DEFINE R == {ss \in Nat \X Nat : ss[1] < ss[2]}
<1>1. R = OpToRel(<, Nat) BY DEF OpToRel
<1>2. IsWellFoundedOn(R, Nat) BY <1>1, NatLessThanWellFounded
<1>3. \A x, y \in Nat : <<y, x>> \in R <=> y < x
  OBVIOUS
<1>. HIDE DEF R
<1>4. PICK x \in T : \A y \in T : ~(<<y, x>> \in R) BY <1>2, WFMin
<1>5. ASSUME NEW y \in T PROVE x <= y
  <2>1. x \in Nat /\ y \in Nat /\ ~(y < x) BY <1>3, <1>4
  <2>. QED BY <2>1
<1>. QED BY <1>5

(* The next page is not before the one asked from.                         *)
LEMMA NextPageIsLater ==
    ASSUME NEW i \in Nat, i <= Len(Pages) + 1, NEW mask
    PROVE  NextPage(i, mask) \in i .. Len(Pages) + 1
<1>. DEFINE left == {j \in i..Len(Pages) : PageEnabled(Pages[j], mask)}
<1>1. Len(Pages) \in Nat BY HealthRunAssumption
<1>2. CASE left = {}
  BY <1>1, <1>2 DEF NextPage
<1>3. CASE left # {}
  <2>1. \E j \in left : \A k \in left : j <= k
    <3>1. left \subseteq Nat BY <1>1
    <3>. HIDE DEF left
    <3>. QED BY <1>3, <3>1, LeastNatural
  <2>2. NextPage(i, mask) = CHOOSE j \in left : \A k \in left : j <= k
    BY <1>3 DEF NextPage
  <2>. QED BY <1>1, <2>1, <2>2
<1>. QED BY <1>2, <1>3

(* Steps that switch no clock, run no page and go to no other screen.      *)
LEMMA ClockQuiet ==
    ASSUME ClockInv, UNCHANGED <<clk, sweep>>,
           \/ UNCHANGED gui
           \/ \E screen : screen # "ramtest" /\ gui' = [gui EXCEPT !.pending = screen]
           \/ \E box : gui' = [gui EXCEPT !.box = box]
           \/ gui' = [gui EXCEPT !.busy = FALSE]
    PROVE  ClockInv'
<1>1. /\ gui'.at = gui.at /\ gui'.back = gui.back /\ gui'.pending # "ramtest"
      /\ DOMAIN gui' = DOMAIN gui
  BY DEF ClockInv
<1>. QED BY <1>1 DEF ClockInv, Running

(* A check, and the RAM test, get the payload's clock; after a check the   *)
(* GUI has its own again.                                                  *)
LEMMA ClockStep ==
    ASSUME ClockInv, Next PROVE ClockInv'
<1>0. clk \in [chip : {"none", "mariko", "erista"}, fast : BOOLEAN, hung : {FALSE}, rate : Int]
      /\ clk.rate = IF clk.fast THEN FastRate(clk.chip) ELSE 204
  BY DEF ClockInv
<1>1. CASE Switches
  <2>1. /\ gui' = Built(gui.pending) /\ Free /\ gui.pending # "ramtest"
        /\ gui'.at = gui.pending /\ gui'.back \in {"home", "joycon"}
        /\ gui'.pending # "ramtest"
        /\ {"at", "pending", "back", "hold", "box", "busy"} \subseteq DOMAIN gui'
    <3>1. ASSUME NEW x
          PROVE  /\ {"at", "pending", "back", "nav", "sink", "hold", "box", "busy"} = DOMAIN Plain(x)
                 /\ Plain(x).at = x /\ Plain(x).pending = "none" /\ Plain(x).back = "home"
      BY DEF Plain, Unasked
    <3>. QED BY <1>1, <3>1 DEF Switches, Built, ClockInv
  <2>2. CASE gui.pending = "run"
    <3>1. clk' = ClockFast(clk, FALSE) /\ sweep' = [at |-> NextPage(1, sel.run), started |-> 0]
      BY <1>1, <2>2 DEF Switches, RunStarts
    <3>2. NextPage(1, sel.run) \in Nat \ {0}
      BY NextPageIsLater, HealthRunAssumption
    <3>3. /\ clk' \in [chip : {"none", "mariko", "erista"}, fast : BOOLEAN, hung : {FALSE}, rate : Int]
          /\ ~clk'.fast /\ clk'.rate = 204
      BY <1>0, <3>1, ClockTurns
    <3>4. "at" \in DOMAIN sweep' /\ sweep'.at \in Nat /\ Running'
      BY <3>1, <3>2 DEF Running
    <3>. QED BY <2>1, <2>2, <3>3, <3>4 DEF ClockInv
  <2>3. CASE gui.pending # "run"
    <3>1. UNCHANGED <<clk, sweep>> BY <1>1, <2>3 DEF Switches, checkVars
    <3>. QED BY <2>1, <3>1 DEF ClockInv, Running, Free
  <2>. QED BY <2>2, <2>3
<1>2. CASE CheckStep
  <2>1. UNCHANGED <<clk, gui>> BY <1>2 DEF CheckStep, RunPage, RunVerdict
  <2>2. Running /\ "at" \in DOMAIN sweep' /\ sweep'.at \in Nat /\ sweep'.at > 0
    <3>1. CASE RunPage
      <4>1. /\ sweep.at + 1 \in Nat /\ sweep.at + 1 <= Len(Pages) + 1 /\ Running
            /\ sweep' = [at |-> NextPage(sweep.at + 1, sel.ran), started |-> sweep.started + 1]
        BY <3>1, HealthRunAssumption DEF RunPage, StatusSet, ClockInv
      <4>2. NextPage(sweep.at + 1, sel.ran) \in Nat /\ NextPage(sweep.at + 1, sel.ran) > 0
        BY <4>1, NextPageIsLater, HealthRunAssumption DEF ClockInv
      <4>. QED BY <4>1, <4>2
    <3>2. CASE RunVerdict
      BY <3>2, HealthRunAssumption DEF RunVerdict, StatusSet, ClockInv, Running
    <3>. QED BY <1>2, <3>1, <3>2 DEF CheckStep
  <2>. QED BY <2>1, <2>2 DEF ClockInv, Running
<1>3. CASE CheckEnds
  <2>1. /\ gui' = [gui EXCEPT !.hold = FALSE, !.pending = "results"]
        /\ clk' = ClockFast(clk, TRUE)
        /\ sweep.at > 0 /\ "at" \in DOMAIN sweep' /\ sweep'.at = 0
    BY <1>3, HealthRunAssumption DEF CheckEnds, RunSaves, ClockInv
  <2>2. /\ clk' \in [chip : {"none", "mariko", "erista"}, fast : BOOLEAN, hung : {FALSE}, rate : Int]
        /\ clk'.fast /\ clk'.rate = FastRate(clk'.chip)
    BY <1>0, <2>1, ClockTurns
  <2>3. ~Running' /\ sweep'.at \in Nat BY <2>1 DEF Running
  <2>4. /\ gui'.at = gui.at /\ gui.at # "ramtest" /\ gui'.pending # "ramtest"
        /\ gui'.back = gui.back /\ DOMAIN gui' = DOMAIN gui
    BY <2>1 DEF ClockInv, Running
  <2>. QED BY <2>1, <2>2, <2>3, <2>4 DEF ClockInv
<1>4. CASE RamStart
  <2>1. CASE clk' = ClockFast(clk, FALSE) /\ gui' = Plain("ramtest")
    <3>1. sweep' = sweep /\ ~Running BY <1>4 DEF RamStart, Acts, Free
    <3>2. /\ clk' \in [chip : {"none", "mariko", "erista"}, fast : BOOLEAN, hung : {FALSE}, rate : Int]
          /\ ~clk'.fast /\ clk'.rate = 204
      BY <1>0, <2>1, ClockTurns
    <3>. QED BY <2>1, <3>1, <3>2 DEF ClockInv, Running, Plain, Unasked
  <2>2. CASE UNCHANGED <<clk, gui>>
    BY <1>4, <2>2, ClockQuiet DEF RamStart
  <2>. QED BY <1>4, <2>1, <2>2 DEF RamStart
<1>5. ASSUME Chooses \/ Backs \/ AgainInBox \/ Deeper \/ CheckAll \/ CheckSome \/ CheckAgain
             \/ LastResults
      PROVE  ClockInv'
  <2>1. UNCHANGED <<clk, sweep>>
    BY <1>5 DEF Chooses, Backs, AgainInBox, Deeper, CheckAll, CheckSome, CheckAgain, LastResults,
                checkVars
  <2>2. \E screen : screen # "ramtest" /\ gui' = [gui EXCEPT !.pending = screen]
    BY <1>5 DEF Chooses, Backs, AgainInBox, Deeper, CheckAll, CheckSome, CheckAgain, LastResults,
                Shows, HomeChoices, Free, ClockInv
  <2>. QED BY <2>1, <2>2, ClockQuiet
<1>6. ASSUME TakesRails \/ NavPoll \/ PicksPort \/ TestTick \/ Rumbles \/ CameraStep
             \/ CameraButton \/ MotionStep \/ RailStep \/ RailLoss \/ HandStep \/ GlowStep
             \/ Screenshot \/ TouchRead \/ TestTasks \/ FingerStep
      PROVE  ClockInv'
  <2>1. UNCHANGED <<clk, sweep>>
    BY <1>6 DEF TakesRails, NavPoll, PicksPort, TestTick, Rumbles, CameraStep, CameraButton,
                OnCamera, MotionStep, RailStep, RailLoss, OnRails, HandStep, GlowStep, Screenshot,
                TouchRead, TestTasks, FingerStep, checkVars
  <2>2. \/ UNCHANGED gui \/ \E box : gui' = [gui EXCEPT !.box = box]
        \/ gui' = [gui EXCEPT !.busy = FALSE]
    BY <1>6 DEF TakesRails, NavPoll, PicksPort, TestTick, Rumbles, CameraStep, CameraButton,
                OnCamera, MotionStep, RailStep, RailLoss, OnRails, HandStep, GlowStep, Screenshot,
                TouchRead, TestTasks, FingerStep
  <2>. QED BY <2>1, <2>2, ClockQuiet
<1>. QED BY <1>1, <1>2, <1>3, <1>4, <1>5, <1>6, Zenon DEF Next

(* At the start the clocks are the GUI's.                                  *)
LEMMA ClockBegins == Init => ClockInv
<1>. SUFFICES ASSUME Init PROVE ClockInv
  OBVIOUS
<1>1. PICK chip \in tour.chips, card \in tour.cards : CheckInit(chip, card)
  BY DEF Init
<1>2. chip \in {"none", "mariko", "erista"}
  BY ToursAssumption, ChipsAssumption DEF Init
<1>3. /\ clk = ClockFast(Minerva(chip), TRUE) /\ sweep = [at |-> 0, started |-> 0]
      /\ gui = Plain("home")
  BY <1>1 DEF CheckInit, ClockInit, Init
<1>4. FastRate(chip) = IF chip = "none" THEN 204 ELSE IF chip = "mariko" THEN 408 ELSE 1600
  BY <1>2 DEF FastRate
<1>5. clk = [Minerva(chip) EXCEPT !.fast = TRUE]
  BY <1>3 DEF ClockFast, Minerva, DramSwitch
<1>6. clk = [chip |-> chip, fast |-> TRUE, hung |-> FALSE, rate |-> FastRate(chip)]
  BY <1>5 DEF Minerva
<1>7. /\ clk \in [chip : {"none", "mariko", "erista"}, fast : BOOLEAN, hung : {FALSE}, rate : Int]
      /\ clk.fast /\ clk.rate = FastRate(clk.chip)
  BY <1>2, <1>4, <1>6
<1>8. ~Running /\ "at" \in DOMAIN sweep /\ sweep.at \in Nat
  BY <1>3 DEF Running
<1>9. /\ gui.at = "home" /\ gui.pending = "none" /\ gui.back = "home"
      /\ {"at", "pending", "back", "hold", "box", "busy"} \subseteq DOMAIN gui
  BY <1>3 DEF Plain, Unasked
<1>. QED BY <1>7, <1>8, <1>9 DEF ClockInv

(* Every step keeps them as they have to be.                               *)
LEMMA ClockSteps == ClockInv /\ [Next]_vars => ClockInv'
<1>1. ClockInv /\ UNCHANGED vars => ClockInv'
  BY DEF vars, checkVars, ClockInv, Running
<1>. QED BY <1>1, ClockStep

(* No switch of the memory's clock ever hangs; outside a check and the RAM *)
(* test the clocks are the GUI's, and those two get the payload's 204 MHz  *)
(* (gui_clock.c, and who calls it): the clocks' part of LeftAsFound.       *)
THEOREM ClocksGoBack == Spec => []ClocksAsFound
<1>1. ClockInv => ClocksAsFound
  BY DEF ClockInv, ClocksAsFound
<1>. QED BY <1>1, ClockBegins, ClockSteps, PTL DEF Spec

-----------------------------------------------------------------------------
(* The results.                                                            *)

\* What the verdict said is what its findings and rows say still: nothing is
\* found after it until the next check forgets it.
VerdictInv ==
    /\ "ran" \in DOMAIN sel /\ "at" \in DOMAIN sweep /\ sweep.at \in Nat
    /\ findings \in [AllKeys -> Severities \cup {NoFinding}]
    /\ verdict.known =>
         /\ sweep.at = 0 \/ sweep.at = Len(Pages) + 2
         /\ verdict.warn = Counted({"warn", "soft"}) /\ verdict.fail = Counted({"fail"})

(* A count is zero exactly when nothing that counts was found.             *)
LEMMA CountedNone ==
    ASSUME NEW severities
    PROVE  Counted(severities) \in Nat
           /\ (Counted(severities) > 0 <=>
                 \E r \in DOMAIN Rows, k \in AllKeys :
                   RowRan(r, sel.ran) /\ k \in Rows[r].keys /\ findings[k] \in severities)
<1>. DEFINE counts == {rk \in (DOMAIN Rows) \X AllKeys :
                         /\ RowRan(rk[1], sel.ran) /\ rk[2] \in Rows[rk[1]].keys
                         /\ findings[rk[2]] \in severities}
<1>1. IsFiniteSet((DOMAIN Rows) \X AllKeys)
  BY HealthRunAssumption, FS_Product
<1>2. IsFiniteSet(counts) BY <1>1, FS_Subset
<1>3. (\E rk : rk \in counts) <=>
        \E r \in DOMAIN Rows, k \in AllKeys :
          RowRan(r, sel.ran) /\ k \in Rows[r].keys /\ findings[k] \in severities
  <2>1. ASSUME NEW rk \in counts
        PROVE  \E r \in DOMAIN Rows, k \in AllKeys :
                 RowRan(r, sel.ran) /\ k \in Rows[r].keys /\ findings[k] \in severities
    BY <2>1
  <2>2. ASSUME NEW r \in DOMAIN Rows, NEW k \in AllKeys,
               RowRan(r, sel.ran), k \in Rows[r].keys, findings[k] \in severities
        PROVE  <<r, k>> \in counts
    BY <2>2
  <2>. QED BY <2>1, <2>2
<1>4. Counted(severities) = Cardinality(counts) BY DEF Counted
<1>. HIDE DEF counts
<1>5. Cardinality(counts) \in Nat /\ (Cardinality(counts) = 0 <=> counts = {})
  BY <1>2, FS_CardinalityType, FS_EmptySet
<1>. QED BY <1>3, <1>4, <1>5

(* The states have their ranks.                                            *)
LEMMA Ranks == /\ Rank("untested") = 1 /\ Rank("ok") = 2 /\ Rank("soft") = 3
               /\ Rank("partial") = 4 /\ Rank("warn") = 5 /\ Rank("fail") = 6
<1>1. DOMAIN Order = 1 .. 6 BY DEF Order
<1>2. /\ Order[1] = "untested" /\ Order[2] = "ok" /\ Order[3] = "soft"
      /\ Order[4] = "partial" /\ Order[5] = "warn" /\ Order[6] = "fail"
  BY DEF Order
<1>3. ASSUME NEW i \in 1 .. 6 PROVE Rank(Order[i]) = i
  <2>1. \A j \in 1 .. 6 : Order[j] = Order[i] => j = i BY <1>2
  <2>. QED BY <1>1, <2>1 DEF Rank
<1>. QED BY <1>2, <1>3

(* A category is as bad as the worst finding of its rows that ran.         *)
LEMMA CategoryWorst ==
    ASSUME VerdictInv, NEW c \in Categories
    PROVE  LET found(st) == \E r \in c : \E k \in Rows[r].keys :
                              RowRan(r, sel.ran) /\ findings[k] = st
           IN  /\ CatState(c) = "fail" <=> found("fail")
               /\ CatState(c) = "warn" => found("warn")
<1>. DEFINE found(st) == \E r \in c : \E k \in Rows[r].keys :
                            RowRan(r, sel.ran) /\ findings[k] = st
            ran == {r \in c : RowRan(r, sel.ran)}
            keys == UNION {Rows[r].keys : r \in ran}
            states == {FindingState(k) : k \in keys} \cup {"untested"}
            worst == CHOOSE st \in states : \A other \in states : Rank(other) <= Rank(st)
<1>1. keys \subseteq AllKeys
  BY HealthRunAssumption
<1>2. ASSUME NEW k \in AllKeys
      PROVE  /\ FindingState(k) \in {"untested", "ok", "soft", "warn", "fail"}
             /\ FindingState(k) = "fail" <=> findings[k] = "fail"
             /\ FindingState(k) = "warn" <=> findings[k] = "warn"
  <2>1. findings[k] \in {"pass", "soft", "warn", "fail", "none"}
    BY DEF VerdictInv, Severities, NoFinding
  <2>. QED BY <2>1 DEF FindingState, NoFinding
<1>3. \A st : (\E k \in keys : findings[k] = st) <=> found(st)
  OBVIOUS
<1>4. states \subseteq {"untested", "ok", "soft", "warn", "fail"} /\ "untested" \in states
  BY <1>1, <1>2
<1>5. ("fail" \in states <=> found("fail")) /\ ("warn" \in states => found("warn"))
  BY <1>1, <1>2, <1>3
<1>6. \E st \in states : \A other \in states : Rank(other) <= Rank(st)
  <2>. HIDE DEF states
  <2>1. CASE "fail" \in states BY <1>4, <2>1, Ranks
  <2>2. CASE "fail" \notin states /\ "warn" \in states BY <1>4, <2>2, Ranks
  <2>3. CASE "fail" \notin states /\ "warn" \notin states /\ "soft" \in states
    BY <1>4, <2>3, Ranks
  <2>4. CASE "fail" \notin states /\ "warn" \notin states /\ "soft" \notin states /\ "ok" \in states
    BY <1>4, <2>4, Ranks
  <2>5. CASE "fail" \notin states /\ "warn" \notin states /\ "soft" \notin states /\ "ok" \notin states
    BY <1>4, <2>5, Ranks
  <2>. QED BY <2>1, <2>2, <2>3, <2>4, <2>5
<1>7. worst \in states /\ \A other \in states : Rank(other) <= Rank(worst)
  <2>. HIDE DEF states
  <2>. QED BY <1>6
<1>8. CatState(c) = IF ran # c /\ worst \in {"ok", "soft"} THEN "partial" ELSE worst
  BY DEF CatState
<1>. HIDE DEF states, worst, found, ran
<1>9. worst = "fail" <=> "fail" \in states
  BY <1>4, <1>7, Ranks
<1>10. /\ CatState(c) = "fail" <=> found("fail")
       /\ CatState(c) = "warn" => found("warn")
  BY <1>5, <1>7, <1>8, <1>9
<1>. QED BY <1>10 DEF found

(* The verdict's invariant says what the property does.                    *)
LEMMA VerdictTells == VerdictInv => ResultsTellTheVerdict
<1>. SUFFICES ASSUME VerdictInv, verdict.known
              PROVE  /\ (Headline = "Problems found") <=> verdict.fail > 0
                     /\ Headline = "Mostly healthy" => verdict.warn > 0
  BY DEF ResultsTellTheVerdict
<1>1. /\ verdict.fail > 0 <=> \E r \in DOMAIN Rows, k \in AllKeys :
           RowRan(r, sel.ran) /\ k \in Rows[r].keys /\ findings[k] = "fail"
      /\ verdict.warn > 0 <=> \E r \in DOMAIN Rows, k \in AllKeys :
           RowRan(r, sel.ran) /\ k \in Rows[r].keys /\ findings[k] \in {"warn", "soft"}
  <2>1. verdict.fail = Counted({"fail"}) /\ verdict.warn = Counted({"warn", "soft"})
    BY DEF VerdictInv
  <2>. QED BY <2>1, CountedNone
<1>2. \A r \in DOMAIN Rows : Rows[r].keys \subseteq AllKeys /\ \E c \in Categories : r \in c
  BY HealthRunAssumption
<1>3. \A c \in Categories : c \subseteq DOMAIN Rows
  BY HealthRunAssumption
<1>4. /\ (Headline = "Problems found") <=> \E c \in Categories : CatState(c) = "fail"
      /\ Headline = "Mostly healthy" => \E c \in Categories : CatState(c) = "warn"
  BY DEF Headline
<1>5. (\E c \in Categories : CatState(c) = "fail") <=>
        \E r \in DOMAIN Rows, k \in AllKeys :
           RowRan(r, sel.ran) /\ k \in Rows[r].keys /\ findings[k] = "fail"
  BY <1>2, <1>3, CategoryWorst
<1>6. (\E c \in Categories : CatState(c) = "warn") =>
        \E r \in DOMAIN Rows, k \in AllKeys :
           RowRan(r, sel.ran) /\ k \in Rows[r].keys /\ findings[k] \in {"warn", "soft"}
  BY <1>2, <1>3, CategoryWorst
<1>. QED BY <1>1, <1>4, <1>5, <1>6

(* Steps that find nothing and leave the check where it is.                *)
LEMMA VerdictQuiet ==
    ASSUME VerdictInv, UNCHANGED <<sweep, findings, verdict>>,
           "ran" \in DOMAIN sel', sel'.ran = sel.ran
    PROVE  VerdictInv'
  BY DEF VerdictInv, Counted

(* Every step keeps the verdict true of what was found.                    *)
LEMMA VerdictStep == ASSUME VerdictInv, Next PROVE VerdictInv'
<1>0. Len(Pages) \in Nat BY HealthRunAssumption
<1>1. CASE Switches
  <2>1. CASE gui.pending = "run"
    <3>1. /\ sel' = [sel EXCEPT !.ran = sel.run] /\ findings' = ResetFindings
          /\ sweep' = [at |-> NextPage(1, sel.run), started |-> 0] /\ ~verdict'.known
      BY <1>1, <2>1 DEF Switches, RunStarts, NoVerdict
    <3>2. NextPage(1, sel.run) \in Nat BY <1>0, NextPageIsLater
    <3>. QED BY <3>1, <3>2 DEF VerdictInv, ResetFindings
  <2>2. CASE gui.pending # "run"
    BY <1>1, <2>2, VerdictQuiet DEF Switches, checkVars, VerdictInv
  <2>. QED BY <2>1, <2>2
<1>2. CASE CheckStep
  <2>1. CASE RunPage
    <3>1. /\ sweep.at > 0 /\ sweep.at <= Len(Pages) /\ UNCHANGED <<sel, verdict>>
          /\ sweep' = [at |-> NextPage(sweep.at + 1, sel.ran), started |-> sweep.started + 1]
      BY <2>1 DEF RunPage, StatusSet, Running
    <3>2. sweep.at \in 1 .. Len(Pages) /\ sweep.at + 1 \in Nat /\ sweep.at + 1 <= Len(Pages) + 1
      BY <1>0, <3>1 DEF VerdictInv
    <3>3. NextPage(sweep.at + 1, sel.ran) \in Nat
      BY <1>0, <3>2, NextPageIsLater
    <3>4. ~verdict.known BY <1>0, <3>2 DEF VerdictInv
    <3>5. findings' \in [AllKeys -> Severities \cup {NoFinding}]
      <4>1. Outcomes[Pages[sweep.at]] \subseteq Severities \cup {NoFinding}
        BY <3>2, HealthRunAssumption DEF Severities, NoFinding
      <4>2. PICK st \in Outcomes[Pages[sweep.at]] :
              findings' = [k \in AllKeys |-> IF k \in Keys[Pages[sweep.at]] THEN st ELSE findings[k]]
        BY <2>1 DEF RunPage, DxSet
      <4>. QED BY <4>1, <4>2 DEF VerdictInv
    <3>. QED BY <3>1, <3>3, <3>4, <3>5 DEF VerdictInv
  <2>2. CASE RunVerdict
    <3>1. /\ sweep.at = Len(Pages) + 1 /\ UNCHANGED <<sel, findings>>
          /\ sweep' = [at |-> sweep.at + 1, started |-> sweep.started + 1]
          /\ verdict' = [warn |-> Counted({"warn", "soft"}), fail |-> Counted({"fail"}), known |-> TRUE]
      BY <2>2 DEF RunVerdict, StatusSet
    <3>2. /\ Counted({"warn", "soft"})' = Counted({"warn", "soft"})
          /\ Counted({"fail"})' = Counted({"fail"})
      BY <3>1 DEF Counted
    <3>3. sweep'.at = Len(Pages) + 2 /\ sweep'.at \in Nat /\ "at" \in DOMAIN sweep'
      BY <1>0, <3>1
    <3>4. verdict'.warn = Counted({"warn", "soft"}) /\ verdict'.fail = Counted({"fail"})
      BY <3>1
    <3>. QED BY <3>1, <3>2, <3>3, <3>4 DEF VerdictInv
  <2>. QED BY <1>2, <2>1, <2>2 DEF CheckStep
<1>3. CASE CheckEnds
  <2>1. /\ UNCHANGED <<sel, findings, verdict>>
        /\ "at" \in DOMAIN sweep' /\ sweep'.at = 0
    BY <1>3 DEF CheckEnds, RunSaves, VerdictInv
  <2>2. Counted({"warn", "soft"})' = Counted({"warn", "soft"}) /\ Counted({"fail"})' = Counted({"fail"})
    BY <2>1 DEF Counted
  <2>. QED BY <2>1, <2>2 DEF VerdictInv
<1>4. ASSUME CheckAll \/ CheckSome PROVE VerdictInv'
  <2>1. UNCHANGED <<sweep, findings, verdict>> /\ \E m : sel' = [sel EXCEPT !.run = m]
    BY <1>4 DEF CheckAll, CheckSome, PickAll, PickSome
  <2>2. "ran" \in DOMAIN sel' /\ sel'.ran = sel.ran BY <2>1 DEF VerdictInv
  <2>. QED BY <2>1, <2>2, VerdictQuiet
<1>5. ASSUME UNCHANGED <<sel, sweep, findings, verdict>> PROVE VerdictInv'
  BY <1>5, VerdictQuiet DEF VerdictInv
<1>6. ASSUME Chooses \/ Backs \/ AgainInBox \/ Deeper \/ CheckAgain \/ LastResults
             \/ TakesRails \/ NavPoll \/ PicksPort \/ TestTick \/ Rumbles \/ CameraStep
             \/ CameraButton \/ MotionStep \/ RailStep \/ RailLoss \/ HandStep \/ GlowStep
             \/ RamStart \/ Screenshot \/ TouchRead \/ TestTasks \/ FingerStep
      PROVE  UNCHANGED <<sel, sweep, findings, verdict>>
  BY <1>6 DEF Chooses, Backs, AgainInBox, Deeper, CheckAgain, LastResults,
              TakesRails, NavPoll, PicksPort, TestTick, Rumbles, CameraStep, CameraButton,
              OnCamera, MotionStep, RailStep, RailLoss, OnRails, HandStep, GlowStep, RamStart,
              Screenshot, TouchRead, TestTasks, FingerStep, checkVars
<1>. QED BY <1>1, <1>2, <1>3, <1>4, <1>5, <1>6, Zenon DEF Next

(* At the start no verdict is known.                                       *)
LEMMA VerdictBegins == Init => VerdictInv
<1>. SUFFICES ASSUME Init PROVE VerdictInv
  OBVIOUS
<1>1. PICK chip, card : CheckInit(chip, card) BY DEF Init
<1>. QED BY <1>1 DEF CheckInit, NoVerdict, VerdictInv

(* Every step keeps what the verdict says true.                            *)
LEMMA VerdictSteps == VerdictInv /\ [Next]_vars => VerdictInv'
<1>1. VerdictInv /\ UNCHANGED vars => VerdictInv'
  BY VerdictQuiet DEF vars, checkVars, VerdictInv
<1>. QED BY <1>1, VerdictStep

(* The results screen's headline agrees with the verdict's counts, for     *)
(* every table of rows, keys and categories that covers the rows           *)
(* (gui_results.c's _cat_walk and verdict.c's loop, which count apart).    *)
THEOREM ResultsAgree == Spec => []ResultsTellTheVerdict
  BY VerdictBegins, VerdictSteps, VerdictTells, PTL DEF Spec

-----------------------------------------------------------------------------
(* What a Joy-Con's requests do, and what the wire leaves of them.         *)

\* The function HandledAll is computed by: the Joy-Con after each request.
InTurn(p, reqs) ==
    CHOOSE after : after = [i \in 0..Len(reqs) |-> IF i = 0 THEN p ELSE Handled(after[i - 1], reqs[i])]

\* And what it is, up to the request n.
IsAfter(f, p, reqs, n) ==
    f = [i \in 0..n |-> IF i = 0 THEN p ELSE Handled(f[i - 1], reqs[i])]

(* There is one, and it is what it should be at each request.              *)
LEMMA AfterEach ==
    ASSUME NEW p, NEW Q, NEW reqs \in Seq(Q)
    PROVE  /\ InTurn(p, reqs)[0] = p
           /\ \A i \in 1..Len(reqs) : InTurn(p, reqs)[i] = Handled(InTurn(p, reqs)[i - 1], reqs[i])
<1>. DEFINE bad == {n \in Nat : ~\E f : IsAfter(f, p, reqs, n)}
<1>1. ASSUME bad # {} PROVE FALSE
  <2>1. PICK n \in bad : \A k \in bad : n <= k
    <3>1. bad \subseteq Nat OBVIOUS
    <3>. HIDE DEF bad
    <3>. QED BY <1>1, <3>1, LeastNatural
  <2>2. n # 0
    <3>1. IsAfter([i \in 0..0 |-> p], p, reqs, 0) BY DEF IsAfter
    <3>. QED BY <2>1, <3>1
  <2>3. n - 1 \in Nat /\ n - 1 \notin bad BY <2>1, <2>2
  <2>4. PICK f : IsAfter(f, p, reqs, n - 1) BY <2>3
  <2>. DEFINE g == [i \in 0..n |-> IF i = n THEN Handled(f[n - 1], reqs[n]) ELSE f[i]]
  <2>5. ASSUME NEW i \in 0..n PROVE g[i] = IF i = 0 THEN p ELSE Handled(g[i - 1], reqs[i])
    <3>1. CASE i = n
      <4>1. n - 1 \in 0..n /\ n - 1 # n BY <2>1, <2>2
      <4>2. g[n - 1] = f[n - 1] BY <4>1
      <4>. QED BY <2>2, <3>1, <4>2
    <3>2. CASE i # n
      <4>1. i \in 0..(n - 1) BY <2>1, <3>2
      <4>2. f[i] = IF i = 0 THEN p ELSE Handled(f[i - 1], reqs[i]) BY <2>4, <4>1 DEF IsAfter
      <4>3. i # 0 => i - 1 \in 0..n /\ i - 1 # n BY <2>1, <4>1
      <4>. QED BY <3>2, <4>2, <4>3
    <3>. QED BY <3>1, <3>2
  <2>6. IsAfter(g, p, reqs, n) BY <2>5 DEF IsAfter
  <2>. QED BY <2>1, <2>6
<1>2. Len(reqs) \in Nat OBVIOUS
<1>3. \E f : IsAfter(f, p, reqs, Len(reqs)) BY <1>1, <1>2
<1>4. IsAfter(InTurn(p, reqs), p, reqs, Len(reqs)) BY <1>3 DEF IsAfter, InTurn
<1>. QED BY <1>2, <1>4 DEF IsAfter

(* HandledAll is the last of it.                                           *)
LEMMA HandledAllIs ==
    ASSUME NEW p, NEW reqs
        PROVE HandledAll(p, reqs) = IF p.on THEN InTurn(p, reqs)[Len(reqs)] ELSE p
  BY DEF HandledAll, InTurn

(* Each request keeps the Joy-Con in a set, and so do all of them.         *)
LEMMA HandledAllIn ==
    ASSUME NEW S, NEW Q, NEW p \in S, NEW reqs \in Seq(Q),
           \A r \in S, q \in Q : Handled(r, q) \in S
    PROVE  HandledAll(p, reqs) \in S
<1>. DEFINE f == InTurn(p, reqs)
            bad == {i \in 0..Len(reqs) : f[i] \notin S}
<1>1. ASSUME bad # {} PROVE FALSE
  <2>1. PICK n \in bad : \A k \in bad : n <= k
    <3>1. bad \subseteq Nat OBVIOUS
    <3>. HIDE DEF bad
    <3>. QED BY <1>1, <3>1, LeastNatural
  <2>2. n # 0 BY <2>1, AfterEach
  <2>3. n - 1 \in 0..Len(reqs) /\ n - 1 \notin bad /\ n \in 1..Len(reqs) BY <2>1, <2>2
  <2>4. f[n - 1] \in S /\ reqs[n] \in Q BY <2>3
  <2>5. f[n] = Handled(f[n - 1], reqs[n]) BY <2>3, AfterEach
  <2>. QED BY <2>1, <2>4, <2>5
<1>2. f[Len(reqs)] \in S BY <1>1
<1>. QED BY <1>2, HandledAllIs

(* Two sequences that agree up to n leave the same after each up to n.     *)
LEMMA AfterSame ==
    ASSUME NEW p, NEW Q, NEW a \in Seq(Q), NEW b \in Seq(Q), NEW n \in Nat,
           n <= Len(a), n <= Len(b), \A i \in 1..n : a[i] = b[i]
    PROVE  InTurn(p, a)[n] = InTurn(p, b)[n]
<1>. DEFINE bad == {i \in 0..n : InTurn(p, a)[i] # InTurn(p, b)[i]}
<1>1. ASSUME bad # {} PROVE FALSE
  <2>1. PICK m \in bad : \A k \in bad : m <= k
    <3>1. bad \subseteq Nat OBVIOUS
    <3>. HIDE DEF bad
    <3>. QED BY <1>1, <3>1, LeastNatural
  <2>2. m # 0 BY <2>1, AfterEach
  <2>3. m - 1 \in 0..n /\ m - 1 \notin bad /\ m \in 1..n BY <2>1, <2>2
  <2>4. InTurn(p, a)[m - 1] = InTurn(p, b)[m - 1] /\ a[m] = b[m] BY <2>3
  <2>5. m \in 1..Len(a) /\ m \in 1..Len(b) BY <2>3
  <2>. QED BY <2>1, <2>4, <2>5, AfterEach
<1>. QED BY <1>1

(* One request more.                                                       *)
LEMMA HandledAllLast ==
    ASSUME NEW p, p.on, NEW Q, NEW reqs \in Seq(Q), NEW q \in Q
    PROVE  HandledAll(p, Append(reqs, q)) = Handled(HandledAll(p, reqs), q)
<1>. DEFINE all == Append(reqs, q)
            n == Len(reqs)
<1>1. all \in Seq(Q) /\ Len(all) = n + 1 /\ n \in Nat /\ all[n + 1] = q
      /\ \A i \in 1..n : all[i] = reqs[i]
  OBVIOUS
<1>. HIDE DEF all
<1>2. InTurn(p, all)[n] = InTurn(p, reqs)[n] BY <1>1, AfterSame
<1>3. InTurn(p, all)[n + 1] = Handled(InTurn(p, all)[n], q) BY <1>1, AfterEach
<1>4. HandledAll(p, all) = InTurn(p, all)[n + 1] /\ HandledAll(p, reqs) = InTurn(p, reqs)[n]
  BY <1>1, HandledAllIs
<1>5. HandledAll(p, all) = Handled(HandledAll(p, reqs), q) BY <1>2, <1>3, <1>4
<1>. QED BY <1>5 DEF all

(* None at all.                                                            *)
LEMMA HandledAllNone == ASSUME NEW p PROVE HandledAll(p, <<>>) = p
<1>1. <<>> \in Seq({}) /\ Len(<<>>) = 0 OBVIOUS
<1>2. InTurn(p, <<>>)[0] = p BY <1>1, AfterEach
<1>. QED BY <1>1, <1>2, HandledAllIs

(* A first part, then the rest.                                            *)
LEMMA HandledAllSplit ==
    ASSUME NEW p, p.on, NEW Q, NEW reqs \in Seq(Q), NEW n \in 0..Len(reqs),
           HandledAll(p, SubSeq(reqs, 1, n)).on
    PROVE  HandledAll(HandledAll(p, SubSeq(reqs, 1, n)), SubSeq(reqs, n + 1, Len(reqs)))
             = HandledAll(p, reqs)
<1>. DEFINE a == SubSeq(reqs, 1, n)
            b == SubSeq(reqs, n + 1, Len(reqs))
            r == HandledAll(p, a)
            bad == {j \in 0..(Len(reqs) - n) : InTurn(r, b)[j] # InTurn(p, reqs)[n + j]}
<1>1. /\ a \in Seq(Q) /\ Len(a) = n /\ \A i \in 1..n : a[i] = reqs[i]
      /\ b \in Seq(Q) /\ Len(b) = Len(reqs) - n /\ \A j \in 1..Len(b) : b[j] = reqs[n + j]
      /\ n \in Nat /\ Len(reqs) \in Nat /\ n <= Len(reqs)
  OBVIOUS
<1>. HIDE DEF a, b
<1>2. r = InTurn(p, reqs)[n]
  <2>1. InTurn(p, a)[n] = InTurn(p, reqs)[n] BY <1>1, AfterSame
  <2>2. HandledAll(p, a) = InTurn(p, a)[n] BY <1>1, HandledAllIs
  <2>. QED BY <2>1, <2>2
<1>. HIDE DEF r
<1>3. InTurn(r, b)[0] = r BY <1>1, AfterEach
<1>4. ASSUME bad # {} PROVE FALSE
  <2>1. PICK j \in bad : \A k \in bad : j <= k
    <3>1. bad \subseteq Nat BY <1>1
    <3>. HIDE DEF bad
    <3>. QED BY <1>4, <3>1, LeastNatural
  <2>2. j # 0 BY <1>1, <1>2, <1>3, <2>1
  <2>3. j - 1 \in 0..(Len(reqs) - n) /\ j - 1 \notin bad /\ j \in 1..Len(b) /\ n + j \in 1..Len(reqs)
    BY <1>1, <2>1, <2>2
  <2>4. InTurn(r, b)[j - 1] = InTurn(p, reqs)[n + (j - 1)] BY <2>3
  <2>5. InTurn(r, b)[j] = Handled(InTurn(r, b)[j - 1], b[j]) BY <1>1, <2>3, AfterEach
  <2>6. InTurn(p, reqs)[n + j] = Handled(InTurn(p, reqs)[(n + j) - 1], reqs[n + j])
    BY <2>3, AfterEach
  <2>7. (n + j) - 1 = n + (j - 1) BY <1>1, <2>3
  <2>8. b[j] = reqs[n + j] BY <1>1, <2>3
  <2>. QED BY <2>1, <2>4, <2>5, <2>6, <2>7, <2>8
<1>5. InTurn(r, b)[Len(b)] = InTurn(p, reqs)[Len(reqs)]
  <2>1. Len(b) \in 0..(Len(reqs) - n) /\ n + Len(b) = Len(reqs) BY <1>1
  <2>. QED BY <1>4, <2>1
<1>6. r.on BY DEF r, a
<1>7. HandledAll(r, b) = HandledAll(p, reqs) BY <1>5, <1>6, HandledAllIs
<1>. QED BY <1>7 DEF r, a, b

\* The types of a Joy-Con, its requests, the rail and the screens over it.
PadType == [on : BOOLEAN, imu : BOOLEAN, buzz : BOOLEAN, reports : {"std", "mcu"},
            mcu : {"off", "booting", "standby", "entering", "ir"}, size : 0..Len(Frags),
            regs : BOOLEAN, lights : BOOLEAN, sent : Int]
Names == {"std_reports", "mcu_reports", "wake", "sleep", "status", "ir_mode", "size", "regs",
          "query", "lights", "ack", "imu", "ack03", "ack22", "ack40", "standby", "ir", "busy",
          "mode", "frag", "nothing", "other", "none", "junk"}
KindType == Names \X Int
ReqType == {q \in KindType : q[1] = "size" => q[2] \in 1..Len(Frags)}
PieceType == [part : {"head", "body"}, kind : KindType]
RailType == [owned : BOOLEAN, rx : Seq(PieceType), inbox : Seq(ReqType), doubt : BOOLEAN]
DrvType == [conn : BOOLEAN, batt : BOOLEAN, was : BOOLEAN, gone : BOOLEAN, stale : BOOLEAN,
            glow : BOOLEAN]
ToldType == [lost : Nat, slid : BOOLEAN]
TestType == [seen : BOOLEAN, ever : BOOLEAN, drops : Nat, buzz : BOOLEAN]
MoType == [last : {"zero", "still", "moving"}, data : BOOLEAN, rest : {"no", "since"},
           ok : BOOLEAN, said : {"none", "silent", "ok", "stopped", "reading"}]
CamType == [at : {"off", "setup", "stream", "failed"}, step : DOMAIN Steps, size : DOMAIN Frags,
            tries : Nat, heard : BOOLEAN, frames : 0..MaxFrames, frag : Int,
            asked : BOOLEAN, stalled : BOOLEAN]
GuiType == [at : Screens, pending : Screens \cup {Unasked}, back : {"home", "joycon"},
            nav : BOOLEAN, sink : {Unasked, "touch", "screen"}, hold : BOOLEAN, box : BOOLEAN,
            busy : BOOLEAN]
Clean(p) == ~p.imu /\ p.mcu = "off" /\ p.reports = "std"
IrReqs == {q \in ReqType : q[1] # "imu"}
MoReqs == {<<"imu", 0>>, <<"imu", 1>>}

\* What the screen at leaves a Joy-Con and its rail: nothing on its way and
\* nothing switched on when the rail is free, and on a sensor screen only what
\* is that screen's. A rail in doubt has lost something, and promises nothing.
Tidy(at, p, w) ==
    /\ ~w.owned => w.inbox = <<>> /\ (p.on /\ ~w.doubt => Clean(p))
    /\ w.owned /\ at = "ir" => w.inbox \in Seq(IrReqs) /\ (p.on /\ ~w.doubt => ~p.imu)
    /\ w.owned /\ at = "motion" => w.inbox \in Seq(MoReqs)
                                 /\ (p.on /\ ~w.doubt => p.mcu = "off" /\ p.reports = "std")

\* The camera screen owns its rail for as long as the camera is not off.
CamInv == cam.at # "off" => gui.at = "ir" /\ wire[Side].owned

(* What a request does keeps a Joy-Con a Joy-Con, on its rail and as quiet *)
(* as it was.                                                              *)
LEMMA HandledType ==
    ASSUME NEW p \in PadType, NEW q \in ReqType
    PROVE  Handled(p, q) \in PadType /\ Handled(p, q).on = p.on /\ Handled(p, q).buzz = p.buzz
<1>1. q[1] # "buzz" /\ q[2] \in Int /\ (q[1] = "size" => q[2] \in 1..Len(Frags))
  BY DEF ReqType, KindType, Names
<1>2. 1..Len(Frags) \subseteq 0..Len(Frags) /\ 0 \in 0..Len(Frags) /\ NoFrag \in Int
  BY JcWireAssumption DEF NoFrag
<1>3. Streams(p) => NextFrag(p, q[2]) \in Int
  <2>1. Streams(p) => p.size \in 1..Len(Frags) BY JcWireAssumption DEF Streams, PadType
  <2>2. Streams(p) => Frags[p.size] \in Nat \ {0} BY <2>1, JcWireAssumption
  <2>3. Streams(p) => (q[2] + 1) % Frags[p.size] \in Int BY <1>1, <2>2
  <2>4. p.sent \in Int BY DEF PadType
  <2>. QED BY <2>3, <2>4 DEF NextFrag
<1>4. Pad(p.on) \in PadType /\ Pad(p.on).on = p.on
  BY <1>2 DEF Pad, PadType
<1>5. /\ p.on \in BOOLEAN /\ p.imu \in BOOLEAN /\ p.buzz \in BOOLEAN /\ p.reports \in {"std", "mcu"}
      /\ p = [on |-> p.on, imu |-> p.imu, buzz |-> p.buzz, reports |-> p.reports, mcu |-> p.mcu,
              size |-> p.size, regs |-> p.regs, lights |-> p.lights, sent |-> p.sent]
  BY DEF PadType
<1>. DEFINE Same(r) == r \in PadType /\ r.on = p.on /\ r.buzz = p.buzz
<1>6. /\ Same(p) /\ Same([p EXCEPT !.reports = "std"]) /\ Same([p EXCEPT !.reports = "mcu"])
      /\ Same([p EXCEPT !.mcu = "booting"]) /\ Same([p EXCEPT !.mcu = "standby"])
      /\ Same([p EXCEPT !.mcu = "ir"]) /\ Same([p EXCEPT !.mcu = "entering"])
      /\ Same([p EXCEPT !.regs = TRUE]) /\ Same([p EXCEPT !.lights = TRUE])
      /\ Same([p EXCEPT !.imu = (q[2] = 1)])
  BY DEF PadType
<1>7. Same([Pad(p.on) EXCEPT !.imu = p.imu, !.buzz = p.buzz, !.reports = p.reports])
  BY <1>2, <1>5 DEF PadType, Pad
<1>8. q[1] = "size" => Same([p EXCEPT !.size = q[2], !.sent = NoFrag])
  BY <1>1, <1>2 DEF PadType
<1>9. Streams(p) => Same([p EXCEPT !.sent = NextFrag(p, q[2])])
  BY <1>3 DEF PadType
<1>. HIDE DEF Same
<1>10. Same(Handled(p, q)) BY <1>1, <1>6, <1>7, <1>8, <1>9 DEF Handled
<1>. QED BY <1>10 DEF Same

(* Without a request for the motion sensor it stays as it was.             *)
LEMMA HandledIr ==
    ASSUME NEW p \in PadType, NEW q \in IrReqs PROVE Handled(p, q).imu = p.imu
<1>1. q[1] # "imu" /\ q[1] # "buzz" BY DEF IrReqs, ReqType, KindType, Names
<1>. QED BY <1>1 DEF Handled, PadType, Pad

(* And a request for it leaves the camera's controller alone.              *)
LEMMA HandledMo ==
    ASSUME NEW p \in PadType, NEW q \in MoReqs
    PROVE  /\ Handled(p, q).mcu = p.mcu /\ Handled(p, q).reports = p.reports
           /\ Handled(p, q).imu = (q[2] = 1)
  BY DEF Handled, PadType, MoReqs

(* A set of naturals has its least, and up to a bound its greatest.        *)
LEMMA MinIs ==
    ASSUME NEW T, T \subseteq Nat, T # {} PROVE Min(T) \in T /\ \A y \in T : Min(T) <= y
  BY LeastNatural DEF Min

(* And one of numbers up to n its greatest.                                *)
LEMMA MaxIs ==
    ASSUME NEW n \in Nat, NEW T, T \subseteq 1..n, T # {}
        PROVE Max(T) \in T /\ \A y \in T : y <= Max(T)
<1>. DEFINE U == {n - x : x \in T}
<1>1. U \subseteq Nat /\ U # {}
  <2>1. ASSUME NEW x \in T PROVE n - x \in Nat BY x \in 1..n
  <2>2. PICK x : x \in T OBVIOUS
  <2>3. n - x \in U BY <2>2
  <2>. QED BY <2>1, <2>3
<1>2. PICK u \in U : \A v \in U : u <= v
  <2>. HIDE DEF U
  <2>. QED BY <1>1, LeastNatural
<1>3. PICK x \in T : u = n - x BY <1>2
<1>4. ASSUME NEW y \in T PROVE x >= y
  <2>1. n - y \in U OBVIOUS
  <2>2. n - x <= n - y BY <1>2, <1>3, <2>1
  <2>. QED BY <2>2
<1>5. \E z \in T : \A y \in T : z >= y BY <1>4
<1>6. Max(T) \in T /\ \A y \in T : Max(T) >= y BY <1>5 DEF Max
<1>. QED BY <1>6

(* What all of a sequence of requests leaves.                              *)
LEMMA AllType ==
    ASSUME NEW p \in PadType, NEW reqs \in Seq(ReqType)
    PROVE  /\ HandledAll(p, reqs) \in PadType /\ HandledAll(p, reqs).on = p.on
           /\ HandledAll(p, reqs).buzz = p.buzz
<1>. DEFINE S == {r \in PadType : r.on = p.on /\ r.buzz = p.buzz}
<1>1. p \in S OBVIOUS
<1>2. \A r \in S, q \in ReqType : Handled(r, q) \in S BY HandledType
<1>. HIDE DEF S
<1>3. HandledAll(p, reqs) \in S BY <1>1, <1>2, HandledAllIn
<1>. QED BY <1>3 DEF S

(* The camera's requests leave the motion sensor as it was.                *)
LEMMA AllIr ==
    ASSUME NEW p \in PadType, NEW reqs \in Seq(IrReqs) PROVE HandledAll(p, reqs).imu = p.imu
<1>. DEFINE S == {r \in PadType : r.imu = p.imu}
<1>1. p \in S OBVIOUS
<1>2. \A r \in S, q \in IrReqs : Handled(r, q) \in S BY HandledType, HandledIr DEF IrReqs
<1>. HIDE DEF S
<1>3. HandledAll(p, reqs) \in S BY <1>1, <1>2, HandledAllIn
<1>. QED BY <1>3 DEF S

(* The motion sensor's switches are requests.                              *)
LEMMA MoReqsAre == MoReqs \subseteq ReqType
  BY DEF MoReqs, ReqType, KindType, Names

(* The motion sensor's switches leave the microcontroller alone.           *)
LEMMA AllMo ==
    ASSUME NEW p \in PadType, NEW reqs \in Seq(MoReqs)
    PROVE  HandledAll(p, reqs).mcu = p.mcu /\ HandledAll(p, reqs).reports = p.reports
<1>. DEFINE S == {r \in PadType : r.mcu = p.mcu /\ r.reports = p.reports}
<1>1. p \in S OBVIOUS
<1>2. \A r \in S, q \in MoReqs : Handled(r, q) \in S BY HandledType, HandledMo, MoReqsAre
<1>. HIDE DEF S
<1>3. HandledAll(p, reqs) \in S BY <1>1, <1>2, HandledAllIn
<1>. QED BY <1>3 DEF S

(* What a Joy-Con says.                                                    *)
LEMMA AnswerType == ASSUME NEW p \in PadType, NEW q \in ReqType PROVE Answer(p, q) \in KindType
<1>1. q[2] \in Int BY DEF ReqType, KindType
<1>2. Streams(p) => NextFrag(p, q[2]) \in Int
  <2>1. Streams(p) => p.size \in 1..Len(Frags) BY JcWireAssumption DEF Streams, PadType
  <2>2. Streams(p) => Frags[p.size] \in Nat \ {0} BY <2>1, JcWireAssumption
  <2>3. Streams(p) => (q[2] + 1) % Frags[p.size] \in Int BY <1>1, <2>2
  <2>4. p.sent \in Int BY DEF PadType
  <2>. QED BY <2>3, <2>4 DEF NextFrag
<1>4. \A n \in Names : Msg(n) \in KindType BY DEF Msg, KindType
<1>5. Streams(p) => <<"frag", NextFrag(p, q[2])>> \in KindType BY <1>2 DEF KindType, Names
<1>6. /\ Msg("ack03") \in KindType /\ Msg("ack22") \in KindType /\ Msg("ack40") \in KindType
      /\ Msg("standby") \in KindType /\ Msg("ir") \in KindType /\ Msg("busy") \in KindType
      /\ Msg("mode") \in KindType /\ Msg("size") \in KindType /\ Msg("regs") \in KindType
      /\ Msg("lights") \in KindType /\ Nothing \in KindType /\ Msg("other") \in KindType
  BY <1>4 DEF Names, Nothing
<1>7. Msg(IF p.mcu \in {"standby", "ir"} THEN p.mcu ELSE "busy") \in KindType
  BY <1>6
<1>. QED BY <1>5, <1>6, <1>7 DEF Answer

(* What is said comes as a sequence of pieces.                             *)
LEMMA ReportType == ASSUME NEW k \in KindType PROVE Report(k) \in Seq(PieceType)
<1>1. Size(k) \in 1..2 BY DEF Size
<1>2. Piece("head", k) \in PieceType /\ Piece("body", k) \in PieceType
  BY DEF Piece, PieceType
<1>3. <<Piece("head", k)>> \in Seq(PieceType) BY <1>2
<1>4. [i \in 1..Size(k) |-> Piece("body", k)] \in Seq(PieceType) BY <1>1, <1>2
<1>5. <<>> \in Seq(PieceType) OBVIOUS
<1>. QED BY <1>3, <1>4, <1>5 DEF Report

(* A Joy-Con as it powers up is quiet.                                     *)
LEMMA PadIsOne == ASSUME NEW on \in BOOLEAN
    PROVE Pad(on) \in PadType /\ Pad(on).on = on /\ ~Pad(on).buzz /\ Clean(Pad(on))
  BY JcWireAssumption DEF Pad, PadType, NoFrag, Clean

(* An acknowledgement is a message.                                        *)
LEMMA AckType == ASSUME NEW q \in ReqType PROVE AckOf(q) \in KindType
  BY AnswerType, PadIsOne DEF AckOf

(* What is received is pieces, and a report what they make.                *)
LEMMA RecvType ==
    ASSUME NEW rx \in Seq(PieceType)
    PROVE  Recv(rx).rx \in Seq(PieceType) /\ Recv(rx).got \in KindType
<1>. DEFINE heads == {i \in 1..Len(rx) : rx[i].part = "head"}
            l == Synced(rx)
            n == IF l = <<>> THEN 0 ELSE Size(l[1].kind)
            rest == {l[i] : i \in 2..(n + 1)}
<1>1. l \in Seq(PieceType)
  <2>1. CASE heads = {} BY <2>1 DEF Synced
  <2>2. CASE heads # {}
    <3>1. Min(heads) \in 1..Len(rx)
      <4>1. heads \subseteq 1..Len(rx) /\ heads \subseteq Nat OBVIOUS
      <4>. HIDE DEF heads
      <4>. QED BY <2>2, <4>1, MinIs
    <3>2. l = SubSeq(rx, Min(heads), Len(rx)) BY <2>2 DEF Synced
    <3>. HIDE DEF heads, l
    <3>. QED BY <3>1, <3>2
  <2>. QED BY <2>1, <2>2
<1>2. Msg("none") \in KindType /\ Msg("junk") \in KindType BY DEF Msg, KindType, Names
<1>. HIDE DEF l
<1>3. CASE l = <<>> \/ Len(l) < n + 1
  <2>1. Recv(rx) = [got |-> None, rx |-> l] BY <1>3 DEF Recv, l
  <2>. QED BY <1>1, <1>2, <2>1 DEF None
<1>4. CASE ~(l = <<>> \/ Len(l) < n + 1)
  <2>1. Recv(rx) = [got |-> IF Cardinality(rest) = 1 THEN Made(l[1].kind, l[2]) ELSE Junk,
                    rx |-> SubSeq(l, n + 2, Len(l))]
    BY <1>4 DEF Recv, l
  <2>2. n \in 1..2 BY <1>4 DEF Size
  <2>3. Len(l) \in Nat /\ Len(l) >= 2 /\ 2 \in 1..Len(l) BY <1>1, <1>4, <2>2
  <2>4. l[2].kind \in KindType
    <3>1. l[2] \in PieceType BY <1>1, <2>3
    <3>. QED BY <3>1 DEF PieceType
  <2>5. SubSeq(l, n + 2, Len(l)) \in Seq(PieceType) BY <1>1, <2>2, <2>3
  <2>6. Made(l[1].kind, l[2]) \in KindType BY <1>2, <2>4 DEF Made, Junk
  <2>. HIDE DEF n, rest
  <2>7. Recv(rx).got \in KindType BY <1>2, <2>1, <2>6 DEF Junk
  <2>. QED BY <2>1, <2>5, <2>7
<1>. QED BY <1>3, <1>4

\* What is left of a sequence of pieces when the first m are read.
RestOf(rest, rx, m) ==
    /\ m \in 0..Len(rx) /\ rest \in Seq(PieceType) /\ Len(rest) = Len(rx) - m
    /\ \A i \in 1..Len(rest) : rest[i] = rx[m + i]

(* What is left of what was left.                                          *)
LEMMA RestOfRest ==
    ASSUME NEW rx \in Seq(PieceType), NEW s, NEW m, RestOf(s, rx, m), NEW r, NEW k, RestOf(r, s, k)
    PROVE  RestOf(r, rx, m + k)
<1>1. /\ m \in 0..Len(rx) /\ Len(s) = Len(rx) - m /\ \A i \in 1..Len(s) : s[i] = rx[m + i]
      /\ k \in 0..Len(s) /\ r \in Seq(PieceType) /\ Len(r) = Len(s) - k
      /\ \A i \in 1..Len(r) : r[i] = s[k + i]
      /\ Len(rx) \in Nat
  BY DEF RestOf
<1>2. m + k \in 0..Len(rx) /\ Len(r) = Len(rx) - (m + k) BY <1>1
<1>3. ASSUME NEW i \in 1..Len(r) PROVE r[i] = rx[(m + k) + i]
  <2>1. k + i \in 1..Len(s) /\ m + (k + i) = (m + k) + i BY <1>1
  <2>2. r[i] = s[k + i] /\ s[k + i] = rx[m + (k + i)] BY <1>1, <2>1
  <2>. QED BY <2>1, <2>2
<1>. QED BY <1>1, <1>2, <1>3 DEF RestOf

(* The end of a sequence is what is left of it.                            *)
LEMMA EndIsRest ==
    ASSUME NEW rx \in Seq(PieceType), NEW m \in 0..Len(rx)
    PROVE  RestOf(SubSeq(rx, m + 1, Len(rx)), rx, m)
  BY DEF RestOf

(* gui_jc_recv takes a front of what is there, and a report it makes of it *)
(* is one a piece of which is in that front.                               *)
LEMMA RecvTakes ==
    ASSUME NEW rx \in Seq(PieceType)
    PROVE  \E m : /\ RestOf(Recv(rx).rx, rx, m)
                  /\ Recv(rx).got \notin {None, Junk} =>
                       \E j \in 1..m : rx[j] = Piece("body", Recv(rx).got)
<1>. DEFINE heads == {i \in 1..Len(rx) : rx[i].part = "head"}
            l == Synced(rx)
            n == IF l = <<>> THEN 0 ELSE Size(l[1].kind)
            rest == {l[i] : i \in 2..(n + 1)}
<1>1. \E m : RestOf(l, rx, m)
  <2>1. CASE heads = {}
    <3>1. l = <<>> BY <2>1 DEF Synced
    <3>2. RestOf(<<>>, rx, Len(rx)) BY DEF RestOf
    <3>. QED BY <3>1, <3>2
  <2>2. CASE heads # {}
    <3>1. Min(heads) \in 1..Len(rx)
      <4>1. heads \subseteq 1..Len(rx) /\ heads \subseteq Nat OBVIOUS
      <4>. HIDE DEF heads
      <4>. QED BY <2>2, <4>1, MinIs
    <3>2. l = SubSeq(rx, Min(heads), Len(rx)) BY <2>2 DEF Synced
    <3>. HIDE DEF heads, l
    <3>3. Min(heads) - 1 \in 0..Len(rx) /\ (Min(heads) - 1) + 1 = Min(heads) BY <3>1
    <3>4. RestOf(SubSeq(rx, (Min(heads) - 1) + 1, Len(rx)), rx, Min(heads) - 1) BY <3>3, EndIsRest
    <3>. QED BY <3>2, <3>3, <3>4
  <2>. QED BY <2>1, <2>2
<1>2. PICK m : RestOf(l, rx, m) BY <1>1
<1>3. l \in Seq(PieceType) BY <1>2 DEF RestOf
<1>. HIDE DEF l
<1>4. CASE l = <<>> \/ Len(l) < n + 1
  <2>1. Recv(rx) = [got |-> None, rx |-> l] BY <1>4 DEF Recv, l
  <2>. QED BY <1>2, <2>1
<1>5. CASE ~(l = <<>> \/ Len(l) < n + 1)
  <2>1. Recv(rx) = [got |-> IF Cardinality(rest) = 1 THEN Made(l[1].kind, l[2]) ELSE Junk,
                    rx |-> SubSeq(l, n + 2, Len(l))]
    BY <1>5 DEF Recv, l
  <2>2. n \in 1..2 BY <1>5 DEF Size
  <2>3. Len(l) \in Nat /\ Len(l) >= n + 1 /\ 2 \in 1..Len(l) /\ n + 1 \in 0..Len(l) /\ (n + 1) + 1 = n + 2
    BY <1>3, <1>5, <2>2
  <2>4. RestOf(SubSeq(l, n + 2, Len(l)), l, n + 1)
    <3>. HIDE DEF n
    <3>1. RestOf(SubSeq(l, (n + 1) + 1, Len(l)), l, n + 1) BY <1>3, <2>3, EndIsRest
    <3>. QED BY <2>3, <3>1
  <2>. HIDE DEF n, rest
  <2>5. RestOf(Recv(rx).rx, rx, m + (n + 1)) BY <1>2, <2>1, <2>4, RestOfRest
  <2>6. ASSUME Recv(rx).got \notin {None, Junk}
        PROVE  \E j \in 1..(m + (n + 1)) : rx[j] = Piece("body", Recv(rx).got)
    <3>1. l[2] \in PieceType /\ l[2].part = "body" /\ Recv(rx).got = l[2].kind
      <4>1. l[2] \in PieceType BY <1>3, <2>3
      <4>2. Recv(rx).got = Made(l[1].kind, l[2]) BY <2>1, <2>6
      <4>. QED BY <2>6, <4>1, <4>2 DEF Made
    <3>2. l[2] = Piece("body", Recv(rx).got) BY <3>1 DEF PieceType, Piece
    <3>3. m \in Nat /\ rx[m + 2] = l[2] /\ m + 2 \in 1..(m + (n + 1))
      BY <1>2, <2>2, <2>3 DEF RestOf
    <3>. QED BY <3>2, <3>3
  <2>. QED BY <2>5, <2>6
<1>. QED BY <1>4, <1>5

\* The function PastAck is computed by: what is left after each report.
LeftAfter(rx) ==
    CHOOSE left : left = [i \in 0..Len(rx) |-> IF i = 0 THEN rx ELSE Recv(left[i - 1]).rx]

\* And what it is, up to the report n.
IsLeft(f, rx, n) == f = [i \in 0..n |-> IF i = 0 THEN rx ELSE Recv(f[i - 1]).rx]

(* There is one, and it is what it should be after each report.            *)
LEMMA LeftEach ==
    ASSUME NEW rx \in Seq(PieceType)
    PROVE  /\ LeftAfter(rx)[0] = rx
           /\ \A i \in 1..Len(rx) : LeftAfter(rx)[i] = Recv(LeftAfter(rx)[i - 1]).rx
<1>. DEFINE bad == {n \in Nat : ~\E f : IsLeft(f, rx, n)}
<1>1. ASSUME bad # {} PROVE FALSE
  <2>1. PICK n \in bad : \A k \in bad : n <= k
    <3>1. bad \subseteq Nat OBVIOUS
    <3>. HIDE DEF bad
    <3>. QED BY <1>1, <3>1, LeastNatural
  <2>2. n # 0
    <3>1. IsLeft([i \in 0..0 |-> rx], rx, 0) BY DEF IsLeft
    <3>. QED BY <2>1, <3>1
  <2>3. n - 1 \in Nat /\ n - 1 \notin bad BY <2>1, <2>2
  <2>4. PICK f : IsLeft(f, rx, n - 1) BY <2>3
  <2>. DEFINE g == [i \in 0..n |-> IF i = n THEN Recv(f[n - 1]).rx ELSE f[i]]
  <2>5. ASSUME NEW i \in 0..n PROVE g[i] = IF i = 0 THEN rx ELSE Recv(g[i - 1]).rx
    <3>1. CASE i = n
      <4>1. n - 1 \in 0..n /\ n - 1 # n BY <2>1, <2>2
      <4>2. g[n - 1] = f[n - 1] BY <4>1
      <4>. QED BY <2>2, <3>1, <4>2
    <3>2. CASE i # n
      <4>1. i \in 0..(n - 1) BY <2>1, <3>2
      <4>2. f[i] = IF i = 0 THEN rx ELSE Recv(f[i - 1]).rx BY <2>4, <4>1 DEF IsLeft
      <4>3. i # 0 => i - 1 \in 0..n /\ i - 1 # n BY <2>1, <4>1
      <4>. QED BY <3>2, <4>2, <4>3
    <3>. QED BY <3>1, <3>2
  <2>6. IsLeft(g, rx, n) BY <2>5 DEF IsLeft
  <2>. QED BY <2>1, <2>6
<1>2. Len(rx) \in Nat OBVIOUS
<1>3. \E f : IsLeft(f, rx, Len(rx)) BY <1>1, <1>2
<1>4. IsLeft(LeftAfter(rx), rx, Len(rx)) BY <1>3 DEF IsLeft, LeftAfter
<1>. QED BY <1>2, <1>4 DEF IsLeft

(* What is left after any number of reports is the end of what was there.  *)
LEMMA LeftIsRest ==
    ASSUME NEW rx \in Seq(PieceType), NEW i \in 0..Len(rx)
    PROVE  \E m : RestOf(LeftAfter(rx)[i], rx, m)
<1>. DEFINE f == LeftAfter(rx)
            bad == {k \in 0..Len(rx) : ~\E m : RestOf(f[k], rx, m)}
<1>1. ASSUME bad # {} PROVE FALSE
  <2>1. PICK n \in bad : \A k \in bad : n <= k
    <3>1. bad \subseteq Nat OBVIOUS
    <3>. HIDE DEF bad
    <3>. QED BY <1>1, <3>1, LeastNatural
  <2>2. n # 0
    <3>1. RestOf(rx, rx, 0) BY DEF RestOf
    <3>. QED BY <2>1, <3>1, LeftEach
  <2>3. n - 1 \in 0..Len(rx) /\ n - 1 \notin bad /\ n \in 1..Len(rx) BY <2>1, <2>2
  <2>4. PICK m : RestOf(f[n - 1], rx, m) BY <2>3
  <2>5. f[n] = Recv(f[n - 1]).rx BY <2>3, LeftEach
  <2>6. f[n - 1] \in Seq(PieceType) BY <2>4 DEF RestOf
  <2>. HIDE DEF f
  <2>7. PICK k : RestOf(Recv(f[n - 1]).rx, f[n - 1], k) BY <2>6, RecvTakes
  <2>8. RestOf(f[n], rx, m + k) BY <2>4, <2>5, <2>7, RestOfRest
  <2>. QED BY <2>1, <2>8 DEF f
<1>. QED BY <1>1

(* An acknowledgement is no noise.                                         *)
LEMMA AckIsReport == ASSUME NEW q PROVE AckOf(q) \notin {None, Junk}
  BY DEF AckOf, Answer, Pad, Streams, Msg, None, Junk, Nothing

(* What is left past an acknowledgement is the end of what was there, and  *)
(* the acknowledgement came before it.                                     *)
LEMMA PastAckIs ==
    ASSUME NEW rx \in Seq(PieceType), NEW q, NEW rest \in PastAck(rx, q)
    PROVE  \E m : RestOf(rest, rx, m) /\ \E j \in 1..m : rx[j] = Piece("body", AckOf(q))
<1>. DEFINE f == LeftAfter(rx)
            acks == {i \in 0..Len(rx) : Recv(f[i]).got = AckOf(q)}
            i == Min(acks)
<1>1. acks # {} /\ rest = Recv(f[i]).rx
  <2>1. PastAck(rx, q) = IF acks = {} THEN {} ELSE {Recv(f[i]).rx}
    BY Zenon DEF PastAck, LeftAfter
  <2>. HIDE DEF acks, i, f
  <2>. QED BY <2>1
<1>2. i \in acks
  <2>1. acks \subseteq Nat OBVIOUS
  <2>. HIDE DEF acks
  <2>. QED BY <1>1, <2>1, MinIs
<1>3. i \in 0..Len(rx) /\ Recv(f[i]).got = AckOf(q) BY <1>2
<1>. HIDE DEF i
<1>4. PICK m : RestOf(f[i], rx, m) BY <1>3, LeftIsRest
<1>5. f[i] \in Seq(PieceType) BY <1>4 DEF RestOf
<1>. HIDE DEF f
<1>6. PICK k : /\ RestOf(Recv(f[i]).rx, f[i], k)
               /\ Recv(f[i]).got \notin {None, Junk} =>
                    \E j \in 1..k : f[i][j] = Piece("body", Recv(f[i]).got)
  BY <1>5, RecvTakes
<1>7. PICK j \in 1..k : f[i][j] = Piece("body", AckOf(q)) BY <1>3, <1>6, AckIsReport
<1>8. RestOf(rest, rx, m + k) BY <1>1, <1>4, <1>6, RestOfRest
<1>9. m + j \in 1..(m + k) /\ rx[m + j] = f[i][j] BY <1>4, <1>6 DEF RestOf
<1>. QED BY <1>7, <1>8, <1>9

(* There is one, and it is what it should be after each request.           *)
LEMMA ReceivedEach ==
    ASSUME NEW p, NEW rx, NEW reqs \in Seq(ReqType)
    PROVE  /\ Received(p, rx, reqs)[0] = rx
           /\ \A n \in 1..Len(reqs) : Received(p, rx, reqs)[n] =
                Received(p, rx, reqs)[n - 1] \o Reply(p, reqs, n)
<1>. DEFINE D(i) == Reply(p, reqs, i)
            IsB(f, n) == f = [i \in 0..n |-> IF i = 0 THEN rx ELSE f[i - 1] \o D(i)]
            bad == {n \in Nat : ~\E f : IsB(f, n)}
<1>1. ASSUME bad # {} PROVE FALSE
  <2>. HIDE DEF D, IsB
  <2>1. PICK n \in bad : \A k \in bad : n <= k
    <3>1. bad \subseteq Nat OBVIOUS
    <3>. HIDE DEF bad
    <3>. QED BY <1>1, <3>1, LeastNatural
  <2>2. n # 0
    <3>1. IsB([i \in 0..0 |-> rx], 0) BY DEF IsB
    <3>. QED BY <2>1, <3>1
  <2>3. n - 1 \in Nat /\ n - 1 \notin bad BY <2>1, <2>2
  <2>4. PICK f : IsB(f, n - 1) BY <2>3
  <2>. DEFINE g == [i \in 0..n |-> IF i = n THEN f[n - 1] \o D(n) ELSE f[i]]
  <2>5. ASSUME NEW i \in 0..n PROVE g[i] = IF i = 0 THEN rx ELSE g[i - 1] \o D(i)
    <3>1. CASE i = n
      <4>1. n - 1 \in 0..n /\ n - 1 # n BY <2>1, <2>2
      <4>2. g[n - 1] = f[n - 1] BY <4>1
      <4>. QED BY <2>2, <3>1, <4>2
    <3>2. CASE i # n
      <4>1. i \in 0..(n - 1) BY <2>1, <3>2
      <4>2. f[i] = IF i = 0 THEN rx ELSE f[i - 1] \o D(i) BY <2>4, <4>1 DEF IsB
      <4>3. i # 0 => i - 1 \in 0..n /\ i - 1 # n BY <2>1, <4>1
      <4>. QED BY <3>2, <4>2, <4>3
    <3>. QED BY <3>1, <3>2
  <2>6. IsB(g, n) BY <2>5 DEF IsB
  <2>. QED BY <2>1, <2>6
<1>2. Len(reqs) \in Nat OBVIOUS
<1>. DEFINE f == Received(p, rx, reqs)
<1>3. \E h : IsB(h, Len(reqs)) BY <1>1, <1>2
<1>4. f = CHOOSE h : IsB(h, Len(reqs)) BY DEF Received
<1>5. IsB(f, Len(reqs))
  <2>. HIDE DEF IsB, f
  <2>. QED BY <1>3, <1>4, Zenon
<1>6. 0 \in 0..Len(reqs) /\ \A n \in 1..Len(reqs) : n \in 0..Len(reqs) /\ n # 0 BY <1>2
<1>. HIDE DEF f, D
<1>7. f[0] = rx /\ \A n \in 1..Len(reqs) : f[n] = f[n - 1] \o D(n) BY <1>5, <1>6
<1>. QED BY <1>7 DEF f, D

(* What comes back is pieces.                                              *)
LEMMA ReceivedType ==
    ASSUME NEW p \in PadType, NEW rx \in Seq(PieceType), NEW reqs \in Seq(ReqType),
           NEW n \in 0..Len(reqs)
    PROVE  Received(p, rx, reqs)[n] \in Seq(PieceType)
<1>. DEFINE f == Received(p, rx, reqs)
            D(i) == Reply(p, reqs, i)
            bad == {k \in 0..Len(reqs) : f[k] \notin Seq(PieceType)}
<1>1. ASSUME NEW i \in 1..Len(reqs) PROVE D(i) \in Seq(PieceType)
  <2>1. SubSeq(reqs, 1, i - 1) \in Seq(ReqType) /\ reqs[i] \in ReqType OBVIOUS
  <2>2. HandledAll(p, SubSeq(reqs, 1, i - 1)) \in PadType BY <2>1, AllType
  <2>. QED BY <2>1, <2>2, AnswerType, ReportType DEF Reply
<1>2. f[0] = rx BY ReceivedEach
<1>4. ASSUME NEW i \in 1..Len(reqs) PROVE f[i] = f[i - 1] \o D(i) BY ReceivedEach
<1>. HIDE DEF f, D
<1>3. ASSUME bad # {} PROVE FALSE
  <2>1. PICK k \in bad : \A j \in bad : k <= j
    <3>1. bad \subseteq Nat OBVIOUS
    <3>. HIDE DEF bad
    <3>. QED BY <1>3, <3>1, LeastNatural
  <2>2. k # 0 BY <1>2, <2>1
  <2>3. k - 1 \in 0..Len(reqs) /\ k - 1 \notin bad /\ k \in 1..Len(reqs) BY <2>1, <2>2
  <2>4. f[k - 1] \in Seq(PieceType) /\ D(k) \in Seq(PieceType) /\ f[k] = f[k - 1] \o D(k)
    BY <1>1, <1>4, <2>3
  <2>5. f[k] \in Seq(PieceType) BY <2>4
  <2>. QED BY <2>1, <2>5
<1>. QED BY <1>3 DEF f

(* A request that was acknowledged is the Joy-Con's last, after all that   *)
(* was on its way; one that was not leaves its rail in doubt.              *)
LEMMA SubcmdsDo ==
    ASSUME NEW p \in PadType, NEW rail \in RailType, NEW q, NEW Q, Q \subseteq ReqType,
           q \in Q, rail.inbox \in Seq(Q), NEW o \in Subcmds(p, rail, q)
    PROVE  /\ o.rail \in RailType /\ o.rail.owned = rail.owned /\ o.rail.inbox \in Seq(Q)
           /\ Len(o.rail.inbox) <= Len(rail.inbox) + 1
           /\ o.ok \in BOOLEAN /\ (o.rail.doubt <=> rail.doubt \/ ~o.ok)
           /\ \E reqs \in Seq(Q) : o.pad = HandledAll(p, reqs)
           /\ o.ok => p.on /\ HandledAll(o.pad, o.rail.inbox) = Handled(HandledAll(p, rail.inbox), q)
<1>. DEFINE reqs == Append(rail.inbox, q)
            back == Received(p, rail.rx, rail.inbox)
            early == {n \in 0..Len(rail.inbox) : PastAck(back[n], q) # {}}
            n == Min(early)
            done == HandledAll(p, reqs)
            Out(pad, rest, inbox, ok) ==
              [pad |-> pad, ok |-> ok,
               rail |-> [rail EXCEPT !.rx = rest, !.inbox = inbox, !.doubt = @ \/ ~ok]]
            Fits(pad, rest, inbox, ok) ==
              /\ rest \in Seq(PieceType) /\ inbox \in Seq(Q) /\ Len(inbox) <= Len(rail.inbox) + 1
              /\ ok \in BOOLEAN /\ \E all \in Seq(Q) : pad = HandledAll(p, all)
              /\ ok => p.on /\ HandledAll(pad, inbox) = Handled(HandledAll(p, rail.inbox), q)
<1>1. /\ rail.rx \in Seq(PieceType) /\ rail.inbox \in Seq(ReqType) /\ q \in ReqType
      /\ rail = [owned |-> rail.owned, rx |-> rail.rx, inbox |-> rail.inbox, doubt |-> rail.doubt]
      /\ rail.owned \in BOOLEAN /\ rail.doubt \in BOOLEAN
      /\ Len(rail.inbox) \in Nat /\ Len(rail.rx) \in Nat /\ <<>> \in Seq(Q) /\ Len(<<>>) = 0
      /\ Seq(Q) \subseteq Seq(ReqType) /\ reqs \in Seq(Q)
      /\ Len(reqs) = Len(rail.inbox) + 1
  BY DEF RailType
<1>2. p.on => done = Handled(HandledAll(p, rail.inbox), q) BY HandledAllLast
<1>3. \A pad : HandledAll(pad, <<>>) = pad BY HandledAllNone
<1>4. \E pad, rest, inbox, ok : o = Out(pad, rest, inbox, ok) /\ Fits(pad, rest, inbox, ok)
  <2>1. CASE ~p.on
    <3>1. o = Out(p, <<>>, <<>>, FALSE) BY <2>1 DEF Subcmds
    <3>2. \E all \in Seq(Q) : p = HandledAll(p, all) BY <1>1, <1>3
    <3>3. <<>> \in Seq(PieceType) OBVIOUS
    <3>4. Fits(p, <<>>, <<>>, FALSE) BY <1>1, <3>2, <3>3
    <3>. HIDE DEF Out, Fits
    <3>. QED BY <3>1, <3>4
  <2>2. CASE p.on /\ early # {}
    <3>. DEFINE a == SubSeq(reqs, 1, n)
                b == SubSeq(reqs, n + 1, Len(reqs))
    <3>1. o \in {Out(HandledAll(p, a), rest, b, TRUE) : rest \in PastAck(back[n], q)}
      BY <2>2, Zenon DEF Subcmds
    <3>2. PICK rest \in PastAck(back[n], q) : o = Out(HandledAll(p, a), rest, b, TRUE)
      <4>. HIDE DEF a, b, Out, back, n
      <4>. QED BY <3>1
    <3>3. n \in 0..Len(rail.inbox)
      <4>1. early \subseteq Nat /\ early \subseteq 0..Len(rail.inbox) BY <1>1
      <4>. HIDE DEF early
      <4>. QED BY <2>2, <4>1, MinIs
    <3>. HIDE DEF n
    <3>4. back[n] \in Seq(PieceType) BY <1>1, <3>3, ReceivedType
    <3>5. rest \in Seq(PieceType)
      <4>. HIDE DEF back
      <4>. QED BY <3>4, PastAckIs DEF RestOf
    <3>. HIDE DEF reqs
    <3>6. /\ a \in Seq(Q) /\ b \in Seq(Q) /\ Len(b) <= Len(rail.inbox) + 1 /\ n \in 0..Len(reqs)
      BY <1>1, <3>3
    <3>7. HandledAll(p, a).on BY <1>1, <2>2, <3>6, AllType
    <3>8. HandledAll(HandledAll(p, a), b) = done BY <1>1, <2>2, <3>6, <3>7, HandledAllSplit
    <3>. HIDE DEF a, b, done
    <3>9. Fits(HandledAll(p, a), rest, b, TRUE) BY <1>2, <2>2, <3>5, <3>6, <3>8
    <3>. HIDE DEF Out, Fits
    <3>. QED BY <3>2, <3>9
  <2>3. CASE p.on /\ early = {}
    <3>1. o \in {Out(done, <<>>, <<>>, TRUE), Out(done, Report(AckOf(q)), <<>>, TRUE),
                 Out(done, <<>>, <<>>, FALSE), Out(HandledAll(p, rail.inbox), <<>>, <<>>, FALSE)}
      BY <2>3, Zenon DEF Subcmds
    <3>2. Report(AckOf(q)) \in Seq(PieceType) BY <1>1, AckType, ReportType
    <3>3. \E all \in Seq(Q) : done = HandledAll(p, all) BY <1>1
    <3>. HIDE DEF done
    <3>4. \E all \in Seq(Q) : HandledAll(p, rail.inbox) = HandledAll(p, all) OBVIOUS
    <3>5. <<>> \in Seq(PieceType) OBVIOUS
    <3>6. /\ Fits(done, <<>>, <<>>, TRUE) /\ Fits(done, Report(AckOf(q)), <<>>, TRUE)
          /\ Fits(done, <<>>, <<>>, FALSE) /\ Fits(HandledAll(p, rail.inbox), <<>>, <<>>, FALSE)
      BY <1>1, <1>2, <1>3, <2>3, <3>2, <3>3, <3>4, <3>5
    <3>. HIDE DEF Fits, Out
    <3>. QED BY <3>1, <3>6
  <2>. HIDE DEF Out, Fits, early
  <2>. QED BY <2>1, <2>2, <2>3
<1>5. PICK pad, rest, inbox, ok : o = Out(pad, rest, inbox, ok) /\ Fits(pad, rest, inbox, ok)
  <2>. HIDE DEF Out, Fits
  <2>. QED BY <1>4
<1>6. /\ o.pad = pad /\ o.ok = ok
      /\ o.rail = [owned |-> rail.owned, rx |-> rest, inbox |-> inbox, doubt |-> rail.doubt \/ ~ok]
  BY <1>1, <1>5
<1>7. o.rail \in RailType BY <1>1, <1>5, <1>6 DEF RailType
<1>. QED BY <1>5, <1>6, <1>7

\* A tour stays the same, and every screen is one of them.
ScreenInv == gui \in GuiType /\ tour \in Tours

(* Every step leaves a screen that is one of them.                         *)
LEMMA ScreenStep == ASSUME ScreenInv, [Next]_vars PROVE ScreenInv'
<1>1. tour' = tour /\ (UNCHANGED vars => UNCHANGED gui)
  BY DEF Next, vars, Chooses, Backs, AgainInBox, Deeper, CheckAll, CheckSome, CheckAgain, LastResults,
         Switches, TakesRails, NavPoll, PicksPort, TestTick, Rumbles, CameraStep, CameraButton,
         OnCamera, MotionStep, RailStep, RailLoss, OnRails, HandStep, GlowStep, CheckStep, CheckEnds,
         RamStart, Screenshot, TouchRead, TestTasks, FingerStep
<1>2. gui \in GuiType BY DEF ScreenInv
<1>3. ASSUME NEW screen \in Screens PROVE [gui EXCEPT !.pending = screen] \in GuiType
  BY <1>2 DEF GuiType
<1>4. ASSUME NEW box \in BOOLEAN PROVE [gui EXCEPT !.box = box] \in GuiType
  BY <1>2 DEF GuiType
<1>5. ASSUME NEW screen \in Screens
      PROVE  Plain(screen) \in GuiType /\ Built(screen) \in GuiType
  <2>1. Plain(screen) \in GuiType BY DEF Plain, GuiType, Unasked
  <2>2. screen = "touch" => [Plain(screen) EXCEPT !.sink = screen] \in GuiType
    BY <2>1 DEF GuiType
  <2>3. screen = "screen" => [Plain(screen) EXCEPT !.nav = FALSE, !.sink = screen] \in GuiType
    BY <2>1 DEF GuiType
  <2>4. /\ [Plain(screen) EXCEPT !.nav = FALSE] \in GuiType
        /\ [Plain(screen) EXCEPT !.nav = FALSE, !.back = "joycon", !.busy = TRUE] \in GuiType
        /\ [Plain(screen) EXCEPT !.hold = TRUE] \in GuiType
    BY <2>1 DEF GuiType
  <2>. QED BY <2>1, <2>2, <2>3, <2>4 DEF Built
<1>6. /\ {"home", "joycon", "motion", "ir", "touch", "screen", "ram", "custom", "run", "results", "ramtest"}
           \subseteq Screens
      /\ HomeChoices \subseteq Screens
  BY DEF Screens, HomeChoices
<1>7. ASSUME Chooses \/ Backs \/ AgainInBox \/ Deeper \/ CheckAll \/ CheckSome \/ CheckAgain \/ LastResults
      PROVE  \E screen \in Screens : gui' = [gui EXCEPT !.pending = screen]
  <2>1. gui.back \in Screens /\ gui.at \in Screens BY <1>2, <1>6 DEF GuiType
  <2>. QED BY <1>6, <1>7, <2>1
    DEF Chooses, Backs, AgainInBox, Deeper, CheckAll, CheckSome, CheckAgain,
                                   LastResults, Shows
<1>8. ASSUME Switches PROVE gui' \in GuiType
  <2>1. gui' = Built(gui.pending) /\ gui.pending \in Screens
    BY <1>2, <1>8 DEF Switches, GuiType, Unasked
  <2>. QED BY <1>5, <2>1
<1>9. ASSUME TakesRails PROVE gui' \in GuiType
  <2>1. gui' = [gui EXCEPT !.busy = FALSE] BY <1>9 DEF TakesRails
  <2>. QED BY <1>2, <2>1 DEF GuiType
<1>10. ASSUME CheckEnds PROVE gui' \in GuiType
  <2>1. gui' = [gui EXCEPT !.hold = FALSE, !.pending = "results"] BY <1>10 DEF CheckEnds
  <2>. QED BY <1>2, <1>6, <2>1 DEF GuiType
<1>11. ASSUME RamStart PROVE gui' \in GuiType
  <2>1. gui' = Plain("ramtest") \/ gui' = gui BY <1>11 DEF RamStart
  <2>. QED BY <1>2, <1>5, <1>6, <2>1
<1>12. ASSUME TouchRead \/ TestTasks PROVE gui' \in GuiType
  <2>1. gui' = [gui EXCEPT !.box = tt'.over \/ sc'.over] BY <1>12 DEF TouchRead, TestTasks
  <2>. QED BY <1>4, <2>1
<1>13. ASSUME NavPoll \/ PicksPort \/ TestTick \/ Rumbles \/ CameraStep \/ CameraButton \/ MotionStep
              \/ RailStep \/ RailLoss \/ HandStep \/ GlowStep \/ CheckStep \/ Screenshot \/ FingerStep
       PROVE gui' = gui
  BY <1>13 DEF NavPoll, PicksPort, TestTick, Rumbles, CameraStep, CameraButton, OnCamera, MotionStep,
               RailStep, RailLoss, OnRails, HandStep, GlowStep, CheckStep, Screenshot, FingerStep
<1>14. ASSUME Next PROVE gui' \in GuiType
  BY <1>2, <1>3, <1>7, <1>8, <1>9, <1>10, <1>11, <1>12, <1>13, <1>14, Zenon DEF Next
<1>. QED BY <1>1, <1>2, <1>14 DEF ScreenInv

(* The screens start at home.                                              *)
LEMMA ScreenInit == Init => ScreenInv
  BY DEF Init, Plain, ScreenInv, GuiType, Screens, Unasked

(* What the camera is asked for.                                           *)
LEMMA StepsAre == /\ DOMAIN Steps = 1..8 /\ Len(Steps) = 8
                  /\ \A i \in 1..8 : Steps[i] \in {"reports", "wake", "ready", "mode", "moded", "size",
                                                    "sensor", "lights"}
  BY DEF Steps

(* A step of the setup sends one or two requests of the camera.            *)
LEMMA RequestsType ==
    ASSUME NEW c \in CamType PROVE Requests(c) \in Seq(IrReqs) /\ Len(Requests(c)) \in 1..2
<1>1. c.size \in 1..Len(Frags) /\ c.step \in 1..8 /\ DOMAIN Frags = 1..Len(Frags)
  BY StepsAre, JcWireAssumption DEF CamType
<1>2. ASSUME NEW n \in Names, n # "size", n # "imu" PROVE Msg(n) \in IrReqs
  BY <1>2 DEF Msg, IrReqs, ReqType, KindType
<1>3. /\ Msg("mcu_reports") \in IrReqs /\ Msg("wake") \in IrReqs /\ Msg("status") \in IrReqs
      /\ Msg("ir_mode") \in IrReqs /\ Msg("regs") \in IrReqs /\ Msg("query") \in IrReqs
      /\ Msg("lights") \in IrReqs /\ <<"ack", 0>> \in IrReqs
  <2>1. Msg("ack") = <<"ack", 0>> BY DEF Msg
  <2>. QED BY <1>2, <2>1 DEF Names
<1>4. <<"size", c.size>> \in IrReqs
  BY <1>1 DEF IrReqs, ReqType, KindType, Names
<1>5. Steps[c.step] \in {"reports", "wake", "ready", "mode", "moded", "size", "sensor", "lights"}
  BY <1>1, StepsAre
<1>6. \A a \in IrReqs : <<a>> \in Seq(IrReqs) /\ Len(<<a>>) = 1
  OBVIOUS
<1>7. \A a, b \in IrReqs : <<a, b>> \in Seq(IrReqs) /\ Len(<<a, b>>) = 2
  OBVIOUS
<1>. QED BY <1>3, <1>4, <1>5, <1>6, <1>7 DEF Requests

\* The camera's setup never tries more often than a step allows.
CamOK(c) == /\ c \in CamType /\ c.tries <= Limit(c)
            /\ c.at = "setup" => c.tries < Limit(c)

\* One side: a Joy-Con and its rail.
SideOK(at, p, w) == /\ p \in PadType /\ w \in RailType /\ Len(w.inbox) <= MaxInbox
                    /\ Tidy(at, p, w)

\* Both sides, and the sensor screen that is open.
WireInv ==
    /\ pads \in [Sides -> PadType] /\ wire \in [Sides -> RailType]
    /\ \A s \in Sides : SideOK(gui.at, pads[s], wire[s])
    /\ losses \in 0..tour.losses /\ restarts \in Nat /\ mo \in [Sides -> MoType]
    /\ CamOK(cam) /\ CamInv

\* What the wire never changes of a Joy-Con.
Kept(p, q) == q.on = p.on /\ q.buzz = p.buzz

(* A rail whose parts are exchanged is one still.                          *)
LEMMA RailWith ==
    ASSUME NEW w \in RailType, NEW x \in Seq(PieceType), NEW y \in Seq(ReqType),
           NEW b \in BOOLEAN, NEW c \in BOOLEAN
    PROVE  /\ [w EXCEPT !.owned = b, !.inbox = y, !.rx = x] \in RailType
           /\ [w EXCEPT !.owned = b, !.rx = x, !.inbox = y] \in RailType
           /\ [w EXCEPT !.inbox = y, !.doubt = c] \in RailType
           /\ [w EXCEPT !.inbox = y, !.rx = x] \in RailType
  BY DEF RailType

(* What happens to a side: a Joy-Con takes its next request.               *)
LEMMA SideAnswers ==
    ASSUME NEW at \in {"ir", "motion"}, NEW p, NEW w, SideOK(at, p, w), w.owned, w.inbox # <<>>,
           NEW rx \in Seq(PieceType), NEW q, q = IF p.on THEN Handled(p, Head(w.inbox)) ELSE p
    PROVE  SideOK(at, q, [w EXCEPT !.inbox = Tail(@), !.rx = rx]) /\ Kept(p, q)
<1>. DEFINE v == [w EXCEPT !.inbox = Tail(@), !.rx = rx]
            m == Head(w.inbox)
<1>1. /\ p \in PadType /\ w \in RailType /\ w.inbox \in Seq(ReqType) /\ Len(w.inbox) <= MaxInbox
      /\ Tidy(at, p, w)
  BY DEF SideOK, RailType
<1>2. /\ v \in RailType /\ v.inbox = Tail(w.inbox) /\ v.owned /\ v.doubt = w.doubt
      /\ Len(v.inbox) <= MaxInbox /\ m \in ReqType
  <2>1. Tail(w.inbox) \in Seq(ReqType) /\ Len(Tail(w.inbox)) = Len(w.inbox) - 1 /\ m \in ReqType
        /\ Len(w.inbox) \in Nat
    BY <1>1
  <2>2. MaxInbox \in Nat BY JcWireAssumption
  <2>3. v \in RailType BY <1>1, <2>1, RailWith
  <2>4. v.inbox = Tail(w.inbox) /\ v.owned /\ v.doubt = w.doubt BY <1>1 DEF RailType
  <2>. HIDE DEF m, v
  <2>. QED BY <1>1, <2>1, <2>2, <2>3, <2>4
<1>3. q \in PadType /\ Kept(p, q) BY <1>1, <1>2, HandledType DEF Kept
<1>4. CASE at = "ir"
  <2>1. w.inbox \in Seq(IrReqs) /\ (p.on /\ ~w.doubt => ~p.imu) BY <1>1, <1>4 DEF Tidy
  <2>2. Tail(w.inbox) \in Seq(IrReqs) /\ m \in IrReqs BY <2>1
  <2>3. q.imu = p.imu BY <1>1, <2>2, HandledIr
  <2>4. Tidy(at, q, v) BY <1>2, <1>3, <1>4, <2>1, <2>2, <2>3 DEF Tidy, Kept
  <2>. HIDE DEF v
  <2>. QED BY <1>2, <1>3, <2>4 DEF SideOK, v
<1>5. CASE at = "motion"
  <2>1. w.inbox \in Seq(MoReqs) /\ (p.on /\ ~w.doubt => p.mcu = "off" /\ p.reports = "std")
    BY <1>1, <1>5 DEF Tidy
  <2>2. Tail(w.inbox) \in Seq(MoReqs) /\ m \in MoReqs BY <2>1
  <2>3. q.mcu = p.mcu /\ q.reports = p.reports BY <1>1, <2>2, HandledMo
  <2>4. Tidy(at, q, v) BY <1>2, <1>3, <1>5, <2>1, <2>2, <2>3 DEF Tidy, Kept
  <2>. QED BY <1>2, <1>3, <2>4 DEF SideOK
<1>. QED BY <1>4, <1>5

(* What is on the rail is read, or a piece or a request lost.              *)
LEMMA SideReads ==
    ASSUME NEW at, NEW p, NEW w, SideOK(at, p, w), NEW rx \in Seq(PieceType)
    PROVE  SideOK(at, p, [w EXCEPT !.rx = rx])
  BY DEF SideOK, Tidy, RailType

(* Garbled bytes leave the rail in doubt.                                  *)
LEMMA SideDoubts ==
    ASSUME NEW at, NEW p, NEW w, SideOK(at, p, w), NEW rx \in Seq(PieceType)
    PROVE  SideOK(at, p, [w EXCEPT !.rx = rx, !.doubt = TRUE])
  BY DEF SideOK, Tidy, RailType

(* A lost request leaves the rail in doubt.                                *)
LEMMA SideLoses ==
    ASSUME NEW at \in {"ir", "motion"}, NEW p, NEW w, SideOK(at, p, w), w.inbox # <<>>, w.owned
    PROVE  SideOK(at, p, [w EXCEPT !.inbox = Tail(@), !.doubt = TRUE])
<1>. DEFINE v == [w EXCEPT !.inbox = Tail(@), !.doubt = TRUE]
<1>1. /\ p \in PadType /\ w \in RailType /\ w.inbox \in Seq(ReqType) /\ Len(w.inbox) <= MaxInbox
      /\ Tidy(at, p, w) /\ MaxInbox \in Nat
  BY JcWireAssumption DEF SideOK, RailType
<1>2. Tail(w.inbox) \in Seq(ReqType) /\ Len(Tail(w.inbox)) = Len(w.inbox) - 1 /\ Len(w.inbox) \in Nat
  BY <1>1
<1>3. v \in RailType /\ v.owned /\ v.doubt /\ v.inbox = Tail(w.inbox) /\ Len(v.inbox) <= MaxInbox
  <2>1. v \in RailType BY <1>1, <1>2, RailWith DEF RailType
  <2>2. v.inbox = Tail(w.inbox) /\ v.owned /\ v.doubt BY <1>1 DEF RailType
  <2>. HIDE DEF v
  <2>. QED BY <1>1, <1>2, <2>1, <2>2
<1>4. /\ at = "ir" => Tail(w.inbox) \in Seq(IrReqs)
      /\ at = "motion" => Tail(w.inbox) \in Seq(MoReqs)
  BY <1>1 DEF Tidy
<1>5. Tidy(at, p, v) BY <1>3, <1>4 DEF Tidy
<1>. QED BY <1>1, <1>3, <1>5 DEF SideOK

(* The camera's screen sends, and puts the controller to sleep.            *)
LEMMA SideSends ==
    ASSUME NEW p, NEW w, SideOK("ir", p, w), w.owned, NEW reqs \in Seq(IrReqs),
           Len(w.inbox) + Len(reqs) <= MaxInbox
    PROVE  SideOK("ir", p, Send(w, reqs))
<1>. DEFINE v == Send(w, reqs)
<1>1. /\ p \in PadType /\ w \in RailType /\ w.inbox \in Seq(IrReqs) /\ Tidy("ir", p, w)
      /\ IrReqs \subseteq ReqType
  BY DEF SideOK, Tidy, IrReqs
<1>2. /\ w.inbox \o reqs \in Seq(IrReqs) /\ Len(w.inbox \o reqs) = Len(w.inbox) + Len(reqs)
      /\ Seq(IrReqs) \subseteq Seq(ReqType)
  BY <1>1
<1>3. v \in RailType /\ v.owned /\ v.doubt = w.doubt /\ v.inbox = w.inbox \o reqs
  BY <1>1, <1>2 DEF Send, RailType
<1>. HIDE DEF v
<1>4. Tidy("ir", p, v) BY <1>1, <1>2, <1>3 DEF Tidy
<1>. QED BY <1>1, <1>2, <1>3, <1>4 DEF SideOK, v

(* The camera's microcontroller told to sleep, the screen staying open.    *)
LEMMA SideSleeps ==
    ASSUME NEW p, NEW w, SideOK("ir", p, w), w.owned, NEW o \in Subcmds(p, w, Msg("sleep")),
           Len(o.rail.inbox) <= MaxInbox
    PROVE  SideOK("ir", o.pad, o.rail) /\ Kept(p, o.pad) /\ o.rail.owned
<1>1. /\ p \in PadType /\ w \in RailType /\ w.inbox \in Seq(IrReqs) /\ IrReqs \subseteq ReqType
      /\ (p.on /\ ~w.doubt => ~p.imu)
  BY DEF SideOK, Tidy, IrReqs
<1>2. Msg("sleep") \in IrReqs BY DEF Msg, IrReqs, ReqType, KindType, Names
<1>3. /\ o.rail \in RailType /\ o.rail.owned = w.owned /\ o.rail.inbox \in Seq(IrReqs)
      /\ (o.rail.doubt <=> w.doubt \/ ~o.ok) /\ \E reqs \in Seq(IrReqs) : o.pad = HandledAll(p, reqs)
  BY <1>1, <1>2, SubcmdsDo
<1>4. PICK reqs \in Seq(IrReqs) : o.pad = HandledAll(p, reqs) BY <1>3
<1>5. reqs \in Seq(ReqType) BY <1>1
<1>6. o.pad \in PadType /\ Kept(p, o.pad) /\ o.pad.imu = p.imu
  BY <1>1, <1>4, <1>5, AllType, AllIr DEF Kept
<1>7. Tidy("ir", o.pad, o.rail) BY <1>1, <1>3, <1>6 DEF Tidy, Kept
<1>. QED BY <1>3, <1>6, <1>7 DEF SideOK

(* A sensor screen takes a rail: the Joy-Con on it has its sensors off.    *)
LEMMA SideTaken ==
    ASSUME NEW p, NEW w, NEW at, SideOK(at, p, w), ~w.owned, NEW noise \in BOOLEAN
    PROVE  /\ SideOK("ir", p, Owned(w, noise)) /\ SideOK("motion", p, Owned(w, noise))
           /\ Owned(w, noise).owned /\ Owned(w, noise).inbox = <<>>
<1>. DEFINE v == Owned(w, noise)
<1>1. /\ p \in PadType /\ w \in RailType /\ (p.on /\ ~w.doubt => Clean(p)) /\ MaxInbox \in Nat
  BY JcWireAssumption DEF SideOK, Tidy
<1>2. Piece("body", Msg("other")) \in PieceType BY DEF Piece, Msg, PieceType, KindType, Names
<1>3. v \in RailType /\ v.owned /\ v.inbox = <<>> /\ v.doubt = w.doubt
  <2>1. <<>> \in Seq(ReqType) /\ <<>> \in Seq(PieceType) /\ <<Piece("body", Msg("other"))>> \in Seq(PieceType)
    BY <1>2
  <2>2. v \in RailType BY <1>1, <2>1, RailWith DEF Owned
  <2>. QED BY <1>1, <2>2 DEF Owned, RailType
<1>4. <<>> \in Seq(IrReqs) /\ <<>> \in Seq(MoReqs) /\ Len(<<>>) = 0 OBVIOUS
<1>. HIDE DEF v
<1>5. Tidy("ir", p, v) /\ Tidy("motion", p, v) BY <1>1, <1>3, <1>4 DEF Tidy, Clean
<1>. QED BY <1>1, <1>3, <1>4, <1>5 DEF SideOK, v

(* The motion sensor switched on.                                          *)
LEMMA SideSwitchedOn ==
    ASSUME NEW p, NEW w, SideOK("motion", p, w), w.owned, w.inbox = <<>>,
           NEW o \in Subcmds(p, w, <<"imu", 1>>)
    PROVE  SideOK("motion", o.pad, o.rail) /\ Kept(p, o.pad)
<1>1. /\ p \in PadType /\ w \in RailType /\ w.inbox \in Seq(MoReqs) /\ MoReqs \subseteq ReqType
      /\ (p.on /\ ~w.doubt => p.mcu = "off" /\ p.reports = "std")
  BY MoReqsAre DEF SideOK, Tidy
<1>2. <<"imu", 1>> \in MoReqs BY DEF MoReqs
<1>3. /\ o.rail \in RailType /\ o.rail.owned = w.owned /\ o.rail.inbox \in Seq(MoReqs)
      /\ (o.rail.doubt <=> w.doubt \/ ~o.ok) /\ \E reqs \in Seq(MoReqs) : o.pad = HandledAll(p, reqs)
      /\ Len(o.rail.inbox) <= Len(w.inbox) + 1
  BY <1>1, <1>2, SubcmdsDo
<1>4. PICK reqs \in Seq(MoReqs) : o.pad = HandledAll(p, reqs) BY <1>3
<1>5. reqs \in Seq(ReqType) BY <1>1
<1>6. o.pad \in PadType /\ Kept(p, o.pad) /\ o.pad.mcu = p.mcu /\ o.pad.reports = p.reports
  BY <1>1, <1>4, <1>5, AllType, AllMo DEF Kept
<1>7. Tidy("motion", o.pad, o.rail) BY <1>1, <1>3, <1>6 DEF Tidy, Kept
<1>8. Len(o.rail.inbox) <= MaxInbox
  <2>1. Len(w.inbox) = 0 /\ Len(o.rail.inbox) \in Nat /\ MaxInbox \in Nat /\ MaxInbox > 1
    BY <1>3, JcWireAssumption
  <2>. QED BY <1>3, <2>1
<1>. QED BY <1>3, <1>6, <1>7, <1>8 DEF SideOK

(* And gives it back, whatever the screen after it.                        *)
LEMMA SideReleased ==
    ASSUME NEW p \in PadType, NEW w \in RailType, p.on /\ ~w.doubt => Clean(p), NEW at
    PROVE  SideOK(at, p, Released(w))
<1>. DEFINE v == Released(w)
<1>1. v \in RailType /\ ~v.owned /\ v.inbox = <<>> /\ v.doubt = w.doubt
  <2>1. <<>> \in Seq(ReqType) /\ <<>> \in Seq(PieceType) OBVIOUS
  <2>2. v \in RailType BY <2>1, RailWith DEF Released
  <2>. QED BY <2>2 DEF Released, RailType
<1>2. Len(<<>>) <= MaxInbox BY JcWireAssumption
<1>3. Tidy(at, p, v) BY <1>1 DEF Tidy
<1>. QED BY <1>1, <1>2, <1>3 DEF SideOK

(* The motion sensor switched off, and its rail left with what was on its  *)
(* way.                                                                    *)
LEMMA SideSwitchedOff ==
    ASSUME NEW p, NEW w, SideOK("motion", p, w), w.owned, NEW o \in Subcmds(p, w, <<"imu", 0>>), NEW at
    PROVE  /\ SideOK(at, HandledAll(o.pad, o.rail.inbox), Released(o.rail))
           /\ Kept(p, HandledAll(o.pad, o.rail.inbox))
<1>. DEFINE end == HandledAll(o.pad, o.rail.inbox)
<1>1. /\ p \in PadType /\ w \in RailType /\ w.inbox \in Seq(MoReqs) /\ MoReqs \subseteq ReqType
      /\ (p.on /\ ~w.doubt => p.mcu = "off" /\ p.reports = "std")
  BY MoReqsAre DEF SideOK, Tidy
<1>2. <<"imu", 0>> \in MoReqs BY DEF MoReqs
<1>3. /\ o.rail \in RailType /\ o.rail.inbox \in Seq(MoReqs)
      /\ (o.rail.doubt <=> w.doubt \/ ~o.ok) /\ \E reqs \in Seq(MoReqs) : o.pad = HandledAll(p, reqs)
      /\ o.ok => p.on /\ end = Handled(HandledAll(p, w.inbox), <<"imu", 0>>)
  BY <1>1, <1>2, SubcmdsDo
<1>4. PICK reqs \in Seq(MoReqs) : o.pad = HandledAll(p, reqs) BY <1>3
<1>5. reqs \in Seq(ReqType) /\ o.rail.inbox \in Seq(ReqType) /\ w.inbox \in Seq(ReqType)
  BY <1>1, <1>3
<1>6. o.pad \in PadType /\ Kept(p, o.pad)
  BY <1>1, <1>4, <1>5, AllType DEF Kept
<1>7. end \in PadType /\ Kept(p, end) BY <1>5, <1>6, AllType DEF Kept
<1>8. ASSUME p.on, ~o.rail.doubt PROVE Clean(end)
  <2>. DEFINE r == HandledAll(p, w.inbox)
  <2>1. r \in PadType /\ r.mcu = "off" /\ r.reports = "std"
    BY <1>1, <1>3, <1>5, <1>8, AllType, AllMo
  <2>2. end = Handled(r, <<"imu", 0>>) BY <1>3, <1>8
  <2>. HIDE DEF r, end
  <2>3. end.mcu = "off" /\ end.reports = "std" /\ end.imu = (<<"imu", 0>>[2] = 1)
    BY <1>2, <2>1, <2>2, HandledMo
  <2>4. (<<"imu", 0>>[2] = 1) = FALSE OBVIOUS
  <2>5. ~end.imu BY <2>3, <2>4, Zenon
  <2>. QED BY <2>3, <2>5 DEF Clean
<1>. HIDE DEF end
<1>9. SideOK(at, end, Released(o.rail))
  BY <1>3, <1>7, <1>8, SideReleased DEF Kept
<1>. QED BY <1>7, <1>9 DEF end

(* The camera told to sleep and back to the plain reports, and its rail    *)
(* left.                                                                   *)
LEMMA SideAsleep ==
    ASSUME NEW p, NEW w, SideOK("ir", p, w), w.owned, NEW o \in Subcmds(p, w, Msg("sleep")),
           NEW o2 \in Subcmds(o.pad, o.rail, Msg("std_reports")), NEW at
    PROVE  /\ SideOK(at, HandledAll(o2.pad, o2.rail.inbox), Released(o2.rail))
           /\ Kept(p, HandledAll(o2.pad, o2.rail.inbox))
<1>. DEFINE end == HandledAll(o2.pad, o2.rail.inbox)
<1>1. /\ p \in PadType /\ w \in RailType /\ w.inbox \in Seq(IrReqs) /\ IrReqs \subseteq ReqType
      /\ (p.on /\ ~w.doubt => ~p.imu)
  BY DEF SideOK, Tidy, IrReqs
<1>2. Msg("sleep") \in IrReqs /\ Msg("std_reports") \in IrReqs
  BY DEF Msg, IrReqs, ReqType, KindType, Names
<1>3. /\ o.rail \in RailType /\ o.rail.inbox \in Seq(IrReqs)
      /\ (o.rail.doubt <=> w.doubt \/ ~o.ok) /\ \E reqs \in Seq(IrReqs) : o.pad = HandledAll(p, reqs)
      /\ o.ok => p.on /\ HandledAll(o.pad, o.rail.inbox) = Handled(HandledAll(p, w.inbox), Msg("sleep"))
      /\ o.ok \in BOOLEAN
  BY <1>1, <1>2, SubcmdsDo
<1>4. PICK reqs \in Seq(IrReqs) : o.pad = HandledAll(p, reqs) BY <1>3
<1>5. reqs \in Seq(ReqType) /\ o.rail.inbox \in Seq(ReqType) /\ w.inbox \in Seq(ReqType)
  BY <1>1, <1>3
<1>6. o.pad \in PadType /\ Kept(p, o.pad)
  BY <1>1, <1>4, <1>5, AllType DEF Kept
<1>7. /\ o2.rail \in RailType /\ o2.rail.inbox \in Seq(IrReqs) /\ o2.ok \in BOOLEAN
      /\ (o2.rail.doubt <=> o.rail.doubt \/ ~o2.ok)
      /\ \E more \in Seq(IrReqs) : o2.pad = HandledAll(o.pad, more)
      /\ o2.ok => end = Handled(HandledAll(o.pad, o.rail.inbox), Msg("std_reports"))
  BY <1>1, <1>2, <1>3, <1>6, SubcmdsDo
<1>8. PICK more \in Seq(IrReqs) : o2.pad = HandledAll(o.pad, more) BY <1>7
<1>9. more \in Seq(ReqType) /\ o2.rail.inbox \in Seq(ReqType) BY <1>1, <1>7
<1>10. o2.pad \in PadType /\ Kept(p, o2.pad)
  BY <1>6, <1>8, <1>9, AllType DEF Kept
<1>11. end \in PadType /\ Kept(p, end) BY <1>9, <1>10, AllType DEF Kept
<1>12. ASSUME p.on, ~o2.rail.doubt PROVE Clean(end)
  <2>. DEFINE r == HandledAll(p, w.inbox)
              z == Handled(r, Msg("sleep"))
  <2>1. r \in PadType /\ ~r.imu BY <1>1, <1>3, <1>5, <1>7, <1>12, AllType, AllIr
  <2>2. end = Handled(z, Msg("std_reports")) BY <1>3, <1>7, <1>12
  <2>. HIDE DEF r, end
  <2>3. z = [Pad(r.on) EXCEPT !.imu = r.imu, !.buzz = r.buzz, !.reports = r.reports]
    BY DEF Handled, Msg
  <2>4. z.mcu = "off" /\ ~z.imu BY <2>1, <2>3 DEF Pad
  <2>5. z \in PadType BY <1>1, <1>2, <2>1, HandledType
  <2>. HIDE DEF z
  <2>6. end = [z EXCEPT !.reports = "std"] BY <2>2 DEF Handled, Msg
  <2>. QED BY <2>4, <2>5, <2>6 DEF Clean, PadType
<1>. HIDE DEF end
<1>13. SideOK(at, end, Released(o2.rail))
  BY <1>7, <1>11, <1>12, SideReleased DEF Kept
<1>. QED BY <1>11, <1>13 DEF end

(* The camera's own state.                                                 *)
LEMMA LimitIs == ASSUME NEW c PROVE Limit(c) \in Nat /\ Limit(c) > 0
  BY IrAssumption DEF Limit

(* The camera as the screen opens.                                         *)
LEMMA CameraIsOff == CamOK(CamOff) /\ CamOff.at = "off"
<1>1. DOMAIN Frags = 1..Len(Frags) /\ Len(Frags) > 0 /\ Len(Frags) \in Nat /\ DOMAIN Steps = 1..8 /\ MaxFrames \in Nat
  BY JcWireAssumption, IrAssumption, StepsAre
<1>2. CamOff \in CamType /\ CamOff.tries = 0 /\ CamOff.at = "off"
  BY <1>1 DEF CamOff, CamType, NoFrag
<1>. QED BY <1>2, LimitIs DEF CamOK

(* The setup begins at its first step.                                     *)
LEMMA CameraStarts ==
    ASSUME NEW size \in 1..Len(Frags) PROVE CamOK([CamOff EXCEPT !.at = "setup", !.size = size])
<1>. DEFINE c == [CamOff EXCEPT !.at = "setup", !.size = size]
<1>1. size \in DOMAIN Frags BY JcWireAssumption
<1>2. c \in CamType BY <1>1, CameraIsOff DEF CamOK, CamType
<1>3. c.tries = 0 BY CameraIsOff DEF CamOff
<1>. HIDE DEF c
<1>4. CamOK(c) BY <1>2, <1>3, LimitIs DEF CamOK
<1>. QED BY <1>4 DEF c

(* A step answered leads to the next, one that is not is tried again or    *)
(* fails.                                                                  *)
LEMMA CameraGoesOn ==
    ASSUME NEW c, CamOK(c), c.at = "setup"
    PROVE  /\ CamOK(NextStep(c)) /\ NextStep(c).at \in {"setup", "stream"}
           /\ CamOK([c EXCEPT !.heard = TRUE])
           /\ c.tries + 1 < Limit(c) => CamOK(Retried(c)) /\ Retried(c).at = "setup"
           /\ CamOK([Retried(c) EXCEPT !.at = "failed"])
<1>1. c \in CamType /\ c.tries \in Nat /\ c.tries < Limit(c) /\ c.step \in 1..8
  BY StepsAre DEF CamOK, CamType
<1>2. CamOK(NextStep(c)) /\ NextStep(c).at \in {"setup", "stream"}
  <2>1. CASE c.step < 8
    <3>1. NextStep(c) = [c EXCEPT !.step = @ + 1, !.tries = 0, !.heard = FALSE]
      BY <2>1, StepsAre DEF NextStep
    <3>2. c.step + 1 \in DOMAIN Steps BY <1>1, <2>1, StepsAre
    <3>3. NextStep(c) \in CamType
      <4>1. ASSUME NEW step \in DOMAIN Steps
            PROVE  [c EXCEPT !.step = step, !.tries = 0, !.heard = FALSE] \in CamType
        BY <1>1 DEF CamType
      <4>. QED BY <3>1, <3>2, <4>1
    <3>4. NextStep(c).tries = 0 /\ NextStep(c).at = "setup" BY <1>1, <3>1 DEF CamType
    <3>. QED BY <3>3, <3>4, LimitIs DEF CamOK
  <2>2. CASE ~(c.step < 8)
    <3>1. NextStep(c) = [c EXCEPT !.at = "stream", !.tries = 0, !.heard = FALSE, !.frames = 0,
                                  !.frag = NoFrag, !.asked = FALSE, !.stalled = FALSE]
      BY <2>2, StepsAre DEF NextStep
    <3>2. 0 \in 0..MaxFrames /\ NoFrag \in Int BY IrAssumption DEF NoFrag
    <3>3. NextStep(c) \in CamType
      <4>. DEFINE z == 0
      <4>1. z \in Nat /\ z \in 0..MaxFrames BY <3>2
      <4>. HIDE DEF z
      <4>2. [c EXCEPT !.at = "stream", !.tries = z, !.heard = FALSE, !.frames = z,
                      !.frag = NoFrag, !.asked = FALSE, !.stalled = FALSE] \in CamType
        BY <1>1, <3>2, <4>1 DEF CamType
      <4>. QED BY <3>1, <4>2, Zenon DEF z
    <3>4. NextStep(c).tries = 0 /\ NextStep(c).at = "stream" BY <1>1, <3>1 DEF CamType
    <3>. QED BY <3>3, <3>4, LimitIs DEF CamOK
  <2>. QED BY <2>1, <2>2
<1>3. CamOK([c EXCEPT !.heard = TRUE])
  BY <1>1 DEF CamOK, CamType, Limit
<1>4. Retried(c) \in CamType /\ Retried(c).tries = c.tries + 1 /\ Retried(c).at = "setup"
      /\ Limit(Retried(c)) = Limit(c)
  <2>1. c.tries + 1 \in Nat BY <1>1
  <2>2. Retried(c) \in CamType BY <1>1, <2>1 DEF Retried, CamType
  <2>3. Retried(c).tries = c.tries + 1 /\ Retried(c).at = "setup" /\ Retried(c).step = c.step
    BY <1>1 DEF Retried, CamType
  <2>. QED BY <2>2, <2>3 DEF Limit
<1>5. /\ [Retried(c) EXCEPT !.at = "failed"] \in CamType
      /\ [Retried(c) EXCEPT !.at = "failed"].tries = c.tries + 1
      /\ [Retried(c) EXCEPT !.at = "failed"].at = "failed"
      /\ Limit([Retried(c) EXCEPT !.at = "failed"]) = Limit(c)
  <2>. DEFINE r == Retried(c)
  <2>. HIDE DEF r
  <2>1. [r EXCEPT !.at = "failed"] \in CamType BY <1>4 DEF CamType, r
  <2>2. /\ [r EXCEPT !.at = "failed"].tries = r.tries /\ [r EXCEPT !.at = "failed"].at = "failed"
        /\ [r EXCEPT !.at = "failed"].step = r.step
    BY <1>4 DEF CamType, r
  <2>. QED BY <1>4, <2>1, <2>2 DEF Limit, r
<1>6. c.tries + 1 <= Limit(c) BY <1>1, LimitIs
<1>7. CamOK([Retried(c) EXCEPT !.at = "failed"]) BY <1>5, <1>6 DEF CamOK
<1>8. c.tries + 1 < Limit(c) => CamOK(Retried(c))
  BY <1>4, <1>6 DEF CamOK
<1>. QED BY <1>2, <1>3, <1>4, <1>7, <1>8

(* The picture is asked for fragment by fragment.                          *)
LEMMA CameraReads ==
    ASSUME NEW c, CamOK(c), NEW frag \in Int, NEW frames \in 0..MaxFrames
    PROVE  /\ CamOK([c EXCEPT !.stalled = FALSE, !.frag = frag, !.asked = FALSE, !.frames = frames])
           /\ CamOK([c EXCEPT !.asked = TRUE]) /\ CamOK([c EXCEPT !.stalled = TRUE])
  BY DEF CamOK, CamType, Limit

(* What is done to one side leaves the other.                              *)
LEMMA OneSide ==
    ASSUME WireInv, NEW s \in Sides, NEW p, NEW w, SideOK(gui.at, p, w), Kept(pads[s], p),
           pads' = [pads EXCEPT ![s] = p], wire' = [wire EXCEPT ![s] = w], gui'.at = gui.at
    PROVE  /\ pads' \in [Sides -> PadType] /\ wire' \in [Sides -> RailType]
           /\ \A r \in Sides : SideOK(gui'.at, pads'[r], wire'[r]) /\ Kept(pads[r], pads'[r])
<1>1. p \in PadType /\ w \in RailType BY DEF SideOK
<1>. QED BY <1>1 DEF WireInv, Kept

(* And what is done to one rail.                                           *)
LEMMA OneRail ==
    ASSUME WireInv, NEW s \in Sides, NEW w, SideOK(gui.at, pads[s], w),
           UNCHANGED pads, wire' = [wire EXCEPT ![s] = w], gui'.at = gui.at
    PROVE  /\ pads' \in [Sides -> PadType] /\ wire' \in [Sides -> RailType]
           /\ \A r \in Sides : SideOK(gui'.at, pads'[r], wire'[r]) /\ Kept(pads[r], pads'[r])
<1>1. w \in RailType BY DEF SideOK
<1>. QED BY <1>1 DEF WireInv, Kept

\* No Joy-Con came, went or began to rumble.
AllKept == \A r \in Sides : Kept(pads[r], pads'[r])

(* A step away from the rails, on the same screen or from one that has     *)
(* none of them.                                                           *)
LEMMA WireQuiet ==
    ASSUME RailInv, WireInv, UNCHANGED <<wireVars, cam, restarts, mo, tour>>,
           gui'.at = gui.at \/ gui.at \notin SensorScreens
    PROVE  WireInv' /\ AllKept
<1>1. UNCHANGED <<pads, wire, losses>> BY DEF wireVars
<1>2. \A s \in Sides : SideOK(gui'.at, pads'[s], wire'[s])
  BY <1>1 DEF WireInv, SideOK, Tidy, RailInv
<1>3. CamInv' BY <1>1 DEF WireInv, CamInv, SensorScreens
<1>4. CamOK(cam') BY DEF WireInv
<1>. QED BY <1>1, <1>2, <1>3, <1>4 DEF WireInv, AllKept, Kept

(* The steps away from the sensor screens leave the rails and the Joy-Cons *)
(* alone.                                                                  *)
LEMMA WireElsewhere ==
    ASSUME RailInv, ScreenInv, WireInv,
           \/ Chooses \/ Backs \/ AgainInBox \/ Deeper \/ CheckAll \/ CheckSome \/ CheckAgain
           \/ LastResults \/ NavPoll \/ PicksPort \/ Rumbles \/ GlowStep \/ CheckStep \/ CheckEnds
           \/ RamStart \/ Screenshot \/ TouchRead \/ TestTasks \/ FingerStep \/ UNCHANGED vars
    PROVE  WireInv' /\ AllKept
<1>1. UNCHANGED <<wireVars, cam, restarts, mo, tour>>
  BY DEF Chooses, Backs, AgainInBox, Deeper, CheckAll, CheckSome, CheckAgain, LastResults, NavPoll,
         PicksPort, Rumbles, ActRumble, GlowStep, GlowFades, CheckStep, CheckEnds, RamStart, Screenshot,
         TouchRead, TestTasks, FingerStep, sensorVars, jcVars, vars
<1>2. \/ UNCHANGED gui
      \/ \E screen : gui' = [gui EXCEPT !.pending = screen]
      \/ \E box : gui' = [gui EXCEPT !.box = box]
      \/ gui' = [gui EXCEPT !.hold = FALSE, !.pending = "results"]
      \/ gui.at = "ram"
  BY DEF Chooses, Backs, AgainInBox, Deeper, CheckAll, CheckSome, CheckAgain, LastResults, NavPoll,
         PicksPort, Rumbles, GlowStep, CheckStep, CheckEnds, RamStart, Screenshot,
         TouchRead, TestTasks, FingerStep, Shows, vars
<1>3. gui'.at = gui.at \/ gui.at \notin SensorScreens
  <2>1. gui \in GuiType BY DEF ScreenInv
  <2>. QED BY <1>2, <2>1 DEF SensorScreens, GuiType
<1>. QED BY <1>1, <1>3, WireQuiet

(* A Joy-Con takes its next request.                                       *)
LEMMA WireRailStep == ASSUME RailInv, WireInv, RailStep PROVE WireInv' /\ AllKept
<1>1. PICK s \in Sides : PadAnswers(s) BY DEF RailStep
<1>2. UNCHANGED <<gui, tour, cam, restarts, mo>> BY DEF RailStep, OnRails
<1>. DEFINE p == pads[s]
            w == wire[s]
            q == Head(w.inbox)
            rx == IF p.on THEN w.rx \o Report(Answer(p, q)) ELSE w.rx
            pp == IF p.on THEN Handled(p, q) ELSE p
            ww == [w EXCEPT !.inbox = Tail(@), !.rx = rx]
<1>3. /\ w.inbox # <<>> /\ UNCHANGED losses
      /\ pads' = [pads EXCEPT ![s] = pp] /\ wire' = [wire EXCEPT ![s] = ww]
  <2>1. w.inbox # <<>> /\ UNCHANGED losses /\ pads' = [pads EXCEPT ![s] = pp]
    BY <1>1 DEF PadAnswers, WireInv
  <2>2. wire' = [wire EXCEPT ![s].inbox = Tail(@),
                             ![s].rx = IF pads[s].on THEN @ \o Report(Answer(pads[s], q)) ELSE @]
    BY <1>1 DEF PadAnswers
  <2>3. wire' = [wire EXCEPT ![s] = ww] BY <2>2 DEF WireInv, RailType
  <2>. QED BY <2>1, <2>3
<1>4. SideOK(gui.at, p, w) /\ p \in PadType /\ w \in RailType BY DEF WireInv
<1>5. w.owned /\ gui.at \in {"ir", "motion"}
  BY <1>3, <1>4 DEF SideOK, Tidy, RailInv, SensorScreens
<1>6. rx \in Seq(PieceType)
  <2>1. w.rx \in Seq(PieceType) /\ w.inbox \in Seq(ReqType) BY <1>4 DEF RailType
  <2>2. q \in ReqType BY <1>3, <2>1
  <2>3. Report(Answer(p, q)) \in Seq(PieceType) BY <1>4, <2>2, AnswerType, ReportType
  <2>. QED BY <2>1, <2>3
<1>7. SideOK(gui.at, pp, ww) /\ Kept(p, pp)
  <2>. HIDE DEF p, w, rx
  <2>. QED BY <1>3, <1>4, <1>5, <1>6, SideAnswers
<1>8. ww.owned = w.owned BY <1>4 DEF RailType
<1>. HIDE DEF pp, ww
<1>9. /\ pads' \in [Sides -> PadType] /\ wire' \in [Sides -> RailType]
      /\ \A r \in Sides : SideOK(gui'.at, pads'[r], wire'[r]) /\ Kept(pads[r], pads'[r])
  BY <1>2, <1>3, <1>7, OneSide
<1>10. CamInv'
  BY <1>2, <1>3, <1>8 DEF WireInv, CamInv
<1>. QED BY <1>2, <1>3, <1>9, <1>10 DEF WireInv, AllKept

(* A request, or a piece of a report, is lost.                             *)
LEMMA WireRailLoss == ASSUME RailInv, ScreenInv, WireInv, RailLoss PROVE WireInv' /\ AllKept
<1>1. PICK s \in Sides : Lose(s)
  BY ToursAssumption DEF RailLoss, ScreenInv
<1>2. UNCHANGED <<gui, tour, cam, restarts, mo, pads>> BY <1>1 DEF RailLoss, OnRails, Lose
<1>3. losses' \in 0..tour'.losses
  <2>1. losses > 0 /\ losses' = losses - 1 /\ losses \in 0..tour.losses /\ tour.losses \in Nat
    BY <1>1, ToursAssumption DEF Lose, WireInv, ScreenInv
  <2>. QED BY <1>2, <2>1
<1>. DEFINE p == pads[s]
            w == wire[s]
<1>4. SideOK(gui.at, p, w) /\ p \in PadType /\ w \in RailType BY DEF WireInv
<1>5. \E v : /\ wire' = [wire EXCEPT ![s] = v] /\ SideOK(gui.at, p, v) /\ v.owned = w.owned
  <2>1. CASE w.inbox # <<>> /\ wire' = [wire EXCEPT ![s].inbox = Tail(@), ![s].doubt = TRUE]
    <3>. DEFINE v == [w EXCEPT !.inbox = Tail(@), !.doubt = TRUE]
    <3>1. w.owned /\ gui.at \in {"ir", "motion"}
      BY <1>4, <2>1 DEF SideOK, Tidy, RailInv, SensorScreens
    <3>2. wire' = [wire EXCEPT ![s] = v] BY <2>1 DEF WireInv, RailType
    <3>3. v.owned = w.owned BY <1>4 DEF RailType
    <3>4. SideOK(gui.at, p, v)
      <4>. HIDE DEF p, w
      <4>. QED BY <1>4, <2>1, <3>1, SideLoses
    <3>. QED BY <3>2, <3>3, <3>4
  <2>2. CASE \E i \in 1..Len(w.rx) :
               wire' = [wire EXCEPT ![s].rx = RemoveAt(@, i), ![s].doubt = TRUE]
    <3>1. PICK i \in 1..Len(w.rx) : wire' = [wire EXCEPT ![s].rx = RemoveAt(@, i), ![s].doubt = TRUE]
      BY <2>2
    <3>. DEFINE rx == RemoveAt(w.rx, i)
                v == [w EXCEPT !.rx = rx, !.doubt = TRUE]
    <3>2. rx \in Seq(PieceType)
      <4>1. w.rx \in Seq(PieceType) /\ Len(w.rx) \in Nat BY <1>4 DEF RailType
      <4>2. SubSeq(w.rx, 1, i - 1) \in Seq(PieceType) /\ SubSeq(w.rx, i + 1, Len(w.rx)) \in Seq(PieceType)
        BY <4>1
      <4>. QED BY <4>2 DEF RemoveAt
    <3>3. wire' = [wire EXCEPT ![s] = v] BY <3>1 DEF WireInv, RailType
    <3>4. v.owned = w.owned BY <1>4 DEF RailType
    <3>5. SideOK(gui.at, p, v)
      <4>. HIDE DEF p, w, rx
      <4>. QED BY <1>4, <3>2, SideDoubts
    <3>. QED BY <3>3, <3>4, <3>5
  <2>. QED BY <1>1, <2>1, <2>2 DEF Lose
<1>6. PICK v : /\ wire' = [wire EXCEPT ![s] = v] /\ SideOK(gui.at, p, v) /\ v.owned = w.owned
  BY <1>5
<1>7. /\ pads' \in [Sides -> PadType] /\ wire' \in [Sides -> RailType]
      /\ \A r \in Sides : SideOK(gui'.at, pads'[r], wire'[r]) /\ Kept(pads[r], pads'[r])
  BY <1>2, <1>6, OneRail
<1>8. CamInv' BY <1>2, <1>6 DEF WireInv, CamInv
<1>. QED BY <1>2, <1>3, <1>7, <1>8 DEF WireInv, AllKept

\* The driver, its watcher and the Joy-Con test.
DriverType ==
    /\ drv \in [Sides -> DrvType] /\ told \in [Sides -> ToldType] /\ test \in [Sides -> TestType]
    /\ rumble \in {"none", "left", "gap", "right"} /\ resume \in BOOLEAN
    /\ port \in Ports /\ taken \in [Sides -> BOOLEAN] /\ moves \in 0..tour.moves

(* A Joy-Con is slid on, pulled or falls silent.                           *)
LEMMA WireHand ==
    ASSUME RailInv, ScreenInv, WireInv, HandStep PROVE WireInv'
<1>1. UNCHANGED <<gui, tour, cam, restarts, mo, losses>>
  BY DEF HandStep, Attach, Pull, Silent, wireVars
<1>2. PICK s \in Sides : Attach(s) \/ Pull(s) \/ Silent(s)
  BY ToursAssumption DEF HandStep, ScreenInv
<1>3. SideOK(gui.at, pads[s], wire[s]) /\ wire[s] \in RailType BY DEF WireInv
<1>4. CASE Attach(s)
  <2>. DEFINE w == [wire[s] EXCEPT !.doubt = FALSE]
  <2>1. pads' = [pads EXCEPT ![s] = Pad(TRUE)] /\ wire' = [wire EXCEPT ![s] = w]
    BY <1>4 DEF Attach, WireInv
  <2>2. w \in RailType /\ w.owned = wire[s].owned /\ w.inbox = wire[s].inbox
    BY <1>3 DEF RailType
  <2>3. Pad(TRUE) \in PadType /\ Clean(Pad(TRUE)) BY PadIsOne
  <2>. HIDE DEF w
  <2>4. SideOK(gui.at, Pad(TRUE), w) BY <1>3, <2>2, <2>3 DEF SideOK, Tidy, Clean
  <2>5. /\ pads' \in [Sides -> PadType] /\ wire' \in [Sides -> RailType]
        /\ \A r \in Sides : SideOK(gui'.at, pads'[r], wire'[r]) /\ wire'[r].owned = wire[r].owned
    BY <1>1, <2>1, <2>2, <2>3, <2>4 DEF WireInv
  <2>. QED BY <1>1, <2>5 DEF WireInv, CamInv, Side, Sides
<1>5. CASE Pull(s)
  <2>1. pads' = [pads EXCEPT ![s] = Pad(FALSE)] /\ UNCHANGED wire BY <1>5 DEF Pull
  <2>2. Pad(FALSE) \in PadType /\ ~Pad(FALSE).on BY PadIsOne
  <2>3. SideOK(gui.at, Pad(FALSE), wire[s]) BY <1>3, <2>2 DEF SideOK, Tidy
  <2>4. /\ pads' \in [Sides -> PadType]
        /\ \A r \in Sides : SideOK(gui'.at, pads'[r], wire'[r])
    BY <1>1, <2>1, <2>2, <2>3 DEF WireInv
  <2>. QED BY <1>1, <2>1, <2>4 DEF WireInv, CamInv
<1>6. CASE Silent(s)
  <2>1. UNCHANGED <<wireVars, cam, restarts, mo, tour, gui>> BY <1>1, <1>6 DEF Silent
  <2>. QED BY <2>1, WireQuiet
<1>. QED BY <1>2, <1>4, <1>5, <1>6

(* The test's tick makes Joy-Cons rumble, and does nothing else to them.   *)
LEMMA WireTest ==
    ASSUME RailInv, WireInv, DriverType, TestTick
    PROVE  WireInv' /\ \A s \in Sides : pads'[s].on = pads[s].on
<1>1. PICK d, r : JcTick(d, r) BY DEF TestTick
<1>2. /\ UNCHANGED <<gui, tour, cam, restarts, mo, wire, losses>>
      /\ pads' = [s \in Sides |-> Buzz(pads[s], test[s].buzz, test'[s].buzz)]
  BY <1>1 DEF TestTick, JcTick
<1>3. ASSUME NEW s \in Sides PROVE test'[s].buzz \in BOOLEAN
  <2>1. test'[s] = [SideUpdate(test[s], d[s].conn) EXCEPT !.buzz = Buzzing(r, s, SideUpdate(test[s], d[s].conn))]
    BY <1>1 DEF JcTick
  <2>2. "buzz" \in DOMAIN SideUpdate(test[s], d[s].conn) BY DEF SideUpdate, DriverType, TestType
  <2>. QED BY <2>1, <2>2 DEF Buzzing
<1>4. ASSUME NEW p \in PadType, NEW w, NEW b \in BOOLEAN, NEW c \in BOOLEAN, SideOK(gui.at, p, w)
      PROVE  SideOK(gui.at, Buzz(p, b, c), w) /\ Buzz(p, b, c) \in PadType /\ Buzz(p, b, c).on = p.on
  <2>1. CASE Buzz(p, b, c) = p BY <1>4, <2>1
  <2>2. CASE Buzz(p, b, c) = [p EXCEPT !.buzz = c]
    BY <1>4, <2>2 DEF SideOK, Tidy, PadType, Clean
  <2>. QED BY <2>1, <2>2 DEF Buzz
<1>5. \A s \in Sides : /\ SideOK(gui'.at, pads'[s], wire'[s]) /\ pads'[s] \in PadType
                       /\ pads'[s].on = pads[s].on
  <2>. SUFFICES ASSUME NEW s \in Sides
                PROVE  /\ SideOK(gui.at, pads'[s], wire[s]) /\ pads'[s] \in PadType
                       /\ pads'[s].on = pads[s].on
    BY <1>2
  <2>1. test[s].buzz \in BOOLEAN BY DEF DriverType, TestType
  <2>2. pads'[s] = Buzz(pads[s], test[s].buzz, test'[s].buzz) BY <1>2
  <2>3. pads[s] \in PadType /\ SideOK(gui.at, pads[s], wire[s]) BY DEF WireInv
  <2>. QED BY <1>3, <1>4, <2>1, <2>2, <2>3
<1>6. pads' \in [Sides -> PadType] BY <1>2, <1>5
<1>7. CamInv' BY <1>2 DEF WireInv, CamInv
<1>. QED BY <1>2, <1>5, <1>6, <1>7 DEF WireInv

(* The camera's tick.                                                      *)
LEMMA CameraFits ==
    ASSUME RailInv, WireInv, gui.at = "ir", IrTick
    PROVE  /\ UNCHANGED <<pads, losses, restarts>> /\ CamOK(cam') /\ wire[Side].owned
           /\ \E v : wire' = [wire EXCEPT ![Side] = v] /\ SideOK("ir", pads[Side], v) /\ v.owned
<1>. DEFINE p == pads[Side]
            w == wire[Side]
            r == Recv(w.rx)
            rail == [w EXCEPT !.rx = r.rx]
            Fits(v) == wire' = [wire EXCEPT ![Side] = v] /\ SideOK("ir", p, v) /\ v.owned
<1>1. SideOK("ir", p, w) /\ w \in RailType /\ Side \in Sides /\ wire = [wire EXCEPT ![Side] = w]
  BY DEF WireInv, Side, Sides
<1>2. r.rx \in Seq(PieceType) /\ r.got \in KindType BY <1>1, RecvType DEF RailType
<1>3. SideOK("ir", p, rail)
  <2>. HIDE DEF p, w, r
  <2>. QED BY <1>1, <1>2, SideReads
<1>4. rail.owned = w.owned /\ rail.inbox = w.inbox BY <1>1 DEF RailType
<1>5. cam.at # "off" => w.owned BY DEF WireInv, CamInv
<1>6. CamOK(cam) BY DEF WireInv
<1>7. ASSUME NEW x, SideOK("ir", p, x), x.owned, NEW reqs \in Seq(IrReqs),
             Len(x.inbox) + Len(reqs) <= MaxInbox
      PROVE  SideOK("ir", p, Send(x, reqs)) /\ Send(x, reqs).owned
  <2>1. SideOK("ir", p, Send(x, reqs))
    <3>. HIDE DEF p
    <3>. QED BY <1>7, SideSends
  <2>2. x \in RailType BY <1>7 DEF SideOK
  <2>3. Send(x, reqs).owned BY <1>7, <2>2 DEF Send, RailType
  <2>. QED BY <2>1, <2>3
<1>. HIDE DEF p, w, r, rail
<1>8. CASE SetupReport
  <2>1. cam.at = "setup" /\ UNCHANGED <<pads, losses, restarts>> /\ w.owned
    BY <1>5, <1>8 DEF SetupReport
  <2>2. CASE Match(cam, r.got)
    <3>. DEFINE c == NextStep(cam)
    <3>1. /\ Room(Requests(c)) /\ cam' = c
          /\ wire' = [wire EXCEPT ![Side] = Send(rail, Requests(c))]
      BY <1>8, <2>2 DEF SetupReport, Asks, w, r, rail
    <3>2. CamOK(c) /\ c \in CamType BY <1>6, <2>1, CameraGoesOn DEF CamOK
    <3>3. Requests(c) \in Seq(IrReqs) BY <3>2, RequestsType
    <3>. HIDE DEF c
    <3>4. Len(rail.inbox) + Len(Requests(c)) <= MaxInbox BY <1>4, <3>1 DEF Room, w
    <3>5. Fits(Send(rail, Requests(c)))
      BY <1>3, <1>4, <1>7, <2>1, <3>1, <3>3, <3>4 DEF w
    <3>. QED BY <2>1, <3>1, <3>2, <3>5 DEF p, w
  <2>3. CASE ~Match(cam, r.got)
    <3>1. cam' = [cam EXCEPT !.heard = TRUE] /\ wire' = [wire EXCEPT ![Side] = rail]
      BY <1>8, <2>3 DEF SetupReport, w, r, rail
    <3>2. Fits(rail) BY <1>3, <1>4, <2>1, <3>1
    <3>. QED BY <1>6, <2>1, <3>1, <3>2, CameraGoesOn DEF p, w
  <2>. QED BY <2>2, <2>3
<1>9. CASE SetupQuiet
  <2>1. cam.at = "setup" /\ UNCHANGED <<pads, losses, restarts>> /\ w.owned /\ cam.tries \in Nat
    BY <1>5, <1>6, <1>9 DEF SetupQuiet, CamOK, CamType
  <2>2. CASE cam.tries + 1 >= Limit(cam)
    <3>1. cam' = [Retried(cam) EXCEPT !.at = "failed"] /\ UNCHANGED wire
      BY <1>9, <2>2 DEF SetupQuiet
    <3>2. Fits(w) BY <1>1, <2>1, <3>1
    <3>. QED BY <1>6, <2>1, <3>1, <3>2, CameraGoesOn DEF p, w
  <2>3. CASE ~(cam.tries + 1 >= Limit(cam))
    <3>. DEFINE c == Retried(cam)
    <3>1. /\ Room(Requests(c)) /\ cam' = c
          /\ wire' = [wire EXCEPT ![Side] = Send(w, Requests(c))]
      BY <1>9, <2>3 DEF SetupQuiet, Asks, w
    <3>2. CamOK(c) /\ c \in CamType
      <4>1. cam.tries + 1 < Limit(cam) BY <2>1, <2>3, LimitIs
      <4>. QED BY <1>6, <2>1, <4>1, CameraGoesOn DEF CamOK
    <3>3. Requests(c) \in Seq(IrReqs) BY <3>2, RequestsType
    <3>. HIDE DEF c
    <3>4. Len(w.inbox) + Len(Requests(c)) <= MaxInbox BY <3>1 DEF Room, w
    <3>5. Fits(Send(w, Requests(c))) BY <1>1, <1>7, <2>1, <3>1, <3>3, <3>4
    <3>. QED BY <2>1, <3>1, <3>2, <3>5 DEF p, w
  <2>. QED BY <2>2, <2>3
<1>10. ASSUME NEW n \in Int PROVE <<<<"ack", n>>>> \in Seq(IrReqs) /\ Len(<<<<"ack", n>>>>) = 1
  <2>1. <<"ack", n>> \in IrReqs BY DEF IrReqs, ReqType, KindType, Names
  <2>. QED BY <2>1
<1>11. CASE StreamReport
  <2>1. cam.at = "stream" /\ UNCHANGED <<pads, losses, restarts>> /\ w.owned
    BY <1>5, <1>11 DEF StreamReport
  <2>2. CASE r.got[1] # "frag"
    <3>1. wire' = [wire EXCEPT ![Side] = rail] /\ UNCHANGED cam
      BY <1>11, <2>2 DEF StreamReport, w, r, rail
    <3>2. Fits(rail) BY <1>3, <1>4, <2>1, <3>1
    <3>. QED BY <1>6, <2>1, <3>1, <3>2 DEF p, w
  <2>3. CASE r.got[1] = "frag"
    <3>. DEFINE n == r.got[2]
                whole == n # cam.frag /\ n = Frags[cam.size] - 1
                f == IF whole /\ cam.frames < MaxFrames THEN cam.frames + 1 ELSE cam.frames
    <3>1. n \in Int BY <1>2 DEF KindType
    <3>2. /\ Room(<<r.got>>) /\ wire' = [wire EXCEPT ![Side] = Send(rail, <<<<"ack", n>>>>)]
          /\ cam' = [cam EXCEPT !.stalled = FALSE, !.frag = n, !.asked = FALSE,
                                !.frames = IF whole /\ @ < MaxFrames THEN @ + 1 ELSE @]
      BY <1>11, <2>3 DEF StreamReport, w, r, rail
    <3>3. cam' = [cam EXCEPT !.stalled = FALSE, !.frag = n, !.asked = FALSE, !.frames = f]
      BY <1>6, <3>2 DEF CamOK, CamType
    <3>4. f \in 0..MaxFrames
      <4>1. cam.frames \in 0..MaxFrames /\ MaxFrames \in Nat
        BY <1>6, IrAssumption DEF CamOK, CamType
      <4>. HIDE DEF whole
      <4>. QED BY <4>1
    <3>. HIDE DEF n, f
    <3>5. CamOK(cam') BY <1>6, <3>1, <3>3, <3>4, CameraReads
    <3>6. Len(rail.inbox) + Len(<<<<"ack", n>>>>) <= MaxInbox
      BY <1>4, <1>10, <3>1, <3>2 DEF Room, w
    <3>7. Fits(Send(rail, <<<<"ack", n>>>>))
      BY <1>3, <1>4, <1>7, <1>10, <2>1, <3>1, <3>2, <3>6
    <3>. QED BY <2>1, <3>5, <3>7 DEF p, w
  <2>. QED BY <2>2, <2>3
<1>12. CASE StreamAsks
  <2>. DEFINE n == IF cam.frag = NoFrag THEN 0 ELSE cam.frag
  <2>1. /\ cam.at = "stream" /\ UNCHANGED <<pads, losses, restarts>> /\ w.owned /\ w.inbox = <<>>
        /\ wire' = [wire EXCEPT ![Side] = Send(w, <<<<"ack", n>>>>)]
        /\ cam' = [cam EXCEPT !.asked = TRUE]
    BY <1>1, <1>5, <1>12 DEF StreamAsks, w
  <2>2. n \in Int BY <1>6 DEF CamOK, CamType
  <2>3. 0 \in 0..MaxFrames BY IrAssumption
  <2>. HIDE DEF n
  <2>4. Len(w.inbox) + Len(<<<<"ack", n>>>>) <= MaxInbox BY <1>10, <2>1, <2>2, JcWireAssumption
  <2>5. Fits(Send(w, <<<<"ack", n>>>>)) BY <1>1, <1>7, <1>10, <2>1, <2>2, <2>4
  <2>6. CamOK(cam') BY <1>6, <2>1, <2>2, <2>3, CameraReads
  <2>. QED BY <2>1, <2>5, <2>6 DEF p, w
<1>13. CASE StreamStalls
  <2>1. /\ cam.at = "stream" /\ UNCHANGED <<pads, wire, losses, restarts>> /\ w.owned
        /\ cam' = [cam EXCEPT !.stalled = TRUE]
    BY <1>5, <1>13 DEF StreamStalls, wireVars
  <2>2. 0 \in 0..MaxFrames /\ 0 \in Int BY IrAssumption
  <2>3. CamOK(cam') BY <1>6, <2>1, <2>2, CameraReads
  <2>4. Fits(w) BY <1>1, <2>1
  <2>. QED BY <2>1, <2>3, <2>4 DEF p, w
<1>. QED BY <1>8, <1>9, <1>11, <1>12, <1>13 DEF IrTick

(* The sensor screens at work.                                             *)
LEMMA WireCamera == ASSUME RailInv, WireInv, CameraStep PROVE WireInv' /\ AllKept
<1>1. gui.at = "ir" /\ IrTick /\ UNCHANGED <<gui, tour, mo>> BY DEF CameraStep, OnCamera
<1>2. /\ UNCHANGED <<pads, losses, restarts>> /\ CamOK(cam') /\ wire[Side].owned
      /\ \E v : wire' = [wire EXCEPT ![Side] = v] /\ SideOK("ir", pads[Side], v) /\ v.owned
  BY <1>1, CameraFits
<1>3. PICK v : wire' = [wire EXCEPT ![Side] = v] /\ SideOK("ir", pads[Side], v) /\ v.owned
  BY <1>2
<1>4. Side \in Sides BY DEF Side, Sides
<1>5. /\ pads' \in [Sides -> PadType] /\ wire' \in [Sides -> RailType]
      /\ \A r \in Sides : SideOK(gui'.at, pads'[r], wire'[r]) /\ Kept(pads[r], pads'[r])
  BY <1>1, <1>2, <1>3, <1>4, OneRail
<1>6. CamInv' BY <1>1, <1>3, <1>4 DEF CamInv, WireInv
<1>. QED BY <1>1, <1>2, <1>5, <1>6 DEF WireInv, AllKept

(* The camera screen's buttons.                                            *)
LEMMA WireButton == ASSUME RailInv, WireInv, CameraButton PROVE WireInv' /\ AllKept
<1>1. PICK bigger \in BOOLEAN : Restart(bigger) BY DEF CameraButton
<1>2. gui.at = "ir" /\ UNCHANGED <<gui, tour, mo, losses>>
  BY <1>1 DEF CameraButton, OnCamera, Restart
<1>. DEFINE c == [CamOff EXCEPT !.at = "setup", !.size = Resized(bigger)]
<1>3. PICK o \in Subcmds(pads[Side], wire[Side], Msg("sleep")) :
         /\ pads' = [pads EXCEPT ![Side] = o.pad] /\ Len(o.rail.inbox) < MaxInbox
         /\ cam' = c /\ wire' = [wire EXCEPT ![Side] = Send(o.rail, Requests(cam'))]
         /\ wire[Side].owned /\ restarts' = restarts + 1
  BY <1>1 DEF Restart
<1>4. Resized(bigger) \in 1..Len(Frags)
  <2>1. cam.size \in 1..Len(Frags) /\ Len(Frags) \in Nat /\ Len(Frags) > 0
    BY JcWireAssumption DEF WireInv, CamOK, CamType
  <2>2. cam.size % Len(Frags) \in 0..(Len(Frags) - 1) BY <2>1
  <2>. QED BY <2>1, <2>2 DEF Resized
<1>5. CamOK(cam') /\ cam'.at = "setup" /\ cam'.step = 1
  <2>1. CamOK(c) BY <1>4, CameraStarts
  <2>2. c.at = "setup" /\ c.step = 1 BY DEF CamOff
  <2>. QED BY <1>3, <2>1, <2>2
<1>6. Requests(cam') = <<Msg("mcu_reports")>> BY <1>5, StepsAre DEF Requests, Steps
<1>7. Requests(cam') \in Seq(IrReqs) /\ Len(Requests(cam')) = 1
  BY <1>5, <1>6, RequestsType DEF CamOK
<1>8. Side \in Sides /\ SideOK("ir", pads[Side], wire[Side])
  BY <1>2 DEF WireInv, Side, Sides
<1>9. MaxInbox \in Nat /\ Len(o.rail.inbox) \in Nat
  <2>1. Msg("sleep") \in ReqType BY DEF Msg, ReqType, KindType, Names
  <2>2. o.rail \in RailType
    <3>1. pads[Side] \in PadType /\ wire[Side] \in RailType BY <1>8 DEF SideOK
    <3>2. wire[Side].inbox \in Seq(ReqType) BY <3>1 DEF RailType
    <3>. QED BY <2>1, <3>1, <3>2, SubcmdsDo
  <2>3. o.rail.inbox \in Seq(ReqType) BY <2>2 DEF RailType
  <2>. QED BY <2>3, JcWireAssumption
<1>10. SideOK("ir", o.pad, o.rail) /\ Kept(pads[Side], o.pad) /\ o.rail.owned
  <2>1. Len(o.rail.inbox) <= MaxInbox BY <1>3, <1>9
  <2>. QED BY <1>3, <1>8, <2>1, SideSleeps
<1>. DEFINE v == Send(o.rail, Requests(cam'))
<1>11. SideOK("ir", o.pad, v) /\ v.owned
  <2>1. Len(o.rail.inbox) + Len(Requests(cam')) <= MaxInbox
    <3>1. Len(o.rail.inbox) + 1 <= MaxInbox BY <1>3, <1>9
    <3>. QED BY <1>7, <3>1
  <2>2. SideOK("ir", o.pad, v) BY <1>7, <1>10, <2>1, SideSends
  <2>3. o.rail \in RailType BY <1>10 DEF SideOK
  <2>4. v.owned BY <1>10, <2>3 DEF Send, RailType
  <2>. QED BY <2>2, <2>4
<1>12. /\ pads' = [pads EXCEPT ![Side] = o.pad] /\ wire' = [wire EXCEPT ![Side] = v]
       /\ restarts' = restarts + 1
  BY <1>3
<1>. HIDE DEF v, c
<1>13. /\ pads' \in [Sides -> PadType] /\ wire' \in [Sides -> RailType]
       /\ \A r \in Sides : SideOK(gui'.at, pads'[r], wire'[r]) /\ Kept(pads[r], pads'[r])
  BY <1>2, <1>8, <1>10, <1>11, <1>12, OneSide
<1>14. CamInv' BY <1>2, <1>8, <1>11, <1>12 DEF CamInv, WireInv
<1>15. restarts' \in Nat BY <1>12 DEF WireInv
<1>. QED BY <1>2, <1>5, <1>13, <1>14, <1>15 DEF WireInv, AllKept

(* The motion screen's tick.                                               *)
LEMMA WireMotion == ASSUME RailInv, WireInv, MotionStep PROVE WireInv' /\ AllKept
<1>1. PICK s \in Sides : MoTick(s) BY DEF MotionStep
<1>2. UNCHANGED <<gui, tour, cam, restarts, pads, losses>> BY <1>1 DEF MotionStep, MoTick
<1>3. mo' \in [Sides -> MoType]
  <2>1. PICK new \in Samples(pads[s]) \cup {mo[s].last}, late \in BOOLEAN, long \in BOOLEAN :
           mo' = [mo EXCEPT ![s] = Judged([@ EXCEPT !.last = new], late, long)]
    BY <1>1 DEF MoTick
  <2>. DEFINE m == [mo[s] EXCEPT !.last = new]
  <2>2. mo \in [Sides -> MoType] /\ mo' = [mo EXCEPT ![s] = Judged(m, late, long)]
    BY <2>1 DEF WireInv
  <2>3. mo[s] \in MoType /\ new \in {"zero", "still", "moving"}
    BY <2>1, <2>2 DEF Samples, MoType
  <2>4. m \in MoType BY <2>3 DEF MoType
  <2>. HIDE DEF m
  <2>5. Judged(m, late, long) \in MoType BY <2>4 DEF Judged, MoType
  <2>. QED BY <2>2, <2>5
<1>. DEFINE w == [wire[s] EXCEPT !.rx = <<>>]
<1>4. wire' = [wire EXCEPT ![s] = w] BY <1>1 DEF MoTick, WireInv
<1>5. SideOK(gui.at, pads[s], wire[s]) /\ wire[s] \in RailType BY DEF WireInv
<1>6. SideOK(gui.at, pads[s], w) /\ w.owned = wire[s].owned
  <2>1. <<>> \in Seq(PieceType) OBVIOUS
  <2>2. SideOK(gui.at, pads[s], w) BY <1>5, <2>1, SideReads
  <2>. QED BY <1>5, <2>2 DEF RailType
<1>. HIDE DEF w
<1>7. /\ pads' \in [Sides -> PadType] /\ wire' \in [Sides -> RailType]
      /\ \A r \in Sides : SideOK(gui'.at, pads'[r], wire'[r]) /\ Kept(pads[r], pads'[r])
  BY <1>2, <1>4, <1>6, OneRail
<1>8. CamInv' BY <1>2, <1>4, <1>6 DEF CamInv, WireInv
<1>. QED BY <1>2, <1>3, <1>7, <1>8 DEF WireInv, AllKept

(* A sensor screen takes the rails of those the poll found.                *)
LEMMA WireTakes == ASSUME RailInv, ScreenInv, WireInv, TakesRails PROVE WireInv' /\ AllKept
<1>1. /\ gui' = [gui EXCEPT !.busy = FALSE] /\ UNCHANGED tour /\ gui.at \in {"ir", "motion"}
      /\ \A s \in Sides : ~wire[s].owned
  BY DEF TakesRails, RailInv, SensorScreens
<1>2. gui'.at = gui.at BY <1>1 DEF ScreenInv, GuiType
<1>3. PICK d \in Polled : IF gui.at = "ir" THEN IrOpen(d["R"].conn) /\ UNCHANGED mo
                          ELSE MoOpen([s \in Sides |-> d[s].conn]) /\ UNCHANGED <<cam, restarts>>
  BY DEF TakesRails
<1>4. \A s \in Sides : SideOK(gui.at, pads[s], wire[s]) BY DEF WireInv
<1>5. cam.at = "off" BY <1>1 DEF WireInv, CamInv, Side, Sides
<1>6. CASE gui.at = "ir"
  <2>1. /\ UNCHANGED <<mo, pads, losses, restarts>>
        /\ \/ cam' = CamOff /\ UNCHANGED wire
           \/ \E noise \in BOOLEAN : Starts(1, Owned(wire[Side], noise))
    BY <1>3, <1>6 DEF IrOpen
  <2>2. CASE cam' = CamOff /\ UNCHANGED wire
    <3>1. CamInv' BY <2>2, CameraIsOff DEF CamInv
    <3>. QED BY <1>1, <1>2, <1>4, <2>1, <2>2, <3>1, CameraIsOff DEF WireInv, AllKept, Kept
  <2>3. ASSUME NEW noise \in BOOLEAN, Starts(1, Owned(wire[Side], noise))
        PROVE  WireInv' /\ AllKept
    <3>. DEFINE c == [CamOff EXCEPT !.at = "setup", !.size = 1]
                w == Owned(wire[Side], noise)
                v == Send(w, Requests(c))
    <3>1. Room(Requests(c)) /\ cam' = c /\ wire' = [wire EXCEPT ![Side] = v]
      BY <2>3 DEF Starts, Asks
    <3>2. CamOK(c)
      <4>1. 1 \in 1..Len(Frags) BY JcWireAssumption
      <4>. QED BY <4>1, CameraStarts
    <3>3. Requests(c) \in Seq(IrReqs) BY <3>2, RequestsType DEF CamOK
    <3>9. Len(Requests(c)) \in 1..2 BY <3>2, RequestsType DEF CamOK
    <3>4. Side \in Sides /\ ~wire[Side].owned BY <1>1 DEF Side, Sides
    <3>5. SideOK("ir", pads[Side], w) /\ w.owned /\ w.inbox = <<>>
      BY <1>4, <3>4, SideTaken
    <3>. HIDE DEF c, w
    <3>6. SideOK("ir", pads[Side], v) /\ v.owned
      <4>1. Len(w.inbox) + Len(Requests(c)) <= MaxInbox
        <5>1. Len(w.inbox) = 0 BY <3>5
        <5>2. MaxInbox \in Nat /\ MaxInbox >= 2 BY JcWireAssumption
        <5>. DEFINE n == Len(Requests(c))
        <5>4. n \in 1..2 BY <3>9
        <5>. HIDE DEF n
        <5>3. n \in Nat /\ n <= 2 BY <5>4
        <5>5. Len(w.inbox) + n <= MaxInbox BY <5>1, <5>2, <5>3
        <5>. QED BY <5>5 DEF n
      <4>2. SideOK("ir", pads[Side], v) BY <3>3, <3>5, <4>1, SideSends
      <4>3. w \in RailType BY <3>5 DEF SideOK
      <4>. QED BY <3>5, <4>2, <4>3 DEF Send, RailType
    <3>. HIDE DEF v
    <3>7. /\ pads' \in [Sides -> PadType] /\ wire' \in [Sides -> RailType]
          /\ \A r \in Sides : SideOK(gui'.at, pads'[r], wire'[r]) /\ Kept(pads[r], pads'[r])
      BY <1>2, <1>6, <2>1, <3>1, <3>4, <3>6, OneRail
    <3>8. CamInv' BY <1>2, <1>6, <3>1, <3>4, <3>6 DEF CamInv, WireInv
    <3>. QED BY <1>1, <2>1, <3>1, <3>2, <3>7, <3>8 DEF WireInv, AllKept
  <2>. QED BY <2>1, <2>2, <2>3
<1>7. CASE gui.at = "motion"
  <2>1. UNCHANGED <<cam, restarts>> /\ MoOpen([s \in Sides |-> d[s].conn])
    BY <1>3, <1>7
  <2>2. PICK l, r : /\ pads' = [L |-> l.pad, R |-> r.pad]
                    /\ wire' = [L |-> l.rail, R |-> r.rail]
                    /\ \/ \E noise \in BOOLEAN : l \in Imu("L", TRUE, Owned(wire["L"], noise))
                       \/ l = [pad |-> pads["L"], rail |-> wire["L"], ok |-> FALSE]
                    /\ \/ \E noise \in BOOLEAN : r \in Imu("R", TRUE, Owned(wire["R"], noise))
                       \/ r = [pad |-> pads["R"], rail |-> wire["R"], ok |-> FALSE]
    BY <2>1 DEF MoOpen, Sides
  <2>3. mo' = [s \in Sides |-> MoOff] /\ UNCHANGED losses BY <2>1 DEF MoOpen
  <2>4. ASSUME NEW s \in Sides, NEW x,
               \/ \E noise \in BOOLEAN : x \in Imu(s, TRUE, Owned(wire[s], noise))
               \/ x = [pad |-> pads[s], rail |-> wire[s], ok |-> FALSE]
        PROVE  SideOK("motion", x.pad, x.rail) /\ Kept(pads[s], x.pad)
    <3>1. CASE x = [pad |-> pads[s], rail |-> wire[s], ok |-> FALSE]
      BY <1>4, <1>7, <3>1 DEF Kept
    <3>2. ASSUME NEW noise \in BOOLEAN, x \in Imu(s, TRUE, Owned(wire[s], noise))
          PROVE  SideOK("motion", x.pad, x.rail) /\ Kept(pads[s], x.pad)
      <4>. DEFINE w == Owned(wire[s], noise)
      <4>1. SideOK("motion", pads[s], w) /\ w.owned /\ w.inbox = <<>>
        BY <1>1, <1>4, SideTaken
      <4>2. x \in Subcmds(pads[s], w, <<"imu", 1>>) BY <3>2 DEF Imu
      <4>. HIDE DEF w
      <4>. QED BY <4>1, <4>2, SideSwitchedOn
    <3>. QED BY <2>4, <3>1, <3>2
  <2>5. /\ SideOK("motion", l.pad, l.rail) /\ Kept(pads["L"], l.pad)
        /\ SideOK("motion", r.pad, r.rail) /\ Kept(pads["R"], r.pad)
    BY <2>2, <2>4, Zenon DEF Sides
  <2>6. l.pad \in PadType /\ l.rail \in RailType /\ r.pad \in PadType /\ r.rail \in RailType
    BY <2>5 DEF SideOK
  <2>7. pads' \in [Sides -> PadType] /\ wire' \in [Sides -> RailType] BY <2>2, <2>6 DEF Sides
  <2>8. \A s \in Sides : SideOK(gui'.at, pads'[s], wire'[s]) /\ Kept(pads[s], pads'[s])
    BY <1>2, <1>7, <2>2, <2>5 DEF Sides
  <2>9. MoOff \in MoType BY DEF MoOff, MoType
  <2>10. mo' \in [Sides -> MoType] BY <2>3, <2>9
  <2>11. CamInv' BY <1>5, <2>1 DEF CamInv
  <2>. QED BY <1>1, <2>1, <2>3, <2>7, <2>8, <2>10, <2>11 DEF WireInv, AllKept
<1>. QED BY <1>1, <1>6, <1>7

(* The way out: every rail is the driver's again, and a Joy-Con whose      *)
(* requests were all acknowledged has its sensors off.                     *)
LEMMA SideAnywhere ==
    ASSUME NEW at, NEW p, NEW w, SideOK(at, p, w), ~w.owned, NEW to PROVE SideOK(to, p, w)
  BY DEF SideOK, Tidy

(* A change of screen leaves the rails as the next screen has to find      *)
(* them.                                                                   *)
LEMMA WireSwitches ==
    ASSUME RailInv, ScreenInv, WireInv, DriverType, Switches
    PROVE  /\ WireInv' /\ \A s \in Sides : pads'[s].on = pads[s].on
           /\ gui.at # "joycon" => AllKept
<1>1. UNCHANGED tour /\ Leave BY DEF Switches
<1>. DEFINE to == gui'.at
            Fits(s) == /\ SideOK(to, pads'[s], wire'[s]) /\ pads'[s].on = pads[s].on
                       /\ gui.at # "joycon" => Kept(pads[s], pads'[s])
            Typed == pads' \in [Sides -> PadType] /\ wire' \in [Sides -> RailType]
            Rest == /\ UNCHANGED losses /\ restarts' \in Nat /\ mo' \in [Sides -> MoType]
                    /\ CamOK(cam') /\ cam'.at = "off"
<1>2. \A s \in Sides : SideOK(gui.at, pads[s], wire[s]) BY DEF WireInv
<1>3. /\ gui.at # "ir" => cam.at = "off"
      /\ gui.at \notin SensorScreens => \A s \in Sides : ~wire[s].owned
      /\ gui.at = "ir" => ~wire["L"].owned
      /\ CamOK(cam) /\ restarts \in Nat /\ mo \in [Sides -> MoType]
      /\ pads \in [Sides -> PadType] /\ wire \in [Sides -> RailType]
  BY DEF WireInv, CamInv, RailInv, Sides, Side
<1>4. (\A s \in Sides : Fits(s)) /\ Typed /\ Rest
  <2>1. CASE gui.at = "joycon"
    <3>1. /\ UNCHANGED <<wire, losses, cam, restarts, mo>>
          /\ pads' = [s \in Sides |-> IF rumble = "none" THEN pads[s]
                                      ELSE Buzz(pads[s], test[s].buzz, FALSE)]
      BY <1>1, <2>1 DEF Leave, TestLeaves
    <3>2. ASSUME NEW p \in PadType, NEW w, NEW b \in BOOLEAN, SideOK(gui.at, p, w), ~w.owned
          PROVE  SideOK(to, Buzz(p, b, FALSE), w) /\ Buzz(p, b, FALSE) \in PadType
                 /\ Buzz(p, b, FALSE).on = p.on
      <4>1. CASE Buzz(p, b, FALSE) = p BY <3>2, <4>1, SideAnywhere
      <4>2. CASE Buzz(p, b, FALSE) = [p EXCEPT !.buzz = FALSE]
        BY <3>2, <4>2 DEF SideOK, Tidy, PadType, Clean
      <4>. QED BY <4>1, <4>2 DEF Buzz
    <3>3. ASSUME NEW s \in Sides PROVE Fits(s) /\ pads'[s] \in PadType
      <4>1. test[s].buzz \in BOOLEAN /\ pads[s] \in PadType BY <1>3 DEF DriverType, TestType
      <4>2. ~wire[s].owned /\ SideOK(gui.at, pads[s], wire[s])
        BY <1>2, <1>3, <2>1 DEF SensorScreens
      <4>3. CASE pads'[s] = pads[s] BY <2>1, <3>1, <4>1, <4>2, <4>3, SideAnywhere
      <4>4. CASE pads'[s] = Buzz(pads[s], test[s].buzz, FALSE)
        BY <2>1, <3>1, <3>2, <4>1, <4>2, <4>4
      <4>. QED BY <3>1, <4>3, <4>4
    <3>4. pads' \in [Sides -> PadType] BY <3>1, <3>3
    <3>. QED BY <1>3, <2>1, <3>1, <3>3, <3>4
  <2>2. CASE gui.at = "motion"
    <3>1. MoLeave /\ UNCHANGED <<cam, restarts>> BY <1>1, <2>2 DEF Leave
    <3>2. PICK l, r : /\ pads' = [L |-> l.pad, R |-> r.pad]
                      /\ wire' = [L |-> l.rail, R |-> r.rail]
                      /\ \/ /\ wire["L"].owned
                            /\ \E o \in Imu("L", FALSE, wire["L"]) :
                              l = [pad |-> HandledAll(o.pad, o.rail.inbox), rail |-> Released(o.rail)]
                         \/ ~wire["L"].owned /\ l = [pad |-> pads["L"], rail |-> Released(wire["L"])]
                      /\ \/ /\ wire["R"].owned
                            /\ \E o \in Imu("R", FALSE, wire["R"]) :
                              r = [pad |-> HandledAll(o.pad, o.rail.inbox), rail |-> Released(o.rail)]
                         \/ ~wire["R"].owned /\ r = [pad |-> pads["R"], rail |-> Released(wire["R"])]
      BY <3>1 DEF MoLeave, MoOwns
    <3>3. ASSUME NEW s \in Sides, NEW x,
                 \/ /\ wire[s].owned
                    /\ \E o \in Imu(s, FALSE, wire[s]) :
                         x = [pad |-> HandledAll(o.pad, o.rail.inbox), rail |-> Released(o.rail)]
                 \/ ~wire[s].owned /\ x = [pad |-> pads[s], rail |-> Released(wire[s])]
          PROVE  SideOK(to, x.pad, x.rail) /\ Kept(pads[s], x.pad)
      <4>1. SideOK("motion", pads[s], wire[s]) /\ pads[s] \in PadType /\ wire[s] \in RailType
        BY <1>2, <1>3, <2>2
      <4>2. CASE ~wire[s].owned /\ x = [pad |-> pads[s], rail |-> Released(wire[s])]
        <5>1. pads[s].on /\ ~wire[s].doubt => Clean(pads[s]) BY <4>1, <4>2 DEF SideOK, Tidy
        <5>2. SideOK(to, pads[s], Released(wire[s])) BY <4>1, <5>1, SideReleased
        <5>. QED BY <4>2, <5>2 DEF Kept
      <4>3. ASSUME wire[s].owned, NEW o \in Imu(s, FALSE, wire[s]),
                   x = [pad |-> HandledAll(o.pad, o.rail.inbox), rail |-> Released(o.rail)]
            PROVE  SideOK(to, x.pad, x.rail) /\ Kept(pads[s], x.pad)
        <5>1. o \in Subcmds(pads[s], wire[s], <<"imu", 0>>) BY <4>3 DEF Imu
        <5>. HIDE DEF to
        <5>2. /\ SideOK(to, HandledAll(o.pad, o.rail.inbox), Released(o.rail))
              /\ Kept(pads[s], HandledAll(o.pad, o.rail.inbox))
          BY <4>1, <4>3, <5>1, SideSwitchedOff
        <5>. QED BY <4>3, <5>2
      <4>. QED BY <3>3, <4>2, <4>3
    <3>. HIDE DEF to
    <3>4. /\ SideOK(to, l.pad, l.rail) /\ Kept(pads["L"], l.pad)
          /\ SideOK(to, r.pad, r.rail) /\ Kept(pads["R"], r.pad)
      BY <3>2, <3>3, Zenon DEF Sides
    <3>5. l.pad \in PadType /\ l.rail \in RailType /\ r.pad \in PadType /\ r.rail \in RailType
      BY <3>4 DEF SideOK
    <3>6. Typed BY <3>2, <3>5 DEF Sides
    <3>7. \A s \in Sides : Fits(s) BY <3>2, <3>4 DEF Sides, Kept
    <3>8. MoOff \in MoType BY DEF MoOff, MoType
    <3>9. Rest BY <1>3, <2>2, <3>1, <3>8 DEF MoLeave
    <3>. QED BY <3>6, <3>7, <3>9
  <2>3. CASE gui.at = "ir"
    <3>1. IrLeave /\ UNCHANGED mo BY <1>1, <2>3 DEF Leave
    <3>2. Rest BY <1>3, <3>1, CameraIsOff DEF IrLeave
    <3>3. SideOK(to, pads["L"], wire["L"])
      BY <1>2, <1>3, <2>3, SideAnywhere DEF Sides
    <3>4. CASE ~wire[Side].owned
      <4>1. UNCHANGED <<pads, wire>> BY <3>1, <3>4 DEF IrLeave
      <4>2. SideOK(to, pads["R"], wire["R"])
        BY <1>2, <3>4, SideAnywhere DEF Sides, Side
      <4>3. \A s \in Sides : Fits(s) BY <3>3, <4>1, <4>2 DEF Sides, Kept
      <4>. QED BY <1>3, <3>2, <4>1, <4>3
    <3>5. CASE wire[Side].owned
      <4>1. PICK o \in Subcmds(pads[Side], wire[Side], Msg("sleep")) :
              \E o2 \in Subcmds(o.pad, o.rail, Msg("std_reports")) :
                /\ pads' = [pads EXCEPT ![Side] = HandledAll(o2.pad, o2.rail.inbox)]
                /\ wire' = [wire EXCEPT ![Side] = Released(o2.rail)]
        BY <3>1, <3>5 DEF IrLeave
      <4>2. PICK o2 \in Subcmds(o.pad, o.rail, Msg("std_reports")) :
              /\ pads' = [pads EXCEPT ![Side] = HandledAll(o2.pad, o2.rail.inbox)]
              /\ wire' = [wire EXCEPT ![Side] = Released(o2.rail)]
        BY <4>1
      <4>. DEFINE end == HandledAll(o2.pad, o2.rail.inbox)
                  v == Released(o2.rail)
      <4>3. SideOK("ir", pads[Side], wire[Side]) /\ Side \in Sides
        BY <1>2, <2>3 DEF Side, Sides
      <4>. HIDE DEF to
      <4>4. SideOK(to, end, v) /\ Kept(pads[Side], end) BY <3>5, <4>3, SideAsleep
      <4>. HIDE DEF end, v
      <4>5. end \in PadType /\ v \in RailType BY <4>4 DEF SideOK
      <4>6. pads' = [pads EXCEPT !["R"] = end] /\ wire' = [wire EXCEPT !["R"] = v]
        BY <4>2 DEF end, v, Side
      <4>7. Typed BY <1>3, <4>5, <4>6
      <4>8. \A s \in Sides : Fits(s)
        BY <1>3, <3>3, <4>4, <4>6 DEF Sides, Kept, Side
      <4>. QED BY <3>2, <4>7, <4>8
    <3>. QED BY <3>4, <3>5
  <2>4. CASE gui.at \notin {"joycon", "motion", "ir"}
    <3>1. UNCHANGED <<pads, wire, losses, cam, restarts, mo>> BY <1>1, <2>4 DEF Leave, wireVars
    <3>2. \A s \in Sides : ~wire[s].owned BY <1>3, <2>4 DEF SensorScreens
    <3>3. \A s \in Sides : Fits(s)
      <4>. HIDE DEF to
      <4>. QED BY <1>2, <3>1, <3>2, SideAnywhere DEF Kept
    <3>. QED BY <1>3, <2>4, <3>1, <3>3
  <2>. QED BY <2>1, <2>2, <2>3, <2>4
<1>5. CamInv' BY <1>4 DEF CamInv
<1>. QED BY <1>1, <1>4, <1>5 DEF WireInv, AllKept

(* At the start nothing is owned and nothing switched on.                  *)
LEMMA WireInit0 == Init => WireInv
<1>. SUFFICES ASSUME Init PROVE WireInv
  OBVIOUS
<1>1. /\ pads = [s \in Sides |-> Pad(s \in tour.seated)] /\ wire = [s \in Sides |-> Rail]
      /\ losses = tour.losses /\ cam = CamOff /\ restarts = 0 /\ mo = [s \in Sides |-> MoOff]
      /\ tour \in Tours
  BY DEF Init, JcInit, WireInit
<1>2. tour.losses \in 0..tour.losses BY <1>1, ToursAssumption
<1>3. Rail \in RailType /\ ~Rail.owned /\ Rail.inbox = <<>> /\ Len(<<>>) <= MaxInbox
  <2>1. <<>> \in Seq(PieceType) /\ <<>> \in Seq(ReqType) OBVIOUS
  <2>. QED BY <2>1, JcWireAssumption DEF Rail, RailType
<1>4. \A on \in BOOLEAN : SideOK(gui.at, Pad(on), Rail) /\ Pad(on) \in PadType
  BY <1>3, PadIsOne DEF SideOK, Tidy
<1>5. pads \in [Sides -> PadType] /\ wire \in [Sides -> RailType] /\ \A s \in Sides : SideOK(gui.at, pads[s], wire[s])
  <2>1. wire \in [Sides -> RailType] BY <1>1, <1>3
  <2>2. ASSUME NEW s \in Sides
        PROVE  pads[s] \in PadType /\ SideOK(gui.at, pads[s], wire[s])
    <3>1. pads[s] = Pad(s \in tour.seated) /\ wire[s] = Rail BY <1>1
    <3>2. (s \in tour.seated) \in BOOLEAN OBVIOUS
    <3>. QED BY <1>4, <3>1, <3>2
  <2>3. pads \in [Sides -> PadType] BY <1>1, <2>2
  <2>. QED BY <2>1, <2>2, <2>3
<1>6. MoOff \in MoType BY DEF MoOff, MoType
<1>7. mo \in [Sides -> MoType] BY <1>1, <1>6
<1>. QED BY <1>1, <1>2, <1>5, <1>7, CameraIsOff DEF WireInv, CamInv

(* Every step leaves the rails and their Joy-Cons in order.                *)
LEMMA WireStep == ASSUME RailInv, ScreenInv, WireInv, DriverType, [Next]_vars PROVE WireInv'
  BY WireElsewhere, WireRailStep, WireRailLoss, WireHand, WireTest, WireCamera, WireButton, WireMotion,
     WireTakes, WireSwitches, Zenon DEF Next

-----------------------------------------------------------------------------
(* The driver's poll, the watcher and the Joy-Con test.                    *)

\* The driver sees a Joy-Con through its charger; one without is gone, and one
\* that is gone and back on its rail was slid on.
Watched(on, d, t) ==
    /\ d.conn => d.batt
    /\ ~d.conn /\ ~d.batt => d.gone
    /\ d.gone /\ on => t.slid

\* A loss that is there and that the test has not counted yet.
LapsedSide(on, d, x, r) ==
    \/ x.ever /\ ~on
    \/ ~r /\ x.ever /\ (~x.seen \/ ~d.conn)
    \/ ~r /\ d.conn /\ d.stale

\* The test counts no more than was lost, and still has to count what lapsed.
Counts(at, on, d, t, x, r) ==
    /\ at # "joycon" => x = NoTest
    /\ at = "joycon" =>
         /\ x.drops <= t.lost /\ (LapsedSide(on, d, x, r) => x.drops + 1 <= t.lost)
         /\ x.ever /\ ~x.seen => ~(d.conn /\ d.stale)

\* The test's counts follow from what the watcher saw, on each side.
DriveInv ==
    /\ DriverType
    /\ \A s \in Sides : /\ Watched(pads[s].on, drv[s], told[s])
                        /\ Counts(gui.at, pads[s].on, drv[s], told[s], test[s], resume)

(* What a poll makes of one side.                                          *)
LEMMA PollFinds ==
    ASSUME NEW s \in Sides, drv[s] \in DrvType, NEW q \in Polls(s)
    PROVE  /\ q \in DrvType /\ q.gone = drv[s].gone /\ q.was = drv[s].was /\ q.glow = drv[s].glow
           /\ ~pads[s].on => ~q.conn /\ ~q.batt /\ ~q.stale
           /\ pads[s].on => \/ q.conn /\ q.batt /\ ~q.stale
                            \/ ~q.conn /\ q.batt = drv[s].batt /\ drv[s].conn /\ drv[s].stale
                            \/ q = drv[s] /\ (q.conn => q.stale)
  BY DEF Polls, DrvType

(* What the watcher makes of a poll: who is gone, and who was slid on.     *)
LEMMA WatchIs ==
    ASSUME NEW q \in DrvType
    PROVE  /\ Watch(q) \in DrvType /\ Watch(q).conn = q.conn /\ Watch(q).batt = q.batt
           /\ Watch(q).stale = q.stale
           /\ Watch(q).gone <=> (q.gone \/ (~q.conn /\ ~q.batt)) /\ ~(q.conn /\ ~q.was /\ q.gone)
           /\ Watch(q).glow <=> q.glow \/ (q.conn /\ ~q.was /\ q.gone)
  BY DEF Watch, DrvType

(* A poll keeps one side watched, and its glow is for a Joy-Con slid on.   *)
LEMMA PollSide ==
    ASSUME NEW s \in Sides, drv[s] \in DrvType, told[s] \in ToldType, NEW d,
           Watched(pads[s].on, drv[s], told[s]), NEW q \in Polls(s), d = Watch(q), NEW t,
           t = [told[s] EXCEPT !.slid = @ /\ ~(d.glow /\ ~drv[s].glow)]
    PROVE  /\ d \in DrvType /\ t \in ToldType /\ t.lost = told[s].lost /\ Watched(pads[s].on, d, t)
           /\ d.glow /\ ~drv[s].glow => told[s].slid
           /\ ~pads[s].on => ~d.conn
           /\ d.conn /\ d.stale => drv[s].conn /\ drv[s].stale
           /\ pads[s].on /\ ~d.conn => ~drv[s].conn \/ drv[s].stale
<1>1. t \in ToldType /\ t.lost = told[s].lost /\ (t.slid <=> told[s].slid /\ ~(d.glow /\ ~drv[s].glow))
  BY DEF ToldType
<1>. HIDE DEF Polls
<1>. QED BY <1>1, PollFinds, WatchIs DEF Watched

\* A check runs on its own screen.
RunInv == "at" \in DOMAIN sweep /\ sweep.at \in Nat /\ (Running => gui.at = "run")

(* A poll of both sides.                                                   *)
LEMMA PollBoth ==
    ASSUME DriveInv, NEW d, Poll(d)
    PROVE  /\ drv' = d /\ UNCHANGED port
           /\ drv' \in [Sides -> DrvType] /\ told' \in [Sides -> ToldType] /\ taken' \in [Sides -> BOOLEAN]
           /\ \A s \in Sides :
                /\ told'[s].lost = told[s].lost /\ Watched(pads[s].on, drv'[s], told'[s])
                /\ drv'[s].glow /\ ~drv[s].glow => told[s].slid
                /\ ~pads[s].on => ~drv'[s].conn
                /\ drv'[s].conn /\ drv'[s].stale => drv[s].conn /\ drv[s].stale
                /\ pads[s].on /\ ~drv'[s].conn => ~drv[s].conn \/ drv[s].stale
<1>1. /\ d \in Polled /\ taken' = Rails /\ drv' = d /\ port' = port
      /\ told' = [s \in Sides |->
                    [told[s] EXCEPT !.slid = @ /\ ~(d[s].glow /\ ~drv[s].glow)]]
  BY DEF Poll
<1>2. PICK l \in Polls("L"), r \in Polls("R") : d = [L |-> Watch(l), R |-> Watch(r)]
  BY <1>1 DEF Polled
<1>3. ASSUME NEW s \in Sides
      PROVE  /\ drv'[s] \in DrvType /\ told'[s] \in ToldType
             /\ told'[s].lost = told[s].lost /\ Watched(pads[s].on, drv'[s], told'[s])
             /\ drv'[s].glow /\ ~drv[s].glow => told[s].slid
             /\ ~pads[s].on => ~drv'[s].conn
             /\ drv'[s].conn /\ drv'[s].stale => drv[s].conn /\ drv[s].stale
             /\ pads[s].on /\ ~drv'[s].conn => ~drv[s].conn \/ drv[s].stale
  <2>1. PICK q \in Polls(s) : drv'[s] = Watch(q)
    BY <1>1, <1>2 DEF Sides
  <2>2. drv[s] \in DrvType /\ told[s] \in ToldType /\ Watched(pads[s].on, drv[s], told[s])
    BY DEF DriveInv, DriverType
  <2>3. told'[s] = [told[s] EXCEPT !.slid = @ /\ ~(drv'[s].glow /\ ~drv[s].glow)]
    BY <1>1
  <2>. QED BY <2>1, <2>2, <2>3, PollSide
<1>4. DOMAIN drv' = Sides /\ drv' = [s \in Sides |-> drv'[s]]
  BY <1>1, <1>2 DEF Sides
<1>5. drv' \in [Sides -> DrvType] BY <1>3, <1>4
<1>6. told' \in [Sides -> ToldType] BY <1>1, <1>3
<1>7. taken' \in [Sides -> BOOLEAN] BY <1>1 DEF Rails
<1>. QED BY <1>1, <1>3, <1>5, <1>6, <1>7

\* No Joy-Con came or went.
SameOn == \A s \in Sides : pads'[s].on = pads[s].on

(* A poll away from the test.                                              *)
LEMMA DrivePolls ==
    ASSUME ScreenInv, DriveInv, NEW d, Poll(d), SameOn, gui.at # "joycon", gui'.at = gui.at,
           UNCHANGED <<tour, moves, test, rumble, resume>>
    PROVE  DriveInv'
<1>1. DriverType' BY PollBoth DEF DriveInv, DriverType
<1>2. ASSUME NEW s \in Sides
      PROVE  /\ Watched(pads'[s].on, drv'[s], told'[s])
             /\ Counts(gui'.at, pads'[s].on, drv'[s], told'[s], test'[s], resume')
  <2>1. Watched(pads'[s].on, drv'[s], told'[s]) BY PollBoth DEF SameOn
  <2>2. test'[s] = NoTest BY DEF DriveInv, Counts
  <2>. QED BY <2>1, <2>2 DEF Counts
<1>. QED BY <1>1, <1>2 DEF DriveInv

(* What the test makes of the driver's word.                               *)
LEMMA SideUpdateIs ==
    ASSUME NEW x \in TestType, NEW conn \in BOOLEAN
    PROVE  LET t == SideUpdate(x, conn) IN
           /\ t \in TestType /\ t.seen = conn /\ (t.ever <=> x.ever \/ conn)
           /\ t.drops = IF conn /\ ~x.seen /\ x.ever /\ ~resume THEN x.drops + 1 ELSE x.drops
<1>. DEFINE n == IF conn /\ ~x.seen /\ x.ever /\ ~resume THEN x.drops + 1 ELSE x.drops
            e == x.ever \/ conn
<1>1. n \in Nat /\ e \in BOOLEAN BY DEF TestType
<1>2. SideUpdate(x, conn) = [x EXCEPT !.seen = conn, !.ever = e, !.drops = n]
  BY DEF SideUpdate, TestType
<1>. HIDE DEF n, e
<1>3. LET t == SideUpdate(x, conn) IN t \in TestType /\ t.seen = conn /\ t.ever = e /\ t.drops = n
  BY <1>1, <1>2 DEF TestType
<1>. QED BY <1>3 DEF n, e

(* The test's tick: what the driver finds again was lost before, or the    *)
(* window after a sensor screen is still open.                             *)
LEMMA DriveTest == ASSUME ScreenInv, DriveInv, SameOn, TestTick PROVE DriveInv'
<1>1. PICK d, r : JcTick(d, r) /\ d \in Polled /\ r \in {rumble, "gap", "right", "none"}
  BY DEF TestTick
<1>2. /\ Poll(d) /\ UNCHANGED <<gui, tour, moves>> /\ gui.at = "joycon" /\ rumble' = r
      /\ test' = [s \in Sides |-> LET t == SideUpdate(test[s], d[s].conn)
                                  IN  [t EXCEPT !.buzz = Buzzing(r, s, t)]]
      /\ resume' \in {resume, resume /\ ~(\A s \in Sides : Back(s))}
  BY <1>1 DEF TestTick, JcTick
<1>3. DriverType BY DEF DriveInv
<1>4. resume' \in BOOLEAN /\ (resume' => resume) /\ (resume /\ ~resume' => \A s \in Sides : Back(s))
  BY <1>2, <1>3 DEF DriverType
<1>5. ASSUME NEW s \in Sides
      PROVE  /\ test'[s] \in TestType /\ test'[s].seen = drv'[s].conn
             /\ test'[s].ever <=> test[s].ever \/ drv'[s].conn
             /\ test'[s].drops = IF drv'[s].conn /\ ~test[s].seen /\ test[s].ever /\ ~resume
                                 THEN test[s].drops + 1 ELSE test[s].drops
  <2>. DEFINE t == SideUpdate(test[s], d[s].conn)
  <2>1. drv' = d /\ d[s].conn \in BOOLEAN
    <3>1. drv'[s] \in DrvType /\ drv' = d BY <1>2, PollBoth
    <3>. QED BY <3>1 DEF DrvType
  <2>2. test[s] \in TestType BY <1>3 DEF DriverType
  <2>3. /\ t \in TestType /\ t.seen = d[s].conn /\ (t.ever <=> test[s].ever \/ d[s].conn)
        /\ t.drops = IF d[s].conn /\ ~test[s].seen /\ test[s].ever /\ ~resume
                     THEN test[s].drops + 1 ELSE test[s].drops
    BY <2>1, <2>2, SideUpdateIs
  <2>4. test'[s] = [t EXCEPT !.buzz = Buzzing(r, s, t)] BY <1>2
  <2>5. Buzzing(r, s, t) \in BOOLEAN BY DEF Buzzing
  <2>. HIDE DEF t
  <2>6. /\ test'[s] \in TestType /\ test'[s].seen = t.seen /\ test'[s].ever = t.ever
        /\ test'[s].drops = t.drops
    BY <2>3, <2>4, <2>5 DEF TestType
  <2>. QED BY <2>1, <2>3, <2>6
<1>6. DriverType'
  <2>1. test' \in [Sides -> TestType] BY <1>2, <1>5
  <2>2. rumble' \in {"none", "left", "gap", "right"} BY <1>1, <1>2, <1>3 DEF DriverType
  <2>. QED BY <1>2, <1>3, <1>4, <2>1, <2>2, PollBoth DEF DriverType
<1>7. ASSUME NEW s \in Sides
      PROVE  /\ Watched(pads'[s].on, drv'[s], told'[s])
             /\ Counts(gui'.at, pads'[s].on, drv'[s], told'[s], test'[s], resume')
  <2>1. /\ told'[s].lost = told[s].lost /\ Watched(pads'[s].on, drv'[s], told'[s])
        /\ pads'[s].on = pads[s].on
        /\ ~pads[s].on => ~drv'[s].conn
        /\ drv'[s].conn /\ drv'[s].stale => drv[s].conn /\ drv[s].stale
        /\ pads[s].on /\ ~drv'[s].conn => ~drv[s].conn \/ drv[s].stale
    BY <1>2, PollBoth DEF SameOn
  <2>2. /\ test[s].drops <= told[s].lost
        /\ LapsedSide(pads[s].on, drv[s], test[s], resume) => test[s].drops + 1 <= told[s].lost
        /\ test[s].ever /\ ~test[s].seen => ~(drv[s].conn /\ drv[s].stale)
        /\ test[s].drops \in Nat /\ told[s].lost \in Nat
    BY <1>2, <1>3 DEF DriveInv, Counts, DriverType, TestType, ToldType
  <2>3. resume /\ ~resume' /\ pads[s].on => drv[s].conn /\ ~drv[s].stale
    BY <1>4 DEF Back
  <2>4. CASE drv'[s].conn /\ ~test[s].seen /\ test[s].ever /\ ~resume
    <3>1. LapsedSide(pads[s].on, drv[s], test[s], resume) BY <2>4 DEF LapsedSide
    <3>2. test'[s].drops <= told'[s].lost BY <1>5, <2>1, <2>2, <2>4, <3>1
    <3>3. ~LapsedSide(pads'[s].on, drv'[s], test'[s], resume')
      BY <1>5, <2>1, <2>2, <2>4 DEF LapsedSide
    <3>. QED BY <1>2, <1>5, <2>1, <2>4, <3>2, <3>3 DEF Counts
  <2>5. CASE ~(drv'[s].conn /\ ~test[s].seen /\ test[s].ever /\ ~resume)
    <3>1. test'[s].drops = test[s].drops BY <1>5, <2>5
    <3>2. LapsedSide(pads'[s].on, drv'[s], test'[s], resume')
            => LapsedSide(pads[s].on, drv[s], test[s], resume)
      BY <1>4, <1>5, <2>1, <2>3 DEF LapsedSide
    <3>3. test'[s].ever /\ ~test'[s].seen => ~drv'[s].conn BY <1>5
    <3>. QED BY <1>2, <2>1, <2>2, <3>1, <3>2, <3>3 DEF Counts
  <2>. QED BY <2>4, <2>5
<1>. QED BY <1>6, <1>7 DEF DriveInv

(* A step that leaves the driver, the test and who is on the rails alone.  *)
LEMMA DriveQuiet ==
    ASSUME ScreenInv, DriveInv, SameOn, UNCHANGED <<tour, port, taken, jcVars>>,
           gui'.at = gui.at \/ (gui.at # "joycon" /\ gui'.at # "joycon")
    PROVE  DriveInv'
<1>1. UNCHANGED <<drv, told, moves, test, rumble, resume>> BY DEF jcVars
<1>2. DriverType' BY <1>1 DEF DriveInv, DriverType
<1>3. ASSUME NEW s \in Sides
      PROVE  /\ Watched(pads'[s].on, drv'[s], told'[s])
             /\ Counts(gui'.at, pads'[s].on, drv'[s], told'[s], test'[s], resume')
  BY <1>1 DEF DriveInv, Counts, SameOn
<1>. QED BY <1>2, <1>3 DEF DriveInv

(* The steps that stay on their screen, or go from the RAM test's screen   *)
(* to the payload.                                                         *)
LEMMA SameScreenAt ==
    ASSUME ScreenInv,
           \/ Chooses \/ Backs \/ AgainInBox \/ Deeper \/ CheckAll \/ CheckSome \/ CheckAgain
           \/ LastResults \/ CameraStep \/ CameraButton \/ MotionStep \/ RailStep \/ RailLoss
           \/ CheckStep \/ RamStart \/ Screenshot \/ TouchRead \/ TestTasks \/ FingerStep
           \/ UNCHANGED vars
    PROVE  gui'.at = gui.at \/ (gui.at = "ram" /\ gui'.at = "ramtest")
<1>1. CASE \/ CameraStep \/ CameraButton \/ MotionStep \/ RailStep \/ RailLoss \/ CheckStep
           \/ Screenshot \/ FingerStep \/ UNCHANGED vars
  BY <1>1 DEF CameraStep, CameraButton, OnCamera, MotionStep, RailStep, RailLoss, OnRails, CheckStep,
              Screenshot, FingerStep, vars
<1>2. CASE \/ Chooses \/ Backs \/ AgainInBox \/ Deeper \/ CheckAll \/ CheckSome \/ CheckAgain
           \/ LastResults
  <2>1. \E screen : gui' = [gui EXCEPT !.pending = screen]
    BY <1>2 DEF Chooses, Backs, AgainInBox, Deeper, CheckAll, CheckSome, CheckAgain, LastResults, Shows
  <2>. QED BY <2>1 DEF ScreenInv, GuiType
<1>3. CASE TouchRead \/ TestTasks
  <2>1. gui' = [gui EXCEPT !.box = tt'.over \/ sc'.over] BY <1>3 DEF TouchRead, TestTasks
  <2>. QED BY <2>1 DEF ScreenInv, GuiType
<1>4. CASE RamStart
  <2>1. gui.at = "ram" /\ gui' \in {gui, Plain("ramtest")} BY <1>4 DEF RamStart
  <2>. QED BY <2>1 DEF Plain
<1>. QED BY <1>1, <1>2, <1>3, <1>4

(* Those that leave them alone.                                            *)
LEMMA DriveElsewhere ==
    ASSUME ScreenInv, RunInv, DriveInv, SameOn,
           \/ Chooses \/ Backs \/ AgainInBox \/ Deeper \/ CheckAll \/ CheckSome \/ CheckAgain
           \/ LastResults \/ CameraStep \/ CameraButton \/ MotionStep \/ RailStep \/ RailLoss
           \/ CheckStep \/ RamStart \/ Screenshot \/ TouchRead \/ TestTasks \/ FingerStep
           \/ UNCHANGED vars
    PROVE  DriveInv'
<1>1. UNCHANGED <<tour, port, taken, jcVars>>
  BY DEF Chooses, Backs, AgainInBox, Deeper, CheckAll, CheckSome, CheckAgain, LastResults, CameraStep,
         CameraButton, OnCamera, MotionStep, RailStep, RailLoss, OnRails, CheckStep, RamStart, Screenshot,
         TouchRead, TestTasks, FingerStep, sensorVars, vars
<1>2. gui'.at = gui.at \/ (gui.at # "joycon" /\ gui'.at # "joycon") BY SameScreenAt
<1>. QED BY <1>1, <1>2, DriveQuiet

(* One side's Joy-Con comes, goes or falls silent, or its glow fades: a    *)
(* loss counts before the driver or the test can tell.                     *)
LEMMA DriveOne ==
    ASSUME ScreenInv, DriveInv, NEW s \in Sides, UNCHANGED <<tour, gui, port, taken, test, rumble, resume>>,
           moves' \in {moves, moves - 1}, moves' >= 0,
           NEW d \in DrvType, NEW t \in ToldType,
           drv' = [drv EXCEPT ![s] = d], told' = [told EXCEPT ![s] = t],
           \A r \in Sides \ {s} : pads'[r].on = pads[r].on,
           Watched(pads'[s].on, d, t),
           \/ t.lost = told[s].lost + 1 /\ d.stale = drv[s].stale /\ (d.conn => drv[s].conn)
           \/ /\ t.lost = told[s].lost /\ d.stale = drv[s].stale /\ d.conn = drv[s].conn
              /\ pads[s].on => pads'[s].on
    PROVE  DriveInv'
<1>1. DriverType'
  <2>1. moves' \in 0..tour.moves BY ToursAssumption DEF DriveInv, DriverType, ScreenInv
  <2>2. drv' \in [Sides -> DrvType] /\ told' \in [Sides -> ToldType] BY DEF DriveInv, DriverType
  <2>. QED BY <2>1, <2>2 DEF DriveInv, DriverType
<1>2. ASSUME NEW r \in Sides
      PROVE  /\ Watched(pads'[r].on, drv'[r], told'[r])
             /\ Counts(gui'.at, pads'[r].on, drv'[r], told'[r], test'[r], resume')
  <2>1. CASE r # s
    <3>1. drv'[r] = drv[r] /\ told'[r] = told[r] /\ pads'[r].on = pads[r].on
      BY <2>1 DEF DriveInv, DriverType
    <3>. QED BY <3>1 DEF DriveInv
  <2>2. CASE r = s
    <3>1. drv'[s] = d /\ told'[s] = t BY DEF DriveInv, DriverType
    <3>2. /\ test[s].drops \in Nat /\ told[s].lost \in Nat
          /\ Counts(gui.at, pads[s].on, drv[s], told[s], test[s], resume)
      BY DEF DriveInv, DriverType, TestType, ToldType
    <3>3. Counts(gui.at, pads'[s].on, d, t, test[s], resume)
      <4>1. CASE gui.at # "joycon" BY <3>2, <4>1 DEF Counts
      <4>2. CASE gui.at = "joycon" /\ t.lost = told[s].lost + 1
        BY <3>2, <4>2 DEF Counts
      <4>3. CASE gui.at = "joycon" /\ t.lost # told[s].lost + 1
        <5>1. t.lost = told[s].lost /\ d.stale = drv[s].stale /\ d.conn = drv[s].conn
              /\ (pads[s].on => pads'[s].on)
          BY <4>3
        <5>2. LapsedSide(pads'[s].on, d, test[s], resume) => LapsedSide(pads[s].on, drv[s], test[s], resume)
          BY <5>1 DEF LapsedSide
        <5>. QED BY <3>2, <4>3, <5>1, <5>2 DEF Counts
      <4>. QED BY <4>1, <4>2, <4>3
    <3>. QED BY <2>2, <3>1, <3>3
  <2>. QED BY <2>1, <2>2
<1>. QED BY <1>1, <1>2 DEF DriveInv

(* A Joy-Con slid on, pulled or silent.                                    *)
LEMMA DriveHand == ASSUME ScreenInv, DriveInv, WireInv, HandStep PROVE DriveInv'
<1>1. PICK s \in Sides : Attach(s) \/ Pull(s) \/ Silent(s)
  BY ToursAssumption DEF HandStep, ScreenInv
<1>2. /\ UNCHANGED <<tour, gui, port, taken, test, rumble, resume>> /\ moves' = moves - 1 /\ moves > 0
  BY <1>1 DEF HandStep, Attach, Pull, Silent
<1>3. /\ drv[s] \in DrvType /\ told[s] \in ToldType /\ Watched(pads[s].on, drv[s], told[s])
      /\ drv \in [Sides -> DrvType] /\ told \in [Sides -> ToldType]
      /\ moves \in 0..tour.moves /\ tour.moves \in Nat /\ pads \in [Sides -> PadType]
  BY ToursAssumption DEF DriveInv, DriverType, ScreenInv, WireInv
<1>4. moves' \in {moves, moves - 1} /\ moves' >= 0 BY <1>2, <1>3
<1>5. CASE Attach(s)
  <2>. DEFINE t == [told[s] EXCEPT !.slid = TRUE]
  <2>1. t \in ToldType /\ t.lost = told[s].lost /\ t.slid BY <1>3 DEF ToldType
  <2>2. told' = [told EXCEPT ![s] = t] /\ drv' = [drv EXCEPT ![s] = drv[s]]
    BY <1>3, <1>5 DEF Attach
  <2>. HIDE DEF t
  <2>3. ~pads[s].on /\ \A r \in Sides \ {s} : pads'[r].on = pads[r].on
    BY <1>3, <1>5 DEF Attach
  <2>4. Watched(pads'[s].on, drv[s], t) BY <1>3, <2>1 DEF Watched
  <2>. QED BY <1>2, <1>3, <1>4, <2>1, <2>2, <2>3, <2>4, DriveOne
<1>6. CASE Pull(s)
  <2>. DEFINE t == [lost |-> told[s].lost + 1, slid |-> FALSE]
  <2>1. t \in ToldType /\ t.lost = told[s].lost + 1 BY <1>3 DEF ToldType
  <2>2. told' = [told EXCEPT ![s] = t] /\ drv' = [drv EXCEPT ![s] = drv[s]]
    BY <1>3, <1>6 DEF Pull
  <2>. HIDE DEF t
  <2>3. ~pads'[s].on /\ \A r \in Sides \ {s} : pads'[r].on = pads[r].on
    BY <1>3, <1>6 DEF Pull, Pad
  <2>4. Watched(pads'[s].on, drv[s], t) BY <1>3, <2>3 DEF Watched
  <2>. QED BY <1>2, <1>3, <1>4, <2>1, <2>2, <2>3, <2>4, DriveOne
<1>7. CASE Silent(s)
  <2>. DEFINE d == [drv[s] EXCEPT !.conn = FALSE, !.was = FALSE]
              t == [told[s] EXCEPT !.lost = @ + 1]
  <2>1. t \in ToldType /\ t.lost = told[s].lost + 1 /\ t.slid = told[s].slid BY <1>3 DEF ToldType
  <2>2. d \in DrvType /\ ~d.conn /\ d.batt = drv[s].batt /\ d.gone = drv[s].gone /\ d.stale = drv[s].stale
    BY <1>3 DEF DrvType
  <2>3. told' = [told EXCEPT ![s] = t] /\ drv' = [drv EXCEPT ![s] = d]
    BY <1>3, <1>7 DEF Silent
  <2>. HIDE DEF t, d
  <2>4. drv[s].conn /\ UNCHANGED pads BY <1>7 DEF Silent, wireVars
  <2>5. Watched(pads'[s].on, d, t) BY <1>3, <2>1, <2>2, <2>4 DEF Watched
  <2>. QED BY <1>2, <1>4, <2>1, <2>2, <2>3, <2>4, <2>5, DriveOne
<1>. QED BY <1>1, <1>5, <1>6, <1>7

(* A glow that fades.                                                      *)
LEMMA DriveGlow == ASSUME ScreenInv, DriveInv, GlowStep PROVE DriveInv'
<1>1. PICK s \in Sides : GlowFades(s) BY DEF GlowStep
<1>2. UNCHANGED <<tour, gui, port, taken, test, rumble, resume, moves, told, pads>>
  BY <1>1 DEF GlowStep, GlowFades, wireVars
<1>3. /\ drv[s] \in DrvType /\ told[s] \in ToldType /\ Watched(pads[s].on, drv[s], told[s])
      /\ drv \in [Sides -> DrvType] /\ told \in [Sides -> ToldType] /\ moves \in Nat
  BY DEF DriveInv, DriverType
<1>. DEFINE d == [drv[s] EXCEPT !.glow = FALSE]
            u == told[s]
<1>4. /\ d \in DrvType /\ d.conn = drv[s].conn /\ d.batt = drv[s].batt /\ d.gone = drv[s].gone
      /\ d.stale = drv[s].stale
  BY <1>3 DEF DrvType
<1>5. drv' = [drv EXCEPT ![s] = d] /\ told' = [told EXCEPT ![s] = u]
  BY <1>1, <1>2, <1>3 DEF GlowFades
<1>. HIDE DEF d
<1>6. Watched(pads'[s].on, d, u) BY <1>2, <1>3, <1>4 DEF Watched
<1>7. moves' \in {moves, moves - 1} /\ moves' >= 0 BY <1>2, <1>3
<1>. QED BY <1>2, <1>3, <1>4, <1>5, <1>6, <1>7, DriveOne

(* The test's rumble begins; the console moves.                            *)
LEMMA DriveRumbles == ASSUME ScreenInv, DriveInv, Rumbles PROVE DriveInv'
<1>1. /\ UNCHANGED <<tour, gui, port, taken, test, resume, moves, told, pads, drv>> /\ rumble' = "left"
  BY DEF Rumbles, ActRumble, wireVars
<1>. QED BY <1>1 DEF DriveInv, DriverType, Counts

(* The port of the debug console.                                          *)
LEMMA DrivePort == ASSUME ScreenInv, DriveInv, PicksPort PROVE DriveInv'
<1>1. UNCHANGED <<tour, gui, test, rumble, resume, moves, told, pads, drv>>
  BY DEF PicksPort, wireVars, jcVars
<1>2. PICK p \in tour.ports : Sets(p) BY DEF PicksPort
<1>3. port' = p /\ p \in Ports BY <1>2, ToursAssumption DEF Sets, ScreenInv
<1>4. taken' \in [Sides -> BOOLEAN]
  <2>. DEFINE b == taken["L"] \/ (p = "UART-C" /\ pads["L"].on)
  <2>1. taken' = [taken EXCEPT !["L"] = b] /\ taken \in [Sides -> BOOLEAN] /\ b \in BOOLEAN
    BY <1>2 DEF Sets, DriveInv, DriverType
  <2>. QED BY <2>1
<1>. QED BY <1>1, <1>3, <1>4 DEF DriveInv, DriverType, Counts

(* A check leaves the driver unpolled, which it finds on its next poll.    *)
LEMMA StaleIs ==
    ASSUME DriveInv, WireInv, drv' = StaleNow
    PROVE  drv' \in [Sides -> DrvType]
           /\ \A s \in Sides : \E b \in BOOLEAN : drv'[s] = [drv[s] EXCEPT !.stale = b]
<1>1. ASSUME NEW s \in Sides
      PROVE  drv'[s] \in DrvType /\ \E b \in BOOLEAN : drv'[s] = [drv[s] EXCEPT !.stale = b]
  <2>1. drv[s] \in DrvType /\ pads[s].on \in BOOLEAN
    BY DEF DriveInv, DriverType, WireInv, PadType
  <2>2. drv'[s] = [drv[s] EXCEPT !.stale = pads[s].on] BY DEF StaleNow
  <2>3. drv'[s] \in DrvType BY <2>1, <2>2 DEF DrvType
  <2>. QED BY <2>1, <2>2, <2>3
<1>2. drv' = [s \in Sides |-> drv'[s]] BY DEF StaleNow
<1>. QED BY <1>1, <1>2

(* The end of a check, which took the rails from the driver.               *)
LEMMA DriveCheck == ASSUME ScreenInv, RunInv, DriveInv, WireInv, CheckEnds PROVE DriveInv'
<1>1. UNCHANGED <<tour, port, taken, test, rumble, resume, moves, told, pads>> /\ drv' = StaleNow
  BY DEF CheckEnds, wireVars
<1>2. gui.at = "run" /\ gui'.at = "run"
  <2>1. sweep.at = Len(Pages) + 2 /\ gui' = [gui EXCEPT !.hold = FALSE, !.pending = "results"]
    BY DEF CheckEnds, RunSaves
  <2>2. Len(Pages) \in Nat BY HealthRunAssumption
  <2>. QED BY <2>1, <2>2 DEF RunInv, Running, ScreenInv, GuiType
<1>3. DriverType' BY <1>1, StaleIs DEF DriveInv, DriverType
<1>4. ASSUME NEW s \in Sides
      PROVE  /\ Watched(pads'[s].on, drv'[s], told'[s])
             /\ Counts(gui'.at, pads'[s].on, drv'[s], told'[s], test'[s], resume')
  <2>1. drv[s] \in DrvType BY DEF DriveInv, DriverType
  <2>2. drv'[s].conn = drv[s].conn /\ drv'[s].batt = drv[s].batt /\ drv'[s].gone = drv[s].gone
    BY <1>1, <2>1, StaleIs DEF DrvType
  <2>. QED BY <1>1, <1>2, <2>2 DEF DriveInv, Watched, Counts
<1>. QED BY <1>3, <1>4 DEF DriveInv

(* The polls away from the test.                                           *)
LEMMA DriveNav == ASSUME ScreenInv, RailInv, WireInv, DriveInv, NavPoll \/ TakesRails
    PROVE DriveInv'
<1>1. PICK d : Poll(d) BY DEF NavPoll, TakesRails
<1>2. UNCHANGED <<tour, moves, test, rumble, resume>> BY DEF NavPoll, TakesRails
<1>3. gui.at # "joycon" /\ gui'.at = gui.at
  BY DEF NavPoll, TakesRails, RailInv, SensorScreens, ScreenInv, GuiType
<1>4. SameOn
  <2>1. CASE NavPoll BY <2>1 DEF NavPoll, wireVars, SameOn
  <2>2. CASE TakesRails BY <2>2, WireTakes DEF AllKept, Kept, SameOn
  <2>. QED BY <2>1, <2>2
<1>. QED BY <1>1, <1>2, <1>3, <1>4, DrivePolls

(* A screen is left, and the next one shown: a test opened anew counts     *)
(* from nothing.                                                           *)
LEMMA DriveSwitches == ASSUME ScreenInv, RailInv, WireInv, DriveInv, Switches PROVE DriveInv'
<1>1. /\ Leave /\ UNCHANGED <<tour, port, taken, moves>> /\ gui' = Built(gui.pending)
      /\ gui.pending \in Screens
      /\ told' = IF gui.pending = "joycon"
                 THEN [s \in Sides |-> [told[s] EXCEPT !.lost = Unpolled(s)']] ELSE told
  BY DEF Switches, ScreenInv, GuiType
<1>2. DriverType BY DEF DriveInv
<1>3. gui'.at = gui.pending BY <1>1 DEF Built, Plain
<1>4. SameOn BY <1>2, WireSwitches DEF SameOn
<1>5. drv' = drv \/ drv' = StaleNow BY <1>1, Zenon DEF Leave, LeavesSensors
<1>6. drv' \in [Sides -> DrvType]
      /\ \A s \in Sides : /\ drv'[s].conn = drv[s].conn /\ drv'[s].batt = drv[s].batt
                          /\ drv'[s].gone = drv[s].gone
  <2>1. CASE drv' = drv BY <1>2, <2>1 DEF DriverType
  <2>2. CASE drv' = StaleNow
    <3>1. ASSUME NEW s \in Sides
          PROVE  /\ drv'[s].conn = drv[s].conn /\ drv'[s].batt = drv[s].batt
                 /\ drv'[s].gone = drv[s].gone
      <4>1. drv[s] \in DrvType BY <1>2 DEF DriverType
      <4>. QED BY <2>2, <4>1, StaleIs DEF DrvType
    <3>. QED BY <2>2, <3>1, StaleIs
  <2>. QED BY <1>5, <2>1, <2>2
<1>7. NoTest \in TestType BY DEF NoTest, TestType
<1>8. /\ test' = [s \in Sides |-> NoTest] /\ rumble' \in {"none", rumble}
      /\ resume' \in BOOLEAN
  <2>1. test = [s \in Sides |-> NoTest] \/ gui.at = "joycon"
    <3>1. gui.at # "joycon" => \A s \in Sides : test[s] = NoTest BY DEF DriveInv, Counts
    <3>2. test \in [Sides -> TestType] BY <1>2 DEF DriverType
    <3>. QED BY <3>1, <3>2
  <2>2. CASE gui.at = "joycon"
    BY <1>1, <1>2, <2>2 DEF Leave, TestLeaves, DriverType
  <2>3. CASE gui.at \in {"motion", "ir"}
    <3>1. LeavesSensors /\ UNCHANGED <<test, rumble>> BY <1>1, <2>3 DEF Leave
    <3>2. resume' \in BOOLEAN BY <1>2, <3>1 DEF LeavesSensors, DriverType
    <3>. QED BY <2>1, <2>3, <3>1, <3>2
  <2>4. CASE gui.at \notin {"joycon", "motion", "ir"}
    BY <1>1, <1>2, <2>1, <2>4 DEF Leave, DriverType
  <2>. QED BY <2>2, <2>3, <2>4
<1>9. told' \in [Sides -> ToldType]
      /\ \A s \in Sides : /\ told'[s].slid = told[s].slid
                          /\ gui'.at = "joycon" => told'[s].lost = Unpolled(s)'
  <2>1. \A s \in Sides : Unpolled(s)' \in {0, 1} BY DEF Unpolled
  <2>2. told \in [Sides -> ToldType] BY <1>2 DEF DriverType
  <2>3. ASSUME NEW t \in ToldType, NEW n \in {0, 1}
        PROVE  LET u == [t EXCEPT !.lost = n] IN u \in ToldType /\ u.lost = n /\ u.slid = t.slid
    BY DEF ToldType
  <2>4. CASE gui.pending = "joycon"
    <3>1. told' = [s \in Sides |-> [told[s] EXCEPT !.lost = Unpolled(s)']] BY <1>1, <2>4
    <3>2. ASSUME NEW s \in Sides
          PROVE  told'[s] \in ToldType /\ told'[s].slid = told[s].slid /\ told'[s].lost = Unpolled(s)'
      <4>1. told'[s] = [told[s] EXCEPT !.lost = Unpolled(s)'] /\ told[s] \in ToldType
            /\ Unpolled(s)' \in {0, 1}
        BY <2>1, <2>2, <3>1
      <4>. QED BY <2>3, <4>1
    <3>. QED BY <3>1, <3>2
  <2>5. CASE gui.pending # "joycon" BY <1>1, <1>3, <2>2, <2>5
  <2>. QED BY <2>4, <2>5
<1>10. DriverType' BY <1>1, <1>2, <1>6, <1>7, <1>8, <1>9 DEF DriverType
<1>11. ASSUME NEW s \in Sides
       PROVE  /\ Watched(pads'[s].on, drv'[s], told'[s])
              /\ Counts(gui'.at, pads'[s].on, drv'[s], told'[s], test'[s], resume')
  <2>1. Watched(pads'[s].on, drv'[s], told'[s])
    BY <1>4, <1>6, <1>9 DEF DriveInv, Watched, SameOn
  <2>2. test'[s] = NoTest BY <1>8
  <2>3. LapsedSide(pads'[s].on, drv'[s], NoTest, resume') => Unpolled(s)' = 1
    BY DEF LapsedSide, NoTest, Unpolled
  <2>4. Unpolled(s)' \in {0, 1} BY DEF Unpolled
  <2>5. NoTest.drops = 0 /\ ~NoTest.ever BY DEF NoTest
  <2>6. Counts(gui'.at, pads'[s].on, drv'[s], told'[s], NoTest, resume')
    BY <1>9, <2>3, <2>4, <2>5 DEF Counts
  <2>. QED BY <2>1, <2>2, <2>6
<1>. QED BY <1>10, <1>11 DEF DriveInv

(* At the start every Joy-Con is there, or its rail was found empty.       *)
LEMMA DriveInit == Init => DriveInv
<1>. SUFFICES ASSUME Init PROVE DriveInv
  OBVIOUS
<1>1. /\ pads = [s \in Sides |-> Pad(s \in tour.seated)] /\ tour \in Tours /\ gui.at = "home"
      /\ drv = [s \in Sides |-> IF s \in tour.seated
                                THEN [Unseen EXCEPT !.conn = TRUE, !.batt = TRUE,
                                                    !.was = TRUE, !.gone = FALSE]
                                ELSE Unseen]
      /\ told = [s \in Sides |-> Quiet] /\ moves = tour.moves
      /\ test = [s \in Sides |-> NoTest] /\ rumble = "none" /\ resume = FALSE
      /\ port = "UART-B" /\ taken = [s \in Sides |-> s = "R" /\ pads[s].on]
  BY DEF Init, JcInit, WireInit, DbgInit, Plain
<1>2. ASSUME NEW s \in Sides
      PROVE  /\ drv[s] \in DrvType /\ told[s] \in ToldType /\ test[s] \in TestType
             /\ Watched(pads[s].on, drv[s], told[s])
             /\ Counts(gui.at, pads[s].on, drv[s], told[s], test[s], resume)
  <2>1. pads[s].on <=> s \in tour.seated BY <1>1 DEF Pad
  <2>2. told[s] = Quiet /\ test[s] = NoTest BY <1>1
  <2>3. Quiet \in ToldType /\ NoTest \in TestType BY DEF Quiet, ToldType, NoTest, TestType
  <2>4. Counts(gui.at, pads[s].on, drv[s], told[s], test[s], resume) BY <1>1, <2>2 DEF Counts
  <2>5. drv[s] \in DrvType /\ Watched(pads[s].on, drv[s], told[s])
    BY <1>1, <2>1 DEF DrvType, Watched, Unseen
  <2>. QED BY <2>2, <2>3, <2>4, <2>5
<1>3. taken \in [Sides -> BOOLEAN]
  <2>1. \A s \in Sides : (s = "R" /\ pads[s].on) \in BOOLEAN OBVIOUS
  <2>. QED BY <1>1, <2>1
<1>4. tour.moves \in Nat BY <1>1, ToursAssumption
<1>5. drv \in [Sides -> DrvType] /\ told \in [Sides -> ToldType] /\ test \in [Sides -> TestType]
  BY <1>1, <1>2
<1>6. moves \in 0..tour.moves /\ port \in Ports BY <1>1, <1>4 DEF Ports
<1>7. DriverType BY <1>1, <1>3, <1>5, <1>6 DEF DriverType
<1>. QED BY <1>2, <1>7 DEF DriveInv

(* A check begins with its own screen, and ends there.                     *)
LEMMA RunStep == ASSUME ScreenInv, RunInv, [Next]_vars PROVE RunInv'
<1>1. Len(Pages) \in Nat BY HealthRunAssumption
<1>2. CASE \/ Chooses \/ Backs \/ AgainInBox \/ Deeper \/ CheckAll \/ CheckSome \/ CheckAgain \/ LastResults
  <2>1. /\ UNCHANGED sweep
        /\ \E screen : gui' = [gui EXCEPT !.pending = screen]
    BY <1>2 DEF Chooses, Backs, AgainInBox, Deeper, CheckAll, CheckSome, CheckAgain, LastResults, Shows,
                checkVars
  <2>. QED BY <2>1 DEF RunInv, Running, ScreenInv, GuiType
<1>3. CASE Switches
  <2>1. gui'.at = gui.pending /\ ~Running BY <1>3 DEF Switches, Built, Plain, Free
  <2>2. CASE gui.pending = "run"
    <3>1. sweep' = [at |-> NextPage(1, sel.run), started |-> 0]
      BY <1>3, <2>2 DEF Switches, RunStarts
    <3>2. NextPage(1, sel.run) \in Nat BY <1>1, NextPageIsLater
    <3>. QED BY <2>1, <2>2, <3>1, <3>2 DEF RunInv, Running
  <2>3. CASE gui.pending # "run"
    <3>1. UNCHANGED sweep BY <1>3, <2>3 DEF Switches, checkVars
    <3>. QED BY <2>1, <3>1 DEF RunInv, Running
  <2>. QED BY <2>2, <2>3
<1>4. CASE TakesRails
  <2>1. UNCHANGED sweep /\ gui' = [gui EXCEPT !.busy = FALSE] BY <1>4 DEF TakesRails, checkVars
  <2>. QED BY <2>1 DEF RunInv, Running, ScreenInv, GuiType
<1>5. CASE \/ NavPoll \/ PicksPort \/ TestTick \/ Rumbles \/ CameraStep \/ CameraButton \/ MotionStep
           \/ RailStep \/ RailLoss \/ HandStep \/ GlowStep \/ Screenshot \/ FingerStep \/ UNCHANGED vars
  <2>1. UNCHANGED <<gui, sweep>>
    BY <1>5 DEF NavPoll, PicksPort, TestTick, Rumbles, CameraStep, CameraButton, OnCamera, MotionStep,
                RailStep, RailLoss, OnRails, HandStep, GlowStep, Screenshot, FingerStep, vars, checkVars
  <2>. QED BY <2>1 DEF RunInv, Running
<1>6. CASE CheckStep
  <2>1. UNCHANGED gui /\ Running
    BY <1>1, <1>6 DEF CheckStep, RunPage, RunVerdict, Running
  <2>2. "at" \in DOMAIN sweep' /\ sweep'.at \in Nat
    <3>1. CASE RunPage
      <4>1. sweep.at \in Nat /\ sweep.at <= Len(Pages) BY <3>1 DEF RunInv, RunPage
      <4>2. sweep.at + 1 \in Nat /\ sweep.at + 1 <= Len(Pages) + 1 BY <1>1, <4>1
      <4>3. NextPage(sweep.at + 1, sel.ran) \in Nat BY <1>1, <4>2, NextPageIsLater
      <4>. QED BY <3>1, <4>3 DEF RunPage, StatusSet
    <3>2. CASE RunVerdict BY <3>2 DEF RunVerdict, StatusSet, RunInv
    <3>. QED BY <1>6, <3>1, <3>2 DEF CheckStep
  <2>. QED BY <2>1, <2>2 DEF RunInv
<1>7. CASE CheckEnds
  <2>1. sweep' = [sweep EXCEPT !.at = 0, !.started = Total(sel.ran)] BY <1>7 DEF CheckEnds, RunSaves
  <2>2. sweep'.at \in {0, sweep.at} /\ "at" \in DOMAIN sweep' BY <2>1 DEF RunInv
  <2>3. gui'.at = gui.at BY <1>7 DEF CheckEnds, ScreenInv, GuiType
  <2>. QED BY <1>7, <2>2, <2>3 DEF RunInv, Running
<1>8. CASE RamStart
  <2>1. UNCHANGED sweep /\ ~Running BY <1>8 DEF RamStart, Acts, Free
  <2>. QED BY <2>1 DEF RunInv, Running
<1>9. CASE TouchRead \/ TestTasks
  <2>1. UNCHANGED sweep /\ gui' = [gui EXCEPT !.box = tt'.over \/ sc'.over]
    BY <1>9 DEF TouchRead, TestTasks, checkVars
  <2>. QED BY <2>1 DEF RunInv, Running, ScreenInv, GuiType
<1>. QED BY <1>2, <1>3, <1>4, <1>5, <1>6, <1>7, <1>8, <1>9, Zenon DEF Next

(* Every step of the GUI keeps what the driver and the test are told of.   *)
LEMMA DriveStep ==
    ASSUME ScreenInv, RailInv, WireInv, RunInv, DriveInv, [Next]_vars PROVE DriveInv'
<1>1. ASSUME \/ Chooses \/ Backs \/ AgainInBox \/ Deeper \/ CheckAll \/ CheckSome \/ CheckAgain
             \/ LastResults \/ CameraStep \/ CameraButton \/ MotionStep \/ RailStep \/ RailLoss
             \/ CheckStep \/ RamStart \/ Screenshot \/ TouchRead \/ TestTasks \/ FingerStep
             \/ UNCHANGED vars
      PROVE  SameOn
  <2>1. AllKept
    BY <1>1, WireElsewhere, WireRailStep, WireRailLoss, WireCamera, WireButton, WireMotion
  <2>. QED BY <2>1 DEF AllKept, Kept, SameOn
<1>2. ASSUME TestTick PROVE SameOn BY <1>2, WireTest DEF DriveInv, SameOn
<1>. QED BY <1>1, <1>2, DriveElsewhere, DriveHand, DriveGlow, DriveRumbles, DrivePort, DriveCheck,
            DriveNav, DriveSwitches, DriveTest, Zenon DEF Next

(* What holds of the rails, the driver and the screens together.           *)
SensorInv == ScreenInv /\ RailInv /\ WireInv /\ RunInv /\ DriveInv

(* It holds at the start.                                                  *)
LEMMA SensorInit == Init => SensorInv
  BY ScreenInit, RailInit, WireInit0, DriveInit DEF SensorInv, RunInv, Init, CheckInit, Running

(* And after any step.                                                     *)
LEMMA SensorStep == SensorInv /\ [Next]_vars => SensorInv'
  BY ScreenStep, RailStepSafe, WireStep, RunStep, DriveStep DEF SensorInv, DriveInv

(* A drop is counted after a loss, and the glow follows a Joy-Con slid on. *)
LEMMA GlowIsEarned ==
    ASSUME SensorInv, [Next]_vars, NEW s \in Sides, drv'[s].glow, ~drv[s].glow PROVE told[s].slid
<1>1. drv[s] \in DrvType /\ DriveInv /\ WireInv BY DEF SensorInv, DriveInv, DriverType
<1>2. ASSUME NEW d, Poll(d) PROVE told[s].slid BY <1>1, <1>2, PollBoth
<1>3. drv' # drv OBVIOUS
<1>4. drv' # StaleNow
  BY <1>1, StaleIs DEF DrvType
<1>5. CASE NavPoll \/ TakesRails \/ TestTick BY <1>2, <1>5 DEF NavPoll, TakesRails, TestTick, JcTick
<1>6. CASE Switches BY <1>3, <1>4, <1>6, Zenon DEF Switches, Leave, LeavesSensors
<1>7. CASE CheckEnds BY <1>4, <1>7 DEF CheckEnds
<1>8. CASE HandStep
  <2>1. PICK r \in Sides : Attach(r) \/ Pull(r) \/ Silent(r)
    BY <1>8, ToursAssumption DEF HandStep, SensorInv, ScreenInv
  <2>2. drv' = drv \/ drv' = [drv EXCEPT ![r].conn = FALSE, ![r].was = FALSE]
    BY <2>1 DEF Attach, Pull, Silent
  <2>. QED BY <1>1, <1>3, <2>2 DEF DriveInv, DriverType, DrvType
<1>9. CASE GlowStep
  <2>1. PICK r \in Sides : drv' = [drv EXCEPT ![r].glow = FALSE] BY <1>9 DEF GlowStep, GlowFades
  <2>. QED BY <1>1, <2>1 DEF DriveInv, DriverType, DrvType
<1>10. CASE \/ Chooses \/ Backs \/ AgainInBox \/ Deeper \/ CheckAll \/ CheckSome \/ CheckAgain
            \/ LastResults \/ PicksPort \/ Rumbles \/ CameraStep \/ CameraButton \/ MotionStep \/ RailStep
            \/ RailLoss \/ CheckStep \/ RamStart \/ Screenshot \/ TouchRead \/ TestTasks \/ FingerStep
            \/ UNCHANGED vars
  <2>1. UNCHANGED drv
    BY <1>10 DEF Chooses, Backs, AgainInBox, Deeper, CheckAll, CheckSome, CheckAgain, LastResults, PicksPort,
         Rumbles, ActRumble, CameraStep, CameraButton, OnCamera, MotionStep, RailStep, RailLoss, OnRails,
         CheckStep, RamStart, Screenshot, TouchRead, TestTasks, FingerStep, sensorVars, jcVars, vars
  <2>. QED BY <1>3, <2>1
<1>. QED BY <1>5, <1>6, <1>7, <1>8, <1>9, <1>10, Zenon DEF Next

(* The drops the Joy-Con test counts are never more than the losses it     *)
(* could have seen, and a glow is only for a Joy-Con that was slid on      *)
(* (gui_tests.c's _jc_update with its resume window, and gui_jcattach.c's  *)
(* watch), whatever the sensor screens and the debug console did to the    *)
(* driver's poll meanwhile.                                                *)
THEOREM DropsAreLosses == Spec => OnlyTheRail
<1>1. ASSUME SensorInv, [Next]_vars
      PROVE  \A s \in Sides : /\ test'[s].drops <= told'[s].lost
                              /\ drv'[s].glow /\ ~drv[s].glow => told[s].slid
  <2>1. SensorInv' BY <1>1, SensorStep
  <2>2. ASSUME NEW s \in Sides PROVE test'[s].drops <= told'[s].lost
    <3>1. /\ gui'.at # "joycon" => test'[s] = NoTest
          /\ gui'.at = "joycon" => test'[s].drops <= told'[s].lost
          /\ told'[s] \in ToldType
      BY <2>1 DEF SensorInv, DriveInv, Counts, DriverType
    <3>2. NoTest.drops = 0 /\ told'[s].lost \in Nat BY <3>1 DEF NoTest, ToldType
    <3>. QED BY <3>1, <3>2
  <2>. QED BY <1>1, <2>2, GlowIsEarned
<1>. QED BY <1>1, SensorInit, SensorStep, PTL DEF Spec, OnlyTheRail

-----------------------------------------------------------------------------
(* What a screen puts back.                                                *)

\* Only a Joy-Con of the test rumbles, while the test has it do so.
BuzzInv ==
    \A s \in Sides : /\ pads[s].buzz => pads[s].on /\ test[s].buzz /\ gui.at = "joycon"
                     /\ test[s].buzz => rumble # "none"

(* What leaves the rumble alone.                                           *)
LEMMA BuzzKept ==
    ASSUME BuzzInv, AllKept, UNCHANGED <<test, rumble>>, gui'.at = gui.at \/ gui.at # "joycon"
    PROVE  BuzzInv'
  BY DEF BuzzInv, AllKept, Kept

(* Whether the driver hears of a Joy-Con or not makes it rumble no more.   *)
LEMMA BuzzHand == ASSUME ScreenInv, WireInv, BuzzInv, HandStep PROVE BuzzInv'
<1>1. PICK s \in Sides : Attach(s) \/ Pull(s) \/ Silent(s)
  BY ToursAssumption DEF HandStep, ScreenInv
<1>2. UNCHANGED <<gui, test, rumble>> BY <1>1 DEF HandStep, Attach, Pull, Silent
<1>3. \/ UNCHANGED pads
      \/ \E on \in BOOLEAN : pads' = [pads EXCEPT ![s] = Pad(on)]
  BY <1>1 DEF Attach, Pull, Silent, wireVars
<1>4. \A r \in Sides : pads'[r] = pads[r] \/ ~pads'[r].buzz BY <1>3 DEF WireInv, Pad
<1>. QED BY <1>2, <1>4 DEF BuzzInv

(* The tick makes a Joy-Con that is there rumble in its turn, or stop.     *)
LEMMA BuzzTest == ASSUME SensorInv, BuzzInv, TestTick PROVE BuzzInv'
<1>1. PICK d, r : JcTick(d, r) BY DEF TestTick
<1>2. /\ UNCHANGED gui /\ gui.at = "joycon" /\ rumble' = r
      /\ test' = [s \in Sides |-> LET t == SideUpdate(test[s], d[s].conn)
                                  IN  [t EXCEPT !.buzz = Buzzing(r, s, t)]]
      /\ pads' = [s \in Sides |-> Buzz(pads[s], test[s].buzz, test'[s].buzz)]
  BY <1>1 DEF TestTick, JcTick
<1>3. ASSUME NEW s \in Sides
      PROVE  /\ pads'[s].buzz => pads'[s].on /\ test'[s].buzz
             /\ test'[s].buzz => rumble' # "none"
  <2>. DEFINE t == SideUpdate(test[s], d[s].conn)
  <2>1. "buzz" \in DOMAIN t BY DEF SideUpdate, SensorInv, DriveInv, DriverType, TestType
  <2>2. test'[s] = [t EXCEPT !.buzz = Buzzing(r, s, t)] BY <1>2
  <2>3. test'[s].buzz <=> Buzzing(r, s, t) BY <2>1, <2>2
  <2>4. Buzzing(r, s, t) => r # "none" BY DEF Buzzing, Sides
  <2>. HIDE DEF t
  <2>5. pads[s] \in PadType BY DEF SensorInv, WireInv
  <2>6. pads'[s] = Buzz(pads[s], test[s].buzz, test'[s].buzz) BY <1>2
  <2>7. pads'[s].buzz => pads'[s].on /\ test'[s].buzz
    <3>1. CASE (test[s].buzz \/ test'[s].buzz) /\ pads[s].on
      BY <2>5, <2>6, <3>1 DEF Buzz, PadType
    <3>2. CASE ~((test[s].buzz \/ test'[s].buzz) /\ pads[s].on)
      BY <2>6, <3>2 DEF Buzz, BuzzInv
    <3>. QED BY <3>1, <3>2
  <2>. QED BY <1>2, <2>3, <2>4, <2>7
<1>. QED BY <1>2, <1>3 DEF BuzzInv

(* Leaving the test stops it.                                              *)
LEMMA BuzzSwitches == ASSUME SensorInv, BuzzInv, Switches PROVE BuzzInv'
<1>1. CASE gui.at # "joycon"
  <2>1. AllKept BY <1>1, WireSwitches DEF SensorInv, DriveInv
  <2>2. Leave BY DEF Switches
  <2>3. UNCHANGED <<test, rumble>>
    BY <1>1, <2>2 DEF Leave
  <2>. QED BY <1>1, <2>1, <2>3, BuzzKept
<1>2. CASE gui.at = "joycon"
  <2>1. TestLeaves BY <1>2 DEF Switches, Leave
  <2>2. ASSUME NEW s \in Sides PROVE ~pads'[s].buzz /\ ~test'[s].buzz
    <3>1. test'[s] = NoTest /\ pads'[s] = IF rumble = "none" THEN pads[s] ELSE Buzz(pads[s], test[s].buzz, FALSE)
      BY <2>1 DEF TestLeaves
    <3>2. pads[s] \in PadType BY DEF SensorInv, WireInv
    <3>3. CASE rumble = "none" BY <3>1, <3>3 DEF BuzzInv, NoTest
    <3>4. CASE rumble # "none" /\ test[s].buzz /\ pads[s].on
      BY <3>1, <3>2, <3>4 DEF Buzz, PadType, NoTest
    <3>5. CASE rumble # "none" /\ ~(test[s].buzz /\ pads[s].on)
      BY <3>1, <3>2, <3>5 DEF Buzz, BuzzInv, NoTest
    <3>. QED BY <3>3, <3>4, <3>5
  <2>. QED BY <2>2 DEF BuzzInv
<1>. QED BY <1>1, <1>2

(* Every step.                                                             *)
LEMMA BuzzStep == ASSUME SensorInv, BuzzInv, [Next]_vars PROVE BuzzInv'
<1>1. CASE Rumbles
  BY <1>1 DEF Rumbles, ActRumble, wireVars, BuzzInv
<1>2. CASE \/ Chooses \/ Backs \/ AgainInBox \/ Deeper \/ CheckAll \/ CheckSome \/ CheckAgain
           \/ LastResults \/ CameraStep \/ CameraButton \/ MotionStep \/ RailStep \/ RailLoss
           \/ CheckStep \/ RamStart \/ Screenshot \/ TouchRead \/ TestTasks \/ FingerStep
           \/ UNCHANGED vars
  <2>1. AllKept
    BY <1>2, WireElsewhere, WireRailStep, WireRailLoss, WireCamera, WireButton, WireMotion
    DEF SensorInv
  <2>2. UNCHANGED jcVars
    BY <1>2 DEF Chooses, Backs, AgainInBox, Deeper, CheckAll, CheckSome, CheckAgain, LastResults,
         CameraStep, CameraButton, OnCamera, MotionStep, RailStep, RailLoss, OnRails, CheckStep, RamStart,
         Screenshot, TouchRead, TestTasks, FingerStep, sensorVars, vars
  <2>3. UNCHANGED <<test, rumble>> BY <2>2 DEF jcVars
  <2>4. gui'.at = gui.at \/ gui.at # "joycon" BY <1>2, SameScreenAt DEF SensorInv
  <2>. QED BY <2>1, <2>3, <2>4, BuzzKept
<1>3. CASE NavPoll \/ PicksPort \/ GlowStep \/ CheckEnds
  <2>1. AllKept BY <1>3, WireElsewhere DEF SensorInv
  <2>2. UNCHANGED <<test, rumble>>
    BY <1>3 DEF NavPoll, PicksPort, jcVars, GlowStep, GlowFades, CheckEnds
  <2>3. gui'.at = gui.at \/ gui.at # "joycon"
    BY <1>3 DEF NavPoll, PicksPort, GlowStep, CheckEnds, SensorInv, ScreenInv, GuiType
  <2>. QED BY <2>1, <2>2, <2>3, BuzzKept
<1>4. CASE TakesRails
  <2>1. AllKept BY <1>4, WireTakes DEF SensorInv
  <2>2. UNCHANGED <<test, rumble>> /\ gui.at # "joycon"
    BY <1>4 DEF TakesRails, SensorInv, RailInv, SensorScreens
  <2>. QED BY <2>1, <2>2, BuzzKept
<1>. QED BY <1>1, <1>2, <1>3, <1>4, BuzzHand, BuzzTest, BuzzSwitches, Zenon DEF Next, SensorInv

\* Only the screen test sweeps the backlight.
LightInv == light # "set" => gui.at = "screen"

(* Every step keeps that.                                                  *)
LEMMA LightStep == ASSUME SensorInv, LightInv, [Next]_vars PROVE LightInv'
<1>1. CASE Switches
  <2>1. light' = "set" BY <1>1 DEF Switches, ScLeaves, LightInv
  <2>. QED BY <2>1 DEF LightInv
<1>2. CASE Screenshot
  <2>1. light' = "set" BY <1>2 DEF Screenshot
  <2>. QED BY <2>1 DEF LightInv
<1>3. CASE TouchRead
  <2>1. light' \in {"set", light}
    BY <1>3 DEF TouchRead, ShotRead, TouchTestRead, ScreenTestRead, Light
  <2>2. gui'.at = gui.at \/ gui.at = "ram" BY <1>3, SameScreenAt DEF SensorInv
  <2>. QED BY <2>1, <2>2 DEF LightInv
<1>4. CASE TestTasks
  <2>1. light' = light \/ gui.at = "screen" BY <1>4 DEF TestTasks, TtTick, TtFinish, ScUnlock
  <2>2. gui'.at = gui.at \/ gui.at = "ram" BY <1>4, SameScreenAt DEF SensorInv
  <2>. QED BY <2>1, <2>2 DEF LightInv
<1>5. CASE TakesRails \/ NavPoll \/ PicksPort \/ TestTick \/ Rumbles \/ HandStep \/ GlowStep \/ CheckEnds
  <2>1. UNCHANGED light
    BY <1>5 DEF TakesRails, NavPoll, PicksPort, TestTick, Rumbles, HandStep, GlowStep, CheckEnds, handsVars
  <2>2. gui'.at = gui.at
    BY <1>5 DEF TakesRails, NavPoll, PicksPort, TestTick, Rumbles, HandStep, GlowStep, CheckEnds,
                SensorInv, ScreenInv, GuiType
  <2>. QED BY <2>1, <2>2 DEF LightInv
<1>6. CASE \/ Chooses \/ Backs \/ AgainInBox \/ Deeper \/ CheckAll \/ CheckSome \/ CheckAgain
           \/ LastResults \/ CameraStep \/ CameraButton \/ MotionStep \/ RailStep \/ RailLoss
           \/ CheckStep \/ RamStart \/ FingerStep \/ UNCHANGED vars
  <2>1. UNCHANGED light
    BY <1>6 DEF Chooses, Backs, AgainInBox, Deeper, CheckAll, CheckSome, CheckAgain, LastResults,
         CameraStep, CameraButton, OnCamera, MotionStep, RailStep, RailLoss, OnRails, CheckStep, RamStart,
         FingerStep, FingerMoves, FingerLifts, SecondFinger, handsVars, vars
  <2>2. gui'.at = gui.at \/ gui.at = "ram" BY <1>6, SameScreenAt DEF SensorInv
  <2>. QED BY <2>1, <2>2 DEF LightInv
<1>. QED BY <1>1, <1>2, <1>3, <1>4, <1>5, <1>6, Zenon DEF Next

(* What a screen changed is put back before the next one (gui_jcir.c's and *)
(* gui_jcmotion.c's close, gui_tests.c's rumble, gui_screen.c's backlight, *)
(* gui_clock.c): the rails are free, a Joy-Con nothing of whose was lost   *)
(* has its sensors off, none rumbles, and the clocks are the GUI's.        *)
THEOREM LeavesAsFound == Spec => []LeftAsFound
<1>. DEFINE Inv == SensorInv /\ BuzzInv /\ LightInv /\ ClockInv
<1>1. Init => Inv
  <2>1. SUFFICES ASSUME Init PROVE Inv
    OBVIOUS
  <2>2. SensorInv BY <2>1, SensorInit
  <2>3. BuzzInv
    <3>1. \A s \in Sides : pads[s] = Pad(s \in tour.seated) /\ test[s] = NoTest
      BY <2>1 DEF Init, JcInit, WireInit
    <3>2. \A on : ~Pad(on).buzz BY DEF Pad
    <3>3. ~NoTest.buzz BY DEF NoTest
    <3>. QED BY <3>1, <3>2, <3>3 DEF BuzzInv
  <2>4. LightInv BY <2>1 DEF LightInv, Init, HandsInit
  <2>5. ClockInv BY <2>1, ClockBegins
  <2>. QED BY <2>2, <2>3, <2>4, <2>5
<1>2. Inv /\ [Next]_vars => Inv'
  BY SensorStep, BuzzStep, LightStep, ClockSteps
<1>3. Inv => LeftAsFound
  <2>1. SUFFICES ASSUME Inv PROVE LeftAsFound
    OBVIOUS
  <2>2. ASSUME NEW s \in Sides
        PROVE  /\ wire[s].owned => gui.at \in {"motion", "ir"}
               /\ gui.at \notin {"motion", "ir"} /\ pads[s].on /\ ~wire[s].doubt =>
                    ~pads[s].imu /\ pads[s].mcu = "off" /\ pads[s].reports = "std"
               /\ pads[s].buzz => gui.at = "joycon"
    <3>1. wire[s].owned => gui.at \in {"motion", "ir"}
      BY <2>1 DEF SensorInv, RailInv, SensorScreens
    <3>2. SideOK(gui.at, pads[s], wire[s]) BY <2>1 DEF SensorInv, WireInv
    <3>3. pads[s].buzz => gui.at = "joycon" BY <2>1 DEF BuzzInv
    <3>. QED BY <3>1, <3>2, <3>3 DEF SideOK, Tidy, Clean
  <2>3. ClocksAsFound BY <2>1 DEF ClockInv, ClocksAsFound
  <2>. QED BY <2>1, <2>2, <2>3 DEF LeftAsFound, LightInv, ClocksAsFound
<1>. QED BY <1>1, <1>2, <1>3, PTL DEF Spec

-----------------------------------------------------------------------------
(* The report.                                                             *)

\* What a report is made of.
PageNames == (DOMAIN GroupOf) \cup {"Diagnostics"}
Units == {Mark, Banner} \cup {HeadOf(p) : p \in PageNames} \cup {LineOf(p) : p \in PageNames}
BodyType == [text : Seq(Units), armed : BOOLEAN, full : BOOLEAN]
\* The mark, or the head of the Diagnostics page.
Telling == {Mark, HeadOf("Diagnostics")}

\* One of the lines us is in the text.
Tells(text, us) == \E i \in 1..Len(text) : text[i] \in us
\* A buffer that is full says so, and has room for that until it does.
BodyOK(b) ==
    /\ b \in BodyType /\ Len(b.text) <= Cap
    /\ b.full => Tells(b.text, {Mark})
    /\ ~b.full => Len(b.text) < Cap

(* A line more is a line more, or the mark.                                *)
LEMMA TellsAppend ==
    ASSUME NEW text \in Seq(Units), NEW u \in Units
    PROVE  /\ Append(text, u) \in Seq(Units) /\ Len(Append(text, u)) = Len(text) + 1
           /\ Tells(Append(text, u), {u})
           /\ \A us : Tells(text, us) => Tells(Append(text, u), us)
<1>1. /\ Append(text, u) \in Seq(Units) /\ Len(Append(text, u)) = Len(text) + 1 /\ Len(text) \in Nat
      /\ Append(text, u)[Len(text) + 1] = u
      /\ \A i \in 1..Len(text) : Append(text, u)[i] = text[i]
  OBVIOUS
<1>. DEFINE n == Len(text)
            w == Append(text, u)
<1>2. n \in Nat /\ Len(w) = n + 1 /\ w[n + 1] = u /\ \A i \in 1..n : w[i] = text[i]
  BY <1>1
<1>. HIDE DEF n, w
<1>3. Tells(w, {u}) BY <1>2 DEF Tells
<1>4. \A us : (\E i \in 1..n : text[i] \in us) => (\E i \in 1..Len(w) : w[i] \in us)
  BY <1>2
<1>. QED BY <1>1, <1>3, <1>4 DEF Tells, n, w

(* What a line does to the buffer (_log_capture_append).                   *)
LEMMA AppendedIs ==
    ASSUME NEW b, BodyOK(b), NEW u \in Units
    PROVE  /\ BodyOK(Appended(b, u)) /\ Appended(b, u).armed = b.armed
           /\ b.armed => Tells(Appended(b, u).text, {Mark, u})
           /\ \A us : Tells(b.text, us) => Tells(Appended(b, u).text, us)
<1>1. Mark \in Units /\ Cap \in Nat \ {0} BY CapAssumption DEF Units
<1>. DEFINE full == [b EXCEPT !.text = Append(@, Mark), !.full = TRUE]
            longer == [b EXCEPT !.text = Append(@, u)]
<1>2. b \in BodyType /\ b.text \in Seq(Units) /\ Len(b.text) \in Nat BY DEF BodyOK, BodyType
<1>3. CASE ~b.armed \/ b.full
  <2>1. Appended(b, u) = b BY <1>3 DEF Appended
  <2>2. b.full => Tells(b.text, {Mark, u}) BY DEF BodyOK, Tells
  <2>. QED BY <1>3, <2>1, <2>2
<1>4. CASE b.armed /\ ~b.full /\ Len(b.text) + 1 >= Cap
  <2>1. Appended(b, u) = full BY <1>4 DEF Appended
  <2>2. /\ Append(b.text, Mark) \in Seq(Units) /\ Len(Append(b.text, Mark)) = Len(b.text) + 1
        /\ Tells(Append(b.text, Mark), {Mark})
        /\ \A us : Tells(b.text, us) => Tells(Append(b.text, Mark), us)
    BY <1>1, <1>2, TellsAppend
  <2>3. full \in BodyType /\ full.text = Append(b.text, Mark) /\ full.full /\ full.armed = b.armed
    BY <1>2, <2>2 DEF BodyType
  <2>4. Len(b.text) < Cap BY <1>4 DEF BodyOK
  <2>5. Len(full.text) <= Cap BY <1>1, <1>2, <2>2, <2>3, <2>4
  <2>. HIDE DEF full
  <2>6. BodyOK(full) BY <2>2, <2>3, <2>5 DEF BodyOK
  <2>7. Tells(full.text, {Mark, u}) BY <2>2, <2>3 DEF Tells
  <2>. QED BY <2>1, <2>2, <2>3, <2>6, <2>7
<1>5. CASE b.armed /\ ~b.full /\ ~(Len(b.text) + 1 >= Cap)
  <2>1. Appended(b, u) = longer BY <1>5 DEF Appended
  <2>2. /\ Append(b.text, u) \in Seq(Units) /\ Len(Append(b.text, u)) = Len(b.text) + 1
        /\ Tells(Append(b.text, u), {u})
        /\ \A us : Tells(b.text, us) => Tells(Append(b.text, u), us)
    BY <1>2, TellsAppend
  <2>3. longer \in BodyType /\ longer.text = Append(b.text, u) /\ ~longer.full /\ longer.armed = b.armed
    BY <1>2, <1>5, <2>2 DEF BodyType
  <2>4. Len(longer.text) < Cap BY <1>1, <1>2, <1>5, <2>2, <2>3
  <2>. HIDE DEF longer
  <2>5. BodyOK(longer) BY <1>1, <1>2, <2>2, <2>3, <2>4 DEF BodyOK
  <2>6. Tells(longer.text, {Mark, u}) BY <2>2, <2>3 DEF Tells
  <2>. QED BY <2>1, <2>2, <2>3, <2>5, <2>6
<1>. QED BY <1>2, <1>3, <1>4, <1>5 DEF BodyType

(* A page in the buffer.                                                   *)
LEMMA SectionIs ==
    ASSUME NEW b, BodyOK(b), NEW page \in PageNames
    PROVE  /\ BodyOK(Section(b, page)) /\ Section(b, page).armed = b.armed
           /\ b.armed => Tells(Section(b, page).text, {Mark, HeadOf(page)})
<1>1. HeadOf(page) \in Units /\ LineOf(page) \in Units BY DEF Units
<1>. DEFINE c == Appended(b, HeadOf(page))
<1>2. BodyOK(c) /\ c.armed = b.armed /\ (b.armed => Tells(c.text, {Mark, HeadOf(page)}))
  BY <1>1, AppendedIs
<1>. HIDE DEF c
<1>3. /\ BodyOK(Appended(c, LineOf(page))) /\ Appended(c, LineOf(page)).armed = c.armed
      /\ \A us : Tells(c.text, us) => Tells(Appended(c, LineOf(page)).text, us)
  BY <1>1, <1>2, AppendedIs
<1>. QED BY <1>2, <1>3 DEF Section, c

(* The file with the verdict, or its place, first is honest.               *)
LEMMA SortedIsHonest ==
    ASSUME NEW text \in Seq(Units), Tells(text, Telling) PROVE Honest(Sorted(text))
<1>. DEFINE n == Len(text)
            heads == {i \in 1..n : text[i] = HeadOf("Diagnostics")}
<1>1. n \in Nat OBVIOUS
<1>2. CASE heads = {}
  <2>1. Sorted(text) = text BY <1>2 DEF Sorted, VerdictAt
  <2>2. \E i \in 1..n : text[i] = Mark BY <1>2 DEF Tells, Telling
  <2>. QED BY <2>1, <2>2 DEF Honest
<1>3. CASE heads # {}
  <2>1. \E i \in heads : \A j \in heads : i <= j
    <3>1. heads \subseteq Nat BY <1>1
    <3>. HIDE DEF heads
    <3>. QED BY <1>3, <3>1, LeastNatural
  <2>2. VerdictAt(text) = CHOOSE i \in heads : \A j \in heads : i <= j
    BY <1>3 DEF VerdictAt
  <2>. DEFINE i == VerdictAt(text)
  <2>3. i \in heads
    <3>. HIDE DEF heads
    <3>. QED BY <2>1, <2>2
  <2>4. i \in 1..n /\ i # 0 /\ text[i] = HeadOf("Diagnostics") BY <1>1, <2>3
  <2>5. Sorted(text) = SubSeq(text, i, Len(text)) \o SubSeq(text, 1, i - 1)
    BY <2>4 DEF Sorted
  <2>. HIDE DEF i
  <2>6. /\ SubSeq(text, i, n) \in Seq(Units) /\ Len(SubSeq(text, i, n)) = n - i + 1
        /\ SubSeq(text, i, n)[1] = text[i]
    BY <1>1, <2>4
  <2>7. SubSeq(text, 1, i - 1) \in Seq(Units) BY <1>1, <2>4
  <2>. DEFINE p == SubSeq(text, i, n)
              q == SubSeq(text, 1, i - 1)
  <2>8. p \in Seq(Units) /\ q \in Seq(Units) /\ Len(p) > 0 /\ p[1] = HeadOf("Diagnostics")
    BY <1>1, <2>4, <2>6, <2>7
  <2>9. Sorted(text) = p \o q BY <2>5
  <2>. HIDE DEF p, q
  <2>10. (p \o q)[1] = p[1] /\ Len(p \o q) > 0 BY <2>8
  <2>11. p \o q # <<>> BY <2>10
  <2>. QED BY <2>8, <2>9, <2>10, <2>11 DEF Honest
<1>. QED BY <1>2, <1>3

\* The disk's fields.
DiskShape == {"sd", "emmc", "bound", "remembered", "file", "ret"} \subseteq DOMAIN disk
\* A check's lines reach a buffer that takes them; after its last page they
\* hold the verdict or the mark, and what is said to be saved is that.
ReportInv ==
    /\ BodyOK(body) /\ DiskShape
    /\ Running => body.armed
    /\ sweep.at = Len(Pages) + 2 => Tells(body.text, Telling)
    /\ ~Running /\ disk.ret = 0 => disk.file = Sorted(body.text) /\ Honest(disk.file)

(* The card brought up again, or mounted for a screenshot or for its keys, *)
(* keeps the file and what is said of it.                                  *)
CardMoves == \/ disk' = disk \/ disk' = Mounted(disk)
             \/ \E ok : disk' = CardLookedAt(disk, ok)
             \/ \E ended, ok : disk' = CardCycled(disk, ended, ok)
LEMMA CardKeeps ==
    ASSUME DiskShape, CardMoves
    PROVE  DiskShape' /\ disk'.file = disk.file /\ disk'.ret = disk.ret
  BY DEF CardMoves, DiskShape, Mounted, CardCycled, CardLookedAt

(* What leaves the buffer and the check alone.                             *)
LEMMA ReportQuiet ==
    ASSUME ReportInv, UNCHANGED <<body, sweep>>, CardMoves
    PROVE  ReportInv'
  BY CardKeeps DEF ReportInv, Running

(* A fresh buffer, with its banner.                                        *)
LEMMA BeginsWell ==
    /\ BodyOK(NoBody) /\ BodyOK(Armed)
    /\ BodyOK(Appended(Armed, Banner)) /\ Appended(Armed, Banner).armed
<1>1. <<>> \in Seq(Units) /\ Len(<<>>) = 0 /\ 0 < Cap /\ Banner \in Units
  BY CapAssumption DEF Units
<1>2. NoBody \in BodyType /\ NoBody.text = <<>> /\ ~NoBody.full BY <1>1 DEF NoBody, BodyType
<1>3. Armed \in BodyType /\ Armed.text = <<>> /\ ~Armed.full /\ Armed.armed
  BY <1>2 DEF Armed, BodyType
<1>4. BodyOK(NoBody) /\ BodyOK(Armed)
  <2>1. \A b \in BodyType : b.text = <<>> /\ ~b.full => BodyOK(b)
    BY <1>1, CapAssumption DEF BodyOK
  <2>. QED BY <1>2, <1>3, <2>1
<1>5. BodyOK(Appended(Armed, Banner)) /\ Appended(Armed, Banner).armed = Armed.armed
  BY <1>1, <1>4, AppendedIs
<1>. QED BY <1>3, <1>4, <1>5

(* The check's own steps.                                                  *)
LEMMA ReportBegins == ASSUME ReportInv, Switches PROVE ReportInv'
<1>1. Len(Pages) \in Nat BY HealthRunAssumption
<1>2. CASE gui.pending = "run"
  <2>1. RunStarts BY <1>2 DEF Switches
  <2>2. /\ sweep' = [at |-> NextPage(1, sel.run), started |-> 0] /\ UNCHANGED disk
        /\ body' = Appended(Armed, Banner)
    BY <2>1 DEF RunStarts
  <2>3. NextPage(1, sel.run) \in 1..Len(Pages) + 1 BY <1>1, NextPageIsLater
  <2>4. sweep'.at > 0 /\ sweep'.at # Len(Pages) + 2 BY <1>1, <2>2, <2>3
  <2>5. BodyOK(body') /\ body'.armed BY <2>2, BeginsWell
  <2>. QED BY <2>2, <2>4, <2>5 DEF ReportInv, DiskShape, Running
<1>3. CASE gui.pending # "run"
  <2>1. UNCHANGED <<body, sweep, disk>> BY <1>3 DEF Switches, checkVars
  <2>. QED BY <2>1, ReportQuiet DEF CardMoves
<1>. QED BY <1>2, <1>3

(* A page of the check writes its section.                                 *)
LEMMA ReportPage == ASSUME ReportInv, RunInv, RunPage PROVE ReportInv'
<1>1. /\ CardMoves /\ Running /\ sweep.at <= Len(Pages) /\ body' = Section(body, Pages[sweep.at])
      /\ sweep' = [at |-> NextPage(sweep.at + 1, sel.ran), started |-> sweep.started + 1]
  BY DEF RunPage, StatusSet, CardMoves
<1>2. Len(Pages) \in Nat /\ sweep.at \in 1..Len(Pages)
  BY <1>1, HealthRunAssumption DEF RunInv, Running
<1>3. sweep.at + 1 \in Nat /\ sweep.at + 1 <= Len(Pages) + 1 BY <1>2
<1>4. NextPage(sweep.at + 1, sel.ran) \in sweep.at + 1..Len(Pages) + 1 BY <1>3, NextPageIsLater
<1>5. sweep'.at > 0 /\ sweep'.at # Len(Pages) + 2 BY <1>1, <1>2, <1>4
<1>6. Pages[sweep.at] \in PageNames BY <1>2, HealthRunAssumption DEF PageNames
<1>7. BodyOK(body') /\ body'.armed = body.armed BY <1>1, <1>6, SectionIs DEF ReportInv
<1>8. DiskShape' BY <1>1, CardKeeps DEF ReportInv
<1>. QED BY <1>1, <1>5, <1>7, <1>8 DEF ReportInv, Running

(* The verdict writes its own, or the buffer is full and says so.          *)
LEMMA ReportVerdict == ASSUME ReportInv, RunInv, RunVerdict PROVE ReportInv'
<1>1. /\ UNCHANGED disk /\ sweep.at = Len(Pages) + 1
      /\ body' = Appended(Section(body, "Diagnostics"), Banner)
      /\ sweep' = [at |-> sweep.at + 1, started |-> sweep.started + 1]
  BY DEF RunVerdict, StatusSet
<1>2. Len(Pages) \in Nat BY HealthRunAssumption
<1>3. Running /\ body.armed /\ sweep'.at > 0 BY <1>1, <1>2 DEF ReportInv, Running
<1>. DEFINE b == Section(body, "Diagnostics")
<1>4. /\ BodyOK(b) /\ b.armed = body.armed
      /\ body.armed => Tells(b.text, {Mark, HeadOf("Diagnostics")})
  BY SectionIs DEF ReportInv, PageNames
<1>. HIDE DEF b
<1>5. /\ BodyOK(Appended(b, Banner)) /\ Appended(b, Banner).armed = b.armed
      /\ \A us : Tells(b.text, us) => Tells(Appended(b, Banner).text, us)
  BY <1>4, AppendedIs DEF Units
<1>6. BodyOK(body') /\ body'.armed /\ Tells(body'.text, Telling)
  BY <1>1, <1>3, <1>4, <1>5 DEF b, Telling
<1>. QED BY <1>1, <1>3, <1>6 DEF ReportInv, DiskShape, Running

(* The end of the check sorts the report and saves it.                     *)
LEMMA ReportSaves == ASSUME ReportInv, RunInv, CheckEnds PROVE ReportInv'
<1>1. PICK got : /\ disk' = Saved(disk, body', got) /\ sweep.at = Len(Pages) + 2
                 /\ body' = Disarmed(body)
                 /\ sweep' = [sweep EXCEPT !.at = 0, !.started = Total(sel.ran)]
  BY DEF CheckEnds, RunSaves
<1>2. Len(Pages) \in Nat BY HealthRunAssumption
<1>3. sweep'.at = 0 BY <1>1 DEF RunInv
<1>4. Tells(body.text, Telling) BY <1>1 DEF ReportInv
<1>5. BodyOK(body') /\ body'.text = body.text
  <2>1. body' \in BodyType /\ body'.text = body.text /\ body'.full = body.full
    BY <1>1 DEF Disarmed, ReportInv, BodyOK, BodyType
  <2>. QED BY <2>1 DEF ReportInv, BodyOK
<1>6. DiskShape' BY <1>1 DEF Saved, ReportInv, DiskShape
<1>7. disk'.ret = 0 => disk'.file = Sorted(body'.text)
  BY <1>1 DEF Saved, ReportInv, DiskShape, WroteAll
<1>8. Honest(Sorted(body'.text))
  <2>1. body'.text \in Seq(Units) BY <1>5 DEF BodyOK, BodyType
  <2>. QED BY <1>4, <1>5, <2>1, SortedIsHonest
<1>9. ~Running' /\ sweep'.at # Len(Pages) + 2 BY <1>2, <1>3 DEF Running
<1>. QED BY <1>5, <1>6, <1>7, <1>8, <1>9 DEF ReportInv

(* Every step keeps the report honest.                                     *)
LEMMA ReportStep == ASSUME SensorInv, ReportInv, [Next]_vars PROVE ReportInv'
<1>1. RunInv BY DEF SensorInv
<1>2. CASE CheckStep BY <1>1, <1>2, ReportPage, ReportVerdict DEF CheckStep
<1>3. CASE RamStart \/ Screenshot \/ TouchRead
  <2>1. UNCHANGED <<body, sweep>> BY <1>3 DEF RamStart, Screenshot, TouchRead
  <2>2. CardMoves
    BY <1>3 DEF RamStart, Screenshot, TouchRead, ShotRead, TouchTestRead, ScreenTestRead,
         CardMoves
  <2>. QED BY <2>1, <2>2, ReportQuiet
<1>4. CASE \/ Chooses \/ Backs \/ AgainInBox \/ Deeper \/ CheckAll \/ CheckSome \/ CheckAgain
           \/ LastResults \/ TakesRails \/ NavPoll \/ PicksPort \/ TestTick \/ Rumbles \/ CameraStep
           \/ CameraButton \/ MotionStep \/ RailStep \/ RailLoss \/ HandStep \/ GlowStep \/ TestTasks
           \/ FingerStep \/ UNCHANGED vars
  <2>1. UNCHANGED <<body, sweep, disk>>
    BY <1>4 DEF Chooses, Backs, AgainInBox, Deeper, CheckAll, CheckSome, CheckAgain, LastResults,
         TakesRails, NavPoll, PicksPort, TestTick, Rumbles, CameraStep, CameraButton, OnCamera, MotionStep,
         RailStep, RailLoss, OnRails, HandStep, GlowStep, TestTasks, FingerStep, checkVars, vars
  <2>. QED BY <2>1, ReportQuiet DEF CardMoves
<1>. QED BY <1>1, <1>2, <1>3, <1>4, ReportBegins, ReportSaves, Zenon DEF Next

(* At the start there is no report.                                        *)
LEMMA ReportBlank == Init => ReportInv
<1>. SUFFICES ASSUME Init PROVE ReportInv
  OBVIOUS
<1>1. PICK chip, card : CheckInit(chip, card) BY DEF Init
<1>2. body = NoBody /\ disk = DiskInit(card) /\ sweep = [at |-> 0, started |-> 0]
  BY <1>1 DEF CheckInit
<1>3. Len(Pages) \in Nat BY HealthRunAssumption
<1>4. ~Running /\ sweep.at # Len(Pages) + 2 BY <1>2, <1>3 DEF Running
<1>5. DiskShape /\ disk.ret # 0 BY <1>2 DEF DiskInit, DiskShape
<1>. QED BY <1>2, <1>4, <1>5, BeginsWell DEF ReportInv

(* A report the results screen calls saved is the check's own, and holds   *)
(* the verdict or says where it was cut (report.c's buffer, its sorted     *)
(* copy and report_end): for every size of the buffer and every list of    *)
(* pages.                                                                  *)
THEOREM SavedIsHonest == Spec => []SavedReportIsHonest
<1>. DEFINE Inv == SensorInv /\ ReportInv
<1>1. Init => Inv BY SensorInit, ReportBlank
<1>2. Inv /\ [Next]_vars => Inv' BY SensorStep, ReportStep
<1>3. Inv => SavedReportIsHonest
  BY DEF SensorInv, RunInv, ReportInv, SavedReportIsHonest
<1>. QED BY <1>1, <1>2, <1>3, PTL DEF Spec

-----------------------------------------------------------------------------
(* A run with the Storage pages finds the card's volume.                   *)

\* A card that is up has a volume mounted.
Findable(d) == d.sd = TRUE => d.bound = TRUE
\* From the first of the Storage pages to the save the volume is there.
StoreInv ==
    /\ "ran" \in DOMAIN sel
    /\ Running => \A i \in 1..Len(Pages) :
          i < sweep.at /\ Pages[i] \in CardPages /\ PageEnabled(Pages[i], sel.ran) => Findable(disk)
    /\ StorageRunsSave

(* No page that is to run is passed over.                                  *)
LEMMA NextPageSkipsNone ==
    ASSUME NEW i \in Nat, NEW mask, NEW j \in i..Len(Pages), PageEnabled(Pages[j], mask)
    PROVE  NextPage(i, mask) <= j
<1>. DEFINE left == {k \in i..Len(Pages) : PageEnabled(Pages[k], mask)}
<1>1. j \in left /\ left \subseteq Nat
  <2>1. Len(Pages) \in Nat BY HealthRunAssumption
  <2>. QED BY <2>1
<1>2. NextPage(i, mask) = CHOOSE m \in left : \A k \in left : m <= k
  BY <1>1 DEF NextPage
<1>. HIDE DEF left
<1>3. \E m \in left : \A k \in left : m <= k BY <1>1, LeastNatural
<1>. QED BY <1>1, <1>2, <1>3

(* What changes neither the check nor what ran, while the card, if a check *)
(* runs, is at most mounted.                                               *)
LEMMA StoreQuiet ==
    ASSUME StoreInv, DiskShape, UNCHANGED sweep, "ran" \in DOMAIN sel', sel'.ran = sel.ran,
           CardMoves, Running => disk' = disk \/ disk' = Mounted(disk)
    PROVE  StoreInv'
<1>1. disk'.ret = disk.ret BY CardKeeps
<1>2. Running /\ Findable(disk) => Findable(disk')
  BY DEF Findable, Mounted, DiskShape
<1>3. Running' <=> Running BY DEF Running
<1>. QED BY <1>1, <1>2, <1>3 DEF StoreInv, StorageRunsSave

(* A check begins with no page behind it.                                  *)
LEMMA StoreBegins == ASSUME StoreInv, DiskShape, Switches PROVE StoreInv'
<1>1. CASE gui.pending = "run"
  <2>1. RunStarts BY <1>1 DEF Switches
  <2>2. /\ sweep' = [at |-> NextPage(1, sel.run), started |-> 0] /\ UNCHANGED disk
        /\ sel' = [sel EXCEPT !.ran = sel.run]
    BY <2>1 DEF RunStarts
  <2>3. "ran" \in DOMAIN sel' /\ sel'.ran = sel.run BY <2>2 DEF StoreInv
  <2>4. Len(Pages) \in Nat BY HealthRunAssumption
  <2>5. NextPage(1, sel.run) \in 1..Len(Pages) + 1 BY <2>4, NextPageIsLater
  <2>6. ASSUME NEW i \in 1..Len(Pages), i < sweep'.at, PageEnabled(Pages[i], sel'.ran)
        PROVE  FALSE
    <3>1. NextPage(1, sel.run) <= i BY <2>3, <2>6, NextPageSkipsNone
    <3>. QED BY <2>2, <2>4, <2>5, <2>6, <3>1
  <2>7. Running' BY <2>2, <2>4, <2>5 DEF Running
  <2>. QED BY <2>3, <2>6, <2>7 DEF StoreInv, StorageRunsSave
<1>2. CASE gui.pending # "run"
  <2>1. UNCHANGED <<sel, sweep, disk>> BY <1>2 DEF Switches, checkVars
  <2>. QED BY <2>1, StoreQuiet DEF CardMoves, StoreInv
<1>. QED BY <1>1, <1>2

(* A Storage page finds the volume, and no other page unmounts it.         *)
LEMMA StorePage == ASSUME StoreInv, DiskShape, RunInv, RunPage PROVE StoreInv'
<1>1. /\ Running /\ sweep.at <= Len(Pages) /\ UNCHANGED sel
      /\ sweep' = [at |-> NextPage(sweep.at + 1, sel.ran), started |-> sweep.started + 1]
      /\ \/ Pages[sweep.at] \notin CardPages /\ UNCHANGED disk
         \/ \E ok \in BOOLEAN : disk' = CardLookedAt(disk, ok)
  BY DEF RunPage, StatusSet
<1>2. Len(Pages) \in Nat /\ sweep.at \in 1..Len(Pages)
  BY <1>1, HealthRunAssumption DEF RunInv, Running
<1>3. NextPage(sweep.at + 1, sel.ran) \in sweep.at + 1..Len(Pages) + 1
  <2>1. sweep.at + 1 \in Nat /\ sweep.at + 1 <= Len(Pages) + 1 BY <1>2
  <2>. QED BY <2>1, NextPageIsLater
<1>4. \A ok \in BOOLEAN : Findable(CardLookedAt(disk, ok))
  BY DEF Findable, CardLookedAt, DiskShape
<1>5. ASSUME NEW i \in 1..Len(Pages), i < sweep'.at, Pages[i] \in CardPages,
             PageEnabled(Pages[i], sel.ran)
      PROVE  Findable(disk')
  <2>1. CASE i < sweep.at
    <3>1. Findable(disk) BY <1>1, <1>5, <2>1 DEF StoreInv
    <3>. QED BY <1>1, <1>4, <3>1
  <2>2. CASE i = sweep.at BY <1>1, <1>4, <1>5, <2>2
  <2>3. CASE i > sweep.at
    <3>1. sweep.at + 1 \in Nat /\ i \in sweep.at + 1..Len(Pages) BY <1>2, <2>3
    <3>2. NextPage(sweep.at + 1, sel.ran) <= i BY <1>5, <3>1, NextPageSkipsNone
    <3>. QED BY <1>1, <1>2, <1>3, <1>5, <3>2
  <2>. QED BY <1>2, <2>1, <2>2, <2>3
<1>6. Running' BY <1>1, <1>2, <1>3 DEF Running
<1>. QED BY <1>1, <1>5, <1>6 DEF StoreInv, StorageRunsSave

(* The verdict is after every page.                                        *)
LEMMA StoreVerdict == ASSUME StoreInv, RunVerdict PROVE StoreInv'
<1>1. /\ UNCHANGED <<disk, sel>> /\ sweep.at = Len(Pages) + 1
      /\ sweep' = [at |-> sweep.at + 1, started |-> sweep.started + 1]
  BY DEF RunVerdict, StatusSet
<1>2. Len(Pages) \in Nat BY HealthRunAssumption
<1>3. Running /\ Running' BY <1>1, <1>2 DEF Running
<1>4. \A i \in 1..Len(Pages) : i < sweep.at BY <1>1, <1>2
<1>. QED BY <1>1, <1>3, <1>4 DEF StoreInv, StorageRunsSave

(* The save finds what the pages left.                                     *)
LEMMA StoreSaves == ASSUME StoreInv, DiskShape, RunInv, CheckEnds PROVE StoreInv'
<1>1. PICK got : /\ disk' = Saved(disk, body', got) /\ sweep.at = Len(Pages) + 2
                 /\ sweep' = [sweep EXCEPT !.at = 0, !.started = Total(sel.ran)]
                 /\ UNCHANGED sel
  BY DEF CheckEnds, RunSaves
<1>2. Len(Pages) \in Nat BY HealthRunAssumption
<1>3. Running BY <1>1, <1>2 DEF Running
<1>4. ~Running' BY <1>1 DEF RunInv, Running
<1>5. ASSUME NEW page \in CardPages, PageEnabled(page, sel.ran) PROVE disk'.ret # 4
  <2>1. PICK i \in 1..Len(Pages) : Pages[i] = page BY <1>5, HealthRunAssumption
  <2>2. i < sweep.at BY <1>1, <1>2
  <2>3. Findable(disk) BY <1>3, <1>5, <2>1, <2>2 DEF StoreInv
  <2>. QED BY <1>1, <2>3 DEF Saved, Findable, DiskShape
<1>. QED BY <1>1, <1>4, <1>5 DEF StoreInv, StorageRunsSave

(* Every step keeps the volume where a check needs it.                     *)
LEMMA StoreStep == ASSUME SensorInv, ReportInv, StoreInv, [Next]_vars PROVE StoreInv'
<1>1. RunInv /\ DiskShape BY DEF SensorInv, ReportInv
<1>2. CASE CheckStep BY <1>1, <1>2, StorePage, StoreVerdict DEF CheckStep
<1>3. CASE RamStart \/ Screenshot \/ TouchRead
  <2>1. UNCHANGED <<sel, sweep>> BY <1>3 DEF RamStart, Screenshot, TouchRead
  <2>2. CardMoves
    BY <1>3 DEF RamStart, Screenshot, TouchRead, ShotRead, TouchTestRead, ScreenTestRead,
         CardMoves
  <2>3. RamStart => ~Running BY DEF RamStart, Acts, Free
  <2>4. Running => disk' = disk \/ disk' = Mounted(disk)
    BY <1>3, <2>3 DEF Screenshot, TouchRead, ShotRead, TouchTestRead, ScreenTestRead
  <2>. QED BY <1>1, <2>1, <2>2, <2>4, StoreQuiet DEF StoreInv
<1>4. CASE \/ Chooses \/ Backs \/ AgainInBox \/ Deeper \/ CheckAll \/ CheckSome \/ CheckAgain
           \/ LastResults \/ TakesRails \/ NavPoll \/ PicksPort \/ TestTick \/ Rumbles \/ CameraStep
           \/ CameraButton \/ MotionStep \/ RailStep \/ RailLoss \/ HandStep \/ GlowStep \/ TestTasks
           \/ FingerStep \/ UNCHANGED vars
  <2>1. UNCHANGED <<sweep, disk>>
    BY <1>4 DEF Chooses, Backs, AgainInBox, Deeper, CheckAll, CheckSome, CheckAgain, LastResults,
         TakesRails, NavPoll, PicksPort, TestTick, Rumbles, CameraStep, CameraButton, OnCamera, MotionStep,
         RailStep, RailLoss, OnRails, HandStep, GlowStep, TestTasks, FingerStep, checkVars, vars
  <2>2. sel' = sel \/ \E mask : sel' = [sel EXCEPT !.run = mask]
    BY <1>4 DEF Chooses, Backs, AgainInBox, Deeper, CheckAll, CheckSome, CheckAgain, LastResults,
         TakesRails, NavPoll, PicksPort, TestTick, Rumbles, CameraStep, CameraButton, OnCamera, MotionStep,
         RailStep, RailLoss, OnRails, HandStep, GlowStep, TestTasks, FingerStep, checkVars, vars,
         PickAll, PickSome
  <2>3. "ran" \in DOMAIN sel' /\ sel'.ran = sel.ran BY <2>2 DEF StoreInv
  <2>. QED BY <1>1, <2>1, <2>3, StoreQuiet DEF CardMoves
<1>. QED BY <1>1, <1>2, <1>3, <1>4, StoreBegins, StoreSaves, Zenon DEF Next

\* A run with the Storage pages never fails to find the card's volume, whoever
\* unmounted it before: for every list of pages and every way of coming and going.
THEOREM StorageIsFound == Spec => []StorageRunsSave
<1>. DEFINE Inv == SensorInv /\ ReportInv /\ StoreInv
<1>1. Init => StoreInv
  <2>. SUFFICES ASSUME Init PROVE StoreInv
    OBVIOUS
  <2>1. PICK chip, card : CheckInit(chip, card) BY DEF Init
  <2>2. disk.ret = 1 /\ ~Running /\ "ran" \in DOMAIN sel
    BY <2>1 DEF CheckInit, DiskInit, Running
  <2>. QED BY <2>2 DEF StoreInv, StorageRunsSave
<1>2. Init => Inv BY <1>1, SensorInit, ReportBlank
<1>3. Inv /\ [Next]_vars => Inv' BY SensorStep, ReportStep, StoreStep
<1>4. Inv => StorageRunsSave BY DEF StoreInv
<1>. QED BY <1>2, <1>3, <1>4, PTL DEF Spec

-----------------------------------------------------------------------------
(* Types.                                                                  *)

\* The touch test and the screen test.
TouchType == [hit : SUBSET Areas, over : BOOLEAN, full : BOOLEAN, pass : BOOLEAN, panel : BOOLEAN,
              last : Areas \cup {0}]
PageType == [page : 1..MaxPage, over : BOOLEAN, down : BOOLEAN, keys : BOOLEAN, locked : BOOLEAN]
\* The panel and its tests.
HandsInv == /\ finger.at \in Areas \cup {0} /\ "at" \in DOMAIN finger
            /\ tt \in TouchType /\ sc \in PageType

(* A sample marks squares of the panel only.                               *)
LEMMA TouchSampled ==
    ASSUME NEW t \in TouchType, NEW at \in Areas \cup {0} PROVE TtSink(t, at).t \in TouchType
<1>1. \A a, b : Between(a, b) \subseteq Areas BY DEF Between
<1>. DEFINE hit == t.hit \cup (IF t.last = 0 THEN {at} ELSE Between(t.last, at))
<1>2. at # 0 => hit \in SUBSET Areas BY <1>1 DEF TouchType
<1>. HIDE DEF hit
<1>3. /\ [t EXCEPT !.pass = FALSE, !.last = 0] \in TouchType /\ [t EXCEPT !.pass = TRUE] \in TouchType
      /\ at # 0 => [t EXCEPT !.hit = hit, !.last = at, !.panel = @ /\ t.last # 0,
                             !.full = @ \/ hit = Areas] \in TouchType
  BY <1>2 DEF TouchType
<1>4. \/ TtSink(t, at).t = t
      \/ TtSink(t, at).t \in {[t EXCEPT !.pass = FALSE, !.last = 0], [t EXCEPT !.pass = TRUE]}
      \/ at # 0 /\ TtSink(t, at).t = [t EXCEPT !.hit = hit, !.last = at, !.panel = @ /\ t.last # 0,
                                               !.full = @ \/ hit = Areas]
  BY DEF TtSink, hit
<1>. QED BY <1>3, <1>4

(* No page turn goes past the last page.                                   *)
LEMMA PageTurns ==
    ASSUME NEW t \in PageType
    PROVE  ScNext(t) \in PageType /\ \A at : ScSink(t, at).t \in PageType
<1>1. ScNext(t) \in PageType
  <2>1. t.page \in 1..MaxPage /\ MaxPage \in Nat BY HandsAssumption DEF PageType
  <2>2. [t EXCEPT !.over = TRUE] \in PageType BY DEF PageType
  <2>3. CASE t.page = MaxPage BY <2>2, <2>3 DEF ScNext, ScResult
  <2>4. CASE t.page # MaxPage
    <3>. DEFINE n == t.page + 1
    <3>1. n \in 1..MaxPage BY <2>1, <2>4
    <3>2. ScNext(t) = [t EXCEPT !.page = n, !.locked = TRUE] BY <2>4 DEF ScNext
    <3>. HIDE DEF n
    <3>. QED BY <3>1, <3>2 DEF PageType
  <2>. QED BY <2>3, <2>4
<1>2. ASSUME NEW at PROVE ScSink(t, at).t \in PageType
  <2>. DEFINE u == IF at # 0 /\ ~t.down /\ ~t.locked THEN ScNext(t) ELSE t
  <2>1. u \in PageType BY <1>1
  <2>2. t.over => ScSink(t, at).t = t BY DEF ScSink
  <2>3. ~t.over => ScSink(t, at).t = [u EXCEPT !.down = (at # 0)] BY DEF ScSink
  <2>. HIDE DEF u
  <2>4. [u EXCEPT !.down = (at # 0)] \in PageType BY <2>1 DEF PageType
  <2>. QED BY <2>2, <2>3, <2>4
<1>. QED BY <1>1, <1>2

(* Every step keeps the panel's tests as they should be.                   *)
LEMMA HandsStep == ASSUME HandsInv, [Next]_vars PROVE HandsInv'
<1>1. ASSUME NEW t \in TouchType
    PROVE TtResult(t) \in TouchType /\ [t EXCEPT !.panel = TRUE] \in TouchType
  BY DEF TouchType, TtResult
<1>2. CASE Switches
  <2>1. NoTouch \in TouchType BY DEF NoTouch, TouchType
  <2>2. NoScreen \in PageType BY HandsAssumption DEF NoScreen, PageType
  <2>. QED BY <1>2, <2>1, <2>2 DEF Switches, HandsInv
<1>3. CASE TouchRead
  <2>1. UNCHANGED finger BY <1>3 DEF TouchRead
  <2>2. CASE ShotRead BY <2>1, <2>2 DEF ShotRead, HandsInv
  <2>3. CASE TouchTestRead
    <3>. DEFINE t == TtSink(tt, finger.at).t
    <3>1. t \in TouchType BY TouchSampled DEF HandsInv
    <3>2. tt' \in {t, TtResult(t)} /\ UNCHANGED sc BY <2>3 DEF TouchTestRead
    <3>. HIDE DEF t
    <3>. QED BY <1>1, <2>1, <3>1, <3>2 DEF HandsInv
  <2>4. CASE ScreenTestRead
    <3>1. sc' = ScSink(sc, finger.at).t /\ UNCHANGED tt BY <2>4 DEF ScreenTestRead
    <3>2. sc' \in PageType BY <3>1, PageTurns DEF HandsInv
    <3>. QED BY <2>1, <3>1, <3>2 DEF HandsInv
  <2>. QED BY <1>3, <2>2, <2>3, <2>4 DEF TouchRead
<1>4. CASE TestTasks
  <2>1. CASE TtTick \/ TtFinish
    <3>1. tt' \in {TtResult(tt), [tt EXCEPT !.panel = TRUE]} /\ UNCHANGED <<finger, sc>>
      BY <2>1 DEF TtTick, TtFinish
    <3>. QED BY <1>1, <3>1 DEF HandsInv
  <2>2. CASE ScUnlock
    <3>1. sc' = [sc EXCEPT !.locked = FALSE] /\ UNCHANGED <<finger, tt>> BY <2>2 DEF ScUnlock
    <3>2. sc' \in PageType BY <3>1 DEF HandsInv, PageType
    <3>. QED BY <3>1, <3>2 DEF HandsInv
  <2>3. ASSUME NEW pressed \in BOOLEAN, ScTick(pressed) PROVE HandsInv'
    <3>. DEFINE t == IF pressed /\ ~sc.keys /\ ~sc.locked THEN ScNext(sc) ELSE sc
    <3>1. t \in PageType BY PageTurns DEF HandsInv
    <3>2. sc' = [t EXCEPT !.keys = pressed] /\ UNCHANGED <<finger, tt>> BY <2>3 DEF ScTick
    <3>. HIDE DEF t
    <3>3. sc' \in PageType BY <3>1, <3>2 DEF PageType
    <3>. QED BY <3>2, <3>3 DEF HandsInv
  <2>. QED BY <1>4, <2>1, <2>2, <2>3 DEF TestTasks
<1>5. CASE FingerStep
  <2>1. UNCHANGED <<tt, sc>> BY <1>5 DEF FingerStep, FingerMoves, FingerLifts, SecondFinger
  <2>2. finger'.at \in Areas \cup {0} /\ "at" \in DOMAIN finger'
    BY <1>5 DEF FingerStep, FingerMoves, FingerLifts, SecondFinger, HandsInv
  <2>. QED BY <2>1, <2>2 DEF HandsInv
<1>6. CASE \/ Chooses \/ Backs \/ AgainInBox \/ Deeper \/ CheckAll \/ CheckSome \/ CheckAgain
           \/ LastResults \/ TakesRails \/ NavPoll \/ PicksPort \/ TestTick \/ Rumbles \/ CameraStep
           \/ CameraButton \/ MotionStep \/ RailStep \/ RailLoss \/ HandStep \/ GlowStep \/ CheckStep
           \/ CheckEnds \/ RamStart \/ Screenshot \/ UNCHANGED vars
  <2>1. UNCHANGED <<finger, tt, sc>>
    BY <1>6 DEF Chooses, Backs, AgainInBox, Deeper, CheckAll, CheckSome, CheckAgain, LastResults,
         TakesRails, NavPoll, PicksPort, TestTick, Rumbles, CameraStep, CameraButton, OnCamera, MotionStep,
         RailStep, RailLoss, OnRails, HandStep, GlowStep, CheckStep, CheckEnds, RamStart, Screenshot,
         handsVars, vars
  <2>. QED BY <2>1 DEF HandsInv
<1>. QED BY <1>2, <1>3, <1>4, <1>5, <1>6, Zenon DEF Next

\* A check's pages, the Diagnostics page and the report come in this order.
SweepInv == sweep.at <= Len(Pages) + 2

(* Every step keeps a check within its pages.                              *)
LEMMA SweepStep == ASSUME RunInv, SweepInv, [Next]_vars PROVE SweepInv'
<1>1. Len(Pages) \in Nat /\ sweep.at \in Nat BY HealthRunAssumption DEF RunInv
<1>2. UNCHANGED sweep \/ RunStarts \/ RunPage \/ RunVerdict \/ RunSaves
  <2>1. CASE \/ Switches \/ CheckStep \/ CheckEnds
    BY <2>1 DEF Switches, CheckStep, CheckEnds, checkVars
  <2>2. CASE \/ Chooses \/ Backs \/ AgainInBox \/ Deeper \/ CheckAll \/ CheckSome \/ CheckAgain
             \/ LastResults \/ TakesRails \/ NavPoll \/ PicksPort \/ TestTick \/ Rumbles \/ CameraStep
             \/ CameraButton \/ MotionStep \/ RailStep \/ RailLoss \/ HandStep \/ GlowStep
             \/ RamStart \/ Screenshot \/ TouchRead \/ TestTasks \/ FingerStep \/ UNCHANGED vars
    BY <2>2 DEF Chooses, Backs, AgainInBox, Deeper, CheckAll, CheckSome, CheckAgain, LastResults,
         TakesRails, NavPoll, PicksPort, TestTick, Rumbles, CameraStep, CameraButton, OnCamera, MotionStep,
         RailStep, RailLoss, OnRails, HandStep, GlowStep, RamStart, Screenshot, TouchRead, TestTasks,
         FingerStep, checkVars, vars
  <2>. QED BY <2>1, <2>2, Zenon DEF Next
<1>3. CASE UNCHANGED sweep BY <1>3 DEF SweepInv
<1>4. CASE RunStarts
  <2>1. NextPage(1, sel.run) \in 1..Len(Pages) + 1 BY <1>1, NextPageIsLater
  <2>. QED BY <1>1, <1>4, <2>1 DEF RunStarts, SweepInv
<1>5. CASE RunPage
  <2>1. sweep.at + 1 \in Nat /\ sweep.at + 1 <= Len(Pages) + 1 BY <1>1, <1>5 DEF RunPage
  <2>2. NextPage(sweep.at + 1, sel.ran) \in sweep.at + 1..Len(Pages) + 1 BY <2>1, NextPageIsLater
  <2>. QED BY <1>1, <1>5, <2>2 DEF RunPage, StatusSet, SweepInv
<1>6. CASE RunVerdict BY <1>1, <1>6 DEF RunVerdict, StatusSet, SweepInv
<1>7. CASE RunSaves
  <2>1. sweep'.at = 0 BY <1>7 DEF RunSaves, RunInv
  <2>. QED BY <1>1, <2>1 DEF SweepInv
<1>. QED BY <1>2, <1>3, <1>4, <1>5, <1>6, <1>7

(* The larger of two bounds.                                               *)
LEMMA MaxOfTwo ==
    ASSUME NEW a \in Nat, NEW b \in Nat
    PROVE  Max({a, b}) \in Nat /\ a <= Max({a, b}) /\ b <= Max({a, b})
<1>1. PICK m \in {a, b} : a <= m /\ b <= m OBVIOUS
<1>2. Max({a, b}) \in {a, b} /\ \A y \in {a, b} : y <= Max({a, b})
  BY <1>1 DEF Max
<1>. QED BY <1>2

(* The type invariant of the GUI: every queue, count and cursor stays in   *)
(* the bounds the code gives it, whatever the tour (gui_jcwire.c's inbox,  *)
(* gui_jcir.c's tries and steps, report.c's buffer, gui_run.c's bar).      *)
THEOREM TypesHold == Spec => []TypeOK
<1>. DEFINE Inv == SensorInv /\ ReportInv /\ VerdictInv /\ HandsInv /\ SweepInv
<1>1. Init => Inv
  <2>1. SUFFICES ASSUME Init PROVE Inv
    OBVIOUS
  <2>2. ReportInv BY <2>1, ReportBlank
  <2>3. HandsInv
    <3>1. NoTouch \in TouchType BY DEF NoTouch, TouchType
    <3>2. NoScreen \in PageType BY HandsAssumption DEF NoScreen, PageType
    <3>. QED BY <2>1, <3>1, <3>2 DEF Init, HandsInit, HandsInv
  <2>4. SweepInv
    <3>1. Len(Pages) \in Nat BY HealthRunAssumption
    <3>2. sweep.at = 0 BY <2>1 DEF Init, CheckInit
    <3>. QED BY <3>1, <3>2 DEF SweepInv
  <2>. QED BY <2>1, <2>2, <2>3, <2>4, SensorInit, VerdictBegins
<1>2. Inv /\ [Next]_vars => Inv'
  <2>1. SensorInv => RunInv BY DEF SensorInv
  <2>. QED BY <2>1, SensorStep, ReportStep, VerdictSteps, HandsStep, SweepStep
<1>3. Inv => TypeOK
  <2>1. SUFFICES ASSUME Inv PROVE TypeOK
    OBVIOUS
  <2>2. gui \in GuiType /\ cam \in CamType /\ DriverType
    BY <2>1 DEF SensorInv, ScreenInv, WireInv, CamOK, DriveInv
  <2>3. ASSUME NEW s \in Sides
        PROVE  /\ pads[s].mcu \in {"off", "booting", "standby", "entering", "ir"}
               /\ pads[s].size \in 0..Len(Frags) /\ pads[s].reports \in {"std", "mcu"}
               /\ Len(wire[s].inbox) <= MaxInbox /\ wire[s].owned \in BOOLEAN
               /\ test[s].drops \in Nat /\ mo[s].last \in {"zero", "still", "moving"}
    <3>1. /\ pads[s] \in PadType /\ wire[s] \in RailType /\ Len(wire[s].inbox) <= MaxInbox
          /\ mo[s] \in MoType /\ test[s] \in TestType
      BY <2>1, <2>2 DEF SensorInv, WireInv, SideOK, DriverType
    <3>. QED BY <3>1 DEF PadType, RailType, MoType, TestType
  <2>4. cam.tries \in 0..Max({Tries, StatusTries})
    <3>1. cam.tries \in Nat /\ cam.tries <= Limit(cam)
      BY <2>1, <2>2 DEF SensorInv, WireInv, CamOK, CamType
    <3>2. Limit(cam) \in {Tries, StatusTries} BY DEF Limit
    <3>3. Tries \in Nat /\ StatusTries \in Nat BY IrAssumption
    <3>4. LET m == Max({Tries, StatusTries}) IN m \in Nat /\ Tries <= m /\ StatusTries <= m
      BY <3>3, MaxOfTwo
    <3>. QED BY <3>1, <3>2, <3>3, <3>4
  <2>5. port \in Ports /\ losses \in 0..tour.losses /\ moves \in 0..tour.moves
    BY <2>1, <2>2 DEF SensorInv, WireInv, DriverType
  <2>6. sweep.at \in 0..(Len(Pages) + 2) /\ Len(body.text) <= Cap
    BY <2>1, HealthRunAssumption DEF SensorInv, RunInv, SweepInv, ReportInv, BodyOK
  <2>7. \A k \in AllKeys : findings[k] \in Severities \cup {NoFinding} BY <2>1 DEF VerdictInv
  <2>8. tt.hit \subseteq Areas /\ sc.page \in 1..MaxPage BY <2>1 DEF HandsInv, TouchType, PageType
  <2>9. /\ gui.at \in Screens /\ gui.pending \in Screens \cup {Unasked} /\ gui.back \in {"home", "joycon"}
        /\ gui.sink \in {Unasked, "touch", "screen"}
        /\ cam.at \in {"off", "setup", "stream", "failed"} /\ cam.step \in DOMAIN Steps
        /\ cam.frames \in 0..MaxFrames
    BY <2>2 DEF GuiType, CamType
  <2>. QED BY <2>3, <2>4, <2>5, <2>6, <2>7, <2>8, <2>9 DEF TypeOK
<1>. QED BY <1>1, <1>2, <1>3, PTL DEF Spec

-----------------------------------------------------------------------------
(* The camera's picture.                                                   *)

\* A piece of a reply of that name, and a request of that name.
IsBody(x, name) == x.part = "body" /\ x.kind = Msg(name)
IsReq(q, name) == q[1] = name

\* What a reply that came back tells of the Joy-Con and is still so.
Holds(k, p, n) ==
    /\ k = Msg("ack03") => p.reports = "mcu"
    /\ k = Msg("standby") => p.mcu \in {"standby", "entering", "ir"}
    /\ k = Msg("mode") => p.mcu \in {"entering", "ir"}
    /\ k = Msg("ir") => p.mcu = "ir"
    /\ k = Msg("size") => p.mcu = "ir" /\ p.size = n
    /\ k = Msg("regs") => p.regs

\* What the steps already done left in it.
StepsHold(c, p) ==
    /\ c.step > 1 => p.reports = "mcu"
    /\ c.step > 3 => p.mcu \in {"standby", "entering", "ir"}
    /\ c.step > 4 => p.mcu \in {"entering", "ir"}
    /\ c.step > 5 => p.mcu = "ir"
    /\ c.step > 6 => p.size = c.size
    /\ c.step > 7 => p.regs

\* The replies and the requests of this start of the camera are those from its
\* first one on.
Asked(inbox, j) == \E i \in 1..j : IsReq(inbox[i], "mcu_reports")
Came(rx, j) == \E i \in 1..j : IsBody(rx[i], "ack03")
OfThisStart(q, n) == ~IsReq(q, "sleep") /\ (IsReq(q, "size") => q[2] = n)

RepliesHold(c, p, rx) ==
    \A j \in 1..Len(rx) :
        rx[j].part = "body" /\ (c.step > 1 \/ Came(rx, j)) => Holds(rx[j].kind, p, c.size)
RequestsFit(c, rx, inbox) ==
    \A j \in 1..Len(inbox) :
        /\ ~IsReq(inbox[j], "std_reports")
        /\ c.step > 1 \/ Came(rx, Len(rx)) \/ Asked(inbox, j) => OfThisStart(inbox[j], c.size)

\* Before the camera was ever started again, its controller is told to wake
\* after the last request for its reports.
InOrder(rx, inbox) ==
    /\ \A i, j \in 1..Len(rx) : i < j /\ IsBody(rx[i], "ack22") => ~IsBody(rx[j], "ack03")
    /\ (\E i \in 1..Len(rx) : IsBody(rx[i], "ack22")) => ~Asked(inbox, Len(inbox))
    /\ \A i, j \in 1..Len(inbox) : i < j /\ IsReq(inbox[i], "wake") => ~IsReq(inbox[j], "mcu_reports")
    /\ \A i \in 1..Len(inbox) : ~IsReq(inbox[i], "sleep") /\ ~IsReq(inbox[i], "std_reports")
Unwoken(c, rx, inbox) ==
    c.step = 1 => /\ \A i \in 1..Len(rx) : ~IsBody(rx[i], "ack22")
                  /\ \A i \in 1..Len(inbox) : ~IsReq(inbox[i], "wake")

\* All of it, n presses of the buttons after the screen was opened.
Chain(c, p, rx, inbox, n) ==
    /\ StepsHold(c, p) /\ RepliesHold(c, p, rx) /\ RequestsFit(c, rx, inbox)
    /\ n = 0 => InOrder(rx, inbox) /\ Unwoken(c, rx, inbox)

\* What a request of this start never takes away.
Grown(p, r, n) ==
    /\ p.reports = "mcu" => r.reports = "mcu"
    /\ p.mcu \in {"standby", "entering", "ir"} => r.mcu \in {"standby", "entering", "ir"}
    /\ p.mcu \in {"entering", "ir"} => r.mcu \in {"entering", "ir"}
    /\ p.mcu = "ir" => r.mcu = "ir"
    /\ p.mcu = "ir" /\ p.size = n => r.size = n
    /\ p.regs => r.regs

(* So it does not.                                                         *)
LEMMA RequestsGrow ==
    ASSUME NEW p \in PadType, NEW q \in ReqType, NEW n,
           ~IsReq(q, "sleep"), ~IsReq(q, "std_reports"), IsReq(q, "size") => q[2] = n
    PROVE  Grown(p, Handled(p, q), n)
<1>1. q[1] # "buzz" BY DEF ReqType, KindType, Names
<1>2. p = [on |-> p.on, imu |-> p.imu, buzz |-> p.buzz, reports |-> p.reports, mcu |-> p.mcu,
           size |-> p.size, regs |-> p.regs, lights |-> p.lights, sent |-> p.sent]
  BY DEF PadType
<1>3. /\ Grown(p, p, n) /\ Grown(p, [p EXCEPT !.reports = "mcu"], n)
      /\ p.mcu = "off" => Grown(p, [p EXCEPT !.mcu = "booting"], n)
      /\ p.mcu = "booting" => Grown(p, [p EXCEPT !.mcu = "standby"], n)
      /\ p.mcu = "entering" => Grown(p, [p EXCEPT !.mcu = "ir"], n)
      /\ p.mcu = "standby" => Grown(p, [p EXCEPT !.mcu = "entering"], n)
      /\ Grown(p, [p EXCEPT !.size = n, !.sent = NoFrag], n)
      /\ Grown(p, [p EXCEPT !.regs = TRUE], n) /\ Grown(p, [p EXCEPT !.lights = TRUE], n)
      /\ Grown(p, [p EXCEPT !.sent = NextFrag(p, q[2])], n)
      /\ Grown(p, [p EXCEPT !.imu = (q[2] = 1)], n)
  BY <1>2 DEF Grown
<1>. QED BY <1>1, <1>3 DEF Handled, IsReq

(* What was so before such a request still is.                             *)
LEMMA GrownHolds ==
    ASSUME NEW p, NEW r, NEW n, Grown(p, r, n)
    PROVE  /\ \A k : Holds(k, p, n) => Holds(k, r, n)
           /\ \A c : c.size = n /\ StepsHold(c, p) /\ c.step \in 1..8 => StepsHold(c, r)
<1>1. ASSUME NEW k, Holds(k, p, n) PROVE Holds(k, r, n) BY <1>1 DEF Holds, Grown
<1>2. ASSUME NEW c, c.size = n, StepsHold(c, p), c.step \in 1..8 PROVE StepsHold(c, r)
  BY <1>2 DEF StepsHold, Grown
<1>. QED BY <1>1, <1>2

(* What the Joy-Con answers is so once it answers.                         *)
LEMMA AnswersHold ==
    ASSUME NEW p \in PadType, NEW q \in ReqType, NEW n,
           ~IsReq(q, "sleep"), ~IsReq(q, "std_reports"), IsReq(q, "size") => q[2] = n
    PROVE  Holds(Answer(p, q), Handled(p, q), n)
<1>. DEFINE a == Answer(p, q)
            r == Handled(p, q)
<1>1. a = Msg("ack03") => IsReq(q, "mcu_reports")
  BY DEF Answer, Msg, Nothing, IsReq
<1>2. a = Msg("standby") => IsReq(q, "status") /\ p.mcu = "standby"
  BY DEF Answer, Msg, Nothing, IsReq
<1>3. a = Msg("mode") => IsReq(q, "ir_mode") /\ p.mcu = "standby"
  BY DEF Answer, Msg, Nothing, IsReq
<1>4. a = Msg("ir") => IsReq(q, "status") /\ p.mcu = "ir"
  BY DEF Answer, Msg, Nothing, IsReq
<1>5. a = Msg("size") => IsReq(q, "size") /\ p.mcu = "ir"
  BY DEF Answer, Msg, Nothing, IsReq
<1>6. a = Msg("regs") => IsReq(q, "query") /\ p.regs
  BY DEF Answer, Msg, Nothing, IsReq
<1>7. IsReq(q, "mcu_reports") => r.reports = "mcu" BY DEF Handled, IsReq, PadType
<1>8. IsReq(q, "status") /\ p.mcu \in {"standby", "ir"} => r = p BY DEF Handled, IsReq
<1>9. IsReq(q, "ir_mode") /\ p.mcu = "standby" => r.mcu = "entering" BY DEF Handled, IsReq, PadType
<1>10. IsReq(q, "size") /\ p.mcu = "ir" => r.mcu = "ir" /\ r.size = q[2] BY DEF Handled, IsReq, PadType
<1>11. IsReq(q, "query") => r = p BY DEF Handled, IsReq
<1>. HIDE DEF a, r
<1>12. Holds(a, r, n) BY <1>1, <1>2, <1>3, <1>4, <1>5, <1>6, <1>7, <1>8, <1>9, <1>10, <1>11 DEF Holds
<1>. QED BY <1>12 DEF a, r

\* A sequence some of whose members are gone, or none.
Thinner(t, s) ==
    \E f \in [1..Len(t) -> 1..Len(s)] :
        /\ \A i, j \in 1..Len(t) : i < j => f[i] < f[j]
        /\ \A i \in 1..Len(t) : t[i] = s[f[i]]

(* What is left of a sequence is one.                                      *)
LEMMA RestIsThinner ==
    ASSUME NEW S, NEW s \in Seq(S), NEW t, NEW m \in 0..Len(s), Len(t) = Len(s) - m,
           \A i \in 1..Len(t) : t[i] = s[m + i]
    PROVE  Thinner(t, s)
<1>. DEFINE f == [i \in 1..Len(t) |-> m + i]
<1>1. Len(s) \in Nat OBVIOUS
<1>2. f \in [1..Len(t) -> 1..Len(s)] BY <1>1
<1>3. \A i, j \in 1..Len(t) : i < j => f[i] < f[j] BY <1>1
<1>4. \A i \in 1..Len(t) : t[i] = s[f[i]] OBVIOUS
<1>. QED BY <1>2, <1>3, <1>4, Zenon DEF Thinner

(* So is the sequence itself.                                              *)
LEMMA AllIsThinner == ASSUME NEW S, NEW s \in Seq(S) PROVE Thinner(s, s)
  BY RestIsThinner

(* And what is left when its first member is lost.                         *)
LEMMA TailIsThinner == ASSUME NEW S, NEW s \in Seq(S), s # <<>> PROVE Thinner(Tail(s), s)
<1>1. Len(Tail(s)) = Len(s) - 1 /\ 1 \in 0..Len(s) /\ \A i \in 1..Len(Tail(s)) : Tail(s)[i] = s[1 + i]
  OBVIOUS
<1>. QED BY <1>1, RestIsThinner

(* Or any other.                                                           *)
LEMMA RemovedIsThinner ==
    ASSUME NEW S, NEW s \in Seq(S), NEW k \in 1..Len(s) PROVE Thinner(RemoveAt(s, k), s)
<1>. DEFINE t == RemoveAt(s, k)
            f == [i \in 1..Len(t) |-> IF i < k THEN i ELSE i + 1]
<1>1. Len(s) \in Nat /\ k \in Nat OBVIOUS
<1>2. Len(t) = Len(s) - 1 /\ \A i \in 1..Len(t) : t[i] = IF i < k THEN s[i] ELSE s[i + 1]
  <2>. DEFINE a == SubSeq(s, 1, k - 1)
              b == SubSeq(s, k + 1, Len(s))
  <2>1. t = a \o b BY DEF RemoveAt
  <2>2. /\ a \in Seq(S) /\ Len(a) = k - 1 /\ \A i \in 1..(k - 1) : a[i] = s[i]
        /\ b \in Seq(S) /\ Len(b) = Len(s) - k /\ \A i \in 1..(Len(s) - k) : b[i] = s[k + i]
    BY <1>1
  <2>. HIDE DEF a, b, t
  <2>3. Len(t) = Len(s) - 1
    <3>1. a \in Seq(S) /\ b \in Seq(S) BY <2>2
    <3>2. Len(a \o b) = Len(a) + Len(b) BY <3>1
    <3>. QED BY <1>1, <2>1, <2>2, <3>2
  <2>4. ASSUME NEW i \in 1..Len(t) PROVE t[i] = IF i < k THEN s[i] ELSE s[i + 1]
    <3>1. CASE i < k BY <1>1, <2>1, <2>2, <2>3, <3>1
    <3>2. CASE ~(i < k)
      <4>1. t[i] = b[i - (k - 1)] BY <1>1, <2>1, <2>2, <2>3, <3>2
      <4>2. i - (k - 1) \in 1..(Len(s) - k) /\ k + (i - (k - 1)) = i + 1 BY <1>1, <2>3, <3>2
      <4>. QED BY <2>2, <3>2, <4>1, <4>2
    <3>. QED BY <3>1, <3>2
  <2>. QED BY <2>3, <2>4
<1>. HIDE DEF t
<1>3. f \in [1..Len(t) -> 1..Len(s)] BY <1>1, <1>2
<1>4. \A i, j \in 1..Len(t) : i < j => f[i] < f[j] BY <1>1, <1>2
<1>5. \A i \in 1..Len(t) : t[i] = s[f[i]] BY <1>2
<1>6. Thinner(t, s) BY <1>3, <1>4, <1>5, Zenon DEF Thinner
<1>. QED BY <1>6 DEF t

(* What is lost or read on the way takes nothing from the rest.            *)
LEMMA ChainThins ==
    ASSUME NEW c, NEW p, NEW n, NEW rx \in Seq(PieceType), NEW inbox \in Seq(ReqType),
           NEW t \in Seq(PieceType), NEW u \in Seq(ReqType), Thinner(t, rx), Thinner(u, inbox),
           Chain(c, p, rx, inbox, n)
    PROVE  Chain(c, p, t, u, n)
<1>1. Len(rx) \in Nat /\ Len(inbox) \in Nat /\ Len(t) \in Nat /\ Len(u) \in Nat OBVIOUS
<1>2. PICK f \in [1..Len(t) -> 1..Len(rx)] :
        /\ \A i, j \in 1..Len(t) : i < j => f[i] < f[j]
        /\ \A i \in 1..Len(t) : t[i] = rx[f[i]]
  BY DEF Thinner
<1>3. PICK g \in [1..Len(u) -> 1..Len(inbox)] :
        /\ \A i, j \in 1..Len(u) : i < j => g[i] < g[j]
        /\ \A i \in 1..Len(u) : u[i] = inbox[g[i]]
  BY DEF Thinner
<1>4. ASSUME NEW j \in 1..Len(t), Came(t, j) PROVE Came(rx, f[j]) /\ Came(rx, Len(rx))
  <2>1. PICK i \in 1..j : IsBody(t[i], "ack03") BY <1>4 DEF Came
  <2>2. i \in 1..Len(t) /\ f[i] <= f[j] /\ f[i] \in 1..Len(rx) /\ f[j] \in 1..Len(rx)
    <3>1. i \in 1..Len(t) /\ (i < j \/ i = j) BY <1>1, <2>1
    <3>2. f[i] \in 1..Len(rx) /\ f[j] \in 1..Len(rx) BY <3>1
    <3>3. i < j => f[i] < f[j] BY <1>2, <3>1
    <3>. QED BY <1>1, <3>1, <3>2, <3>3
  <2>3. IsBody(rx[f[i]], "ack03") BY <1>2, <2>1, <2>2
  <2>4. f[i] \in 1..f[j] /\ f[i] \in 1..Len(rx) BY <2>2
  <2>. QED BY <2>3, <2>4 DEF Came
<1>5. ASSUME NEW j \in 1..Len(u), Asked(u, j) PROVE Asked(inbox, g[j]) /\ Asked(inbox, Len(inbox))
  <2>1. PICK i \in 1..j : IsReq(u[i], "mcu_reports") BY <1>5 DEF Asked
  <2>2. i \in 1..Len(u) /\ g[i] <= g[j] /\ g[i] \in 1..Len(inbox) /\ g[j] \in 1..Len(inbox)
    <3>1. i \in 1..Len(u) /\ (i < j \/ i = j) BY <1>1, <2>1
    <3>2. g[i] \in 1..Len(inbox) /\ g[j] \in 1..Len(inbox) BY <3>1
    <3>3. i < j => g[i] < g[j] BY <1>3, <3>1
    <3>. QED BY <1>1, <3>1, <3>2, <3>3
  <2>3. IsReq(inbox[g[i]], "mcu_reports") BY <1>3, <2>1, <2>2
  <2>4. g[i] \in 1..g[j] /\ g[i] \in 1..Len(inbox) BY <2>2
  <2>. QED BY <2>3, <2>4 DEF Asked
<1>6. Came(t, Len(t)) => Came(rx, Len(rx))
  <2>1. Came(t, Len(t)) => Len(t) \in 1..Len(t) BY <1>1 DEF Came
  <2>. QED BY <1>4, <2>1
<1>7. Asked(u, Len(u)) => Asked(inbox, Len(inbox))
  <2>1. Asked(u, Len(u)) => Len(u) \in 1..Len(u) BY <1>1 DEF Asked
  <2>. QED BY <1>5, <2>1
<1>8. RepliesHold(c, p, t)
  <2>1. SUFFICES ASSUME NEW j \in 1..Len(t), t[j].part = "body", c.step > 1 \/ Came(t, j)
                 PROVE  Holds(t[j].kind, p, c.size)
    BY DEF RepliesHold
  <2>2. t[j] = rx[f[j]] /\ f[j] \in 1..Len(rx) BY <1>2
  <2>3. c.step > 1 \/ Came(rx, f[j]) BY <1>4, <2>1
  <2>. QED BY <2>1, <2>2, <2>3 DEF Chain, RepliesHold
<1>9. RequestsFit(c, t, u)
  <2>1. SUFFICES ASSUME NEW j \in 1..Len(u)
                 PROVE  /\ ~IsReq(u[j], "std_reports")
                        /\ c.step > 1 \/ Came(t, Len(t)) \/ Asked(u, j) => OfThisStart(u[j], c.size)
    BY DEF RequestsFit
  <2>2. u[j] = inbox[g[j]] /\ g[j] \in 1..Len(inbox) BY <1>3
  <2>. QED BY <1>5, <1>6, <2>2 DEF Chain, RequestsFit
<1>10. ASSUME InOrder(rx, inbox) PROVE InOrder(t, u)
  <2>1. ASSUME NEW i \in 1..Len(t), NEW j \in 1..Len(t), i < j, IsBody(t[i], "ack22")
        PROVE  ~IsBody(t[j], "ack03")
    <3>1. /\ f[i] \in 1..Len(rx) /\ f[j] \in 1..Len(rx) /\ f[i] < f[j]
          /\ t[i] = rx[f[i]] /\ t[j] = rx[f[j]]
      BY <1>2, <2>1
    <3>. QED BY <1>10, <2>1, <3>1 DEF InOrder
  <2>2. ASSUME NEW i \in 1..Len(t), IsBody(t[i], "ack22") PROVE ~Asked(u, Len(u))
    <3>1. f[i] \in 1..Len(rx) /\ t[i] = rx[f[i]] BY <1>2
    <3>. QED BY <1>7, <1>10, <2>2, <3>1 DEF InOrder
  <2>3. ASSUME NEW i \in 1..Len(u), NEW j \in 1..Len(u), i < j, IsReq(u[i], "wake")
        PROVE  ~IsReq(u[j], "mcu_reports")
    <3>1. /\ g[i] \in 1..Len(inbox) /\ g[j] \in 1..Len(inbox) /\ g[i] < g[j]
          /\ u[i] = inbox[g[i]] /\ u[j] = inbox[g[j]]
      BY <1>3, <2>3
    <3>. QED BY <1>10, <2>3, <3>1 DEF InOrder
  <2>4. ASSUME NEW i \in 1..Len(u) PROVE ~IsReq(u[i], "sleep") /\ ~IsReq(u[i], "std_reports")
    <3>1. g[i] \in 1..Len(inbox) /\ u[i] = inbox[g[i]] BY <1>3
    <3>. QED BY <1>10, <3>1 DEF InOrder
  <2>. QED BY <2>1, <2>2, <2>3, <2>4 DEF InOrder
<1>11. ASSUME Unwoken(c, rx, inbox) PROVE Unwoken(c, t, u)
  <2>1. SUFFICES ASSUME c.step = 1
                 PROVE  /\ \A i \in 1..Len(t) : ~IsBody(t[i], "ack22")
                        /\ \A i \in 1..Len(u) : ~IsReq(u[i], "wake")
    BY DEF Unwoken
  <2>2. \A i \in 1..Len(t) : f[i] \in 1..Len(rx) /\ t[i] = rx[f[i]] BY <1>2
  <2>3. \A i \in 1..Len(u) : g[i] \in 1..Len(inbox) /\ u[i] = inbox[g[i]] BY <1>3
  <2>. QED BY <1>11, <2>1, <2>2, <2>3 DEF Unwoken
<1>. QED BY <1>8, <1>9, <1>10, <1>11 DEF Chain

\* One request more goes out at step c: no other start's.
Fit(q, c) == /\ ~IsReq(q, "std_reports") /\ OfThisStart(q, c.size)
             /\ IsReq(q, "mcu_reports") => c.step = 1
             /\ IsReq(q, "wake") => c.step # 1

(* What a step sends joins what is on its way.                             *)
LEMMA ChainSends ==
    ASSUME NEW c, NEW p, NEW n, NEW rx \in Seq(PieceType), NEW inbox \in Seq(ReqType),
           NEW reqs \in Seq(ReqType), \A i \in 1..Len(reqs) : Fit(reqs[i], c),
           Chain(c, p, rx, inbox, n)
    PROVE  Chain(c, p, rx, inbox \o reqs, n)
<1>. DEFINE u == inbox \o reqs
            a == Len(inbox)
<1>1. /\ a \in Nat /\ Len(reqs) \in Nat /\ Len(u) = a + Len(reqs) /\ Len(rx) \in Nat
      /\ \A i \in 1..a : u[i] = inbox[i]
      /\ \A i \in 1..Len(u) : i > a => i - a \in 1..Len(reqs) /\ u[i] = reqs[i - a]
  OBVIOUS
<1>2. a = Len(inbox) OBVIOUS
<1>. HIDE DEF u, a
<1>8. ASSUME NEW i \in 1..Len(u), ~(i > a) PROVE i \in 1..a /\ u[i] = inbox[i]
  <2>1. i \in 1..a BY <1>1, <1>8
  <2>. QED BY <1>1, <2>1
<1>3. ASSUME NEW i \in 1..Len(u), i > a PROVE Fit(u[i], c) BY <1>1, <1>3
<1>4. ASSUME NEW j \in 1..a, Asked(u, j) PROVE Asked(inbox, j)
  <2>1. PICK i \in 1..j : IsReq(u[i], "mcu_reports") BY <1>4 DEF Asked
  <2>2. u[i] = inbox[i] BY <1>1, <2>1
  <2>. QED BY <2>1, <2>2 DEF Asked
<1>5. RequestsFit(c, rx, u)
  <2>1. SUFFICES ASSUME NEW j \in 1..Len(u)
                 PROVE  /\ ~IsReq(u[j], "std_reports")
                        /\ c.step > 1 \/ Came(rx, Len(rx)) \/ Asked(u, j) => OfThisStart(u[j], c.size)
    BY DEF RequestsFit
  <2>2. CASE j > a BY <1>3, <2>2 DEF Fit
  <2>3. CASE ~(j > a)
    <3>1. j \in 1..a /\ u[j] = inbox[j] BY <1>8, <2>3
    <3>. QED BY <1>2, <1>4, <3>1 DEF Chain, RequestsFit
  <2>. QED BY <2>2, <2>3
<1>6. ASSUME InOrder(rx, inbox), Unwoken(c, rx, inbox) PROVE InOrder(rx, u) /\ Unwoken(c, rx, u)
  <2>1. ASSUME NEW i \in 1..Len(rx), IsBody(rx[i], "ack22") PROVE ~Asked(u, Len(u))
    <3>1. ~Asked(inbox, a) /\ c.step # 1 BY <1>2, <1>6, <2>1 DEF InOrder, Unwoken
    <3>2. ASSUME NEW j \in 1..Len(u) PROVE ~IsReq(u[j], "mcu_reports")
      <4>1. CASE j > a BY <1>3, <3>1, <4>1 DEF Fit
      <4>2. CASE ~(j > a)
        <5>1. j \in 1..a /\ u[j] = inbox[j] BY <1>8, <4>2
        <5>. QED BY <3>1, <5>1 DEF Asked
      <4>. QED BY <4>1, <4>2
    <3>. QED BY <3>2 DEF Asked
  <2>2. ASSUME NEW i \in 1..Len(u), NEW j \in 1..Len(u), i < j, IsReq(u[i], "wake")
        PROVE  ~IsReq(u[j], "mcu_reports")
    <3>1. CASE j > a
      <4>1. c.step # 1 => ~IsReq(u[j], "mcu_reports") BY <1>3, <3>1 DEF Fit
      <4>2. c.step = 1 => i > a
        <5>1. i \in 1..a => u[i] = inbox[i] BY <1>1
        <5>2. c.step = 1 => i \notin 1..a BY <1>2, <1>6, <2>2, <5>1 DEF Unwoken
        <5>. QED BY <1>1, <5>2
      <4>3. c.step = 1 /\ i > a => ~IsReq(u[i], "wake") BY <1>3 DEF Fit
      <4>. QED BY <2>2, <4>1, <4>2, <4>3
    <3>2. CASE ~(j > a)
      <4>1. ~(i > a) BY <1>1, <2>2, <3>2
      <4>2. i \in 1..a /\ j \in 1..a /\ u[i] = inbox[i] /\ u[j] = inbox[j] BY <1>8, <3>2, <4>1
      <4>. QED BY <1>2, <1>6, <2>2, <4>2 DEF InOrder
    <3>. QED BY <3>1, <3>2
  <2>3. ASSUME NEW i \in 1..Len(u) PROVE ~IsReq(u[i], "sleep") /\ ~IsReq(u[i], "std_reports")
    <3>1. CASE i > a BY <1>3, <3>1 DEF Fit, OfThisStart
    <3>2. CASE ~(i > a)
      <4>1. i \in 1..a /\ u[i] = inbox[i] BY <1>8, <3>2
      <4>. QED BY <1>2, <1>6, <4>1 DEF InOrder
    <3>. QED BY <3>1, <3>2
  <2>4. ASSUME c.step = 1, NEW i \in 1..Len(u) PROVE ~IsReq(u[i], "wake")
    <3>1. CASE i > a BY <1>3, <2>4, <3>1 DEF Fit
    <3>2. CASE ~(i > a)
      <4>1. i \in 1..a /\ u[i] = inbox[i] BY <1>8, <3>2
      <4>. QED BY <1>2, <1>6, <2>4, <4>1 DEF Unwoken
    <3>. QED BY <3>1, <3>2
  <2>5. InOrder(rx, u) BY <1>6, <2>1, <2>2, <2>3 DEF InOrder
  <2>. QED BY <1>6, <2>4, <2>5 DEF Unwoken
<1>7. Chain(c, p, rx, u, n) BY <1>5, <1>6 DEF Chain
<1>. QED BY <1>7 DEF u

\* A report after what is there: v, its bodies all of the kind a.
Adds(v, rx, a) ==
    /\ v \in Seq(PieceType) /\ Len(v) \in Nat /\ Len(rx) <= Len(v)
    /\ \A i \in 1..Len(rx) : i \in 1..Len(v) /\ v[i] = rx[i]
    /\ \A i \in 1..Len(v) : i \notin 1..Len(rx) /\ v[i].part = "body" => v[i].kind = a

(* That is how one comes.                                                  *)
LEMMA ReportAdds ==
    ASSUME NEW rx \in Seq(PieceType), NEW a \in KindType PROVE Adds(rx \o Report(a), rx, a)
<1>. DEFINE b == Report(a)
            v == rx \o b
<1>1. b \in Seq(PieceType) BY ReportType
<1>2. \A i \in 1..Len(b) : b[i].part = "body" => b[i].kind = a
  <2>1. CASE a = Nothing BY <2>1 DEF Report
  <2>2. CASE a # Nothing
    <3>. DEFINE d == [i \in 1..Size(a) |-> Piece("body", a)]
                h == <<Piece("head", a)>>
    <3>1. b = h \o d BY <2>2 DEF Report
    <3>2. Size(a) \in 1..2 BY DEF Size
    <3>3. Piece("head", a) \in PieceType /\ Piece("body", a) \in PieceType BY DEF Piece, PieceType
    <3>4. h \in Seq(PieceType) /\ Len(h) = 1 /\ h[1] = Piece("head", a) BY <3>3
    <3>5. d \in Seq(PieceType) /\ Len(d) = Size(a) /\ \A i \in 1..Size(a) : d[i] = Piece("body", a)
      <4>1. d \in Seq(PieceType) /\ DOMAIN d = 1..Size(a) BY <3>2, <3>3
      <4>2. \A i \in 1..Size(a) : d[i] = Piece("body", a) OBVIOUS
      <4>3. Len(d) = Size(a)
        <5>. HIDE DEF d
        <5>. QED BY <3>2, <4>1
      <4>. QED BY <4>1, <4>2, <4>3
    <3>. HIDE DEF d, h, b
    <3>6. Len(b) = 1 + Size(a)
      <4>1. h \in Seq(PieceType) /\ d \in Seq(PieceType) BY <3>4, <3>5
      <4>2. Len(h \o d) = Len(h) + Len(d) BY <4>1
      <4>. QED BY <3>1, <3>4, <3>5, <4>2
    <3>7. ASSUME NEW i \in 1..Len(b) PROVE b[i] = Piece("head", a) \/ b[i] = Piece("body", a)
      <4>1. CASE i = 1 BY <3>1, <3>2, <3>4, <3>5, <4>1
      <4>2. CASE i # 1
        <5>1. i - 1 \in 1..Size(a) BY <3>2, <3>6, <4>2
        <5>2. b[i] = d[i - 1] BY <3>1, <3>2, <3>4, <3>5, <3>6, <4>2
        <5>. QED BY <3>5, <5>1, <5>2
      <4>. QED BY <4>1, <4>2
    <3>8. Piece("head", a).part # "body" /\ Piece("body", a).kind = a BY DEF Piece
    <3>. QED BY <3>7, <3>8
  <2>. QED BY <2>1, <2>2
<1>. HIDE DEF b
<1>3. v = rx \o b OBVIOUS
<1>. HIDE DEF v
<1>4. v \in Seq(PieceType) /\ Len(v) = Len(rx) + Len(b) /\ Len(b) \in Nat /\ Len(rx) \in Nat BY <1>1, <1>3
<1>5. \A i \in 1..Len(rx) : v[i] = rx[i] BY <1>1, <1>3
<1>6. \A i \in 1..Len(b) : v[Len(rx) + i] = b[i] BY <1>1, <1>3
<1>7. ASSUME NEW i \in 1..Len(v), i \notin 1..Len(rx), v[i].part = "body" PROVE v[i].kind = a
  <2>1. i - Len(rx) \in 1..Len(b) /\ Len(rx) + (i - Len(rx)) = i BY <1>4, <1>7
  <2>2. v[i] = b[i - Len(rx)] BY <1>6, <2>1
  <2>. QED BY <1>2, <1>7, <2>1, <2>2
<1>8. \A i \in 1..Len(rx) : i \in 1..Len(v) BY <1>4
<1>9. Adds(v, rx, a) BY <1>4, <1>5, <1>7, <1>8 DEF Adds
<1>. QED BY <1>9 DEF v, b

(* Which requests those two acknowledge.                                   *)
LEMMA AcksOf ==
    ASSUME NEW p, NEW q
    PROVE  /\ Answer(p, q) = Msg("ack03") => IsReq(q, "mcu_reports") \/ IsReq(q, "std_reports")
           /\ Answer(p, q) = Msg("ack22") => IsReq(q, "wake") \/ IsReq(q, "sleep")
  BY DEF Answer, Msg, Nothing, IsReq

(* Answering in turn keeps the order.                                      *)
LEMMA OrderAnswers ==
    ASSUME NEW rx \in Seq(PieceType), NEW inbox \in Seq(ReqType), inbox # <<>>, NEW p \in PadType,
           InOrder(rx, inbox), NEW v, v = rx \o Report(Answer(p, inbox[1])),
           NEW u \in Seq(ReqType), Len(u) = Len(inbox) - 1, \A i \in 1..Len(u) : u[i] = inbox[i + 1]
    PROVE  InOrder(v, u)
<1>. DEFINE q == inbox[1]
            a == Answer(p, q)
<1>1. /\ Len(inbox) \in Nat /\ 1 \in 1..Len(inbox) /\ Len(rx) \in Nat /\ q \in ReqType
      /\ \A i \in 1..Len(u) : i + 1 \in 1..Len(inbox) /\ 1 < i + 1 /\ u[i] = inbox[i + 1]
  OBVIOUS
<1>2. a \in KindType BY <1>1, AnswerType
<1>3. ~IsReq(q, "sleep") /\ ~IsReq(q, "std_reports") BY <1>1 DEF InOrder
<1>4. /\ a = Msg("ack03") => IsReq(q, "mcu_reports")
      /\ a = Msg("ack22") => IsReq(q, "wake")
  BY <1>3, AcksOf
<1>12. v = rx \o Report(a) OBVIOUS
<1>. HIDE DEF a
<1>5. /\ \A i \in 1..Len(rx) : i \in 1..Len(v) /\ v[i] = rx[i]
      /\ \A i \in 1..Len(v) : i \notin 1..Len(rx) /\ v[i].part = "body" => v[i].kind = a
      /\ Len(v) \in Nat /\ Len(rx) <= Len(v)
  <2>1. Adds(v, rx, a) BY <1>2, <1>12, ReportAdds
  <2>. QED BY <2>1 DEF Adds
<1>6. ASSUME Asked(u, Len(u)) PROVE Asked(inbox, Len(inbox)) /\ ~IsReq(q, "wake")
  <2>1. PICK i \in 1..Len(u) : IsReq(u[i], "mcu_reports") BY <1>6 DEF Asked
  <2>2. i + 1 \in 1..Len(inbox) /\ 1 < i + 1 /\ IsReq(inbox[i + 1], "mcu_reports") BY <1>1, <2>1
  <2>. QED BY <1>1, <2>2 DEF Asked, InOrder
<1>7. ASSUME IsReq(q, "mcu_reports") PROVE \A i \in 1..Len(rx) : ~IsBody(rx[i], "ack22")
  BY <1>1, <1>7 DEF InOrder, Asked
<1>8. ASSUME NEW i \in 1..Len(v), NEW j \in 1..Len(v), i < j, IsBody(v[i], "ack22")
      PROVE  ~IsBody(v[j], "ack03")
  <2>1. ASSUME IsBody(v[j], "ack03") PROVE FALSE
    <3>1. CASE j \in 1..Len(rx)
      <4>1. i \in 1..Len(rx) BY <1>1, <1>8, <3>1
      <4>. QED BY <1>5, <1>8, <2>1, <3>1, <4>1 DEF InOrder
    <3>2. CASE j \notin 1..Len(rx)
      <4>1. a = Msg("ack03") BY <1>5, <2>1, <3>2 DEF IsBody
      <4>2. IsReq(q, "mcu_reports") BY <1>4, <4>1
      <4>3. i \notin 1..Len(rx) BY <1>5, <1>7, <1>8, <4>2
      <4>4. a = Msg("ack22") BY <1>5, <1>8, <4>3 DEF IsBody
      <4>. QED BY <4>1, <4>4 DEF Msg
    <3>. QED BY <3>1, <3>2
  <2>. QED BY <2>1
<1>9. ASSUME NEW i \in 1..Len(v), IsBody(v[i], "ack22") PROVE ~Asked(u, Len(u))
  <2>1. CASE i \in 1..Len(rx) BY <1>5, <1>6, <1>9, <2>1 DEF InOrder
  <2>2. CASE i \notin 1..Len(rx)
    <3>1. a = Msg("ack22") BY <1>5, <1>9, <2>2 DEF IsBody
    <3>. QED BY <1>4, <1>6, <3>1
  <2>. QED BY <2>1, <2>2
<1>10. ASSUME NEW i \in 1..Len(u), NEW j \in 1..Len(u), i < j, IsReq(u[i], "wake")
       PROVE  ~IsReq(u[j], "mcu_reports")
  <2>1. i + 1 < j + 1 BY <1>10
  <2>. QED BY <1>1, <1>10, <2>1 DEF InOrder
<1>11. \A i \in 1..Len(u) : ~IsReq(u[i], "sleep") /\ ~IsReq(u[i], "std_reports")
  BY <1>1 DEF InOrder
<1>. QED BY <1>8, <1>9, <1>10, <1>11 DEF InOrder

(* The Joy-Con takes its next request, and answers.                        *)
LEMMA ChainAnswers ==
    ASSUME NEW c, c.step \in 1..8, NEW p \in PadType, NEW n,
           NEW rx \in Seq(PieceType), NEW inbox \in Seq(ReqType), inbox # <<>>,
           Chain(c, p, rx, inbox, n), NEW q, q = Head(inbox)
    PROVE  Chain(c, Handled(p, q), rx \o Report(Answer(p, q)), Tail(inbox), n)
<1>. DEFINE a == Answer(p, q)
            r == Handled(p, q)
            v == rx \o Report(a)
            u == Tail(inbox)
<1>1. /\ Len(inbox) \in Nat /\ 1 \in 1..Len(inbox) /\ Len(rx) \in Nat /\ q = inbox[1] /\ q \in ReqType
      /\ u \in Seq(ReqType) /\ Len(u) = Len(inbox) - 1
      /\ \A i \in 1..Len(u) : i + 1 \in 1..Len(inbox) /\ u[i] = inbox[i + 1]
  OBVIOUS
<1>2. a \in KindType BY <1>1, AnswerType
<1>3. v = rx \o Report(a) OBVIOUS
<1>. HIDE DEF v, u
<1>4. /\ \A i \in 1..Len(rx) : i \in 1..Len(v) /\ v[i] = rx[i]
      /\ \A i \in 1..Len(v) : i \notin 1..Len(rx) /\ v[i].part = "body" => v[i].kind = a
      /\ Len(v) \in Nat /\ Len(rx) <= Len(v)
  <2>1. Adds(v, rx, a) BY <1>2, <1>3, ReportAdds
  <2>. QED BY <2>1 DEF Adds
<1>. DEFINE live == c.step > 1 \/ Came(rx, Len(rx)) \/ IsReq(q, "mcu_reports")
<1>5. ~IsReq(q, "std_reports") BY <1>1 DEF Chain, RequestsFit
<1>6. IsReq(q, "mcu_reports") => \A j \in 1..Len(inbox) : Asked(inbox, j)
  BY <1>1 DEF Asked
<1>7. live => OfThisStart(q, c.size) BY <1>1, <1>6 DEF Chain, RequestsFit
<1>8. live => Grown(p, r, c.size) /\ Holds(a, r, c.size)
  BY <1>1, <1>5, <1>7, RequestsGrow, AnswersHold DEF OfThisStart
<1>9. a = Msg("ack03") => IsReq(q, "mcu_reports") BY <1>5, AcksOf
<1>10. a = Msg("ack22") => IsReq(q, "wake") \/ IsReq(q, "sleep") BY AcksOf
<1>. HIDE DEF a, r
<1>11. ASSUME NEW j \in 1..Len(v), Came(v, j), ~IsReq(q, "mcu_reports")
       PROVE  /\ Came(rx, Len(rx))
              /\ j \in 1..Len(rx) => Came(rx, j)
  <2>1. PICK i \in 1..j : IsBody(v[i], "ack03") BY <1>11 DEF Came
  <2>2. i \in 1..Len(v) BY <1>4, <2>1
  <2>3. i \in 1..Len(rx) BY <1>4, <1>9, <1>11, <2>1, <2>2 DEF IsBody
  <2>4. IsBody(rx[i], "ack03") BY <1>4, <2>1, <2>3
  <2>. QED BY <2>1, <2>3, <2>4 DEF Came
<1>12. StepsHold(c, r)
  <2>1. CASE c.step > 1 BY <1>8, <2>1, GrownHolds DEF Chain
  <2>2. CASE ~(c.step > 1) BY <2>2 DEF StepsHold
  <2>. QED BY <2>1, <2>2
<1>13. RepliesHold(c, r, v)
  <2>1. SUFFICES ASSUME NEW j \in 1..Len(v), v[j].part = "body", c.step > 1 \/ Came(v, j)
                 PROVE  Holds(v[j].kind, r, c.size)
    BY DEF RepliesHold
  <2>2. live BY <1>11, <2>1
  <2>3. CASE j \notin 1..Len(rx) BY <1>4, <1>8, <2>1, <2>2, <2>3
  <2>4. CASE j \in 1..Len(rx)
    <3>1. v[j] = rx[j] BY <1>4, <2>4
    <3>2. CASE c.step > 1 \/ Came(rx, j)
      <4>1. Holds(rx[j].kind, p, c.size) BY <2>1, <2>4, <3>1, <3>2 DEF Chain, RepliesHold
      <4>. QED BY <1>8, <2>2, <3>1, <4>1, GrownHolds
    <3>3. CASE ~(c.step > 1 \/ Came(rx, j))
      <4>1. PICK i \in 1..j : IsBody(v[i], "ack03") BY <2>1, <3>3 DEF Came
      <4>2. i \in 1..Len(rx) BY <1>1, <2>4, <4>1
      <4>3. IsBody(rx[i], "ack03") BY <1>4, <4>1, <4>2
      <4>. QED BY <3>3, <4>1, <4>3 DEF Came
    <3>. QED BY <3>2, <3>3
  <2>. QED BY <2>3, <2>4
<1>14. RequestsFit(c, v, u)
  <2>1. SUFFICES ASSUME NEW j \in 1..Len(u)
                 PROVE  /\ ~IsReq(u[j], "std_reports")
                        /\ c.step > 1 \/ Came(v, Len(v)) \/ Asked(u, j) => OfThisStart(u[j], c.size)
    BY DEF RequestsFit
  <2>2. j + 1 \in 1..Len(inbox) /\ u[j] = inbox[j + 1] BY <1>1
  <2>3. Came(v, Len(v)) => Came(rx, Len(rx)) \/ IsReq(q, "mcu_reports")
    <3>1. Came(v, Len(v)) => Len(v) \in 1..Len(v) BY <1>4 DEF Came
    <3>. QED BY <1>11, <3>1
  <2>4. Asked(u, j) => Asked(inbox, j + 1)
    <3>1. ASSUME NEW i \in 1..j, IsReq(u[i], "mcu_reports") PROVE Asked(inbox, j + 1)
      <4>1. i \in 1..Len(u) /\ i + 1 \in 1..(j + 1) BY <1>1, <3>1
      <4>2. IsReq(inbox[i + 1], "mcu_reports") BY <1>1, <3>1, <4>1
      <4>. QED BY <4>1, <4>2 DEF Asked
    <3>. QED BY <3>1 DEF Asked
  <2>. QED BY <1>6, <2>2, <2>3, <2>4 DEF Chain, RequestsFit
<1>15. ASSUME n = 0 PROVE InOrder(v, u) /\ Unwoken(c, v, u)
  <2>1. InOrder(rx, inbox) /\ Unwoken(c, rx, inbox) BY <1>15 DEF Chain
  <2>2. InOrder(v, u) BY <1>1, <1>3, <2>1, OrderAnswers DEF a
  <2>3. ASSUME c.step = 1 PROVE \A i \in 1..Len(v) : ~IsBody(v[i], "ack22")
    <3>1. a # Msg("ack22") BY <1>1, <1>10, <2>1, <2>3 DEF InOrder, Unwoken
    <3>2. SUFFICES ASSUME NEW i \in 1..Len(v), IsBody(v[i], "ack22") PROVE FALSE
      OBVIOUS
    <3>3. i \in 1..Len(rx) BY <1>4, <3>1, <3>2 DEF IsBody
    <3>. QED BY <1>4, <2>1, <2>3, <3>2, <3>3 DEF Unwoken
  <2>4. ASSUME c.step = 1, NEW i \in 1..Len(u) PROVE ~IsReq(u[i], "wake")
    BY <1>1, <2>1, <2>4 DEF Unwoken
  <2>. QED BY <2>2, <2>3, <2>4 DEF Unwoken
<1>16. Chain(c, r, v, u, n) BY <1>12, <1>13, <1>14, <1>15 DEF Chain
<1>. QED BY <1>16 DEF v, u, r, a

(* What comes back, request by request, keeps the order.                   *)
LEMMA ReceivedInOrder ==
    ASSUME NEW p \in PadType, NEW rx \in Seq(PieceType), NEW inbox \in Seq(ReqType),
           InOrder(rx, inbox), NEW n \in 0..Len(inbox)
    PROVE  InOrder(Received(p, rx, inbox)[n], SubSeq(inbox, n + 1, Len(inbox)))
<1>. DEFINE f == Received(p, rx, inbox)
            left(k) == SubSeq(inbox, k + 1, Len(inbox))
            bad == {k \in 0..Len(inbox) : ~InOrder(f[k], left(k))}
<1>1. Len(inbox) \in Nat OBVIOUS
<1>2. ASSUME NEW k \in 0..Len(inbox)
      PROVE  /\ left(k) \in Seq(ReqType) /\ Len(left(k)) = Len(inbox) - k
             /\ \A i \in 1..Len(left(k)) : left(k)[i] = inbox[k + i]
  BY <1>1
<1>3. left(0) = inbox BY <1>1
<1>4. f[0] = rx BY ReceivedEach
<1>5. ASSUME NEW k \in 0..Len(inbox) PROVE f[k] \in Seq(PieceType) BY ReceivedType
<1>6. ASSUME NEW k \in 1..Len(inbox), InOrder(f[k - 1], left(k - 1)) PROVE InOrder(f[k], left(k))
  <2>. DEFINE r == HandledAll(p, SubSeq(inbox, 1, k - 1))
              s == left(k - 1)
              u == left(k)
  <2>1. r \in PadType
    <3>1. SubSeq(inbox, 1, k - 1) \in Seq(ReqType) BY <1>1
    <3>. QED BY <3>1, AllType
  <2>2. f[k] = f[k - 1] \o Report(Answer(r, inbox[k]))
    <3>1. f[k] = f[k - 1] \o Reply(p, inbox, k) BY ReceivedEach
    <3>. QED BY <3>1 DEF Reply
  <2>3. k - 1 \in 0..Len(inbox) /\ k \in 0..Len(inbox) /\ f[k - 1] \in Seq(PieceType) BY <1>1, <1>5
  <2>4. /\ s \in Seq(ReqType) /\ Len(s) = Len(inbox) - (k - 1)
        /\ \A i \in 1..Len(s) : s[i] = inbox[(k - 1) + i]
        /\ u \in Seq(ReqType) /\ Len(u) = Len(inbox) - k
        /\ \A i \in 1..Len(u) : u[i] = inbox[k + i]
    BY <1>2, <2>3
  <2>. HIDE DEF r, s, u, f
  <2>5. s[1] = inbox[k] /\ s # <<>> /\ Len(u) = Len(s) - 1
    <3>1. Len(s) > 0 /\ 1 \in 1..Len(s) /\ (k - 1) + 1 = k /\ Len(u) = Len(s) - 1 BY <1>1, <2>4
    <3>2. s[1] = inbox[(k - 1) + 1] BY <2>4, <3>1
    <3>. QED BY <3>1, <3>2
  <2>6. ASSUME NEW i \in 1..Len(u) PROVE u[i] = s[i + 1]
    <3>1. i + 1 \in 1..Len(s) /\ (k - 1) + (i + 1) = k + i BY <1>1, <2>4
    <3>. QED BY <2>4, <3>1
  <2>7. InOrder(f[k - 1], s) BY <1>6 DEF s
  <2>8. f[k] = f[k - 1] \o Report(Answer(r, s[1])) BY <2>2, <2>5
  <2>9. \A i \in 1..Len(u) : u[i] = s[i + 1] BY <2>6
  <2>10. InOrder(f[k], u)
    <3>1. s \in Seq(ReqType) /\ u \in Seq(ReqType) BY <2>4
    <3>2. f[k - 1] \in Seq(PieceType) BY <2>3
    <3>. QED BY <2>1, <2>5, <2>7, <2>8, <2>9, <3>1, <3>2, OrderAnswers
  <2>. QED BY <2>10 DEF u
<1>. HIDE DEF f, left
<1>7. ASSUME bad # {} PROVE FALSE
  <2>1. PICK k \in bad : \A j \in bad : k <= j
    <3>1. bad \subseteq Nat OBVIOUS
    <3>. HIDE DEF bad
    <3>. QED BY <1>7, <3>1, LeastNatural
  <2>2. k # 0 BY <1>3, <1>4, <2>1
  <2>3. k - 1 \in 0..Len(inbox) /\ k - 1 \notin bad /\ k \in 1..Len(inbox) BY <2>1, <2>2
  <2>. QED BY <1>6, <2>1, <2>3
<1>8. InOrder(f[n], left(n)) BY <1>7
<1>. QED BY <1>8 DEF f, left

(* Told to sleep, the Joy-Con has nothing on its way that another start    *)
(* asked for: what came back before the controller first slept.            *)
LEMMA SleepIsLast ==
    ASSUME NEW p \in PadType, p.on, NEW rail \in RailType, InOrder(rail.rx, rail.inbox),
           NEW o \in Subcmds(p, rail, Msg("sleep"))
    PROVE  /\ \A i \in 1..Len(o.rail.rx) : ~IsBody(o.rail.rx[i], "ack03")
           /\ \A i \in 1..Len(o.rail.inbox) : /\ ~IsReq(o.rail.inbox[i], "mcu_reports")
                                              /\ ~IsReq(o.rail.inbox[i], "std_reports")
<1>. DEFINE q == Msg("sleep")
            reqs == Append(rail.inbox, q)
            back == Received(p, rail.rx, rail.inbox)
            early == {n \in 0..Len(rail.inbox) : PastAck(back[n], q) # {}}
            n == Min(early)
            done == HandledAll(p, reqs)
            Out(pad, rest, inbox, ok) ==
              [pad |-> pad, ok |-> ok,
               rail |-> [rail EXCEPT !.rx = rest, !.inbox = inbox, !.doubt = @ \/ ~ok]]
            Quiets(rest, inbox) ==
              /\ \A i \in 1..Len(rest) : ~IsBody(rest[i], "ack03")
              /\ \A i \in 1..Len(inbox) : /\ ~IsReq(inbox[i], "mcu_reports")
                                          /\ ~IsReq(inbox[i], "std_reports")
<1>1. /\ rail.rx \in Seq(PieceType) /\ rail.inbox \in Seq(ReqType) /\ q \in ReqType
      /\ rail = [owned |-> rail.owned, rx |-> rail.rx, inbox |-> rail.inbox, doubt |-> rail.doubt]
      /\ Len(rail.inbox) \in Nat
  BY DEF RailType, Msg, ReqType, KindType, Names
<1>2. AckOf(q) = Msg("ack22") BY DEF AckOf, Answer, Msg
<1>3. \E pad, rest, inbox, ok : o = Out(pad, rest, inbox, ok) /\ Quiets(rest, inbox)
  <2>1. CASE early # {}
    <3>. DEFINE a == SubSeq(reqs, 1, n)
                b == SubSeq(reqs, n + 1, Len(reqs))
    <3>1. o \in {Out(HandledAll(p, a), rest, b, TRUE) : rest \in PastAck(back[n], q)}
      BY <2>1, Zenon DEF Subcmds
    <3>2. PICK rest \in PastAck(back[n], q) : o = Out(HandledAll(p, a), rest, b, TRUE)
      <4>. HIDE DEF a, b, Out, back, n
      <4>. QED BY <3>1
    <3>3. n \in 0..Len(rail.inbox)
      <4>1. early \subseteq Nat /\ early \subseteq 0..Len(rail.inbox) BY <1>1
      <4>. HIDE DEF early
      <4>. QED BY <2>1, <4>1, MinIs
    <3>. HIDE DEF n
    <3>4. back[n] \in Seq(PieceType) BY <1>1, <3>3, ReceivedType
    <3>. DEFINE left == SubSeq(rail.inbox, n + 1, Len(rail.inbox))
    <3>5. InOrder(back[n], left) BY <1>1, <3>3, ReceivedInOrder
    <3>6. /\ Len(left) = Len(rail.inbox) - n /\ Len(b) = Len(left) + 1
          /\ \A i \in 1..Len(left) : b[i] = left[i]
          /\ b[Len(left) + 1] = q
      <4>1. /\ reqs \in Seq(ReqType) /\ Len(reqs) = Len(rail.inbox) + 1 /\ reqs[Len(rail.inbox) + 1] = q
            /\ \A i \in 1..Len(rail.inbox) : reqs[i] = rail.inbox[i]
        BY <1>1
      <4>. HIDE DEF reqs, q, n
      <4>2. Len(left) = Len(rail.inbox) - n /\ \A i \in 1..Len(left) : left[i] = rail.inbox[n + i]
        BY <1>1, <3>3
      <4>3. Len(b) = Len(reqs) - n /\ \A i \in 1..Len(b) : b[i] = reqs[n + i]
        BY <1>1, <3>3, <4>1
      <4>. HIDE DEF left, b
      <4>4. Len(b) = Len(left) + 1 BY <1>1, <3>3, <4>1, <4>2, <4>3
      <4>5. ASSUME NEW i \in 1..Len(left) PROVE b[i] = left[i]
        <5>1. i \in 1..Len(b) /\ n + i \in 1..Len(rail.inbox) BY <1>1, <3>3, <4>2, <4>4
        <5>. QED BY <4>1, <4>2, <4>3, <5>1
      <4>6. b[Len(left) + 1] = q
        <5>1. Len(left) + 1 \in 1..Len(b) /\ n + (Len(left) + 1) = Len(rail.inbox) + 1
          BY <1>1, <3>3, <4>2, <4>4
        <5>. QED BY <4>1, <4>3, <5>1
      <4>. QED BY <4>2, <4>4, <4>5, <4>6
    <3>. HIDE DEF back, left, b, a
    <3>7. PICK m : RestOf(rest, back[n], m) /\ \E j \in 1..m : back[n][j] = Piece("body", AckOf(q))
      BY <3>4, PastAckIs
    <3>8. PICK j \in 1..m : back[n][j] = Piece("body", AckOf(q)) BY <3>7
    <3>9. /\ m \in 0..Len(back[n]) /\ Len(rest) = Len(back[n]) - m
          /\ \A i \in 1..Len(rest) : rest[i] = back[n][m + i]
          /\ Len(back[n]) \in Nat
      BY <3>4, <3>7 DEF RestOf
    <3>10. j \in 1..Len(back[n]) /\ IsBody(back[n][j], "ack22")
      BY <1>2, <3>8, <3>9 DEF IsBody, Piece
    <3>11. ASSUME NEW i \in 1..Len(rest) PROVE ~IsBody(rest[i], "ack03")
      <4>1. m + i \in 1..Len(back[n]) /\ j < m + i /\ rest[i] = back[n][m + i] BY <3>9
      <4>. QED BY <3>5, <3>10, <4>1 DEF InOrder
    <3>12. ASSUME NEW i \in 1..Len(b) PROVE ~IsReq(b[i], "mcu_reports") /\ ~IsReq(b[i], "std_reports")
      <4>1. CASE i \in 1..Len(left)
        <5>1. ~Asked(left, Len(left)) BY <3>5, <3>10 DEF InOrder
        <5>. QED BY <3>5, <3>6, <4>1, <5>1 DEF InOrder, Asked
      <4>2. CASE i \notin 1..Len(left)
        <5>1. i = Len(left) + 1 BY <1>1, <3>3, <3>6, <4>2
        <5>. QED BY <3>6, <5>1 DEF IsReq, Msg
      <4>. QED BY <4>1, <4>2
    <3>13. Quiets(rest, b) BY <3>11, <3>12
    <3>. HIDE DEF Out, Quiets
    <3>. QED BY <3>2, <3>13
  <2>2. CASE early = {}
    <3>1. o \in {Out(done, <<>>, <<>>, TRUE), Out(done, Report(AckOf(q)), <<>>, TRUE),
                 Out(done, <<>>, <<>>, FALSE), Out(HandledAll(p, rail.inbox), <<>>, <<>>, FALSE)}
      BY <2>2, Zenon DEF Subcmds
    <3>2. Quiets(<<>>, <<>>) OBVIOUS
    <3>3. Quiets(Report(AckOf(q)), <<>>)
      <4>1. AckOf(q) \in KindType BY <1>1, AckType
      <4>. DEFINE v == <<>> \o Report(AckOf(q))
      <4>2. Adds(v, <<>>, AckOf(q))
        <5>1. <<>> \in Seq(PieceType) OBVIOUS
        <5>. QED BY <4>1, <5>1, ReportAdds
      <4>3. v = Report(AckOf(q))
        <5>1. Report(AckOf(q)) \in Seq(PieceType) BY <4>1, ReportType
        <5>. QED BY <5>1
      <4>4. Len(<<>>) = 0 OBVIOUS
      <4>. HIDE DEF v
      <4>5. ASSUME NEW i \in 1..Len(v) PROVE ~IsBody(v[i], "ack03")
        <5>1. v[i].part = "body" => v[i].kind = Msg("ack22") BY <1>2, <4>2, <4>4 DEF Adds
        <5>. QED BY <5>1 DEF IsBody, Msg
      <4>. QED BY <4>3, <4>5
    <3>. HIDE DEF Quiets, Out, done
    <3>. QED BY <3>1, <3>2, <3>3
  <2>. HIDE DEF Out, Quiets, early
  <2>. QED BY <2>1, <2>2
<1>4. PICK pad, rest, inbox, ok : o = Out(pad, rest, inbox, ok) /\ Quiets(rest, inbox)
  <2>. HIDE DEF Out, Quiets
  <2>. QED BY <1>3
<1>5. o.rail.rx = rest /\ o.rail.inbox = inbox BY <1>1, <1>4
<1>. QED BY <1>4, <1>5

(* So the camera's next start begins with nothing of the one before.       *)
LEMMA ChainRestarts ==
    ASSUME NEW p \in PadType, p.on, NEW rail \in RailType, InOrder(rail.rx, rail.inbox),
           NEW o \in Subcmds(p, rail, Msg("sleep")), NEW c, c.step = 1, o.rail.inbox \in Seq(ReqType)
    PROVE  Chain(c, o.pad, o.rail.rx, o.rail.inbox \o <<Msg("mcu_reports")>>, 1)
<1>. DEFINE rx == o.rail.rx
            inbox == o.rail.inbox
            u == inbox \o <<Msg("mcu_reports")>>
            a == Len(inbox)
<1>1. /\ \A i \in 1..Len(rx) : ~IsBody(rx[i], "ack03")
      /\ \A i \in 1..a : ~IsReq(inbox[i], "mcu_reports") /\ ~IsReq(inbox[i], "std_reports")
  BY SleepIsLast
<1>2. Msg("mcu_reports") \in ReqType BY DEF Msg, ReqType, KindType, Names
<1>3. /\ a \in Nat /\ Len(u) = a + 1 /\ u[a + 1] = Msg("mcu_reports")
      /\ \A i \in 1..a : u[i] = inbox[i]
  BY <1>2
<1>. HIDE DEF rx, u, a
<1>4. ~Came(rx, Len(rx)) /\ \A j \in 1..Len(rx) : ~Came(rx, j)
  <2>1. \A j \in 1..Len(rx) : \A i \in 1..j : i \in 1..Len(rx)
    BY DEF rx
  <2>. QED BY <1>1, <2>1 DEF Came
<1>5. ASSUME NEW j \in 1..a PROVE ~Asked(u, j)
  <2>1. \A i \in 1..j : i \in 1..a BY <1>3
  <2>. QED BY <1>1, <1>3, <2>1 DEF Asked, a, inbox
<1>6. RequestsFit(c, rx, u)
  <2>1. SUFFICES ASSUME NEW j \in 1..Len(u)
                 PROVE  /\ ~IsReq(u[j], "std_reports")
                        /\ c.step > 1 \/ Came(rx, Len(rx)) \/ Asked(u, j) => OfThisStart(u[j], c.size)
    BY DEF RequestsFit
  <2>2. CASE j \in 1..a BY <1>1, <1>3, <1>4, <1>5, <2>2 DEF a, inbox
  <2>3. CASE j \notin 1..a
    <3>1. u[j] = Msg("mcu_reports") BY <1>3, <2>3
    <3>. QED BY <3>1 DEF IsReq, OfThisStart, Msg
  <2>. QED BY <2>2, <2>3
<1>7. RepliesHold(c, o.pad, rx) BY <1>4 DEF RepliesHold
<1>8. StepsHold(c, o.pad) BY DEF StepsHold
<1>9. Chain(c, o.pad, rx, u, 1) BY <1>6, <1>7, <1>8 DEF Chain
<1>. QED BY <1>9 DEF u, rx

(* A camera at the same step, of the same picture.                         *)
LEMMA SameChain ==
    ASSUME NEW c, NEW d, d.step = c.step, d.size = c.size, NEW p, NEW rx, NEW inbox, NEW n,
           Chain(c, p, rx, inbox, n)
    PROVE  Chain(d, p, rx, inbox, n)
<1>1. StepsHold(d, p) BY DEF Chain, StepsHold
<1>2. RepliesHold(d, p, rx) BY DEF Chain, RepliesHold
<1>3. RequestsFit(d, rx, inbox) BY DEF Chain, RequestsFit
<1>4. n = 0 => InOrder(rx, inbox) /\ Unwoken(d, rx, inbox) BY DEF Chain, Unwoken
<1>. QED BY <1>1, <1>2, <1>3, <1>4 DEF Chain

(* A report read leaves the rest.                                          *)
LEMMA RestIsRest ==
    ASSUME NEW rx \in Seq(PieceType), NEW t, NEW m, RestOf(t, rx, m) PROVE Thinner(t, rx)
  BY RestIsThinner DEF RestOf

(* And what was asked and answered is as before.                           *)
LEMMA ChainReads ==
    ASSUME NEW c, NEW p, NEW n, NEW rx \in Seq(PieceType), NEW inbox \in Seq(ReqType),
           Chain(c, p, rx, inbox, n)
    PROVE  Chain(c, p, Recv(rx).rx, inbox, n)
<1>1. PICK m : RestOf(Recv(rx).rx, rx, m) BY RecvTakes
<1>2. Recv(rx).rx \in Seq(PieceType) BY <1>1 DEF RestOf
<1>3. Thinner(Recv(rx).rx, rx) /\ Thinner(inbox, inbox) BY <1>1, RestIsRest, AllIsThinner
<1>. QED BY <1>2, <1>3, ChainThins

(* The answers the steps wait for.                                         *)
LEMMA MatchIs ==
    ASSUME NEW c, c.step \in 1..8, NEW k, Match(c, k)
    PROVE  /\ c.step = 1 => k = Msg("ack03")
           /\ c.step = 2 => k = Msg("ack22")
           /\ c.step = 3 => k = Msg("standby")
           /\ c.step = 4 => k = Msg("mode")
           /\ c.step = 5 => k = Msg("ir")
           /\ c.step = 6 => k = Msg("size")
           /\ c.step = 7 => k = Msg("regs")
           /\ c.step = 8 => k \in {Msg("lights"), Msg("regs")}
           /\ k \notin {None, Junk}
<1>1. /\ Steps[1] = "reports" /\ Steps[2] = "wake" /\ Steps[3] = "ready" /\ Steps[4] = "mode"
      /\ Steps[5] = "moded" /\ Steps[6] = "size" /\ Steps[7] = "sensor" /\ Steps[8] = "lights"
  BY DEF Steps
<1>2. c.step = 1 => k = Msg("ack03") BY <1>1 DEF Match
<1>3. c.step = 2 => k = Msg("ack22") BY <1>1 DEF Match
<1>4. c.step = 3 => k = Msg("standby") BY <1>1 DEF Match
<1>5. c.step = 4 => k = Msg("mode") BY <1>1 DEF Match
<1>6. c.step = 5 => k = Msg("ir") BY <1>1 DEF Match
<1>7. c.step = 6 => k = Msg("size") BY <1>1 DEF Match
<1>8. c.step = 7 => k = Msg("regs") BY <1>1 DEF Match
<1>9. c.step = 8 => k \in {Msg("lights"), Msg("regs")} BY <1>1 DEF Match
<1>10. k \notin {None, Junk}
  BY <1>2, <1>3, <1>4, <1>5, <1>6, <1>7, <1>8, <1>9 DEF None, Junk, Msg
<1>. QED BY <1>2, <1>3, <1>4, <1>5, <1>6, <1>7, <1>8, <1>9, <1>10

(* The answer to a step tells that what it asked for is so.                *)
LEMMA MatchHolds ==
    ASSUME NEW c \in CamType, NEW p, StepsHold(c, p), NEW k \in KindType, Match(c, k),
           Holds(k, p, c.size)
    PROVE  /\ StepsHold(NextStep(c), p) /\ NextStep(c).step # 1 /\ NextStep(c).size = c.size
           /\ NextStep(c).at = "stream" => NextStep(c).step = 8 \/ c.at = "stream"
           /\ c.step = 1 => k = Msg("ack03")
           /\ k \notin {None, Junk}
<1>1. c.step \in 1..8 BY StepsAre DEF CamType
<1>2. /\ c.step = 1 => k = Msg("ack03")
      /\ c.step = 2 => k = Msg("ack22")
      /\ c.step = 3 => k = Msg("standby")
      /\ c.step = 4 => k = Msg("mode")
      /\ c.step = 5 => k = Msg("ir")
      /\ c.step = 6 => k = Msg("size")
      /\ c.step = 7 => k = Msg("regs")
      /\ c.step = 8 => k \in {Msg("lights"), Msg("regs")}
  BY <1>1, MatchIs
<1>3. k \notin {None, Junk} BY <1>1, MatchIs
<1>4. CASE c.step < 8
  <2>1. NextStep(c) = [c EXCEPT !.step = @ + 1, !.tries = 0, !.heard = FALSE]
    BY <1>4, StepsAre DEF NextStep
  <2>2. NextStep(c).step = c.step + 1 /\ NextStep(c).size = c.size /\ NextStep(c).at = c.at
    BY <2>1 DEF CamType
  <2>3. StepsHold(NextStep(c), p)
    BY <1>1, <1>2, <1>4, <2>2 DEF StepsHold, Holds
  <2>. QED BY <1>1, <1>2, <1>3, <2>2, <2>3
<1>5. CASE ~(c.step < 8)
  <2>1. c.step = 8 BY <1>1, <1>5
  <2>2. NextStep(c) = [c EXCEPT !.at = "stream", !.tries = 0, !.heard = FALSE, !.frames = 0,
                                !.frag = NoFrag, !.asked = FALSE, !.stalled = FALSE]
    BY <1>5, StepsAre DEF NextStep
  <2>3. NextStep(c).step = 8 /\ NextStep(c).size = c.size BY <2>1, <2>2 DEF CamType
  <2>4. StepsHold(NextStep(c), p) BY <2>1, <2>3 DEF StepsHold
  <2>. QED BY <1>2, <1>3, <2>1, <2>3, <2>4
<1>. QED BY <1>4, <1>5

(* So the camera may go on to the next.                                    *)
LEMMA ChainNext ==
    ASSUME NEW c \in CamType, NEW p, NEW n, NEW rx \in Seq(PieceType), NEW inbox \in Seq(ReqType),
           Chain(c, p, rx, inbox, n), Match(c, Recv(rx).got)
    PROVE  Chain(NextStep(c), p, Recv(rx).rx, inbox, n)
<1>. DEFINE d == NextStep(c)
            k == Recv(rx).got
            t == Recv(rx).rx
<1>1. k \in KindType BY RecvType
<1>2. k \notin {None, Junk}
  <2>1. c.step \in 1..8 BY StepsAre DEF CamType
  <2>. QED BY <2>1, MatchIs
<1>3. PICK m : RestOf(t, rx, m) /\ \E j \in 1..m : rx[j] = Piece("body", k) BY <1>2, RecvTakes
<1>4. PICK j \in 1..m : rx[j] = Piece("body", k) BY <1>3
<1>5. /\ m \in 0..Len(rx) /\ t \in Seq(PieceType) /\ Len(t) = Len(rx) - m
      /\ \A i \in 1..Len(t) : t[i] = rx[m + i]
      /\ Len(rx) \in Nat /\ j \in 1..Len(rx)
  BY <1>3 DEF RestOf
<1>6. rx[j].part = "body" /\ rx[j].kind = k BY <1>4 DEF Piece
<1>8. c.step \in 1..8 BY StepsAre DEF CamType
<1>7. c.step = 1 => k = Msg("ack03") BY <1>8, MatchIs
<1>9. ASSUME NEW i \in j..Len(rx) PROVE c.step > 1 \/ Came(rx, i)
  <2>1. CASE c.step = 1
    <3>1. IsBody(rx[j], "ack03") /\ j \in 1..i BY <1>5, <1>6, <1>7, <2>1 DEF IsBody
    <3>. QED BY <3>1 DEF Came
  <2>2. CASE c.step # 1 BY <1>8, <2>2
  <2>. QED BY <2>1, <2>2
<1>10. Holds(k, p, c.size)
  <2>1. c.step > 1 \/ Came(rx, j) BY <1>5, <1>9
  <2>. QED BY <1>5, <1>6, <2>1 DEF Chain, RepliesHold
<1>11. StepsHold(d, p) /\ d.step # 1 /\ d.size = c.size BY <1>1, <1>10, MatchHolds DEF Chain
<1>. HIDE DEF d, k, t
<1>12. RepliesHold(d, p, t)
  <2>1. SUFFICES ASSUME NEW i \in 1..Len(t), t[i].part = "body" PROVE Holds(t[i].kind, p, d.size)
    BY DEF RepliesHold
  <2>2. m + i \in 1..Len(rx) /\ m + i \in j..Len(rx) /\ t[i] = rx[m + i] BY <1>5
  <2>3. c.step > 1 \/ Came(rx, m + i) BY <1>9, <2>2
  <2>. QED BY <1>11, <2>1, <2>2, <2>3 DEF Chain, RepliesHold
<1>13. RequestsFit(d, t, inbox)
  <2>1. c.step > 1 \/ Came(rx, Len(rx)) BY <1>5, <1>9
  <2>. QED BY <1>11, <2>1 DEF Chain, RequestsFit
<1>14. ASSUME n = 0 PROVE InOrder(t, inbox) /\ Unwoken(d, t, inbox)
  <2>1. Chain(c, p, t, inbox, n) BY ChainReads DEF t
  <2>. QED BY <1>11, <1>14, <2>1 DEF Chain, Unwoken
<1>15. Chain(d, p, t, inbox, n) BY <1>11, <1>12, <1>13, <1>14 DEF Chain
<1>. QED BY <1>15 DEF d, t

(* What a step asks for is this start's.                                   *)
LEMMA RequestsAreFit ==
    ASSUME NEW c \in CamType PROVE \A i \in 1..Len(Requests(c)) : Fit(Requests(c)[i], c)
<1>1. c.step \in 1..8 BY StepsAre DEF CamType
<1>2. ASSUME NEW name \in {"wake", "status", "ir_mode", "regs", "query", "lights", "ack"}, c.step # 1 \/ name = "ack"
      PROVE  Fit(Msg(name), c)
  BY <1>2 DEF Fit, OfThisStart, IsReq, Msg
<1>3. c.step = 1 => Fit(Msg("mcu_reports"), c) BY DEF Fit, OfThisStart, IsReq, Msg
<1>4. Fit(<<"size", c.size>>, c) BY DEF Fit, OfThisStart, IsReq
<1>5. Msg("ack") = <<"ack", 0>> BY DEF Msg
<1>6. ASSUME NEW a, Fit(a, c) PROVE \A i \in 1..Len(<<a>>) : Fit(<<a>>[i], c) BY <1>6
<1>7. ASSUME NEW a, NEW b, Fit(a, c), Fit(b, c) PROVE \A i \in 1..Len(<<a, b>>) : Fit(<<a, b>>[i], c)
  <2>1. Len(<<a, b>>) = 2 /\ <<a, b>>[1] = a /\ <<a, b>>[2] = b OBVIOUS
  <2>. QED BY <1>7, <2>1
<1>8. CASE c.at = "stream"
  <2>1. Requests(c) = <<Msg("ack")>> BY <1>5, <1>8 DEF Requests
  <2>2. Fit(Msg("ack"), c) BY <1>2
  <2>. QED BY <1>6, <2>1, <2>2
<1>9. CASE c.at # "stream"
  <2>1. CASE c.step = 1
    <3>1. Requests(c) = <<Msg("mcu_reports")>> BY <1>9, <2>1 DEF Requests, Steps
    <3>. QED BY <1>3, <1>6, <2>1, <3>1
  <2>2. CASE c.step = 6
    <3>1. Requests(c) = <<<<"size", c.size>>>> BY <1>9, <2>2 DEF Requests, Steps
    <3>. QED BY <1>4, <1>6, <3>1
  <2>3. CASE c.step = 7
    <3>1. Requests(c) = <<Msg("regs"), Msg("query")>> BY <1>9, <2>3 DEF Requests, Steps
    <3>2. Fit(Msg("regs"), c) /\ Fit(Msg("query"), c) BY <1>2, <2>3
    <3>. QED BY <1>7, <3>1, <3>2
  <2>4. CASE c.step \in {2, 3, 4, 5, 8}
    <3>1. \E name \in {"wake", "status", "ir_mode", "lights"} : Requests(c) = <<Msg(name)>>
      BY <1>9, <2>4 DEF Requests, Steps
    <3>2. PICK name \in {"wake", "status", "ir_mode", "lights"} : Requests(c) = <<Msg(name)>> BY <3>1
    <3>3. Fit(Msg(name), c) BY <1>2, <2>4
    <3>. QED BY <1>6, <3>2, <3>3
  <2>. QED BY <1>1, <2>1, <2>2, <2>3, <2>4
<1>. QED BY <1>8, <1>9

\* The camera streams past its last step, and is on wherever its screen has the
\* rail; and after one press at most, with no Joy-Con moved, what is on the rail
\* is this start's from where it began.  Two presses, the second before the
\* answers to the first came, leave two starts' answers on the way.
Linked ==
    cam.at # "off" /\ pads[Side].on /\ moves = tour.moves /\ restarts <= 1 =>
        Chain(cam, pads[Side], wire[Side].rx, wire[Side].inbox, restarts)
ChainInv ==
    /\ cam.at = "stream" => cam.step = 8
    /\ gui.at = "ir" /\ wire[Side].owned => cam.at # "off"
    /\ Linked

(* The camera's tick keeps it.                                             *)
LEMMA ChainTick ==
    ASSUME WireInv, ChainInv, gui.at = "ir", IrTick
    PROVE  /\ cam'.at # "off" /\ (cam'.at = "stream" => cam'.step = 8)
           /\ \A n : Chain(cam, pads[Side], wire[Side].rx, wire[Side].inbox, n) =>
                       Chain(cam', pads[Side], wire'[Side].rx, wire'[Side].inbox, n)
<1>. DEFINE p == pads[Side]
            w == wire[Side]
            r == Recv(w.rx)
            rail == [w EXCEPT !.rx = r.rx]
            Goes(c, v) == /\ c.at # "off" /\ (c.at = "stream" => c.step = 8)
                          /\ \A n : Chain(cam, p, w.rx, w.inbox, n) => Chain(c, p, v.rx, v.inbox, n)
<1>1. /\ w \in RailType /\ w.rx \in Seq(PieceType) /\ w.inbox \in Seq(ReqType)
      /\ cam \in CamType /\ CamOK(cam)
  BY DEF WireInv, Side, Sides, RailType, CamOK
<1>2. r.rx \in Seq(PieceType) /\ r.got \in KindType BY <1>1, RecvType
<1>3. rail \in RailType /\ rail.rx = r.rx /\ rail.inbox = w.inbox
  BY <1>1, <1>2 DEF RailType
<1>4. \A v : wire' = [wire EXCEPT ![Side] = v] => wire'[Side] = v
  BY DEF WireInv, Side, Sides
<1>5. cam.step \in 1..8 /\ (cam.at = "stream" => cam.step = 8)
  BY <1>1, StepsAre DEF CamType, ChainInv
<1>6. ASSUME NEW c \in CamType, NEW x \in RailType, NEW reqs \in Seq(ReqType), c.at # "off",
             c.at = "stream" => c.step = 8, \A i \in 1..Len(reqs) : Fit(reqs[i], c),
             \A n : Chain(cam, p, w.rx, w.inbox, n) => Chain(c, p, x.rx, x.inbox, n)
      PROVE  Goes(c, Send(x, reqs))
  <2>1. x.rx \in Seq(PieceType) /\ x.inbox \in Seq(ReqType) BY <1>6 DEF RailType
  <2>2. Send(x, reqs).rx = x.rx /\ Send(x, reqs).inbox = x.inbox \o reqs BY <1>6 DEF Send, RailType
  <2>3. ASSUME NEW n, Chain(cam, p, w.rx, w.inbox, n) PROVE Chain(c, p, x.rx, x.inbox \o reqs, n)
    <3>1. Chain(c, p, x.rx, x.inbox, n) BY <1>6, <2>3
    <3>. QED BY <1>6, <2>1, <3>1, ChainSends
  <2>. QED BY <1>6, <2>2, <2>3
<1>7. ASSUME NEW c \in CamType, c.at # "off", c.step = cam.step, c.size = cam.size,
             c.at = "stream" => c.step = 8
      PROVE  Goes(c, w) /\ Goes(c, rail)
  <2>1. ASSUME NEW n, Chain(cam, p, w.rx, w.inbox, n) PROVE Chain(c, p, w.rx, w.inbox, n)
    BY <1>7, <2>1, SameChain
  <2>2. ASSUME NEW n, Chain(cam, p, w.rx, w.inbox, n) PROVE Chain(c, p, rail.rx, rail.inbox, n)
    <3>1. Chain(c, p, w.rx, w.inbox, n) BY <2>1, <2>2
    <3>2. Chain(c, p, r.rx, w.inbox, n) BY <1>1, <3>1, ChainReads
    <3>. QED BY <1>3, <3>2
  <2>. QED BY <1>7, <2>1, <2>2
<1>8. ASSUME NEW n \in Int, NEW c
      PROVE  /\ <<<<"ack", n>>>> \in Seq(ReqType)
             /\ \A i \in 1..Len(<<<<"ack", n>>>>) : Fit(<<<<"ack", n>>>>[i], c)
  <2>1. <<"ack", n>> \in ReqType BY DEF ReqType, KindType, Names
  <2>2. Fit(<<"ack", n>>, c) BY DEF Fit, OfThisStart, IsReq
  <2>. QED BY <2>1, <2>2
<1>9. ASSUME NEW c \in CamType
      PROVE  /\ Requests(c) \in Seq(ReqType) /\ \A i \in 1..Len(Requests(c)) : Fit(Requests(c)[i], c)
  <2>1. Requests(c) \in Seq(IrReqs) /\ IrReqs \subseteq ReqType BY RequestsType DEF IrReqs
  <2>. QED BY <2>1, RequestsAreFit
<1>. HIDE DEF p, w, r, rail, Goes
<1>10. CASE SetupReport
  <2>1. cam.at = "setup" BY <1>10 DEF SetupReport
  <2>2. CASE Match(cam, r.got)
    <3>. DEFINE c == NextStep(cam)
    <3>1. cam' = c /\ wire' = [wire EXCEPT ![Side] = Send(rail, Requests(c))]
      BY <1>10, <2>2 DEF SetupReport, Asks, w, r, rail
    <3>2. c \in CamType /\ c.at \in {"setup", "stream"} BY <1>1, <2>1, CameraGoesOn DEF CamOK
    <3>3. c.at = "stream" => c.step = 8
      <4>1. CASE cam.step < 8
        <5>1. c = [cam EXCEPT !.step = @ + 1, !.tries = 0, !.heard = FALSE]
          BY <4>1, StepsAre DEF NextStep
        <5>. QED BY <1>1, <2>1, <5>1 DEF CamType
      <4>2. CASE ~(cam.step < 8)
        <5>1. c.step = cam.step BY <1>1, <4>2, StepsAre DEF NextStep, CamType
        <5>. QED BY <1>5, <4>2, <5>1
      <4>. QED BY <4>1, <4>2
    <3>. HIDE DEF c
    <3>4. ASSUME NEW n, Chain(cam, p, w.rx, w.inbox, n) PROVE Chain(c, p, rail.rx, rail.inbox, n)
      <4>1. Chain(c, p, r.rx, w.inbox, n) BY <1>1, <2>2, <3>4, ChainNext DEF c, r
      <4>. QED BY <1>3, <4>1
    <3>5. Requests(c) \in Seq(ReqType) /\ \A i \in 1..Len(Requests(c)) : Fit(Requests(c)[i], c)
      BY <1>9, <3>2
    <3>6. Goes(c, Send(rail, Requests(c))) BY <1>3, <1>6, <3>2, <3>3, <3>4, <3>5
    <3>. QED BY <1>4, <3>1, <3>6 DEF Goes, p, w
  <2>3. CASE ~Match(cam, r.got)
    <3>1. cam' = [cam EXCEPT !.heard = TRUE] /\ wire' = [wire EXCEPT ![Side] = rail]
      BY <1>10, <2>3 DEF SetupReport, w, r, rail
    <3>2. cam' \in CamType /\ cam'.at = cam.at /\ cam'.step = cam.step /\ cam'.size = cam.size
      BY <1>1, <3>1 DEF CamType
    <3>3. Goes(cam', rail) BY <1>5, <1>7, <2>1, <3>2
    <3>. QED BY <1>4, <3>1, <3>3 DEF Goes, p, w
  <2>. QED BY <2>2, <2>3
<1>11. CASE SetupQuiet
  <2>1. cam.at = "setup" /\ cam.tries \in Nat BY <1>1, <1>11 DEF SetupQuiet, CamType
  <2>2. Retried(cam).at = "setup" /\ Retried(cam).step = cam.step /\ Retried(cam).size = cam.size
        /\ [Retried(cam) EXCEPT !.at = "failed"].at = "failed"
        /\ [Retried(cam) EXCEPT !.at = "failed"].step = cam.step
        /\ [Retried(cam) EXCEPT !.at = "failed"].size = cam.size
    BY <1>1, <2>1 DEF Retried, CamType
  <2>3. CASE cam.tries + 1 >= Limit(cam)
    <3>1. cam' = [Retried(cam) EXCEPT !.at = "failed"] /\ UNCHANGED wire
      BY <1>11, <2>3 DEF SetupQuiet
    <3>2. cam' \in CamType BY <1>1, <2>1, <3>1, CameraGoesOn DEF CamOK
    <3>3. Goes(cam', w) BY <1>7, <2>2, <3>1, <3>2
    <3>. QED BY <3>1, <3>3 DEF Goes, p, w
  <2>4. CASE ~(cam.tries + 1 >= Limit(cam))
    <3>. DEFINE c == Retried(cam)
    <3>1. cam' = c /\ wire' = [wire EXCEPT ![Side] = Send(w, Requests(c))]
      BY <1>11, <2>4 DEF SetupQuiet, Asks, w
    <3>2. c \in CamType
      <4>1. cam.tries + 1 < Limit(cam) BY <2>1, <2>4, LimitIs
      <4>. QED BY <1>1, <2>1, <4>1, CameraGoesOn DEF CamOK
    <3>3. c.at # "off" /\ c.at # "stream" /\ c.step = cam.step /\ c.size = cam.size BY <2>2
    <3>. HIDE DEF c
    <3>4. \A n : Chain(cam, p, w.rx, w.inbox, n) => Chain(c, p, w.rx, w.inbox, n)
      BY <3>3, SameChain
    <3>5. Requests(c) \in Seq(ReqType) /\ \A i \in 1..Len(Requests(c)) : Fit(Requests(c)[i], c)
      BY <1>9, <3>2
    <3>6. Goes(c, Send(w, Requests(c))) BY <1>1, <1>6, <3>2, <3>3, <3>4, <3>5
    <3>. QED BY <1>4, <3>1, <3>6 DEF Goes, p, w
  <2>. QED BY <2>3, <2>4
<1>12. CASE StreamReport
  <2>1. cam.at = "stream" BY <1>12 DEF StreamReport
  <2>2. CASE r.got[1] # "frag"
    <3>1. wire' = [wire EXCEPT ![Side] = rail] /\ UNCHANGED cam
      BY <1>12, <2>2 DEF StreamReport, w, r, rail
    <3>2. Goes(cam, rail) BY <1>1, <1>5, <1>7, <2>1
    <3>. QED BY <1>4, <3>1, <3>2 DEF Goes, p, w
  <2>3. CASE r.got[1] = "frag"
    <3>. DEFINE n == r.got[2]
                whole == n # cam.frag /\ n = Frags[cam.size] - 1
                f == IF whole /\ cam.frames < MaxFrames THEN cam.frames + 1 ELSE cam.frames
    <3>1. n \in Int BY <1>2 DEF KindType
    <3>2. /\ wire' = [wire EXCEPT ![Side] = Send(rail, <<<<"ack", n>>>>)]
          /\ cam' = [cam EXCEPT !.stalled = FALSE, !.frag = n, !.asked = FALSE,
                                !.frames = IF whole /\ @ < MaxFrames THEN @ + 1 ELSE @]
      BY <1>12, <2>3 DEF StreamReport, w, r, rail
    <3>3. cam' = [cam EXCEPT !.stalled = FALSE, !.frag = n, !.asked = FALSE, !.frames = f]
      BY <1>1, <3>2 DEF CamType
    <3>4. f \in 0..MaxFrames
      <4>1. cam.frames \in 0..MaxFrames /\ MaxFrames \in Nat BY <1>1, IrAssumption DEF CamType
      <4>. HIDE DEF whole
      <4>. QED BY <4>1
    <3>. HIDE DEF n, f
    <3>5. cam' \in CamType BY <1>1, <3>1, <3>3, <3>4 DEF CamType
    <3>6. cam'.at = cam.at /\ cam'.step = cam.step /\ cam'.size = cam.size BY <1>1, <3>3 DEF CamType
    <3>7. Goes(cam', rail) BY <1>5, <1>7, <2>1, <3>5, <3>6
    <3>8. \A k : Chain(cam, p, w.rx, w.inbox, k) => Chain(cam', p, rail.rx, rail.inbox, k)
      BY <3>7 DEF Goes
    <3>9. Goes(cam', Send(rail, <<<<"ack", n>>>>))
      BY <1>3, <1>5, <1>6, <1>8, <2>1, <3>1, <3>5, <3>6, <3>8
    <3>. QED BY <1>4, <3>2, <3>9 DEF Goes, p, w
  <2>. QED BY <2>2, <2>3
<1>13. CASE StreamAsks
  <2>. DEFINE n == IF cam.frag = NoFrag THEN 0 ELSE cam.frag
  <2>1. /\ cam.at = "stream" /\ wire' = [wire EXCEPT ![Side] = Send(w, <<<<"ack", n>>>>)]
        /\ cam' = [cam EXCEPT !.asked = TRUE]
    BY <1>1, <1>13 DEF StreamAsks, w, WireInv, Side, Sides
  <2>2. n \in Int BY <1>1 DEF CamType
  <2>. HIDE DEF n
  <2>3. cam' \in CamType /\ cam'.at = cam.at /\ cam'.step = cam.step /\ cam'.size = cam.size
    BY <1>1, <2>1 DEF CamType
  <2>4. Goes(cam', w) BY <1>5, <1>7, <2>1, <2>3
  <2>5. \A k : Chain(cam, p, w.rx, w.inbox, k) => Chain(cam', p, w.rx, w.inbox, k) BY <2>4 DEF Goes
  <2>6. Goes(cam', Send(w, <<<<"ack", n>>>>)) BY <1>1, <1>5, <1>6, <1>8, <2>1, <2>2, <2>3, <2>5
  <2>. QED BY <1>4, <2>1, <2>6 DEF Goes, p, w
<1>14. CASE StreamStalls
  <2>1. cam.at = "stream" /\ UNCHANGED wire /\ cam' = [cam EXCEPT !.stalled = TRUE]
    BY <1>14 DEF StreamStalls, wireVars
  <2>2. cam' \in CamType /\ cam'.at = cam.at /\ cam'.step = cam.step /\ cam'.size = cam.size
    BY <1>1, <2>1 DEF CamType
  <2>3. Goes(cam', w) BY <1>5, <1>7, <2>1, <2>2
  <2>. QED BY <2>1, <2>3 DEF Goes, p, w
<1>. QED BY <1>10, <1>11, <1>12, <1>13, <1>14 DEF IrTick

(* The Joy-Con takes what was asked of it, and answers.                    *)
LEMMA ChainRail == ASSUME WireInv, ChainInv, RailStep PROVE ChainInv'
<1>1. PICK s \in Sides : PadAnswers(s) BY DEF RailStep
<1>2. UNCHANGED <<gui, tour, cam, restarts, moves>> BY DEF RailStep, OnRails, jcVars
<1>. DEFINE p == pads[s]
            w == wire[s]
            q == Head(w.inbox)
<1>3. /\ w \in RailType /\ p \in PadType /\ w.rx \in Seq(PieceType) /\ w.inbox \in Seq(ReqType)
      /\ w.inbox # <<>> /\ Side \in Sides /\ cam.step \in 1..8
  BY <1>1, StepsAre DEF WireInv, RailType, PadAnswers, Side, Sides, CamOK, CamType
<1>4. /\ pads' = [pads EXCEPT ![s] = IF @.on THEN Handled(@, q) ELSE @]
      /\ wire' = [wire EXCEPT ![s].inbox = Tail(@),
                              ![s].rx = IF p.on THEN @ \o Report(Answer(p, q)) ELSE @]
  BY <1>1 DEF PadAnswers
<1>5. /\ wire'[s].owned = w.owned /\ wire'[s].inbox = Tail(w.inbox)
      /\ wire'[s].rx = IF p.on THEN w.rx \o Report(Answer(p, q)) ELSE w.rx
      /\ pads'[s] = IF p.on THEN Handled(p, q) ELSE p
      /\ \A r \in Sides : r # s => wire'[r] = wire[r] /\ pads'[r] = pads[r]
  BY <1>3, <1>4 DEF WireInv, RailType
<1>6. pads'[s].on = p.on
  <2>1. q \in ReqType BY <1>3
  <2>. HIDE DEF q, p
  <2>. QED BY <1>3, <1>5, <2>1, HandledType DEF p
<1>7. wire'[Side].owned = wire[Side].owned BY <1>3, <1>5
<1>8. Linked'
  <2>1. CASE Side # s BY <1>2, <1>3, <1>5, <2>1 DEF ChainInv, Linked
  <2>2. ASSUME Side = s, cam.at # "off", p.on, moves = tour.moves, restarts <= 1
        PROVE  Chain(cam, pads'[s], wire'[s].rx, wire'[s].inbox, restarts)
    <3>1. Chain(cam, p, w.rx, w.inbox, restarts) BY <2>2 DEF ChainInv, Linked
    <3>. HIDE DEF p, w
    <3>2. Chain(cam, Handled(p, q), w.rx \o Report(Answer(p, q)), Tail(w.inbox), restarts)
      BY <1>3, <3>1, ChainAnswers
    <3>. QED BY <1>5, <2>2, <3>2
  <2>. QED BY <1>2, <1>6, <2>1, <2>2 DEF Linked
<1>. QED BY <1>2, <1>7, <1>8 DEF ChainInv

(* Or some of it is lost.                                                  *)
LEMMA ChainLoss == ASSUME ScreenInv, WireInv, ChainInv, RailLoss PROVE ChainInv'
<1>1. PICK s \in Sides : Lose(s) BY ToursAssumption DEF RailLoss, ScreenInv
<1>2. UNCHANGED <<gui, tour, cam, restarts, moves, pads>> BY <1>1 DEF RailLoss, OnRails, Lose, jcVars
<1>. DEFINE w == wire[s]
<1>3. w \in RailType /\ w.rx \in Seq(PieceType) /\ w.inbox \in Seq(ReqType) /\ Side \in Sides
  BY DEF WireInv, RailType, Side, Sides
<1>4. /\ wire'[s].owned = w.owned
      /\ wire'[s].rx \in Seq(PieceType) /\ wire'[s].inbox \in Seq(ReqType)
      /\ Thinner(wire'[s].rx, w.rx) /\ Thinner(wire'[s].inbox, w.inbox)
      /\ \A r \in Sides : r # s => wire'[r] = wire[r]
  <2>1. CASE w.inbox # <<>> /\ wire' = [wire EXCEPT ![s].inbox = Tail(@), ![s].doubt = TRUE]
    <3>1. /\ wire'[s].owned = w.owned /\ wire'[s].rx = w.rx /\ wire'[s].inbox = Tail(w.inbox)
          /\ \A r \in Sides : r # s => wire'[r] = wire[r]
      BY <1>3, <2>1 DEF WireInv, RailType
    <3>2. Tail(w.inbox) \in Seq(ReqType) BY <1>3, <2>1
    <3>. QED BY <1>3, <2>1, <3>1, <3>2, TailIsThinner, AllIsThinner
  <2>2. CASE \E i \in 1..Len(w.rx) :
               wire' = [wire EXCEPT ![s].rx = RemoveAt(@, i), ![s].doubt = TRUE]
    <3>1. PICK i \in 1..Len(w.rx) : wire' = [wire EXCEPT ![s].rx = RemoveAt(@, i), ![s].doubt = TRUE]
      BY <2>2
    <3>2. /\ wire'[s].owned = w.owned /\ wire'[s].rx = RemoveAt(w.rx, i) /\ wire'[s].inbox = w.inbox
          /\ \A r \in Sides : r # s => wire'[r] = wire[r]
      BY <1>3, <3>1 DEF WireInv, RailType
    <3>3. RemoveAt(w.rx, i) \in Seq(PieceType)
      <4>1. SubSeq(w.rx, 1, i - 1) \in Seq(PieceType) /\ SubSeq(w.rx, i + 1, Len(w.rx)) \in Seq(PieceType)
        BY <1>3
      <4>. QED BY <4>1 DEF RemoveAt
    <3>. QED BY <1>3, <3>2, <3>3, RemovedIsThinner, AllIsThinner
  <2>. QED BY <1>1, <2>1, <2>2 DEF Lose
<1>5. wire'[Side].owned = wire[Side].owned BY <1>3, <1>4
<1>6. Linked'
  <2>1. CASE Side # s BY <1>2, <1>3, <1>4, <2>1 DEF ChainInv, Linked
  <2>2. ASSUME Side = s, cam.at # "off", pads[s].on, moves = tour.moves, restarts <= 1
        PROVE  Chain(cam, pads[s], wire'[s].rx, wire'[s].inbox, restarts)
    <3>1. Chain(cam, pads[s], w.rx, w.inbox, restarts) BY <2>2 DEF ChainInv, Linked
    <3>. HIDE DEF w
    <3>. QED BY <1>3, <1>4, <3>1, ChainThins
  <2>. QED BY <1>2, <2>1, <2>2 DEF Linked
<1>. QED BY <1>2, <1>5, <1>6 DEF ChainInv

(* The camera's screen at work.                                            *)
LEMMA ChainCamera == ASSUME WireInv, ChainInv, CameraStep PROVE ChainInv'
<1>1. gui.at = "ir" /\ IrTick /\ UNCHANGED <<gui, tour, moves>> BY DEF CameraStep, OnCamera, jcVars
<1>2. UNCHANGED <<pads, restarts>> /\ cam.at # "off"
  BY <1>1 DEF IrTick, SetupReport, SetupQuiet, StreamReport, StreamAsks, StreamStalls, wireVars
<1>3. /\ cam'.at # "off" /\ (cam'.at = "stream" => cam'.step = 8)
      /\ \A n : Chain(cam, pads[Side], wire[Side].rx, wire[Side].inbox, n) =>
                  Chain(cam', pads[Side], wire'[Side].rx, wire'[Side].inbox, n)
  BY <1>1, ChainTick
<1>4. Linked' BY <1>1, <1>2, <1>3 DEF ChainInv, Linked
<1>. QED BY <1>3, <1>4 DEF ChainInv

(* Try Again and Image Size, pressed for the first time.                   *)
LEMMA ChainButton == ASSUME WireInv, ChainInv, CameraButton PROVE ChainInv'
<1>1. PICK bigger \in BOOLEAN : Restart(bigger) BY DEF CameraButton
<1>2. gui.at = "ir" /\ UNCHANGED <<gui, tour, moves>>
  BY <1>1 DEF CameraButton, OnCamera, jcVars
<1>. DEFINE p == pads[Side]
            w == wire[Side]
<1>3. PICK o \in Subcmds(p, w, Msg("sleep")) :
         /\ pads' = [pads EXCEPT ![Side] = o.pad]
         /\ cam' = [CamOff EXCEPT !.at = "setup", !.size = Resized(bigger)]
         /\ wire' = [wire EXCEPT ![Side] = Send(o.rail, Requests(cam'))]
         /\ w.owned /\ restarts' = restarts + 1
  BY <1>1 DEF Restart
<1>4. cam'.at = "setup" /\ cam'.step = 1 BY <1>3 DEF CamOff
<1>5. Requests(cam') = <<Msg("mcu_reports")>> BY <1>4 DEF Requests, Steps
<1>6. w \in RailType /\ p \in PadType /\ w.inbox \in Seq(ReqType) /\ Side \in Sides /\ restarts \in Nat
  BY DEF WireInv, RailType, Side, Sides
<1>. HIDE DEF p, w
<1>7. /\ o.rail \in RailType /\ \E reqs \in Seq(ReqType) : o.pad = HandledAll(p, reqs)
  <2>1. Msg("sleep") \in ReqType BY DEF Msg, ReqType, KindType, Names
  <2>. QED BY <1>3, <1>6, <2>1, SubcmdsDo
<1>8. o.pad.on = p.on
  <2>1. PICK reqs \in Seq(ReqType) : o.pad = HandledAll(p, reqs) BY <1>7
  <2>. QED BY <1>6, <2>1, AllType
<1>9. /\ pads'[Side] = o.pad /\ o.rail.inbox \in Seq(ReqType)
      /\ wire'[Side].rx = o.rail.rx /\ wire'[Side].inbox = o.rail.inbox \o <<Msg("mcu_reports")>>
  <2>1. pads'[Side] = o.pad /\ wire'[Side] = Send(o.rail, <<Msg("mcu_reports")>>)
    BY <1>3, <1>5, <1>6 DEF WireInv
  <2>. QED BY <1>7, <2>1 DEF Send, RailType
<1>10. ASSUME p.on, moves = tour.moves, restarts' <= 1
       PROVE  Chain(cam', o.pad, o.rail.rx, o.rail.inbox \o <<Msg("mcu_reports")>>, restarts')
  <2>1. restarts = 0 /\ restarts' = 1 BY <1>3, <1>6, <1>10
  <2>2. cam.at # "off" BY <1>2, <1>3 DEF ChainInv, w
  <2>3. InOrder(w.rx, w.inbox) BY <1>10, <2>1, <2>2 DEF ChainInv, Linked, Chain, p, w
  <2>. QED BY <1>3, <1>4, <1>6, <1>9, <1>10, <2>1, <2>3, ChainRestarts
<1>11. Linked' BY <1>2, <1>8, <1>9, <1>10 DEF Linked
<1>. QED BY <1>4, <1>11 DEF ChainInv

(* The screen opened: nothing is on the rail yet but noise.                *)
LEMMA ChainTakes == ASSUME RailInv, ScreenInv, WireInv, TakesRails PROVE ChainInv'
<1>1. gui' = [gui EXCEPT !.busy = FALSE] /\ gui.at \in {"ir", "motion"} /\ ~wire[Side].owned
  BY DEF TakesRails, RailInv, SensorScreens, Side, Sides
<1>2. gui'.at = gui.at BY <1>1 DEF ScreenInv, GuiType
<1>3. PICK d \in Polled : IF gui.at = "ir" THEN IrOpen(d["R"].conn) /\ UNCHANGED mo
                          ELSE MoOpen([s \in Sides |-> d[s].conn]) /\ UNCHANGED <<cam, restarts>>
  BY DEF TakesRails
<1>4. cam.at = "off" BY <1>1 DEF WireInv, CamInv
<1>5. CASE gui.at = "motion" BY <1>2, <1>3, <1>4, <1>5 DEF ChainInv, Linked
<1>6. CASE gui.at = "ir"
  <2>1. \/ cam' = CamOff /\ UNCHANGED wire
        \/ \E noise \in BOOLEAN : Starts(1, Owned(wire[Side], noise))
    BY <1>3, <1>6 DEF IrOpen
  <2>2. CASE cam' = CamOff /\ UNCHANGED wire BY <1>1, <2>2 DEF ChainInv, Linked, CamOff
  <2>3. ASSUME NEW noise \in BOOLEAN, Starts(1, Owned(wire[Side], noise)) PROVE ChainInv'
    <3>. DEFINE c == [CamOff EXCEPT !.at = "setup", !.size = 1]
                w == Owned(wire[Side], noise)
                q == Msg("mcu_reports")
    <3>1. cam' = c /\ wire' = [wire EXCEPT ![Side] = Send(w, Requests(c))]
      BY <2>3 DEF Starts, Asks
    <3>2. c.at = "setup" /\ c.step = 1 BY DEF CamOff
    <3>3. Requests(c) = <<q>> BY <3>2 DEF Requests, Steps
    <3>4. w.inbox = <<>> /\ w.rx \in {<<>>, <<Piece("body", Msg("other"))>>}
      BY DEF Owned, WireInv, RailType, Side, Sides
    <3>5. wire'[Side].rx = w.rx /\ wire'[Side].inbox = <<q>>
      <4>1. wire'[Side] = Send(w, <<q>>) BY <3>1, <3>3 DEF WireInv, Side, Sides
      <4>2. Send(w, <<q>>).rx = w.rx /\ Send(w, <<q>>).inbox = w.inbox \o <<q>>
        BY DEF Send, Owned, WireInv, RailType, Side, Sides
      <4>. QED BY <3>4, <4>1, <4>2
    <3>. HIDE DEF c, w
    <3>6. \A j \in 1..Len(w.rx) : w.rx[j] = Piece("body", Msg("other"))
      BY <3>4
    <3>7. \A j \in 1..Len(w.rx) : w.rx[j].part = "body" /\ w.rx[j].kind = Msg("other")
      BY <3>6 DEF Piece
    <3>8. Len(<<q>>) = 1 /\ <<q>>[1] = q OBVIOUS
    <3>9. ASSUME NEW p, NEW n PROVE Chain(c, p, w.rx, <<q>>, n)
      <4>1. StepsHold(c, p) BY <3>2 DEF StepsHold
      <4>2. RepliesHold(c, p, w.rx) BY <3>7 DEF RepliesHold, Holds, Msg
      <4>3. RequestsFit(c, w.rx, <<q>>) BY <3>8 DEF RequestsFit, OfThisStart, IsReq, Msg
      <4>4. InOrder(w.rx, <<q>>) /\ Unwoken(c, w.rx, <<q>>)
        BY <3>7, <3>8 DEF InOrder, Unwoken, IsBody, IsReq, Msg
      <4>. QED BY <4>1, <4>2, <4>3, <4>4 DEF Chain
    <3>10. Linked' BY <3>1, <3>5, <3>9 DEF Linked
    <3>. QED BY <3>1, <3>2, <3>10 DEF ChainInv
  <2>. QED BY <2>1, <2>2, <2>3
<1>. QED BY <1>1, <1>5, <1>6

(* Every step of the GUI keeps it.                                         *)
LEMMA ChainStep == ASSUME SensorInv, ChainInv, [Next]_vars PROVE ChainInv'
<1>1. ScreenInv /\ RailInv /\ WireInv /\ SensorInv' /\ WireInv' /\ RailInv' /\ DriverType
  BY SensorStep DEF SensorInv, DriveInv
<1>2. CASE Switches
  <2>1. gui' = Built(gui.pending) BY <1>2 DEF Switches
  <2>2. gui'.at = "ir" => gui'.busy BY <2>1 DEF Built, Plain
  <2>3. Side \in Sides BY DEF Side, Sides
  <2>4. gui'.at = "ir" => ~wire'[Side].owned BY <1>1, <2>2, <2>3 DEF RailInv
  <2>5. cam'.at = "off" BY <1>1, <2>4 DEF WireInv, CamInv
  <2>. QED BY <2>4, <2>5 DEF ChainInv, Linked
<1>3. CASE HandStep
  <2>1. UNCHANGED <<gui, tour, cam, restarts>> /\ moves' = moves - 1 /\ moves \in 0..tour.moves
    BY <1>1, <1>3 DEF HandStep, Attach, Pull, Silent, DriverType
  <2>2. tour.moves \in Nat BY <1>1, ToursAssumption DEF ScreenInv
  <2>3. moves' # tour'.moves BY <2>1, <2>2
  <2>4. wire'[Side].owned = wire[Side].owned
    <3>1. Side \in Sides /\ wire[Side] \in RailType BY <1>1 DEF WireInv, Side, Sides
    <3>2. UNCHANGED wire \/ \E s \in Sides : wire' = [wire EXCEPT ![s].doubt = FALSE]
      BY <1>1, <1>3, ToursAssumption DEF HandStep, Attach, Pull, Silent, wireVars, ScreenInv
    <3>. QED BY <1>1, <3>1, <3>2 DEF WireInv, RailType
  <2>. QED BY <2>1, <2>3, <2>4 DEF ChainInv, Linked
<1>4. CASE MotionStep \/ TestTick
  <2>1. UNCHANGED <<gui, cam>> /\ gui.at # "ir"
    BY <1>4 DEF MotionStep, TestTick
  <2>2. cam.at = "off" BY <1>1, <2>1 DEF WireInv, CamInv
  <2>. QED BY <2>1, <2>2 DEF ChainInv, Linked
<1>5. CASE \/ Chooses \/ Backs \/ AgainInBox \/ Deeper \/ CheckAll \/ CheckSome \/ CheckAgain
           \/ LastResults \/ NavPoll \/ PicksPort \/ Rumbles \/ GlowStep \/ CheckStep \/ CheckEnds
           \/ RamStart \/ Screenshot \/ TouchRead \/ TestTasks \/ FingerStep \/ UNCHANGED vars
  <2>1. UNCHANGED <<pads, wire, cam, restarts, moves, tour>>
    BY <1>5 DEF Chooses, Backs, AgainInBox, Deeper, CheckAll, CheckSome, CheckAgain, LastResults, NavPoll,
         PicksPort, Rumbles, ActRumble, GlowStep, GlowFades, CheckStep, CheckEnds, RamStart, Screenshot,
         TouchRead, TestTasks, FingerStep, sensorVars, jcVars, wireVars, vars
  <2>2. \/ UNCHANGED gui
        \/ \E screen : gui' = [gui EXCEPT !.pending = screen]
        \/ \E box : gui' = [gui EXCEPT !.box = box]
        \/ gui' = [gui EXCEPT !.hold = FALSE, !.pending = "results"]
        \/ gui' = Plain("ramtest")
    BY <1>5 DEF Chooses, Backs, AgainInBox, Deeper, CheckAll, CheckSome, CheckAgain, LastResults, NavPoll,
           PicksPort, Rumbles, GlowStep, CheckStep, CheckEnds, RamStart, Screenshot,
           TouchRead, TestTasks, FingerStep, Shows, vars
  <2>3. gui'.at = gui.at \/ gui'.at # "ir"
    <3>1. gui \in GuiType BY <1>1 DEF ScreenInv
    <3>2. Plain("ramtest").at = "ramtest" BY DEF Plain
    <3>. QED BY <2>2, <3>1, <3>2 DEF GuiType
  <2>. QED BY <2>1, <2>3 DEF ChainInv, Linked
<1>. QED BY <1>1, <1>2, <1>3, <1>4, <1>5, ChainRail, ChainLoss, ChainCamera, ChainButton, ChainTakes,
            Zenon DEF Next

(* The camera's screen shows a picture only of a camera that was told its  *)
(* size and its registers (gui_jcir.c's steps, one report at a time over   *)
(* gui_jcwire.c's rail), whatever requests and pieces of replies were      *)
(* lost, from the screen's opening and through its first press of Try      *)
(* Again or Image Size.                                                    *)
THEOREM PicturesAreConfigured == Spec => []StreamIsConfigured
<1>1. Init => ChainInv BY DEF Init, ChainInv, Linked, CamOff, Plain
<1>2. ChainInv => StreamIsConfigured
  BY DEF ChainInv, Linked, Chain, StepsHold, StreamIsConfigured
<1>. QED BY <1>1, <1>2, SensorInit, SensorStep, ChainStep, PTL DEF Spec
=============================================================================
