------------------------------ MODULE DockTest ------------------------------
(***************************************************************************)
(* The Dock Test screen: the tick that drives the PD controller's reset    *)
(* and the dock handshake (gui/gui_dock.c, usbpd.c), its buttons, and the  *)
(* way out.  The controller (BM92T36) and what is plugged in are the       *)
(* environment, as usbpd.c uses them: a command runs, clears BUSY and      *)
(* raises DONE; a message's reply or the source's contract is an alert of  *)
(* its own that may come before that DONE, late or never; reading the      *)
(* alert register clears it.  A command written over a running one         *)
(* replaces it.                                                            *)
(*                                                                         *)
(* A handshake tick reads the alert register first and STATUS1 after it,   *)
(* and the controller may act in between.  Time is counted in coarse       *)
(* units; ticks are far finer, so at least one tick ends in every unit.    *)
(***************************************************************************)
EXTENDS Naturals

CONSTANTS
    Settle,       \* 300 ms from the plug to the profiles
    StepTimeout,  \* STEP_TIMEOUT_MS
    HpdWait,      \* HPD_WAIT_MS
    HubDelay,     \* 500 ms from the light to the hub
    IrqWait,      \* PDR_IRQ_MS
    IdWait,       \* PDR_ID_MS
    Kinds,        \* what may be plugged in
    MaxRuns, MaxPlugs, MaxBusy,  \* bounds: Run presses, plugs, busy hubs
    Troubles      \* what the controller may do of itself

ASSUME WaitsAssumption ==
    /\ StepTimeout \in Nat /\ {Settle, HpdWait, HubDelay} \subseteq 0 .. StepTimeout
    /\ IdWait \in Nat /\ IrqWait \in 0 .. IdWait
    /\ {MaxRuns, MaxPlugs, MaxBusy} \subseteq Nat
    /\ Kinds \subseteq {"dock", "charger", "adapter", "plain"}
    /\ Troubles \subseteq {"fault", "quiet"}

Messages == {"ID", "NIN", "SVID", "MODE", "QUERY", "LED", "HUB"}
Asks == Messages \cup {"RDO"}  \* what the other end answers
Commands == Asks \cup {"PS_RDY", "DR_SWAP", "ACCEPT", "DP_ENTER", "DP_CFG", "SYS_RESET"}
MessageStates == {"ID_SENT", "NIN_SENT", "SVID_SENT", "MODE_SENT", "QUERY_SENT",
                  "LED_SENT", "HUB_SENT"}
ReplyStates == {"ID_ACC", "NIN_ACC", "SVID_ACC", "MODE_ACC", "QUERY_ACC",
                "LED_ACC", "HUB_ACC"}
CommandStates == ReplyStates \cup {"PS_RDY_SENT", "DR_SWAP_SENT", "DP_ENTER_SENT",
                                   "DP_CFG_SENT"}
DockStates == MessageStates \cup CommandStates \cup
              {"IDLE", "WAIT_PLUG", "RDO_SENT", "HPD_WAIT", "DONE", "FAILED"}
ResetStates == {"IDLE", "PULSE", "SETTLE", "WAIT_IRQ", "WAIT_ID", "SYS_RESET",
                "CONFIG", "DONE", "FAILED"}

VARIABLES
    screen,     \* "open" or "left"
    pc,         \* "rest" between ticks, "read" once the alerts are read
    fresh,      \* a tick has ended in this unit of time
    running, ran, resetting,  \* s_running, s_ran, s_resetting
    d,          \* s_dock
    rst,        \* s_rst: its state and age
    line,       \* PV5 driven high
    chip,       \* the controller
    port,       \* what is plugged in
    left        \* of the bounds: runs, plugs, busy answers

screenVars == <<screen, running, ran, resetting>>
vars == <<screenVars, pc, fresh, d, rst, line, chip, port, left>>

NoHandshake == [state |-> "IDLE", age |-> 0, tries |-> 0, alerts |-> {},
                plugSeen |-> FALSE, nin |-> "unknown", dpOn |-> FALSE,
                led |-> FALSE, hub |-> FALSE, why |-> "none"]
ChipUp == [power |-> "up", cmd |-> "none", sent |-> FALSE,
           last |-> [cmd |-> "none", ok |-> TRUE], alert |-> {},
           role |-> "none", fault |-> FALSE]
Unplugged == [kind |-> "none", announced |-> FALSE, age |-> 0, owed |-> "none",
              inbox |-> [to |-> "none", ok |-> FALSE], light |-> FALSE, dp |-> FALSE]

Init ==
    /\ screen = "open" /\ pc = "rest" /\ fresh = FALSE
    /\ running = FALSE /\ ran = FALSE /\ resetting = FALSE
    /\ d = NoHandshake /\ rst = [state |-> "IDLE", age |-> 0]
    /\ line = FALSE /\ chip = ChipUp /\ port = Unplugged
    /\ left = [runs |-> MaxRuns, plugs |-> MaxPlugs, busy |-> MaxBusy]

-----------------------------------------------------------------------------
(* The handshake's words: usbpd.c _go, _fail, _take, _cmd_go, _cmd_done.   *)

Go(dd, s) == [dd EXCEPT !.state = s, !.age = 0, !.tries = 0]
Fail(dd, why) == Go([dd EXCEPT !.why = why], "FAILED")
Take(dd, bit) == [dd EXCEPT !.alerts = @ \ {bit}]
TimedOut == d.age > StepTimeout

\* A controller gone quiet reads zero in every register.
Answers == chip.power = "up"
Plugged == Answers /\ port.kind # "none"
Busy == Answers /\ chip.cmd # "none"

Issue(c, cmd) == IF c.power = "up" THEN [c EXCEPT !.cmd = cmd, !.sent = FALSE] ELSE c

CmdGo(dd, cmd, next) ==
    Go([dd EXCEPT !.alerts = @ \ {"done"}, !.dpOn = @ \/ cmd = "DP_ENTER"], next)

\* A slip: the done bit is taken without looking at BUSY.
CmdDoneIgnoringBusy ==
    IF "done" \notin d.alerts THEN IF TimedOut THEN "silent" ELSE "wait"
    ELSE IF chip.last.ok THEN "done" ELSE "refused"

CmdDone ==
    IF "done" \notin d.alerts THEN IF TimedOut THEN "silent" ELSE "wait"
    ELSE IF Busy THEN "wait"
    ELSE IF chip.last.ok THEN "done" ELSE "refused"

\* Slips: only a DONE ends the run; the snapshot reads the alerts always.
EndTickDoneOnly(dd, c) ==
    LET over == dd.state = "DONE" IN
    /\ d' = dd
    /\ running' = ~over /\ ran' = over
    /\ \E due \in BOOLEAN :
        chip' = IF due /\ over THEN [c EXCEPT !.alert = {}] ELSE c
    /\ pc' = "rest" /\ fresh' = TRUE
    /\ UNCHANGED <<screen, resetting, rst, line, port, left>>

EndTickReadingAlerts(dd, c) ==
    LET over == dd.state \in {"DONE", "FAILED"} IN
    /\ d' = dd
    /\ running' = ~over /\ ran' = over
    /\ \E due \in BOOLEAN : chip' = IF due THEN [c EXCEPT !.alert = {}] ELSE c
    /\ pc' = "rest" /\ fresh' = TRUE
    /\ UNCHANGED <<screen, resetting, rst, line, port, left>>

\* The tick's end: over, or on; then the view's snapshot when it is due,
\* which leaves the alerts to a running handshake.
EndTick(dd, c) ==
    LET over == dd.state \in {"DONE", "FAILED"} IN
    /\ d' = dd
    /\ running' = ~over /\ ran' = over
    /\ \E due \in BOOLEAN :
        chip' = IF due /\ over THEN [c EXCEPT !.alert = {}] ELSE c
    /\ pc' = "rest" /\ fresh' = TRUE
    /\ UNCHANGED <<screen, resetting, rst, line, port, left>>

Stay(dd) == EndTick(dd, chip)
Command(dd, cmd, next) == EndTick(CmdGo(dd, cmd, next), Issue(chip, cmd))

\* _send_vdm: a write the controller does not take fails the step.
SendVdm(dd, msg, next) ==
    \/ EndTick(Go(dd, next), Issue(chip, msg))
    \/ Stay(Fail(dd, "unwritten"))

-----------------------------------------------------------------------------
(* dock_step.                                                              *)

\* A slip: the handshake does not wait for the reset.
ReadAlertsInReset ==
    /\ screen = "open" /\ pc = "rest" /\ running
    /\ d' = [d EXCEPT !.alerts = @ \cup (IF Answers THEN chip.alert ELSE {})]
    /\ chip' = [chip EXCEPT !.alert = IF Answers THEN {} ELSE @]
    /\ pc' = "read"
    /\ UNCHANGED <<screenVars, fresh, rst, line, port, left>>

ReadAlerts ==
    /\ screen = "open" /\ pc = "rest" /\ running /\ ~resetting
    /\ d' = [d EXCEPT !.alerts = @ \cup (IF Answers THEN chip.alert ELSE {})]
    /\ chip' = [chip EXCEPT !.alert = IF Answers THEN {} ELSE @]
    /\ pc' = "read"
    /\ UNCHANGED <<screenVars, fresh, rst, line, port, left>>

CableGone ==
    /\ pc = "read" /\ d.state # "WAIT_PLUG" /\ ~Plugged
    /\ Stay(Fail(d, IF Answers THEN "gone" ELSE "quiet"))

Connected == d.state = "WAIT_PLUG" \/ Plugged

Faulted ==
    /\ pc = "read" /\ Connected /\ Answers /\ chip.fault
    /\ Stay(Fail(d, "fault"))

In(s) == pc = "read" /\ d.state = s /\ Connected /\ ~(Answers /\ chip.fault)

\* The wait for the source starts at the first tick that sees the plug.
WaitPlug ==
    /\ In("WAIT_PLUG")
    /\ LET seen == IF Plugged /\ ~d.plugSeen
                   THEN [d EXCEPT !.plugSeen = TRUE, !.age = 0] ELSE d
       IN \/ /\ ~Plugged \/ seen.age < Settle
             /\ Stay(seen)
          \/ /\ Plugged /\ seen.age >= Settle /\ ~port.announced
             /\ Stay(IF seen.age > StepTimeout THEN Fail(seen, "no profiles") ELSE seen)
          \/ /\ Plugged /\ seen.age >= Settle /\ port.announced
             /\ \/ EndTick(Go([seen EXCEPT !.alerts = {}], "RDO_SENT"), Issue(chip, "RDO"))
                \/ /\ port.kind = "adapter" /\ Stay(Fail(seen, "none fits"))

RdoSent ==
    /\ In("RDO_SENT")
    /\ IF "contract" \in d.alerts
       THEN Command(Take(d, "contract"), "PS_RDY", "PS_RDY_SENT")
       ELSE Stay(IF TimedOut THEN Fail(d, "no contract") ELSE d)

\* Every message: the reply arrives, is accepted, then read.
Reply == [ID_SENT |-> "ID_ACC", NIN_SENT |-> "NIN_ACC", SVID_SENT |-> "SVID_ACC",
          MODE_SENT |-> "MODE_ACC", QUERY_SENT |-> "QUERY_ACC",
          LED_SENT |-> "LED_ACC", HUB_SENT |-> "HUB_ACC"]

\* A slip: a reply is waited for without a timeout.
MessageSentForEver ==
    \E s \in MessageStates :
        /\ In(s)
        /\ IF "vdm" \in d.alerts
           THEN Command(Take(d, "vdm"), "ACCEPT", Reply[s])
           ELSE Stay(d)

MessageSent ==
    \E s \in MessageStates :
        /\ In(s)
        /\ IF "vdm" \in d.alerts
           THEN Command(Take(d, "vdm"), "ACCEPT", Reply[s])
           ELSE Stay(IF TimedOut THEN Fail(d, "no reply") ELSE d)

\* A command not done yet, never done, or refused.
AwaitCommand ==
    \E s \in CommandStates :
        /\ In(s) /\ (s = "LED_ACC" => ~d.led)
        /\ \/ CmdDone = "wait" /\ Stay(Take(d, "done"))
           \/ CmdDone = "silent" /\ Stay(Fail(d, "no answer"))
           \/ CmdDone = "refused" /\ Stay(Fail(Take(d, "done"), "refused"))

Completed(s) == In(s) /\ CmdDone = "done"
Rest == Take(d, "done")
Replied(msg) == port.inbox = [to |-> msg, ok |-> TRUE]

PowerReady ==
    /\ Completed("PS_RDY_SENT")
    /\ \/ chip.role = "dfp" /\ SendVdm(Rest, "ID", "ID_SENT")
       \/ chip.role = "ufp" /\ Command(Rest, "DR_SWAP", "DR_SWAP_SENT")
       \/ chip.role = "none" /\ Stay(Fail(Rest, "no role"))

Swapped ==
    /\ Completed("DR_SWAP_SENT")
    /\ IF chip.role = "dfp" THEN SendVdm(Rest, "ID", "ID_SENT")
                            ELSE Stay(Fail(Rest, "not the host"))

Identified ==
    /\ Completed("ID_ACC")
    /\ LET known == [Rest EXCEPT !.nin = port.kind] IN
       IF ~Replied("ID") THEN Stay(Fail(Rest, "who"))
       ELSE CASE port.kind = "dock"    -> SendVdm(known, "NIN", "NIN_SENT")
              [] port.kind = "charger" -> Stay(Go(known, "DONE"))
              [] OTHER                 -> SendVdm(known, "SVID", "SVID_SENT")

NinEntered ==
    /\ Completed("NIN_ACC")
    /\ IF Replied("NIN") THEN Command(Rest, "DP_ENTER", "DP_ENTER_SENT")
                         ELSE Stay(Fail(Rest, "refused its mode"))

SvidsRead ==
    /\ Completed("SVID_ACC")
    /\ IF Replied("SVID") THEN SendVdm(Rest, "MODE", "MODE_SENT")
                          ELSE Stay(Fail(Rest, "no modes"))

ModesRead ==
    /\ Completed("MODE_ACC")
    /\ IF Replied("MODE") THEN Command(Rest, "DP_ENTER", "DP_ENTER_SENT")
                          ELSE Stay(Fail(Rest, "no DisplayPort"))

\* _dp_configure: lanes on D or C, or nothing usable.
DpEntered ==
    /\ Completed("DP_ENTER_SENT")
    /\ \/ Command(Rest, "DP_CFG", "DP_CFG_SENT")
       \/ Stay(Fail(Rest, "no pins"))

DpConfigured == Completed("DP_CFG_SENT") /\ Stay(Go(Rest, "HPD_WAIT"))

\* A TV's hot plug detect, or the grace period; a dock is asked further.
HpdWaited ==
    /\ In("HPD_WAIT")
    /\ \E hpd \in BOOLEAN :
        IF ~hpd /\ d.age <= HpdWait THEN Stay(d)
        ELSE IF d.nin = "dock" THEN SendVdm(d, "QUERY", "QUERY_SENT")
        ELSE Stay(Go(d, "DONE"))

StateRead == Completed("QUERY_ACC") /\ SendVdm(Rest, "LED", "LED_SENT")

LightOn ==
    /\ Completed("LED_ACC") /\ ~d.led
    /\ Stay([Rest EXCEPT !.led = TRUE, !.age = 0])

HubDelayed ==
    /\ In("LED_ACC") /\ d.led
    /\ IF d.age < HubDelay THEN Stay(d) ELSE SendVdm(d, "HUB", "HUB_SENT")

\* A busy hub is asked again; _go has reset the count each time.
HubRead ==
    /\ Completed("HUB_ACC")
    /\ IF port.inbox = [to |-> "HUB", ok |-> FALSE] /\ d.tries < 10
       THEN SendVdm([Rest EXCEPT !.tries = @ + 1], "HUB", "HUB_SENT")
       ELSE Stay(Go([Rest EXCEPT !.hub = Replied("HUB")], "DONE"))

DockStep ==
    \/ CableGone \/ Faulted \/ WaitPlug \/ RdoSent \/ MessageSent \/ AwaitCommand
    \/ PowerReady \/ Swapped \/ Identified \/ NinEntered \/ SvidsRead \/ ModesRead
    \/ DpEntered \/ DpConfigured \/ HpdWaited \/ StateRead \/ LightOn
    \/ HubDelayed \/ HubRead

-----------------------------------------------------------------------------
(* pd_reset_step.  While it goes on the tick ends with it: no handshake    *)
(* step, no snapshot.                                                      *)

ResetTo(s) ==
    /\ rst' = [state |-> s, age |-> IF s = rst.state THEN rst.age ELSE 0]
    /\ resetting' = (s \notin {"DONE", "FAILED"})
    /\ fresh' = TRUE
    /\ UNCHANGED <<screen, pc, running, ran, d, left>>

Resetting(s) == screen = "open" /\ pc = "rest" /\ resetting /\ rst.state = s

\* The short waits: over within a unit, or at its end.
ShortWait(s) ==
    /\ Resetting(s) /\ rst.age = 0 /\ ResetTo(s) /\ UNCHANGED <<line, chip, port>>

Pulsed == Resetting("PULSE") /\ line' = FALSE /\ ResetTo("SETTLE") /\ UNCHANGED <<chip, port>>
Settled == Resetting("SETTLE") /\ ResetTo("WAIT_IRQ") /\ UNCHANGED <<line, chip, port>>

\* A slip: for ever, as HOS waits.
IrqWaitedForEver ==
    /\ Resetting("WAIT_IRQ") /\ UNCHANGED <<line, chip, port>>
    /\ \E low \in BOOLEAN : ResetTo(IF low THEN "WAIT_ID" ELSE "WAIT_IRQ")

\* The interrupt line is low, or never was in time; then on without it.
IrqWaited ==
    /\ Resetting("WAIT_IRQ") /\ UNCHANGED <<line, chip, port>>
    /\ \E low \in BOOLEAN :
        ResetTo(IF low \/ rst.age >= IrqWait THEN "WAIT_ID" ELSE "WAIT_IRQ")

IdWaited ==
    /\ Resetting("WAIT_ID") /\ UNCHANGED <<line, port>>
    /\ IF Answers
       THEN /\ chip' = Issue([chip EXCEPT !.alert = {}], "SYS_RESET")
            /\ ResetTo("SYS_RESET")
       ELSE /\ chip' = chip
            /\ ResetTo(IF rst.age >= IdWait THEN "FAILED" ELSE "WAIT_ID")

SysReset ==
    /\ Resetting("SYS_RESET") /\ ResetTo("CONFIG")
    /\ chip' = [chip EXCEPT !.alert = {}]
    /\ UNCHANGED <<line, port>>

Configured ==
    /\ Resetting("CONFIG") /\ UNCHANGED <<line, chip, port>>
    /\ ResetTo("DONE") \/ ResetTo("FAILED")

ResetStep ==
    \/ \E s \in {"PULSE", "SETTLE", "SYS_RESET"} : ShortWait(s)
    \/ Pulsed \/ Settled \/ IrqWaited \/ IdWaited \/ SysReset \/ Configured

-----------------------------------------------------------------------------
(* The screen: the view, Run, Reset Chip, the way out and in again.        *)

AtRest == screen = "open" /\ pc = "rest"

\* A tick with neither a reset nor a handshake: the snapshot, when due.
View ==
    /\ AtRest /\ ~running /\ ~resetting
    /\ chip' = [chip EXCEPT !.alert = {}] /\ fresh' = TRUE
    /\ UNCHANGED <<screenVars, pc, d, rst, line, port, left>>

ActStart ==
    /\ AtRest /\ ~running /\ left.runs > 0
    /\ running' = TRUE /\ ran' = FALSE
    /\ d' = Go(NoHandshake, "WAIT_PLUG")
    /\ chip' = [chip EXCEPT !.alert = {}]
    /\ left' = [left EXCEPT !.runs = @ - 1]
    /\ UNCHANGED <<screen, resetting, pc, fresh, rst, line, port>>

ActReset ==
    /\ AtRest /\ ~running /\ ~resetting
    /\ resetting' = TRUE /\ line' = TRUE
    /\ rst' = [state |-> "PULSE", age |-> 0]
    /\ chip' = [ChipUp EXCEPT !.power = "reset"]
    /\ port' = [port EXCEPT !.dp = FALSE, !.owed = "none"]
    /\ UNCHANGED <<screen, running, ran, pc, fresh, d, left>>

\* A slip: the run that has ended is forgotten.
DockStopRunning ==
    IF running /\ Answers
    THEN /\ port' = [port EXCEPT !.light = @ /\ ~d.led, !.dp = @ /\ ~d.dpOn]
         /\ chip' = IF d.led \/ d.dpOn THEN [chip EXCEPT !.cmd = "none"] ELSE chip
    ELSE UNCHANGED <<port, chip>>

\* dock_stop: the light off, the mode left, for what this run recorded.
DockStop ==
    IF (running \/ ran) /\ Answers
    THEN /\ port' = [port EXCEPT !.light = @ /\ ~d.led, !.dp = @ /\ ~d.dpOn]
         /\ chip' = IF d.led \/ d.dpOn THEN [chip EXCEPT !.cmd = "none"] ELSE chip
    ELSE UNCHANGED <<port, chip>>

\* A slip: left in the middle of the pulse, as it is.
LeaveInPulse ==
    /\ AtRest /\ screen' = "left"
    /\ DockStop
    /\ d' = IF running \/ ran THEN [d EXCEPT !.state = "IDLE"] ELSE d
    /\ running' = FALSE /\ ran' = FALSE /\ resetting' = FALSE
    /\ UNCHANGED <<pc, fresh, rst, line, left>>

Leave ==
    /\ AtRest /\ screen' = "left"
    /\ DockStop
    /\ d' = IF running \/ ran THEN [d EXCEPT !.state = "IDLE"] ELSE d
    /\ running' = FALSE /\ ran' = FALSE /\ resetting' = FALSE
    /\ line' = (line /\ ~(resetting /\ rst.state = "PULSE"))
    /\ UNCHANGED <<pc, fresh, rst, left>>

Open ==
    /\ screen = "left" /\ screen' = "open"
    /\ d' = NoHandshake
    /\ chip' = [chip EXCEPT !.alert = {}]
    /\ UNCHANGED <<running, ran, resetting, pc, fresh, rst, line, port, left>>

-----------------------------------------------------------------------------
(* The environment: time, the controller, the other end of the cable.      *)

software == <<screenVars, pc, line>>

Later(age, last) == IF age < last THEN age + 1 ELSE age

Pass ==
    /\ fresh \/ screen = "left"
    /\ fresh' = FALSE
    /\ d' = [d EXCEPT !.age = IF running THEN Later(@, StepTimeout + 1) ELSE @]
    /\ rst' = [rst EXCEPT !.age = IF resetting THEN Later(@, IdWait) ELSE @]
    /\ port' = [port EXCEPT !.age = IF @ <= StepTimeout /\ port.kind # "none"
                                    THEN @ + 1 ELSE @]
    /\ UNCHANGED <<software, chip, left>>

Outside == UNCHANGED <<software, fresh, d, rst>>

ChipBoots ==
    /\ chip.power = "reset" /\ ~line
    /\ chip' = [chip EXCEPT !.power = "up"]
    /\ Outside /\ UNCHANGED <<port, left>>

\* The message, or the request, goes out on the wire.
Transmit ==
    /\ Busy /\ chip.cmd \in Asks /\ ~chip.sent
    /\ chip' = [chip EXCEPT !.sent = TRUE]
    /\ port' = IF port.kind = "none" THEN port
               ELSE [port EXCEPT !.owed = chip.cmd, !.light = @ \/ chip.cmd = "LED"]
    /\ Outside /\ UNCHANGED left

Answer ==
    /\ Answers /\ port.owed # "none"
    /\ \E ok \in IF port.owed \in {"RDO", "QUERY", "LED"} THEN {TRUE} ELSE BOOLEAN :
        LET busy == port.owed = "HUB" /\ ~ok IN
        /\ busy => left.busy > 0
        /\ left' = [left EXCEPT !.busy = IF busy THEN @ - 1 ELSE @]
        /\ port' = [port EXCEPT !.owed = "none",
                                !.inbox = IF port.owed = "RDO" THEN @
                                          ELSE [to |-> port.owed, ok |-> ok]]
    /\ chip' = [chip EXCEPT !.alert = @ \cup {IF port.owed = "RDO" THEN "contract" ELSE "vdm"}]
    /\ Outside

NoAnswer ==
    /\ port.owed # "none"
    /\ port' = [port EXCEPT !.owed = "none"]
    /\ Outside /\ UNCHANGED <<chip, left>>

\* A command is over; what the controller refuses has no effect.
Finish ==
    /\ Busy /\ (chip.cmd \in Asks => chip.sent)
    /\ \E ok \in IF chip.cmd \in Asks THEN {TRUE} ELSE BOOLEAN :
        /\ chip' = [chip EXCEPT !.cmd = "none", !.sent = FALSE,
                                !.last = [cmd |-> chip.cmd, ok |-> ok],
                                !.alert = @ \cup {"done"},
                                !.role = IF ok /\ chip.cmd = "DR_SWAP" THEN "dfp" ELSE @]
        /\ port' = [port EXCEPT !.dp = CASE ok /\ chip.cmd = "DP_ENTER"  -> port.kind # "none"
                                         [] ok /\ chip.cmd = "SYS_RESET" -> FALSE
                                         [] OTHER                        -> @]
    /\ Outside /\ UNCHANGED left

Trouble ==
    /\ Answers
    /\ \/ "fault" \in Troubles /\ chip' = [chip EXCEPT !.fault = TRUE]
       \/ "quiet" \in Troubles /\ chip' = [ChipUp EXCEPT !.power = "quiet"]
    /\ Outside /\ UNCHANGED <<port, left>>

Plug ==
    /\ port.kind = "none" /\ left.plugs > 0
    /\ left' = [left EXCEPT !.plugs = @ - 1]
    /\ \E k \in Kinds : port' = [Unplugged EXCEPT !.kind = k]
    /\ \E r \in {"none", "ufp", "dfp"} : chip' = [chip EXCEPT !.role = r]
    /\ Outside

Unplug ==
    /\ port.kind # "none"
    /\ port' = Unplugged /\ chip' = [chip EXCEPT !.role = "none"]
    /\ Outside /\ UNCHANGED left

\* The source offers its profiles; a plain charger never does.
Announce ==
    /\ port.kind \notin {"none", "plain"} /\ ~port.announced
    /\ port' = [port EXCEPT !.announced = TRUE]
    /\ Outside /\ UNCHANGED <<chip, left>>

-----------------------------------------------------------------------------

Tick == ReadAlerts \/ DockStep \/ ResetStep \/ View
User == ActStart \/ ActReset \/ Leave \/ Open
World == \/ ChipBoots \/ Transmit \/ Answer \/ NoAnswer \/ Finish \/ Trouble
         \/ Plug \/ Unplug \/ Announce

Next == Tick \/ User \/ World \/ Pass

Spec == Init /\ [][Next]_vars

\* The task scheduler runs the tick, and time passes; nothing else is owed:
\* not the controller's answer, not the user's.
FairSpec == Spec /\ WF_vars(Tick) /\ WF_vars(Pass)

-----------------------------------------------------------------------------
(* Properties.                                                             *)

Ages == 0 .. StepTimeout + 1
Alerts == {"done", "vdm", "contract"}
Reasons == {"none", "unwritten", "gone", "quiet", "fault", "no profiles", "none fits",
            "no contract", "no reply", "no answer", "refused", "no role",
            "not the host", "who", "refused its mode", "no modes", "no DisplayPort",
            "no pins"}
Handshakes == [state : DockStates, age : Ages, tries : 0 .. 10,
               alerts : SUBSET Alerts, plugSeen : BOOLEAN,
               nin : Kinds \cup {"unknown"}, dpOn : BOOLEAN, led : BOOLEAN,
               hub : BOOLEAN, why : Reasons]
Resets == [state : ResetStates, age : 0 .. IdWait]
Chips == [power : {"up", "quiet", "reset"}, cmd : Commands \cup {"none"},
          sent : BOOLEAN, last : [cmd : Commands \cup {"none"}, ok : BOOLEAN],
          alert : SUBSET Alerts, role : {"none", "ufp", "dfp"}, fault : BOOLEAN]
Ports == [kind : Kinds \cup {"none"}, announced : BOOLEAN, age : Ages,
          owed : Asks \cup {"none"},
          inbox : [to : Messages \cup {"none"}, ok : BOOLEAN],
          light : BOOLEAN, dp : BOOLEAN]
Bounds == [runs : 0 .. MaxRuns, plugs : 0 .. MaxPlugs, busy : 0 .. MaxBusy]

(* A handshake runs from the cable wait to its end, and its verdict stands *)
(* until the next Run; a screen that was left runs nothing.                *)
RunFollowsHandshake ==
    /\ running = (d.state \notin {"IDLE", "DONE", "FAILED"})
    /\ ran = (d.state \in {"DONE", "FAILED"})
    /\ pc = "read" => running /\ screen = "open"
    /\ screen = "left" => ~resetting

(* The type invariant: the records hold what their C structures and the    *)
(* chip can, and the screen's flags agree with the handshake's state.      *)
TypeOK ==
    /\ screen \in {"open", "left"} /\ pc \in {"rest", "read"} /\ fresh \in BOOLEAN
    /\ running \in BOOLEAN /\ ran \in BOOLEAN /\ resetting \in BOOLEAN
    /\ d \in Handshakes /\ rst \in Resets /\ line \in BOOLEAN
    /\ chip \in Chips /\ port \in Ports /\ left \in Bounds
    /\ RunFollowsHandshake

(* PV5 holds the controller in reset; leaving the screen in the middle of  *)
(* the 30 ms pulse must not leave it there (_dk_leave).                    *)
LineRestsLow == line => screen = "open" /\ resetting /\ rst.state = "PULSE"

WaitsFor == [ID_ACC |-> "ACCEPT", NIN_ACC |-> "ACCEPT", SVID_ACC |-> "ACCEPT",
             MODE_ACC |-> "ACCEPT", QUERY_ACC |-> "ACCEPT", LED_ACC |-> "ACCEPT",
             HUB_ACC |-> "ACCEPT", PS_RDY_SENT |-> "PS_RDY",
             DR_SWAP_SENT |-> "DR_SWAP", DP_ENTER_SENT |-> "DP_ENTER",
             DP_CFG_SENT |-> "DP_CFG"]

(* A state that waits for a command is left for the next one, or called a  *)
(* refusal, only on the completion of that very command: an earlier one's  *)
(* done bit does not count for it (_cmd_go, _cmd_done).                    *)
StepsOnItsOwnCompletion ==
    [][\A s \in CommandStates :
        pc = "read" /\ d.state = s
        /\ (d'.state \notin {s, "FAILED"} \/ (d'.state = "FAILED" /\ d'.why = "refused"))
        => ~Busy /\ chip.last.cmd = WaitsFor[s]]_vars

(* "no answer to ..." is the controller's silence and not a completion     *)
(* somebody else read: the command still runs, or its done bit came after  *)
(* this tick's read.                                                       *)
SilenceIsReal ==
    [][d.state # "FAILED" /\ d'.state = "FAILED" /\ d'.why = "no answer"
       => Busy \/ "done" \in chip.alert]_vars

(* Reset Chip is alone on the controller: while it goes on, a handshake    *)
(* that Run started meanwhile sends no command.                            *)
ResetIsAlone ==
    [][resetting /\ chip'.cmd # chip.cmd => chip'.cmd \in {"none", "SYS_RESET"}]_vars

(* Leaving during or after the first run, at whatever step, exits          *)
(* DisplayPort mode and turns the dock's light off, as the screen's hint   *)
(* says.  The exception is the light's message itself: it is on record     *)
(* (led_lit) from its reply's acceptance on, so a run left, or failed,     *)
(* between the two leaves the light on.  A second Run on the same screen   *)
(* forgets what the first has to undo.                                     *)
LeavingIsClean ==
    [][screen = "open" /\ screen' = "left" /\ d.state # "IDLE" /\ Answers
       /\ left.runs + 1 = MaxRuns
       => /\ ~port'.dp
          /\ port'.light => ~d.led /\ d.state \in {"LED_SENT", "LED_ACC", "FAILED"}]_vars

(* Every wait of the handshake after the plug, and of the chip reset, has  *)
(* an end of its own: neither hangs the screen, whatever the controller    *)
(* and the dock leave unanswered, but for a hub busy for ever (MaxBusy).   *)
WaitsEnd == /\ (running /\ d.state # "WAIT_PLUG") ~> ~running
            /\ resetting ~> ~resetting

=============================================================================
