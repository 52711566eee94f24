-------------------------- MODULE DockTest_proofs --------------------------
(***************************************************************************)
(* Proofs about DockTest, for every wait, every partner and every number   *)
(* of runs, plugs and busy answers.                                        *)
(***************************************************************************)
EXTENDS DockTest, TLAPS

\* The types, in the parts the steps disturb apart.
TypeFlags ==
    /\ screen \in {"open", "left"} /\ pc \in {"rest", "read"} /\ fresh \in BOOLEAN
    /\ running \in BOOLEAN /\ ran \in BOOLEAN /\ resetting \in BOOLEAN /\ line \in BOOLEAN
TypeDock == d \in Handshakes
TypeReset == rst \in Resets
TypeChip == chip \in Chips
TypePort == port \in Ports
TypeLeft == left \in Bounds

\* A screen that was left has no handshake.
LeftIsIdle == screen = "left" => d.state = "IDLE"

Types == /\ TypeFlags /\ TypeDock /\ TypeReset /\ TypeChip /\ TypePort /\ TypeLeft
         /\ RunFollowsHandshake /\ LeftIsIdle

-----------------------------------------------------------------------------
(* The waits as numbers, and the records stored to.                        *)

\* Zero is an age of everything, and so is the next age of what still counts.
LEMMA AgeFacts ==
    /\ 0 \in Ages /\ 0 \in 0 .. IdWait /\ 0 \in 0 .. 10
    /\ \A a \in Ages : Later(a, StepTimeout + 1) \in Ages
    /\ \A a \in 0 .. IdWait : Later(a, IdWait) \in 0 .. IdWait
    /\ \A a \in Ages : a <= StepTimeout => a + 1 \in Ages
BY WaitsAssumption DEF Ages, Later

\* The first records.
LEMMA FirstRecords ==
    /\ NoHandshake \in Handshakes /\ ChipUp \in Chips /\ Unplugged \in Ports
    /\ \A p \in {"up", "quiet", "reset"} : [ChipUp EXCEPT !.power = p] \in Chips
    /\ \A k \in Kinds : [Unplugged EXCEPT !.kind = k] \in Ports
<1>1. NoHandshake \in Handshakes
  BY AgeFacts DEF NoHandshake, Handshakes, DockStates, Alerts, Reasons
<1>2. ChipUp \in Chips BY DEF ChipUp, Chips, Alerts
<1>3. Unplugged \in Ports BY AgeFacts DEF Unplugged, Ports
<1>4. \A p \in {"up", "quiet", "reset"} : [ChipUp EXCEPT !.power = p] \in Chips
  BY <1>2 DEF Chips
<1>5. \A k \in Kinds : [Unplugged EXCEPT !.kind = k] \in Ports
  BY <1>3 DEF Ports
<1>. QED BY <1>1, <1>2, <1>3, <1>4, <1>5

\* _go, _fail, _take and _cmd_go keep a handshake one.
LEMMA DockStores ==
    ASSUME NEW dd \in Handshakes
    PROVE  /\ \A s \in DockStates : Go(dd, s) \in Handshakes /\ Go(dd, s).state = s
           /\ \A w \in Reasons : Fail(dd, w) \in Handshakes /\ Fail(dd, w).state = "FAILED"
                                 /\ Fail(dd, w).why = w
           /\ \A b \in Alerts : Take(dd, b) \in Handshakes /\ Take(dd, b).state = dd.state
           /\ \A c \in Commands, s \in DockStates :
                 CmdGo(dd, c, s) \in Handshakes /\ CmdGo(dd, c, s).state = s
<1>1. \A e \in Handshakes, s \in DockStates : Go(e, s) \in Handshakes /\ Go(e, s).state = s
  BY AgeFacts DEF Go, Handshakes
<1>2. ASSUME NEW w \in Reasons
      PROVE  Fail(dd, w) \in Handshakes /\ Fail(dd, w).state = "FAILED" /\ Fail(dd, w).why = w
  <2>1. [dd EXCEPT !.why = w] \in Handshakes BY DEF Handshakes
  <2>2. "FAILED" \in DockStates BY DEF DockStates
  <2>3. Fail(dd, w).why = w BY DEF Fail, Go, Handshakes
  <2>. QED BY <1>1, <2>1, <2>2, <2>3 DEF Fail
<1>3. \A b \in Alerts : Take(dd, b) \in Handshakes /\ Take(dd, b).state = dd.state
  BY DEF Take, Handshakes
<1>4. ASSUME NEW c \in Commands, NEW s \in DockStates
      PROVE  CmdGo(dd, c, s) \in Handshakes /\ CmdGo(dd, c, s).state = s
  <2>1. [dd EXCEPT !.alerts = @ \ {"done"}, !.dpOn = @ \/ c = "DP_ENTER"] \in Handshakes
    BY DEF Handshakes
  <2>. QED BY <1>1, <2>1 DEF CmdGo
<1>. QED BY <1>1, <1>2, <1>3, <1>4

\* The other stores to a handshake.
LEMMA DockFields ==
    ASSUME NEW dd \in Handshakes
    PROVE  /\ [dd EXCEPT !.plugSeen = TRUE, !.age = 0] \in Handshakes
           /\ [dd EXCEPT !.alerts = {}] \in Handshakes
           /\ \A k \in Kinds : [dd EXCEPT !.nin = k] \in Handshakes
           /\ [dd EXCEPT !.led = TRUE, !.age = 0] \in Handshakes
           /\ \A b \in BOOLEAN : [dd EXCEPT !.hub = b] \in Handshakes
           /\ dd.tries < 10 => [dd EXCEPT !.tries = @ + 1] \in Handshakes
           /\ \A a \in SUBSET Alerts : [dd EXCEPT !.alerts = @ \cup a] \in Handshakes
           /\ \A a \in Ages : [dd EXCEPT !.age = a] \in Handshakes
           /\ [dd EXCEPT !.state = "IDLE"] \in Handshakes
<1>1. /\ [dd EXCEPT !.plugSeen = TRUE, !.age = 0] \in Handshakes
      /\ [dd EXCEPT !.led = TRUE, !.age = 0] \in Handshakes
  BY AgeFacts DEF Handshakes
<1>2. /\ [dd EXCEPT !.alerts = {}] \in Handshakes
      /\ \A k \in Kinds : [dd EXCEPT !.nin = k] \in Handshakes
      /\ \A b \in BOOLEAN : [dd EXCEPT !.hub = b] \in Handshakes
      /\ \A a \in SUBSET Alerts : [dd EXCEPT !.alerts = @ \cup a] \in Handshakes
      /\ \A a \in Ages : [dd EXCEPT !.age = a] \in Handshakes
  BY DEF Handshakes
<1>3. ASSUME dd.tries < 10 PROVE [dd EXCEPT !.tries = @ + 1] \in Handshakes
  <2>1. dd.tries + 1 \in 0 .. 10 BY <1>3 DEF Handshakes
  <2>2. \A n \in 0 .. 10 : [dd EXCEPT !.tries = n] \in Handshakes BY DEF Handshakes
  <2>. QED BY <2>1, <2>2
<1>4. [dd EXCEPT !.state = "IDLE"] \in Handshakes BY DEF Handshakes, DockStates
<1>. QED BY <1>1, <1>2, <1>3, <1>4

\* The stores to the controller.
LEMMA ChipStores ==
    ASSUME NEW c \in Chips
    PROVE  /\ \A cmd \in Commands : Issue(c, cmd) \in Chips
           /\ [c EXCEPT !.alert = {}] \in Chips
           /\ [c EXCEPT !.cmd = "none"] \in Chips
           /\ [c EXCEPT !.power = "up"] \in Chips
           /\ [c EXCEPT !.sent = TRUE] \in Chips
           /\ [c EXCEPT !.fault = TRUE] \in Chips
           /\ \A r \in {"none", "ufp", "dfp"} : [c EXCEPT !.role = r] \in Chips
           /\ \A a \in Alerts : [c EXCEPT !.alert = @ \cup {a}] \in Chips
           /\ \A cmd \in Commands, ok \in BOOLEAN, r \in {"none", "ufp", "dfp"} :
                 [c EXCEPT !.cmd = "none", !.sent = FALSE, !.last = [cmd |-> cmd, ok |-> ok],
                           !.alert = @ \cup {"done"}, !.role = r] \in Chips
<1>1. \A cmd \in Commands : Issue(c, cmd) \in Chips BY DEF Issue, Chips
<1>2. /\ [c EXCEPT !.alert = {}] \in Chips
      /\ [c EXCEPT !.cmd = "none"] \in Chips
      /\ [c EXCEPT !.power = "up"] \in Chips
      /\ [c EXCEPT !.sent = TRUE] \in Chips
      /\ [c EXCEPT !.fault = TRUE] \in Chips
  BY DEF Chips
<1>3. \A r \in {"none", "ufp", "dfp"} : [c EXCEPT !.role = r] \in Chips BY DEF Chips
<1>4. \A a \in Alerts : [c EXCEPT !.alert = @ \cup {a}] \in Chips BY DEF Chips
<1>5. ASSUME NEW cmd \in Commands, NEW ok \in BOOLEAN, NEW r \in {"none", "ufp", "dfp"}
      PROVE  [c EXCEPT !.cmd = "none", !.sent = FALSE, !.last = [cmd |-> cmd, ok |-> ok],
                       !.alert = @ \cup {"done"}, !.role = r] \in Chips
  <2>1. "done" \in Alerts BY DEF Alerts
  <2>. QED BY <2>1 DEF Chips
<1>. QED BY <1>1, <1>2, <1>3, <1>4, <1>5

\* The stores to what is plugged in.
LEMMA PortStores ==
    ASSUME NEW p \in Ports
    PROVE  /\ \A b \in BOOLEAN : [p EXCEPT !.dp = b] \in Ports
           /\ \A b, e \in BOOLEAN : [p EXCEPT !.light = b, !.dp = e] \in Ports
           /\ [p EXCEPT !.dp = FALSE, !.owed = "none"] \in Ports
           /\ [p EXCEPT !.owed = "none"] \in Ports
           /\ [p EXCEPT !.announced = TRUE] \in Ports
           /\ \A a \in Ages : [p EXCEPT !.age = a] \in Ports
           /\ \A o \in Asks, b \in BOOLEAN : [p EXCEPT !.owed = o, !.light = b] \in Ports
           /\ \A m \in Messages, b \in BOOLEAN :
                 [p EXCEPT !.owed = "none", !.inbox = [to |-> m, ok |-> b]] \in Ports
BY DEF Ports

-----------------------------------------------------------------------------
(* A handshake's step ends the tick with a handshake in some state and a   *)
(* controller with or without a new command.                               *)

Ended == \E dd \in Handshakes, c \in Chips : dd.state # "IDLE" /\ EndTick(dd, c)

\* A step that stays, that fails, that goes on, or that sends a command.
LEMMA Endings ==
    ASSUME NEW dd \in Handshakes, chip \in Chips
    PROVE  /\ dd.state # "IDLE" /\ Stay(dd) => Ended
           /\ \A w \in Reasons : Stay(Fail(dd, w)) => Ended
           /\ \A n \in DockStates : n # "IDLE" /\ Stay(Go(dd, n)) => Ended
           /\ \A cmd \in Commands, n \in DockStates : n # "IDLE" /\ Command(dd, cmd, n) => Ended
           /\ \A msg \in Messages, n \in DockStates : n # "IDLE" /\ SendVdm(dd, msg, n) => Ended
<1>1. dd.state # "IDLE" /\ Stay(dd) => Ended BY DEF Stay, Ended
<1>2. ASSUME NEW w \in Reasons, Stay(Fail(dd, w)) PROVE Ended
  <2>1. Fail(dd, w) \in Handshakes /\ Fail(dd, w).state # "IDLE" BY DockStores
  <2>. QED BY <1>2, <2>1 DEF Stay, Ended
<1>3. ASSUME NEW n \in DockStates, n # "IDLE", Stay(Go(dd, n)) PROVE Ended
  <2>1. Go(dd, n) \in Handshakes /\ Go(dd, n).state = n BY DockStores
  <2>. QED BY <1>3, <2>1 DEF Stay, Ended
<1>4. ASSUME NEW cmd \in Commands, NEW n \in DockStates, n # "IDLE", Command(dd, cmd, n)
      PROVE  Ended
  <2>1. CmdGo(dd, cmd, n) \in Handshakes /\ CmdGo(dd, cmd, n).state = n BY DockStores
  <2>2. Issue(chip, cmd) \in Chips BY ChipStores
  <2>. QED BY <1>4, <2>1, <2>2 DEF Command, Ended
<1>5. ASSUME NEW msg \in Messages, NEW n \in DockStates, n # "IDLE", SendVdm(dd, msg, n)
      PROVE  Ended
  <2>1. Go(dd, n) \in Handshakes /\ Go(dd, n).state = n BY DockStores
  <2>2. msg \in Commands BY DEF Commands, Asks
  <2>3. Issue(chip, msg) \in Chips BY <2>2, ChipStores
  <2>4. "unwritten" \in Reasons BY DEF Reasons
  <2>. QED BY <1>2, <1>5, <2>1, <2>3, <2>4 DEF SendVdm, Ended
<1>. QED BY <1>1, <1>2, <1>3, <1>4, <1>5

\* The commands and the states by name.
LEMMA Names ==
    /\ {"ID", "NIN", "SVID", "MODE", "QUERY", "LED", "HUB"} \subseteq Messages
    /\ {"RDO", "PS_RDY", "DR_SWAP", "ACCEPT", "DP_ENTER", "DP_CFG"} \subseteq Commands
    /\ MessageStates \cup CommandStates \cup
       {"IDLE", "WAIT_PLUG", "RDO_SENT", "HPD_WAIT", "DONE", "FAILED"} \subseteq DockStates
    /\ "IDLE" \notin MessageStates \cup CommandStates
    /\ {"ID_SENT", "NIN_SENT", "SVID_SENT", "MODE_SENT", "QUERY_SENT", "LED_SENT",
        "HUB_SENT"} \subseteq MessageStates
    /\ {"PS_RDY_SENT", "DR_SWAP_SENT", "DP_ENTER_SENT", "DP_CFG_SENT", "LED_ACC", "HUB_ACC",
        "ID_ACC", "NIN_ACC", "SVID_ACC", "MODE_ACC", "QUERY_ACC"} \subseteq CommandStates
    /\ \A s \in MessageStates : Reply[s] \in CommandStates
    /\ Alerts = {"done", "vdm", "contract"}
BY DEF Messages, Commands, Asks, DockStates, MessageStates, CommandStates, ReplyStates, Reply,
       Alerts

\* Waiting for the cable and for the source.
LEMMA WaitPlugEnds == TypeDock /\ TypeChip /\ TypePort /\ WaitPlug => Ended
<1> SUFFICES ASSUME TypeDock, TypeChip, TypePort, WaitPlug PROVE Ended
  OBVIOUS
<1> DEFINE seen == IF Plugged /\ ~d.plugSeen
                   THEN [d EXCEPT !.plugSeen = TRUE, !.age = 0] ELSE d
<1>0. d \in Handshakes /\ chip \in Chips /\ d.state = "WAIT_PLUG"
  BY DEF TypeDock, TypeChip, WaitPlug, In
<1>1. seen \in Handshakes BY <1>0, DockFields
<1>2. seen.state = "WAIT_PLUG" BY <1>0 DEF Handshakes
<1>3. [seen EXCEPT !.alerts = {}] \in Handshakes BY <1>1, DockFields
<1>4. /\ Go([seen EXCEPT !.alerts = {}], "RDO_SENT") \in Handshakes
      /\ Go([seen EXCEPT !.alerts = {}], "RDO_SENT").state = "RDO_SENT"
  BY <1>3, DockStores, Names
<1>5. Issue(chip, "RDO") \in Chips BY <1>0, ChipStores, Names
<1>6. {"no profiles", "none fits"} \subseteq Reasons BY DEF Reasons
<1>7. \/ Stay(seen) \/ Stay(Fail(seen, "no profiles")) \/ Stay(Fail(seen, "none fits"))
      \/ EndTick(Go([seen EXCEPT !.alerts = {}], "RDO_SENT"), Issue(chip, "RDO"))
  BY DEF WaitPlug
<1>8. CASE EndTick(Go([seen EXCEPT !.alerts = {}], "RDO_SENT"), Issue(chip, "RDO"))
  BY <1>4, <1>5, <1>8 DEF Ended
<1> HIDE DEF seen
<1>. QED BY <1>0, <1>1, <1>2, <1>6, <1>7, <1>8, Endings

\* Waiting for an answer of the other end, or for a command to end.
LEMMA WaitsAreOver ==
    ASSUME TypeDock, TypeChip, RdoSent \/ MessageSent \/ AwaitCommand
    PROVE  Ended
<1>0. d \in Handshakes /\ chip \in Chips BY DEF TypeDock, TypeChip
<1>a. {"no contract", "no reply", "no answer", "refused"} \subseteq Reasons BY DEF Reasons
<1>b. \A b \in Alerts : Take(d, b) \in Handshakes /\ Take(d, b).state = d.state
  BY <1>0, DockStores
<1>c. {"done", "vdm", "contract"} \subseteq Alerts BY DEF Alerts
<1>1. CASE RdoSent
  <2>1. \/ Command(Take(d, "contract"), "PS_RDY", "PS_RDY_SENT")
        \/ Stay(Fail(d, "no contract"))
        \/ d.state = "RDO_SENT" /\ Stay(d)
    BY <1>1 DEF RdoSent, In
  <2>2. "PS_RDY_SENT" \in DockStates /\ "PS_RDY_SENT" # "IDLE" BY Names
  <2>. QED BY <1>0, <1>a, <1>b, <1>c, <2>1, <2>2, Names, Endings
<1>2. CASE MessageSent
  <2>1. PICK s \in MessageStates :
          /\ d.state = s
          /\ \/ Command(Take(d, "vdm"), "ACCEPT", Reply[s])
             \/ Stay(Fail(d, "no reply"))
             \/ Stay(d)
    BY <1>2 DEF MessageSent, In
  <2>2. Reply[s] \in DockStates /\ Reply[s] # "IDLE" /\ s # "IDLE" BY Names
  <2>. QED BY <1>0, <1>a, <1>b, <1>c, <2>1, <2>2, Names, Endings
<1>3. CASE AwaitCommand
  <2>1. PICK s \in CommandStates :
          /\ d.state = s
          /\ \/ Stay(Take(d, "done"))
             \/ Stay(Fail(d, "no answer"))
             \/ Stay(Fail(Take(d, "done"), "refused"))
    BY <1>3 DEF AwaitCommand, In
  <2>2. d.state # "IDLE" /\ Take(d, "done") \in Handshakes /\ Take(d, "done").state # "IDLE"
    <3>1. s # "IDLE" BY Names
    <3>. QED BY <1>b, <1>c, <2>1, <3>1
  <2>3. CASE Stay(Take(d, "done")) BY <1>0, <2>2, <2>3, Endings
  <2>4. CASE Stay(Fail(d, "no answer")) BY <1>0, <1>a, <2>4, Endings
  <2>5. CASE Stay(Fail(Take(d, "done"), "refused")) BY <1>0, <1>a, <2>2, <2>5, Endings
  <2>. QED BY <2>1, <2>3, <2>4, <2>5
<1>. QED BY <1>1, <1>2, <1>3

\* A step on a completed command.
LEMMA CompletedEnds ==
    ASSUME TypeDock, TypeChip, TypePort,
           \/ PowerReady \/ Swapped \/ Identified \/ NinEntered \/ SvidsRead \/ ModesRead
           \/ DpEntered \/ DpConfigured \/ StateRead \/ LightOn \/ HubRead
    PROVE  Ended
<1>0. /\ d \in Handshakes /\ chip \in Chips /\ Rest \in Handshakes /\ Rest.state = d.state
      /\ port.kind \in Kinds \cup {"none"}
  BY DockStores, Names DEF TypeDock, TypeChip, TypePort, Ports, Rest
<1>a. {"no role", "not the host", "who", "refused its mode", "no modes", "no DisplayPort",
       "no pins"} \subseteq Reasons
  BY DEF Reasons
<1>b. {"ID_SENT", "NIN_SENT", "SVID_SENT", "MODE_SENT", "LED_SENT", "HUB_SENT", "DR_SWAP_SENT",
       "DP_ENTER_SENT", "DP_CFG_SENT", "HPD_WAIT", "DONE"} \subseteq DockStates
  BY Names
<1>1. CASE PowerReady
  BY <1>0, <1>1, <1>a, <1>b, Names, Endings DEF PowerReady
<1>2. CASE Swapped
  BY <1>0, <1>2, <1>a, <1>b, Names, Endings DEF Swapped
<1>3. CASE Identified
  <2> DEFINE known == [Rest EXCEPT !.nin = port.kind]
  <2>1. \/ Stay(Fail(Rest, "who"))
        \/ /\ port.kind \in {"dock", "charger"} \/ Replied("ID")
           /\ \/ SendVdm(known, "NIN", "NIN_SENT")
              \/ Stay(Go(known, "DONE"))
              \/ SendVdm(known, "SVID", "SVID_SENT")
    BY <1>3 DEF Identified
  <2>2. CASE port.kind = "none"
    BY <1>3, <2>2 DEF Identified, Completed, In, Connected, Plugged
  <2>3. CASE port.kind # "none"
    <3>1. known \in Handshakes BY <1>0, <2>3, DockFields
    <3> HIDE DEF known
    <3>. QED BY <1>0, <1>a, <1>b, <2>1, <3>1, Names, Endings
  <2>. QED BY <2>2, <2>3
<1>4. CASE NinEntered \/ SvidsRead
  BY <1>0, <1>4, <1>a, <1>b, Names, Endings DEF NinEntered, SvidsRead
<1>5. CASE ModesRead \/ DpEntered
  BY <1>0, <1>5, <1>a, <1>b, Names, Endings DEF ModesRead, DpEntered
<1>6. CASE DpConfigured \/ StateRead
  BY <1>0, <1>6, <1>a, <1>b, Names, Endings DEF DpConfigured, StateRead
<1>7. CASE LightOn
  <2>1. [Rest EXCEPT !.led = TRUE, !.age = 0] \in Handshakes BY <1>0, DockFields
  <2>2. [Rest EXCEPT !.led = TRUE, !.age = 0].state # "IDLE"
    BY <1>0, <1>7 DEF LightOn, Completed, In, Handshakes
  <2>. QED BY <1>0, <1>7, <2>1, <2>2, Endings DEF LightOn
<1>8. CASE HubRead
  <2>1. CASE d.tries < 10 /\ SendVdm([Rest EXCEPT !.tries = @ + 1], "HUB", "HUB_SENT")
    <3>1. Rest.tries = d.tries BY <1>0 DEF Rest, Take, Handshakes
    <3>2. [Rest EXCEPT !.tries = @ + 1] \in Handshakes BY <1>0, <2>1, <3>1, DockFields
    <3>. QED BY <1>0, <1>b, <2>1, <3>2, Names, Endings
  <2>2. CASE Stay(Go([Rest EXCEPT !.hub = Replied("HUB")], "DONE"))
    <3>1. Replied("HUB") \in BOOLEAN BY DEF Replied
    <3>2. [Rest EXCEPT !.hub = Replied("HUB")] \in Handshakes BY <1>0, <3>1, DockFields
    <3>. QED BY <1>0, <1>b, <2>2, <3>2, Endings
  <2>. QED BY <1>8, <2>1, <2>2 DEF HubRead
<1>. QED BY <1>1, <1>2, <1>3, <1>4, <1>5, <1>6, <1>7, <1>8

\* Every step of a handshake ends the tick.
LEMMA DockStepEnds == Types /\ DockStep => Ended
<1> SUFFICES ASSUME Types, DockStep PROVE Ended
  OBVIOUS
<1>0. /\ d \in Handshakes /\ chip \in Chips /\ TypeDock /\ TypeChip /\ TypePort
      /\ {"gone", "quiet", "fault"} \subseteq Reasons
  BY DEF Types, TypeDock, TypeChip, Reasons
<1>1. CASE CableGone \/ Faulted
  BY <1>0, <1>1, Endings DEF CableGone, Faulted
<1>2. CASE HpdWaited \/ HubDelayed
  BY <1>0, <1>2, Names, Endings DEF HpdWaited, HubDelayed, In
<1>. QED BY <1>0, <1>1, <1>2, WaitPlugEnds, WaitsAreOver, CompletedEnds DEF DockStep

-----------------------------------------------------------------------------
(* Every step keeps the types, one part of the state at a time.            *)

\* The end of a reset's step.
LEMMA ResetEnding ==
    ASSUME Types, ResetStep
    PROVE  /\ screen = "open" /\ pc = "rest" /\ resetting = TRUE
           /\ \E s \in ResetStates : ResetTo(s)
<1>1. {"PULSE", "SETTLE", "WAIT_IRQ", "WAIT_ID", "SYS_RESET", "CONFIG", "DONE", "FAILED"}
      \subseteq ResetStates
  BY DEF ResetStates
<1>2. resetting \in BOOLEAN BY DEF Types, TypeFlags
<1>3. CASE \E s \in {"PULSE", "SETTLE", "SYS_RESET"} : ShortWait(s)
  BY <1>1, <1>2, <1>3 DEF ShortWait, Resetting
<1>4. CASE Pulsed \/ Settled
  BY <1>1, <1>2, <1>4 DEF Pulsed, Settled, Resetting
<1>5. CASE IrqWaited
  <2>1. ResetTo("WAIT_ID") \/ ResetTo("WAIT_IRQ") BY <1>5 DEF IrqWaited
  <2>. QED BY <1>1, <1>2, <1>5, <2>1 DEF IrqWaited, Resetting
<1>6. CASE IdWaited
  <2>1. ResetTo("SYS_RESET") \/ ResetTo("FAILED") \/ ResetTo("WAIT_ID") BY <1>6 DEF IdWaited
  <2>. QED BY <1>1, <1>2, <1>6, <2>1 DEF IdWaited, Resetting
<1>7. CASE SysReset \/ Configured
  BY <1>1, <1>2, <1>7 DEF SysReset, Configured, Resetting
<1>. QED BY <1>3, <1>4, <1>5, <1>6, <1>7 DEF ResetStep

\* What the environment, and time, leave to the software.
LEMMA WorldMoves ==
    ASSUME World
    PROVE  UNCHANGED <<screen, running, ran, resetting, pc, line, fresh, d, rst>>
BY DEF World, ChipBoots, Transmit, Answer, NoAnswer, Finish, Trouble, Plug, Unplug, Announce,
       Outside, software, screenVars

\* The flags.
LEMMA FlagsStep == Types /\ [Next]_vars => TypeFlags'
<1> SUFFICES ASSUME Types, [Next]_vars PROVE TypeFlags'
  OBVIOUS
<1>0. TypeFlags BY DEF Types
<1>1. CASE ReadAlerts \/ View
  BY <1>0, <1>1 DEF ReadAlerts, View, TypeFlags, screenVars
<1>2. CASE DockStep
  <2>1. PICK dd \in Handshakes, c \in Chips : EndTick(dd, c) BY <1>2, DockStepEnds DEF Ended
  <2>2. /\ running' \in BOOLEAN /\ ran' \in BOOLEAN /\ pc' = "rest" /\ fresh' = TRUE
        /\ UNCHANGED <<screen, resetting, line>>
    BY <2>1 DEF EndTick
  <2>. QED BY <1>0, <2>2 DEF TypeFlags
<1>3. CASE ResetStep
  <2>1. PICK s \in ResetStates : ResetTo(s) BY <1>3, ResetEnding
  <2>2. line' \in BOOLEAN
    BY <1>0, <1>3 DEF ResetStep, ShortWait, Pulsed, Settled, IrqWaited, IdWaited, SysReset,
                      Configured, TypeFlags
  <2>. QED BY <1>0, <2>1, <2>2 DEF ResetTo, TypeFlags
<1>4. CASE User
  BY <1>0, <1>4 DEF User, ActStart, ActReset, Leave, Open, TypeFlags
<1>5. CASE World
  BY <1>0, <1>5, WorldMoves DEF TypeFlags
<1>6. CASE Pass \/ UNCHANGED vars
  BY <1>0, <1>6 DEF Pass, vars, software, screenVars, TypeFlags
<1>. QED BY <1>1, <1>2, <1>3, <1>4, <1>5, <1>6 DEF Next, Tick

\* The handshake.
LEMMA DockTypeStep == Types /\ [Next]_vars => TypeDock'
<1> SUFFICES ASSUME Types, [Next]_vars PROVE TypeDock'
  OBVIOUS
<1>0. d \in Handshakes /\ chip \in Chips BY DEF Types, TypeDock, TypeChip
<1>1. CASE ReadAlerts
  <2>1. (IF Answers THEN chip.alert ELSE {}) \in SUBSET Alerts BY <1>0 DEF Chips
  <2>2. d' = [d EXCEPT !.alerts = @ \cup (IF Answers THEN chip.alert ELSE {})]
    BY <1>1 DEF ReadAlerts
  <2>. QED BY <1>0, <2>1, <2>2, DockFields DEF TypeDock
<1>2. CASE DockStep
  BY <1>2, DockStepEnds DEF Ended, EndTick, TypeDock
<1>3. CASE ResetStep
  BY <1>0, <1>3, ResetEnding DEF ResetTo, TypeDock
<1>4. CASE ActStart \/ Open
  <2>1. d' \in {Go(NoHandshake, "WAIT_PLUG"), NoHandshake} BY <1>4 DEF ActStart, Open
  <2>2. "WAIT_PLUG" \in DockStates BY Names
  <2>3. Go(NoHandshake, "WAIT_PLUG") \in Handshakes BY <2>2, FirstRecords, DockStores
  <2>. QED BY <2>1, <2>3, FirstRecords DEF TypeDock
<1>5. CASE Leave
  <2>1. d' \in {[d EXCEPT !.state = "IDLE"], d} BY <1>5 DEF Leave
  <2>. QED BY <1>0, <2>1, DockFields DEF TypeDock
<1>6. CASE Pass
  <2>1. d' = [d EXCEPT !.age = IF running THEN Later(@, StepTimeout + 1) ELSE @]
    BY <1>6 DEF Pass
  <2>2. d.age \in Ages BY <1>0 DEF Handshakes
  <2>3. (IF running THEN Later(d.age, StepTimeout + 1) ELSE d.age) \in Ages BY <2>2, AgeFacts
  <2>. QED BY <1>0, <2>1, <2>3, DockFields DEF TypeDock
<1>7. CASE View \/ ActReset \/ World \/ UNCHANGED vars
  BY <1>0, <1>7, WorldMoves DEF View, ActReset, vars, TypeDock
<1>. QED BY <1>1, <1>2, <1>3, <1>4, <1>5, <1>6, <1>7 DEF Next, Tick, User

\* The reset.
LEMMA ResetTypeStep == Types /\ [Next]_vars => TypeReset'
<1> SUFFICES ASSUME Types, [Next]_vars PROVE TypeReset'
  OBVIOUS
<1>0. rst \in Resets /\ rst.age \in 0 .. IdWait BY DEF Types, TypeReset, Resets
<1>1. CASE ResetStep
  <2>1. PICK s \in ResetStates : ResetTo(s) BY <1>1, ResetEnding
  <2>2. (IF s = rst.state THEN rst.age ELSE 0) \in 0 .. IdWait BY <1>0, AgeFacts
  <2>. QED BY <2>1, <2>2 DEF ResetTo, TypeReset, Resets
<1>2. CASE ActReset
  BY <1>2, AgeFacts DEF ActReset, TypeReset, Resets, ResetStates
<1>3. CASE Pass
  <2>1. (IF resetting THEN Later(rst.age, IdWait) ELSE rst.age) \in 0 .. IdWait
    BY <1>0, AgeFacts
  <2>2. rst' = [rst EXCEPT !.age = IF resetting THEN Later(@, IdWait) ELSE @] BY <1>3 DEF Pass
  <2>3. \A a \in 0 .. IdWait : [rst EXCEPT !.age = a] \in Resets BY <1>0 DEF Resets
  <2>. QED BY <2>1, <2>2, <2>3 DEF TypeReset
<1>4. CASE UNCHANGED rst
  BY <1>0, <1>4 DEF TypeReset
<1>5. ReadAlerts \/ DockStep \/ View \/ ActStart \/ Leave \/ Open \/ World \/ UNCHANGED vars
      => UNCHANGED rst
  BY DockStepEnds, WorldMoves DEF ReadAlerts, Ended, EndTick, View, ActStart, Leave, Open, vars
<1>. QED BY <1>1, <1>2, <1>3, <1>4, <1>5 DEF Next, Tick, User

\* The controller.
LEMMA ChipStep == Types /\ [Next]_vars => TypeChip'
<1> SUFFICES ASSUME Types, [Next]_vars PROVE TypeChip'
  OBVIOUS
<1>0. chip \in Chips BY DEF Types, TypeChip
<1>a. [chip EXCEPT !.alert = {}] \in Chips BY <1>0, ChipStores
<1>1. CASE ReadAlerts
  <2>1. chip' = [chip EXCEPT !.alert = {}] \/ chip' = chip
    BY <1>0, <1>1 DEF ReadAlerts, Chips
  <2>. QED BY <1>0, <1>a, <2>1 DEF TypeChip
<1>2. CASE DockStep
  <2>1. PICK dd \in Handshakes, c \in Chips : EndTick(dd, c) BY <1>2, DockStepEnds DEF Ended
  <2>2. chip' = [c EXCEPT !.alert = {}] \/ chip' = c BY <2>1 DEF EndTick
  <2>. QED BY <2>2, ChipStores DEF TypeChip
<1>3. CASE IdWaited
  <2>1. "SYS_RESET" \in Commands BY DEF Commands
  <2>2. Issue([chip EXCEPT !.alert = {}], "SYS_RESET") \in Chips BY <1>a, <2>1, ChipStores
  <2>3. chip' = Issue([chip EXCEPT !.alert = {}], "SYS_RESET") \/ chip' = chip
    BY <1>3 DEF IdWaited
  <2>. QED BY <1>0, <2>2, <2>3 DEF TypeChip
<1>4. CASE View \/ ActStart \/ Open \/ SysReset
  BY <1>a, <1>4 DEF View, ActStart, Open, SysReset, TypeChip
<1>5. CASE ActReset \/ Trouble
  BY <1>0, <1>5, FirstRecords, ChipStores DEF ActReset, Trouble, TypeChip
<1>6. CASE Leave
  BY <1>0, <1>6, ChipStores DEF Leave, DockStop, TypeChip
<1>7. CASE ChipBoots \/ Transmit
  BY <1>0, <1>7, ChipStores DEF ChipBoots, Transmit, TypeChip
<1>8. CASE Answer
  <2>1. (IF port.owed = "RDO" THEN "contract" ELSE "vdm") \in Alerts BY Names
  <2>. QED BY <1>0, <1>8, <2>1, ChipStores DEF Answer, TypeChip
<1>9. CASE Finish
  <2>1. chip.cmd \in Commands
    BY <1>0, <1>9 DEF Finish, Busy, Chips
  <2>2. PICK ok \in BOOLEAN :
          chip' = [chip EXCEPT !.cmd = "none", !.sent = FALSE,
                               !.last = [cmd |-> chip.cmd, ok |-> ok],
                               !.alert = @ \cup {"done"},
                               !.role = IF ok /\ chip.cmd = "DR_SWAP" THEN "dfp" ELSE @]
    BY <1>9 DEF Finish
  <2>3. (IF ok /\ chip.cmd = "DR_SWAP" THEN "dfp" ELSE chip.role) \in {"none", "ufp", "dfp"}
    BY <1>0 DEF Chips
  <2>. QED BY <1>0, <2>1, <2>2, <2>3, ChipStores DEF TypeChip
<1>10. CASE Plug \/ Unplug
  BY <1>0, <1>10, ChipStores DEF Plug, Unplug, TypeChip
<1>11. CASE UNCHANGED chip
  BY <1>0, <1>11 DEF TypeChip
<1>12. (\E s \in {"PULSE", "SETTLE", "SYS_RESET"} : ShortWait(s)) \/ Pulsed \/ Settled \/ IrqWaited
       \/ Configured \/ NoAnswer \/ Announce \/ Pass \/ UNCHANGED vars
       => UNCHANGED chip
  BY DEF ShortWait, Pulsed, Settled, IrqWaited, Configured, NoAnswer, Announce, Pass, vars
<1>. QED BY <1>1, <1>2, <1>3, <1>4, <1>5, <1>6, <1>7, <1>8, <1>9, <1>10, <1>11, <1>12
         DEF Next, Tick, ResetStep, User, World

\* What is plugged in.
LEMMA PortStep == Types /\ [Next]_vars => TypePort'
<1> SUFFICES ASSUME Types, [Next]_vars PROVE TypePort'
  OBVIOUS
<1>0. /\ port \in Ports /\ port.light \in BOOLEAN /\ port.dp \in BOOLEAN /\ port.age \in Ages
      /\ port.owed \in Asks \cup {"none"} /\ d.led \in BOOLEAN /\ d.dpOn \in BOOLEAN
  BY DEF Types, TypePort, TypeDock, Ports, Handshakes
<1>1. CASE ActReset \/ NoAnswer \/ Announce
  BY <1>0, <1>1, PortStores DEF ActReset, NoAnswer, Announce, TypePort
<1>2. CASE Leave
  <2>1. port' = [port EXCEPT !.light = @ /\ ~d.led, !.dp = @ /\ ~d.dpOn] \/ port' = port
    BY <1>2 DEF Leave, DockStop
  <2>2. (port.light /\ ~d.led) \in BOOLEAN /\ (port.dp /\ ~d.dpOn) \in BOOLEAN BY <1>0
  <2>. QED BY <1>0, <2>1, <2>2, PortStores DEF TypePort
<1>3. CASE Pass
  <2>1. (IF port.age <= StepTimeout /\ port.kind # "none" THEN port.age + 1 ELSE port.age) \in Ages
    BY <1>0, AgeFacts
  <2>2. port' = [port EXCEPT !.age = IF @ <= StepTimeout /\ port.kind # "none"
                                     THEN @ + 1 ELSE @]
    BY <1>3 DEF Pass
  <2>. QED BY <1>0, <2>1, <2>2, PortStores DEF TypePort
<1>4. CASE Transmit
  <2>1. (port.light \/ chip.cmd = "LED") \in BOOLEAN BY <1>0
  <2>2. chip.cmd \in Asks BY <1>4 DEF Transmit
  <2>3. \/ port' = port
        \/ port' = [port EXCEPT !.owed = chip.cmd, !.light = @ \/ chip.cmd = "LED"]
    BY <1>4 DEF Transmit
  <2>. QED BY <1>0, <2>1, <2>2, <2>3, PortStores DEF TypePort
<1>5. CASE Answer
  <2>1. PICK ok \in BOOLEAN :
          port' = [port EXCEPT !.owed = "none",
                               !.inbox = IF port.owed = "RDO" THEN @
                                         ELSE [to |-> port.owed, ok |-> ok]]
    BY <1>5 DEF Answer
  <2>2. CASE port.owed = "RDO"
    <3>1. port' = [port EXCEPT !.owed = "none"]
      BY <1>0, <2>1, <2>2 DEF Ports
    <3>. QED BY <1>0, <3>1, PortStores DEF TypePort
  <2>3. CASE port.owed # "RDO"
    <3>1. port.owed \in Messages BY <1>0, <1>5, <2>3 DEF Answer, Asks
    <3>2. port' = [port EXCEPT !.owed = "none", !.inbox = [to |-> port.owed, ok |-> ok]]
      BY <2>1, <2>3
    <3>. QED BY <1>0, <3>1, <3>2, PortStores DEF TypePort
  <2>. QED BY <2>2, <2>3
<1>6. CASE Finish
  <2>1. PICK b \in BOOLEAN : port' = [port EXCEPT !.dp = b]
    <3>1. PICK ok \in BOOLEAN :
            port' = [port EXCEPT !.dp = CASE ok /\ chip.cmd = "DP_ENTER"  -> port.kind # "none"
                                          [] ok /\ chip.cmd = "SYS_RESET" -> FALSE
                                          [] OTHER                        -> @]
      BY <1>6 DEF Finish
    <3>2. CASE ok /\ chip.cmd = "DP_ENTER"
      <4>1. port' = [port EXCEPT !.dp = (port.kind # "none")] BY <3>1, <3>2
      <4>. QED BY <4>1
    <3>3. CASE ok /\ chip.cmd = "SYS_RESET"
      <4>1. port' = [port EXCEPT !.dp = FALSE] BY <3>1, <3>3
      <4>. QED BY <4>1
    <3>4. CASE ~(ok /\ chip.cmd = "DP_ENTER") /\ ~(ok /\ chip.cmd = "SYS_RESET")
      <4>1. port' = [port EXCEPT !.dp = port.dp] BY <3>1, <3>4
      <4>. QED BY <1>0, <4>1
    <3>. QED BY <3>2, <3>3, <3>4
  <2>. QED BY <1>0, <2>1, PortStores DEF TypePort
<1>7. CASE Plug \/ Unplug
  BY <1>7, FirstRecords DEF Plug, Unplug, TypePort
<1>8. CASE UNCHANGED port
  BY <1>0, <1>8 DEF TypePort
<1>9. ReadAlerts \/ DockStep \/ ResetStep \/ View \/ ActStart \/ Open \/ ChipBoots \/ Trouble
      \/ UNCHANGED vars => UNCHANGED port
  BY DockStepEnds
     DEF ReadAlerts, Ended, EndTick, ResetStep, ShortWait, Pulsed, Settled, IrqWaited, IdWaited,
         SysReset, Configured, View, ActStart, Open, ChipBoots, Trouble, vars
<1>. QED BY <1>1, <1>2, <1>3, <1>4, <1>5, <1>6, <1>7, <1>8, <1>9 DEF Next, Tick, User, World

\* What is left of the bounds.
LEMMA LeftStep == Types /\ [Next]_vars => TypeLeft'
<1> SUFFICES ASSUME Types, [Next]_vars PROVE TypeLeft'
  OBVIOUS
<1>0. left \in Bounds BY DEF Types, TypeLeft
<1>1. /\ left.runs > 0 => [left EXCEPT !.runs = @ - 1] \in Bounds
      /\ left.plugs > 0 => [left EXCEPT !.plugs = @ - 1] \in Bounds
      /\ left.busy > 0 => [left EXCEPT !.busy = @ - 1] \in Bounds
      /\ [left EXCEPT !.busy = left.busy] \in Bounds
  <2>1. /\ left.runs > 0 => left.runs - 1 \in 0 .. MaxRuns
        /\ left.plugs > 0 => left.plugs - 1 \in 0 .. MaxPlugs
        /\ left.busy > 0 => left.busy - 1 \in 0 .. MaxBusy
        /\ left.busy \in 0 .. MaxBusy
    BY <1>0, WaitsAssumption DEF Bounds
  <2>. QED BY <1>0, <2>1 DEF Bounds
<1>2. CASE ActStart BY <1>1, <1>2 DEF ActStart, TypeLeft
<1>3. CASE Answer
  <2>1. PICK b \in BOOLEAN : /\ b => left.busy > 0
                             /\ left' = [left EXCEPT !.busy = IF b THEN @ - 1 ELSE @]
    BY <1>3 DEF Answer
  <2>2. CASE b BY <1>1, <2>1, <2>2 DEF TypeLeft
  <2>3. CASE ~b BY <1>1, <2>1, <2>3 DEF TypeLeft
  <2>. QED BY <2>2, <2>3
<1>4. CASE Plug BY <1>1, <1>4 DEF Plug, TypeLeft
<1>5. CASE UNCHANGED left
  BY <1>0, <1>5 DEF TypeLeft
<1>6. ReadAlerts \/ DockStep \/ ResetStep \/ View \/ ActReset \/ Leave \/ Open \/ Pass
      \/ UNCHANGED vars => UNCHANGED left
  BY DockStepEnds, ResetEnding
     DEF ReadAlerts, Ended, EndTick, ResetTo, View, ActReset, Leave, Open, Pass, vars
<1>7. ChipBoots \/ Transmit \/ NoAnswer \/ Finish \/ Trouble \/ Unplug \/ Announce
      => UNCHANGED left
  BY DEF ChipBoots, Transmit, NoAnswer, Finish, Trouble, Unplug, Announce
<1>. QED BY <1>2, <1>3, <1>4, <1>5, <1>6, <1>7 DEF Next, Tick, User, World

-----------------------------------------------------------------------------
(* What a handshake's step does to the command it waits for.               *)

\* A handshake steps only while no reset goes on, and the reset has been over
\* since before the first command.
Alone ==
    /\ pc = "read" => resetting = FALSE
    /\ d.state \notin {"IDLE", "WAIT_PLUG", "DONE", "FAILED"}
         => resetting = FALSE /\ chip.power # "reset"

\* The light is recorded once its message is accepted.
LightRecorded ==
    d.led = TRUE => d.state \in {"LED_ACC", "HUB_SENT", "HUB_ACC", "DONE", "FAILED", "IDLE"}

\* A state that waits for a command's end: the light's, once on, waits for time.
Waiting == d.state \in CommandStates /\ (d.state = "LED_ACC" => d.led = FALSE)

\* What it waits for runs, or has ended and its done bit is still to be taken.
OwedCompletion ==
    Waiting /\ chip.power = "up" =>
      \/ chip.cmd = WaitsFor[d.state]
      \/ /\ chip.cmd = "none" /\ chip.last.cmd = WaitsFor[d.state]
         /\ "done" \in chip.alert \cup d.alerts
LightEnded ==
    d.state = "LED_ACC" /\ d.led = TRUE /\ chip.power = "up"
      => chip.cmd = "none" /\ chip.last.cmd = "ACCEPT"

Inv == Types /\ LineRestsLow /\ Alone /\ LightRecorded /\ OwedCompletion /\ LightEnded

\* What a handshake's step may be: a command and the state that waits for it;
\* a step to where no command is waited for; a wait; the light's record; time.
Issues(next) ==
    /\ next \in CommandStates
    /\ d'.state = next /\ d'.led = d.led /\ chip' = Issue(chip, WaitsFor[next])
    /\ next = "LED_ACC" => d.state = "LED_SENT"
    /\ d.led = TRUE => next = "HUB_ACC"
    /\ d.state # "WAIT_PLUG"
Elsewhere ==
    /\ d'.state \notin CommandStates /\ chip'.power = chip.power
    /\ d'.led = TRUE => d'.state \in {"HUB_SENT", "DONE", "FAILED"}
    /\ d'.state \notin {"WAIT_PLUG", "DONE", "FAILED"} => d.state # "WAIT_PLUG" \/ Answers
Waits ==
    /\ d.state \in CommandStates /\ In(d.state) /\ CmdDone = "wait"
    /\ d' = Take(d, "done") /\ chip' = chip
Lights ==
    /\ Completed("LED_ACC") /\ d.led = FALSE
    /\ d'.state = "LED_ACC" /\ d'.led = TRUE /\ chip' = chip
Nothing == d' = d /\ chip' = chip

Moves == (\E next \in CommandStates : Issues(next)) \/ Elsewhere \/ Waits \/ Lights \/ Nothing

\* What stays, and what changes, when a tick ends.
LEMMA EndTickMoves ==
    ASSUME NEW dd, NEW c \in Chips, EndTick(dd, c)
    PROVE  /\ d' = dd /\ chip'.power = c.power
           /\ dd.state \notin {"DONE", "FAILED"} => chip' = c
BY DEF EndTick, Chips

\* A command issued changes nothing of the controller's power.
LEMMA IssueKeeps ==
    ASSUME NEW c \in Chips, NEW cmd
    PROVE  Issue(c, cmd).power = c.power /\ (c.power = "up" => Issue(c, cmd).cmd = cmd)
BY DEF Issue, Chips

\* What the words of the handshake leave alone.
LEMMA DockKeeps ==
    ASSUME NEW dd \in Handshakes
    PROVE  /\ \A s \in DockStates : Go(dd, s).led = dd.led
           /\ \A w \in Reasons : Fail(dd, w).led = dd.led
           /\ \A b \in Alerts : Take(dd, b).led = dd.led /\ Take(dd, b).tries = dd.tries
           /\ \A cmd \in Commands, s \in DockStates : CmdGo(dd, cmd, s).led = dd.led
BY DEF Go, Fail, Take, CmdGo, Handshakes

\* A step that fails, that goes on, that sends a message.
LEMMA StepKinds ==
    ASSUME NEW dd \in Handshakes, chip \in Chips
    PROVE  /\ \A w \in Reasons : Stay(Fail(dd, w)) =>
                 d'.state = "FAILED" /\ d'.why = w /\ d'.led = dd.led /\ chip'.power = chip.power
           /\ \A n \in DockStates : Stay(Go(dd, n)) =>
                 d'.state = n /\ d'.led = dd.led /\ chip'.power = chip.power
           /\ \A msg \in Messages, n \in DockStates : SendVdm(dd, msg, n) =>
                 /\ d'.state \in {n, "FAILED"} /\ d'.led = dd.led /\ chip'.power = chip.power
                 /\ d'.state = "FAILED" /\ n # "FAILED" => d'.why = "unwritten"
           /\ \A cmd \in Commands, n \in CommandStates : Command(dd, cmd, n) =>
                 d'.state = n /\ d'.led = dd.led /\ chip' = Issue(chip, cmd)
<1>1. ASSUME NEW w \in Reasons, Stay(Fail(dd, w))
      PROVE  d'.state = "FAILED" /\ d'.why = w /\ d'.led = dd.led /\ chip'.power = chip.power
  <2>1. d' = Fail(dd, w) /\ chip'.power = chip.power BY <1>1, EndTickMoves DEF Stay
  <2>2. Fail(dd, w).state = "FAILED" /\ Fail(dd, w).why = w BY DockStores
  <2>3. Fail(dd, w).led = dd.led BY DockKeeps
  <2>. QED BY <2>1, <2>2, <2>3
<1>2. ASSUME NEW n \in DockStates, Stay(Go(dd, n))
      PROVE  d'.state = n /\ d'.led = dd.led /\ chip'.power = chip.power
  <2>1. d' = Go(dd, n) /\ chip'.power = chip.power BY <1>2, EndTickMoves DEF Stay
  <2>2. Go(dd, n).state = n /\ Go(dd, n).led = dd.led BY DockStores, DockKeeps
  <2>. QED BY <2>1, <2>2
<1>3. ASSUME NEW msg \in Messages, NEW n \in DockStates, SendVdm(dd, msg, n)
      PROVE  /\ d'.state \in {n, "FAILED"} /\ d'.led = dd.led /\ chip'.power = chip.power
             /\ d'.state = "FAILED" /\ n # "FAILED" => d'.why = "unwritten"
  <2>1. CASE EndTick(Go(dd, n), Issue(chip, msg))
    <3>1. msg \in Commands BY DEF Commands, Asks
    <3>2. Issue(chip, msg) \in Chips /\ Issue(chip, msg).power = chip.power
      BY <3>1, ChipStores, IssueKeeps
    <3>3. d' = Go(dd, n) /\ chip'.power = chip.power BY <2>1, <3>2, EndTickMoves
    <3>4. Go(dd, n).state = n /\ Go(dd, n).led = dd.led BY DockStores, DockKeeps
    <3>. QED BY <3>3, <3>4
  <2>2. CASE Stay(Fail(dd, "unwritten"))
    <3>1. "unwritten" \in Reasons BY DEF Reasons
    <3>. QED BY <1>1, <2>2, <3>1
  <2>. QED BY <1>3, <2>1, <2>2 DEF SendVdm
<1>4. ASSUME NEW cmd \in Commands, NEW n \in CommandStates, Command(dd, cmd, n)
      PROVE  d'.state = n /\ d'.led = dd.led /\ chip' = Issue(chip, cmd)
  <2>1. n \in DockStates /\ n \notin {"DONE", "FAILED"}
    BY DEF CommandStates, ReplyStates, DockStates
  <2>2. CmdGo(dd, cmd, n).state = n /\ CmdGo(dd, cmd, n).led = dd.led
    BY <2>1, DockStores, DockKeeps
  <2>3. Issue(chip, cmd) \in Chips BY ChipStores
  <2>. QED BY <1>4, <2>1, <2>2, <2>3, EndTickMoves DEF Command
<1>. QED BY <1>1, <1>2, <1>3, <1>4

\* Where no command is waited for, and which command is waited for where.
LEMMA WaitFacts ==
    /\ CommandStates \cap (MessageStates \cup {"IDLE", "WAIT_PLUG", "RDO_SENT", "HPD_WAIT",
                                               "DONE", "FAILED"}) = {}
    /\ {"IDLE", "DONE", "FAILED", "HPD_WAIT", "RDO_SENT", "WAIT_PLUG"} \cap MessageStates = {}
    /\ \A s \in MessageStates : /\ WaitsFor[Reply[s]] = "ACCEPT"
                                /\ Reply[s] = "LED_ACC" => s = "LED_SENT"
                                /\ s = "HUB_SENT" => Reply[s] = "HUB_ACC"
    /\ WaitsFor["PS_RDY_SENT"] = "PS_RDY" /\ WaitsFor["DR_SWAP_SENT"] = "DR_SWAP"
    /\ WaitsFor["DP_ENTER_SENT"] = "DP_ENTER" /\ WaitsFor["DP_CFG_SENT"] = "DP_CFG"
    /\ WaitsFor["LED_ACC"] = "ACCEPT"
    /\ \A s \in CommandStates : WaitsFor[s] \in Commands /\ WaitsFor[s] # "none"
BY DEF CommandStates, ReplyStates, MessageStates, Reply, WaitsFor, Commands

\* A completed command: the controller is up, idle, and completed that very one.
LEMMA CompletionIsOwn ==
    ASSUME Inv, NEW s \in CommandStates, In(s), s = "LED_ACC" => d.led = FALSE,
           CmdDone \in {"done", "refused"}
    PROVE  Busy = FALSE /\ chip.cmd = "none" /\ chip.last.cmd = WaitsFor[s]
<1>1. d.state = s /\ s # "WAIT_PLUG" BY WaitFacts DEF In
<1>2. chip.power = "up" BY <1>1 DEF In, Connected, Plugged, Answers
<1>3. ~Busy BY DEF CmdDone
<1>4. chip.cmd = "none" BY <1>2, <1>3 DEF Busy, Answers
<1>5. WaitsFor[s] # "none" BY WaitFacts
<1>. QED BY <1>1, <1>2, <1>3, <1>4, <1>5 DEF Inv, OwedCompletion, Waiting, Busy

\* Silence: the command still runs, or its done bit came after the read.
LEMMA SilenceIsOfThisCommand ==
    ASSUME Inv, NEW s \in CommandStates, In(s), s = "LED_ACC" => d.led = FALSE,
           CmdDone = "silent"
    PROVE  Busy \/ "done" \in chip.alert
<1>1. d.state = s /\ s # "WAIT_PLUG" BY WaitFacts DEF In
<1>2. chip.power = "up" BY <1>1 DEF In, Connected, Plugged, Answers
<1>3. "done" \notin d.alerts BY DEF CmdDone
<1>4. WaitsFor[s] # "none" BY WaitFacts
<1>. QED BY <1>1, <1>2, <1>3, <1>4 DEF Inv, OwedCompletion, Waiting, Busy, Answers

\* Every step of a handshake is one of the kinds, and one that leaves a
\* command's state does so on that command's own end; a command called silent
\* was.
OwnStep ==
    /\ \A s \in CommandStates :
          pc = "read" /\ d.state = s
          /\ (d'.state \notin {s, "FAILED"} \/ (d'.state = "FAILED" /\ d'.why = "refused"))
          => ~Busy /\ chip.last.cmd = WaitsFor[s]
    /\ d.state # "FAILED" /\ d'.state = "FAILED" /\ d'.why = "no answer"
       => Busy \/ "done" \in chip.alert

\* Waiting for the cable, for the source, for a reply.
LEMMA WaitPlugMoves == Inv /\ WaitPlug => Moves /\ OwnStep
<1> SUFFICES ASSUME Inv, WaitPlug PROVE Moves /\ OwnStep
  OBVIOUS
<1> DEFINE seen == IF Plugged /\ ~d.plugSeen
                   THEN [d EXCEPT !.plugSeen = TRUE, !.age = 0] ELSE d
<1>0. d \in Handshakes /\ chip \in Chips /\ d.state = "WAIT_PLUG"
  BY DEF Inv, Types, TypeDock, TypeChip, WaitPlug, In
<1>a. d.led # TRUE
  <2>1. "WAIT_PLUG" \notin {"LED_ACC", "HUB_SENT", "HUB_ACC", "DONE", "FAILED", "IDLE"} OBVIOUS
  <2>. QED BY <1>0, <2>1 DEF Inv, LightRecorded
<1>1. seen \in Handshakes /\ seen.state = "WAIT_PLUG" /\ seen.led = d.led
  <2>1. seen \in Handshakes BY <1>0, DockFields
  <2>2. seen.state = "WAIT_PLUG" /\ seen.led = d.led BY <1>0 DEF Handshakes
  <2>. QED BY <2>1, <2>2
<1>2. \/ Stay(seen) \/ Stay(Fail(seen, "no profiles")) \/ Stay(Fail(seen, "none fits"))
      \/ /\ Plugged
         /\ EndTick(Go([seen EXCEPT !.alerts = {}], "RDO_SENT"), Issue(chip, "RDO"))
  BY DEF WaitPlug
<1>3. [seen EXCEPT !.alerts = {}] \in Handshakes /\ [seen EXCEPT !.alerts = {}].led = d.led
  <2>1. [seen EXCEPT !.alerts = {}] \in Handshakes BY <1>1, DockFields
  <2>2. [seen EXCEPT !.alerts = {}].led = seen.led BY <1>1 DEF Handshakes
  <2>. QED BY <1>1, <2>1, <2>2
<1> HIDE DEF seen
<1>4. /\ d'.state \in {"WAIT_PLUG", "FAILED", "RDO_SENT"} /\ d'.led = d.led
      /\ chip'.power = chip.power
      /\ d'.state = "RDO_SENT" => Answers
      /\ d'.state = "FAILED" => d'.why \in {"no profiles", "none fits"}
  <2>1. CASE Stay(seen)
    <3>1. d' = seen /\ chip'.power = chip.power BY <1>0, <2>1, EndTickMoves DEF Stay
    <3>. QED BY <1>1, <3>1
  <2>2. CASE Stay(Fail(seen, "no profiles")) \/ Stay(Fail(seen, "none fits"))
    <3>1. {"no profiles", "none fits"} \subseteq Reasons BY DEF Reasons
    <3>. QED BY <1>0, <1>1, <2>2, <3>1, StepKinds
  <2>3. CASE /\ Plugged
             /\ EndTick(Go([seen EXCEPT !.alerts = {}], "RDO_SENT"), Issue(chip, "RDO"))
    <3>1. "RDO" \in Commands /\ "RDO_SENT" \in DockStates BY Names
    <3>2. Issue(chip, "RDO") \in Chips /\ Issue(chip, "RDO").power = chip.power
      BY <1>0, <3>1, ChipStores, IssueKeeps
    <3>3. d' = Go([seen EXCEPT !.alerts = {}], "RDO_SENT") /\ chip'.power = chip.power
      BY <2>3, <3>2, EndTickMoves
    <3>4. d'.state = "RDO_SENT" /\ d'.led = d.led
      BY <1>3, <3>1, <3>3, DockStores, DockKeeps
    <3>. QED BY <2>3, <3>3, <3>4 DEF Plugged
  <2>. QED BY <1>2, <2>1, <2>2, <2>3
<1>5. Elsewhere BY <1>a, <1>4, WaitFacts DEF Elsewhere
<1>6. OwnStep BY <1>0, <1>4, WaitFacts DEF OwnStep
<1>. QED BY <1>5, <1>6 DEF Moves

\* The source's contract and the other end's replies.
LEMMA ReplyMoves == Inv /\ (RdoSent \/ MessageSent) => Moves /\ OwnStep
<1> SUFFICES ASSUME Inv, RdoSent \/ MessageSent PROVE Moves /\ OwnStep
  OBVIOUS
<1>0. d \in Handshakes /\ chip \in Chips /\ {"no contract", "no reply"} \subseteq Reasons
      /\ Take(d, "contract") \in Handshakes /\ Take(d, "contract").led = d.led
      /\ Take(d, "vdm") \in Handshakes /\ Take(d, "vdm").led = d.led
  <2>1. d \in Handshakes /\ chip \in Chips /\ {"no contract", "no reply"} \subseteq Reasons
    BY DEF Inv, Types, TypeDock, TypeChip, Reasons
  <2>2. "contract" \in Alerts /\ "vdm" \in Alerts BY DEF Alerts
  <2>. QED BY <2>1, <2>2, DockStores, DockKeeps
<1>1. PICK s \in MessageStates \cup {"RDO_SENT"}, n \in CommandStates :
        /\ d.state = s
        /\ n = (IF s = "RDO_SENT" THEN "PS_RDY_SENT" ELSE Reply[s])
        /\ \/ Stay(d)
           \/ Stay(Fail(d, "no contract")) \/ Stay(Fail(d, "no reply"))
           \/ Command(Take(d, "contract"), WaitsFor[n], n)
           \/ Command(Take(d, "vdm"), WaitsFor[n], n)
  <2>1. CASE RdoSent
    <3>1. "PS_RDY_SENT" \in CommandStates BY Names
    <3>2. d.state = "RDO_SENT" BY <2>1 DEF RdoSent, In
    <3>3. \/ Stay(d) \/ Stay(Fail(d, "no contract"))
          \/ Command(Take(d, "contract"), WaitsFor["PS_RDY_SENT"], "PS_RDY_SENT")
      BY <2>1, WaitFacts DEF RdoSent
    <3>. QED BY <3>1, <3>2, <3>3
  <2>2. CASE MessageSent
    <3>1. PICK s \in MessageStates :
            /\ d.state = s
            /\ \/ Command(Take(d, "vdm"), "ACCEPT", Reply[s])
               \/ Stay(Fail(d, "no reply"))
               \/ Stay(d)
      BY <2>2 DEF MessageSent, In
    <3>2. Reply[s] \in CommandStates /\ s # "RDO_SENT" /\ WaitsFor[Reply[s]] = "ACCEPT"
      BY Names, WaitFacts
    <3>. QED BY <3>1, <3>2
  <2>. QED BY <2>1, <2>2
<1>2. s \notin CommandStates /\ s \notin {"WAIT_PLUG", "FAILED"} BY WaitFacts
<1>3. CASE Stay(d)
  <2>1. d' = d /\ chip'.power = chip.power /\ (d.state \notin {"DONE", "FAILED"} => chip' = chip)
    BY <1>0, <1>3, EndTickMoves DEF Stay
  <2>2. s \notin {"DONE", "FAILED"} BY WaitFacts
  <2>3. Nothing BY <1>1, <2>1, <2>2 DEF Nothing
  <2>4. OwnStep BY <1>1, <1>2, <2>1 DEF OwnStep
  <2>. QED BY <2>3, <2>4 DEF Moves
<1>4. CASE Stay(Fail(d, "no contract")) \/ Stay(Fail(d, "no reply"))
  <2>1. /\ d'.state = "FAILED" /\ d'.why \in {"no contract", "no reply"}
        /\ chip'.power = chip.power
    BY <1>0, <1>4, StepKinds
  <2>2. Elsewhere BY <2>1, WaitFacts DEF Elsewhere
  <2>3. OwnStep BY <1>1, <1>2, <2>1 DEF OwnStep
  <2>. QED BY <2>2, <2>3 DEF Moves
<1>5. CASE \/ Command(Take(d, "contract"), WaitsFor[n], n)
           \/ Command(Take(d, "vdm"), WaitsFor[n], n)
  <2>1. WaitsFor[n] \in Commands BY WaitFacts
  <2>2. d'.state = n /\ d'.led = d.led /\ chip' = Issue(chip, WaitsFor[n])
    BY <1>0, <1>5, <2>1, StepKinds
  <2>3. n # "FAILED" BY WaitFacts
  <2>4. n = "LED_ACC" => d.state = "LED_SENT"
    BY <1>1, WaitFacts
  <2>5. d.led = TRUE => n = "HUB_ACC"
    <3>1. d.led = TRUE => s \in {"LED_ACC", "HUB_SENT", "HUB_ACC", "DONE", "FAILED", "IDLE"}
      BY <1>1 DEF Inv, LightRecorded
    <3>2. d.led = TRUE => s = "HUB_SENT"
      BY <3>1, Names, WaitFacts
    <3>. QED BY <1>1, <3>2, WaitFacts
  <2>6. Issues(n) BY <1>1, <1>2, <2>2, <2>4, <2>5 DEF Issues
  <2>7. OwnStep BY <1>1, <1>2, <2>2, <2>3 DEF OwnStep
  <2>. QED BY <2>6, <2>7 DEF Moves
<1>. QED BY <1>1, <1>3, <1>4, <1>5

\* Waiting for a command's end.
LEMMA AwaitMoves == Inv /\ AwaitCommand => Moves /\ OwnStep
<1> SUFFICES ASSUME Inv, AwaitCommand PROVE Moves /\ OwnStep
  OBVIOUS
<1>0. /\ d \in Handshakes /\ chip \in Chips /\ {"no answer", "refused"} \subseteq Reasons
  BY DEF Inv, Types, TypeDock, TypeChip, Reasons
<1>1. /\ Take(d, "done") \in Handshakes /\ Take(d, "done").state = d.state
      /\ Take(d, "done").led = d.led
  <2>1. "done" \in Alerts BY DEF Alerts
  <2>. QED BY <1>0, <2>1, DockStores, DockKeeps
<1>2. PICK s \in CommandStates :
        /\ In(s) /\ (s = "LED_ACC" => ~d.led)
        /\ \/ CmdDone = "wait" /\ Stay(Take(d, "done"))
           \/ CmdDone = "silent" /\ Stay(Fail(d, "no answer"))
           \/ CmdDone = "refused" /\ Stay(Fail(Take(d, "done"), "refused"))
  BY DEF AwaitCommand
<1>3. d.state = s /\ s \notin {"DONE", "FAILED"} /\ (s = "LED_ACC" => d.led = FALSE)
  <2>1. d.led \in BOOLEAN BY <1>0 DEF Handshakes
  <2>. QED BY <1>2, <2>1, WaitFacts DEF In
<1>4. CASE CmdDone = "wait" /\ Stay(Take(d, "done"))
  <2>1. d' = Take(d, "done") /\ chip' = chip
    BY <1>0, <1>1, <1>3, <1>4, EndTickMoves DEF Stay
  <2>2. Waits BY <1>2, <1>3, <1>4, <2>1 DEF Waits
  <2>3. OwnStep BY <1>1, <1>3, <2>1 DEF OwnStep
  <2>. QED BY <2>2, <2>3 DEF Moves
<1>5. CASE CmdDone = "silent" /\ Stay(Fail(d, "no answer"))
  <2>1. d'.state = "FAILED" /\ d'.why = "no answer" /\ chip'.power = chip.power
    BY <1>0, <1>5, StepKinds
  <2>2. Busy \/ "done" \in chip.alert BY <1>2, <1>3, <1>5, SilenceIsOfThisCommand
  <2>3. Elsewhere BY <2>1, WaitFacts DEF Elsewhere
  <2>4. OwnStep BY <2>1, <2>2 DEF OwnStep
  <2>. QED BY <2>3, <2>4 DEF Moves
<1>6. CASE CmdDone = "refused" /\ Stay(Fail(Take(d, "done"), "refused"))
  <2>1. d'.state = "FAILED" /\ d'.why = "refused" /\ chip'.power = chip.power
    BY <1>0, <1>1, <1>6, StepKinds
  <2>2. Busy = FALSE /\ chip.last.cmd = WaitsFor[s] BY <1>2, <1>3, <1>6, CompletionIsOwn
  <2>3. Elsewhere BY <2>1, WaitFacts DEF Elsewhere
  <2>4. OwnStep BY <1>3, <2>1, <2>2 DEF OwnStep
  <2>. QED BY <2>3, <2>4 DEF Moves
<1>. QED BY <1>2, <1>4, <1>5, <1>6

\* On a completion: a failure, the end, a message, or the next command.
LEMMA CompletedMoves ==
    ASSUME Inv, NEW s \in CommandStates, Completed(s), s = "LED_ACC" => d.led = FALSE,
           NEW dd \in Handshakes, dd.led = d.led,
           \/ \E w \in Reasons \ {"no answer"} : Stay(Fail(dd, w))
           \/ \E n \in {"DONE", "HPD_WAIT"} : Stay(Go(dd, n)) /\ (n = "DONE" \/ d.led = FALSE)
           \/ \E m \in Messages, n \in MessageStates :
                 SendVdm(dd, m, n) /\ (n = "HUB_SENT" \/ d.led = FALSE)
           \/ /\ d.led = FALSE
              /\ \E n \in CommandStates \ ReplyStates : Command(dd, WaitsFor[n], n)
    PROVE  Moves /\ OwnStep
<1>0. /\ d.state = s /\ In(s) /\ CmdDone = "done" /\ chip \in Chips /\ d.led \in BOOLEAN
      /\ s \notin {"WAIT_PLUG", "FAILED"}
  BY WaitFacts DEF Completed, In, Inv, Types, TypeDock, TypeChip, Handshakes
<1>1. Busy = FALSE /\ chip.last.cmd = WaitsFor[s] BY <1>0, CompletionIsOwn
<1>2. CASE \E w \in Reasons \ {"no answer"} : Stay(Fail(dd, w))
  <2>1. d'.state = "FAILED" /\ d'.why # "no answer" /\ chip'.power = chip.power
    BY <1>0, <1>2, StepKinds
  <2>2. Elsewhere BY <2>1, WaitFacts DEF Elsewhere
  <2>3. OwnStep BY <1>0, <1>1, <2>1 DEF OwnStep
  <2>. QED BY <2>2, <2>3 DEF Moves
<1>3. CASE \E n \in {"DONE", "HPD_WAIT"} : Stay(Go(dd, n)) /\ (n = "DONE" \/ d.led = FALSE)
  <2>1. {"DONE", "HPD_WAIT"} \subseteq DockStates BY Names
  <2>2. /\ d'.state \in {"DONE", "HPD_WAIT"} /\ d'.led = d.led /\ chip'.power = chip.power
        /\ d.led = TRUE => d'.state = "DONE"
    BY <1>0, <1>3, <2>1, StepKinds
  <2>3. d'.state \notin CommandStates /\ d'.state # "FAILED" BY <2>2, WaitFacts
  <2>4. Elsewhere BY <1>0, <2>2, <2>3 DEF Elsewhere
  <2>5. OwnStep BY <1>0, <1>1, <2>3 DEF OwnStep
  <2>. QED BY <2>4, <2>5 DEF Moves
<1>4. CASE \E m \in Messages, n \in MessageStates :
              SendVdm(dd, m, n) /\ (n = "HUB_SENT" \/ d.led = FALSE)
  <2>1. PICK m \in Messages, n \in MessageStates :
          SendVdm(dd, m, n) /\ (n = "HUB_SENT" \/ d.led = FALSE)
    BY <1>4
  <2>2. n \in DockStates /\ n # "FAILED" BY Names, WaitFacts
  <2>3. /\ d'.state \in {n, "FAILED"} /\ d'.led = d.led /\ chip'.power = chip.power
        /\ d'.state = "FAILED" => d'.why = "unwritten"
    BY <1>0, <2>1, <2>2, StepKinds
  <2>4. d'.state \notin CommandStates /\ (d.led = TRUE => d'.state \in {"HUB_SENT", "FAILED"})
    BY <2>1, <2>3, WaitFacts
  <2>5. Elsewhere BY <1>0, <2>3, <2>4 DEF Elsewhere
  <2>6. OwnStep BY <1>0, <1>1, <2>3 DEF OwnStep
  <2>. QED BY <2>5, <2>6 DEF Moves
<1>5. CASE /\ d.led = FALSE
           /\ \E n \in CommandStates \ ReplyStates : Command(dd, WaitsFor[n], n)
  <2>1. PICK n \in CommandStates \ ReplyStates : Command(dd, WaitsFor[n], n) BY <1>5
  <2>2. WaitsFor[n] \in Commands /\ n # "FAILED" BY WaitFacts
  <2>3. d'.state = n /\ d'.led = d.led /\ chip' = Issue(chip, WaitsFor[n])
    BY <1>0, <2>1, <2>2, StepKinds
  <2>4. n # "LED_ACC" BY <2>1 DEF ReplyStates
  <2>5. Issues(n) BY <1>0, <1>5, <2>3, <2>4 DEF Issues
  <2>6. OwnStep BY <1>0, <1>1, <2>2, <2>3 DEF OwnStep
  <2>. QED BY <2>5, <2>6 DEF Moves
<1>. QED BY <1>2, <1>3, <1>4, <1>5

\* The steps on a completed command.
LEMMA CompletionMoves ==
    Inv /\ \/ PowerReady \/ Swapped \/ Identified \/ NinEntered \/ SvidsRead \/ ModesRead
           \/ DpEntered \/ DpConfigured \/ StateRead \/ HubRead
    => Moves /\ OwnStep
<1> SUFFICES ASSUME Inv,
                    \/ PowerReady \/ Swapped \/ Identified \/ NinEntered \/ SvidsRead \/ ModesRead
                    \/ DpEntered \/ DpConfigured \/ StateRead \/ HubRead
             PROVE  Moves /\ OwnStep
  OBVIOUS
<1>0. /\ d \in Handshakes /\ Rest \in Handshakes /\ Rest.led = d.led /\ Rest.tries = d.tries
      /\ d.led \in BOOLEAN /\ port.kind \in Kinds \cup {"none"}
  <2>1. d \in Handshakes /\ port \in Ports BY DEF Inv, Types, TypeDock, TypePort
  <2>2. "done" \in Alerts BY DEF Alerts
  <2>3. d.led \in BOOLEAN /\ port.kind \in Kinds \cup {"none"} BY <2>1 DEF Handshakes, Ports
  <2>. QED BY <2>1, <2>2, <2>3, DockStores, DockKeeps DEF Rest
<1>1. /\ "no role" \in Reasons \ {"no answer"} /\ "not the host" \in Reasons \ {"no answer"}
      /\ "who" \in Reasons \ {"no answer"} /\ "refused its mode" \in Reasons \ {"no answer"}
      /\ "no modes" \in Reasons \ {"no answer"} /\ "no DisplayPort" \in Reasons \ {"no answer"}
      /\ "no pins" \in Reasons \ {"no answer"}
  BY DEF Reasons
<1>2. /\ "DR_SWAP_SENT" \in CommandStates \ ReplyStates
      /\ "DP_ENTER_SENT" \in CommandStates \ ReplyStates
      /\ "DP_CFG_SENT" \in CommandStates \ ReplyStates
  BY DEF CommandStates, ReplyStates
<1>3. \A s : Completed(s) /\ s \notin {"LED_ACC", "HUB_SENT", "HUB_ACC", "DONE", "FAILED", "IDLE"}
              => d.led = FALSE
  BY <1>0 DEF Completed, In, Inv, LightRecorded
<1>4. CASE PowerReady
  <2>1. Completed("PS_RDY_SENT") /\ "PS_RDY_SENT" \in CommandStates BY <1>4, Names DEF PowerReady
  <2>2. d.led = FALSE BY <1>3, <2>1
  <2>3. \/ Stay(Fail(Rest, "no role"))
        \/ SendVdm(Rest, "ID", "ID_SENT")
        \/ Command(Rest, WaitsFor["DR_SWAP_SENT"], "DR_SWAP_SENT")
    BY <1>4, WaitFacts DEF PowerReady
  <2>. QED BY <1>0, <1>1, <1>2, <2>1, <2>2, <2>3, Names, CompletedMoves
<1>5. CASE Swapped
  <2>1. Completed("DR_SWAP_SENT") /\ "DR_SWAP_SENT" \in CommandStates BY <1>5, Names DEF Swapped
  <2>2. d.led = FALSE BY <1>3, <2>1
  <2>3. Stay(Fail(Rest, "not the host")) \/ SendVdm(Rest, "ID", "ID_SENT") BY <1>5 DEF Swapped
  <2>. QED BY <1>0, <1>1, <2>1, <2>2, <2>3, Names, CompletedMoves
<1>6. CASE Identified
  <2> DEFINE known == [Rest EXCEPT !.nin = port.kind]
  <2>1. Completed("ID_ACC") /\ "ID_ACC" \in CommandStates BY <1>6, Names DEF Identified
  <2>2. d.led = FALSE BY <1>3, <2>1
  <2>3. port.kind \in Kinds
    <3>1. d.state = "ID_ACC" /\ Connected BY <2>1 DEF Completed, In
    <3>. QED BY <1>0, <3>1 DEF Connected, Plugged
  <2>4. known \in Handshakes /\ known.led = d.led
    <3>1. known \in Handshakes BY <1>0, <2>3, DockFields
    <3>2. known.led = Rest.led BY <1>0 DEF Handshakes
    <3>. QED BY <1>0, <3>1, <3>2
  <2>5. \/ Stay(Fail(Rest, "who"))
        \/ SendVdm(known, "NIN", "NIN_SENT") \/ SendVdm(known, "SVID", "SVID_SENT")
        \/ Stay(Go(known, "DONE"))
    BY <1>6 DEF Identified
  <2> HIDE DEF known
  <2>6. CASE Stay(Fail(Rest, "who"))
    BY <1>0, <1>1, <2>1, <2>2, <2>6, CompletedMoves
  <2>7. CASE \/ SendVdm(known, "NIN", "NIN_SENT") \/ SendVdm(known, "SVID", "SVID_SENT")
             \/ Stay(Go(known, "DONE"))
    BY <2>1, <2>2, <2>4, <2>7, Names, CompletedMoves
  <2>. QED BY <2>5, <2>6, <2>7
<1>7. CASE NinEntered
  <2>1. Completed("NIN_ACC") /\ "NIN_ACC" \in CommandStates BY <1>7, Names DEF NinEntered
  <2>2. d.led = FALSE BY <1>3, <2>1
  <2>3. \/ Stay(Fail(Rest, "refused its mode"))
        \/ Command(Rest, WaitsFor["DP_ENTER_SENT"], "DP_ENTER_SENT")
    BY <1>7, WaitFacts DEF NinEntered
  <2>. QED BY <1>0, <1>1, <1>2, <2>1, <2>2, <2>3, CompletedMoves
<1>8. CASE SvidsRead
  <2>1. Completed("SVID_ACC") /\ "SVID_ACC" \in CommandStates BY <1>8, Names DEF SvidsRead
  <2>2. d.led = FALSE BY <1>3, <2>1
  <2>3. Stay(Fail(Rest, "no modes")) \/ SendVdm(Rest, "MODE", "MODE_SENT") BY <1>8 DEF SvidsRead
  <2>. QED BY <1>0, <1>1, <2>1, <2>2, <2>3, Names, CompletedMoves
<1>9. CASE ModesRead
  <2>1. Completed("MODE_ACC") /\ "MODE_ACC" \in CommandStates BY <1>9, Names DEF ModesRead
  <2>2. d.led = FALSE BY <1>3, <2>1
  <2>3. \/ Stay(Fail(Rest, "no DisplayPort"))
        \/ Command(Rest, WaitsFor["DP_ENTER_SENT"], "DP_ENTER_SENT")
    BY <1>9, WaitFacts DEF ModesRead
  <2>. QED BY <1>0, <1>1, <1>2, <2>1, <2>2, <2>3, CompletedMoves
<1>10. CASE DpEntered
  <2>1. Completed("DP_ENTER_SENT") /\ "DP_ENTER_SENT" \in CommandStates
    BY <1>10, Names DEF DpEntered
  <2>2. d.led = FALSE BY <1>3, <2>1
  <2>3. \/ Stay(Fail(Rest, "no pins"))
        \/ Command(Rest, WaitsFor["DP_CFG_SENT"], "DP_CFG_SENT")
    BY <1>10, WaitFacts DEF DpEntered
  <2>. QED BY <1>0, <1>1, <1>2, <2>1, <2>2, <2>3, CompletedMoves
<1>11. CASE DpConfigured
  <2>1. Completed("DP_CFG_SENT") /\ "DP_CFG_SENT" \in CommandStates
    BY <1>11, Names DEF DpConfigured
  <2>2. d.led = FALSE /\ Stay(Go(Rest, "HPD_WAIT")) BY <1>3, <1>11, <2>1 DEF DpConfigured
  <2>. QED BY <1>0, <2>1, <2>2, CompletedMoves
<1>12. CASE StateRead
  <2>1. Completed("QUERY_ACC") /\ "QUERY_ACC" \in CommandStates BY <1>12, Names DEF StateRead
  <2>2. d.led = FALSE /\ SendVdm(Rest, "LED", "LED_SENT") BY <1>3, <1>12, <2>1 DEF StateRead
  <2>. QED BY <1>0, <2>1, <2>2, Names, CompletedMoves
<1>13. CASE HubRead
  <2>1. Completed("HUB_ACC") /\ "HUB_ACC" \in CommandStates /\ "HUB_ACC" # "LED_ACC"
    BY <1>13, Names DEF HubRead
  <2>2. CASE d.tries < 10 /\ SendVdm([Rest EXCEPT !.tries = @ + 1], "HUB", "HUB_SENT")
    <3> DEFINE again == [Rest EXCEPT !.tries = @ + 1]
    <3>1. again \in Handshakes BY <1>0, <2>2, DockFields
    <3>2. again.led = d.led BY <1>0 DEF Handshakes
    <3>3. SendVdm(again, "HUB", "HUB_SENT") BY <2>2
    <3> HIDE DEF again
    <3>. QED BY <2>1, <3>1, <3>2, <3>3, Names, CompletedMoves
  <2>3. CASE Stay(Go([Rest EXCEPT !.hub = Replied("HUB")], "DONE"))
    <3> DEFINE told == [Rest EXCEPT !.hub = Replied("HUB")]
    <3>1. Replied("HUB") \in BOOLEAN BY DEF Replied
    <3>2. told \in Handshakes BY <1>0, <3>1, DockFields
    <3>3. told.led = d.led BY <1>0 DEF Handshakes
    <3>4. Stay(Go(told, "DONE")) BY <2>3
    <3> HIDE DEF told
    <3>. QED BY <2>1, <3>2, <3>3, <3>4, CompletedMoves
  <2>. QED BY <1>13, <2>2, <2>3 DEF HubRead
<1>. QED BY <1>4, <1>5, <1>6, <1>7, <1>8, <1>9, <1>10, <1>11, <1>12, <1>13

\* The hot plug detect's wait, the light, and the hub's delay.
LEMMA TimedMoves == Inv /\ (HpdWaited \/ LightOn \/ HubDelayed) => Moves /\ OwnStep
<1> SUFFICES ASSUME Inv, HpdWaited \/ LightOn \/ HubDelayed PROVE Moves /\ OwnStep
  OBVIOUS
<1>0. d \in Handshakes /\ chip \in Chips BY DEF Inv, Types, TypeDock, TypeChip
<1>1. ASSUME Stay(d), d.state \in {"HPD_WAIT", "LED_ACC"} PROVE Moves /\ OwnStep
  <2>1. d' = d /\ chip' = chip BY <1>0, <1>1, EndTickMoves DEF Stay
  <2>2. Nothing BY <2>1 DEF Nothing
  <2>3. OwnStep BY <1>1, <2>1 DEF OwnStep
  <2>. QED BY <2>2, <2>3 DEF Moves
<1>2. CASE HpdWaited
  <2>1. d.state = "HPD_WAIT" BY <1>2 DEF HpdWaited, In
  <2>2. d.led # TRUE
    <3>1. "HPD_WAIT" \notin {"LED_ACC", "HUB_SENT", "HUB_ACC", "DONE", "FAILED", "IDLE"}
      OBVIOUS
    <3>. QED BY <2>1, <3>1 DEF Inv, LightRecorded
  <2>3. Stay(d) \/ SendVdm(d, "QUERY", "QUERY_SENT") \/ Stay(Go(d, "DONE"))
    BY <1>2 DEF HpdWaited
  <2>4. CASE SendVdm(d, "QUERY", "QUERY_SENT") \/ Stay(Go(d, "DONE"))
    <3>1. "QUERY_SENT" \in MessageStates /\ "QUERY_SENT" \in DockStates /\ "DONE" \in DockStates
          /\ "QUERY" \in Messages
      BY Names
    <3>2. /\ d'.state \in {"QUERY_SENT", "FAILED", "DONE"} /\ d'.led = d.led
          /\ chip'.power = chip.power
          /\ d'.state = "FAILED" => d'.why = "unwritten"
      BY <1>0, <2>4, <3>1, StepKinds
    <3>3. d'.state \notin CommandStates BY <3>1, <3>2, WaitFacts
    <3>4. Elsewhere BY <2>1, <2>2, <3>2, <3>3 DEF Elsewhere
    <3>5. "HPD_WAIT" \notin CommandStates BY WaitFacts
    <3>6. OwnStep BY <2>1, <3>2, <3>5 DEF OwnStep
    <3>. QED BY <3>4, <3>6 DEF Moves
  <2>. QED BY <1>1, <2>1, <2>3, <2>4
<1>3. CASE LightOn
  <2>1. Completed("LED_ACC") /\ d.led = FALSE /\ d.state = "LED_ACC"
    BY <1>0, <1>3 DEF LightOn, Completed, In, Handshakes
  <2> DEFINE lit == [Rest EXCEPT !.led = TRUE, !.age = 0]
  <2>2. Rest \in Handshakes /\ Rest.state = "LED_ACC"
    <3>1. "done" \in Alerts BY DEF Alerts
    <3>. QED BY <1>0, <2>1, <3>1, DockStores DEF Rest
  <2>3. lit \in Handshakes BY <2>2, DockFields
  <2>4. lit.state = "LED_ACC" /\ lit.led = TRUE BY <2>2 DEF Handshakes
  <2>5. Stay(lit) BY <1>3 DEF LightOn
  <2> HIDE DEF lit
  <2>6. d' = lit /\ chip' = chip BY <1>0, <2>4, <2>5, EndTickMoves DEF Stay
  <2>7. Lights BY <2>1, <2>4, <2>6 DEF Lights
  <2>8. OwnStep BY <2>1, <2>4, <2>6 DEF OwnStep
  <2>. QED BY <2>7, <2>8 DEF Moves
<1>4. CASE HubDelayed
  <2>1. d.led = TRUE /\ d.state = "LED_ACC" /\ In("LED_ACC")
    BY <1>0, <1>4 DEF HubDelayed, In, Handshakes
  <2>2. Stay(d) \/ SendVdm(d, "HUB", "HUB_SENT") BY <1>4 DEF HubDelayed
  <2>3. CASE SendVdm(d, "HUB", "HUB_SENT")
    <3>1. "HUB_SENT" \in MessageStates /\ "HUB_SENT" \in DockStates /\ "HUB" \in Messages
      BY Names
    <3>2. /\ d'.state \in {"HUB_SENT", "FAILED"} /\ chip'.power = chip.power
          /\ d'.state = "FAILED" => d'.why = "unwritten"
      BY <1>0, <2>3, <3>1, StepKinds
    <3>3. d'.state \notin CommandStates BY <3>1, <3>2, WaitFacts
    <3>4. Elsewhere BY <2>1, <3>2, <3>3 DEF Elsewhere
    <3>5. chip.power = "up" /\ chip.cmd = "none" /\ chip.last.cmd = WaitsFor["LED_ACC"]
      <4>1. chip.power = "up" BY <2>1 DEF In, Connected, Plugged, Answers
      <4>. QED BY <2>1, <4>1, WaitFacts DEF Inv, LightEnded
    <3>6. OwnStep BY <2>1, <3>2, <3>5 DEF OwnStep, Busy
    <3>. QED BY <3>4, <3>6 DEF Moves
  <2>. QED BY <1>1, <2>1, <2>2, <2>3
<1>. QED BY <1>2, <1>3, <1>4

\* The cable, the controller, or the source gone.
LEMMA LostMoves == Inv /\ (CableGone \/ Faulted) => Moves /\ OwnStep
<1> SUFFICES ASSUME Inv, CableGone \/ Faulted PROVE Moves /\ OwnStep
  OBVIOUS
<1>0. /\ d \in Handshakes /\ chip \in Chips
      /\ "gone" \in Reasons /\ "quiet" \in Reasons /\ "fault" \in Reasons
  BY DEF Inv, Types, TypeDock, TypeChip, Reasons
<1>1. Stay(Fail(d, "gone")) \/ Stay(Fail(d, "quiet")) \/ Stay(Fail(d, "fault"))
  BY DEF CableGone, Faulted
<1>2. /\ d'.state = "FAILED" /\ d'.why \in {"gone", "quiet", "fault"}
      /\ chip'.power = chip.power
  BY <1>0, <1>1, StepKinds
<1>3. Elsewhere BY <1>2, WaitFacts DEF Elsewhere
<1>4. OwnStep BY <1>2 DEF OwnStep
<1>. QED BY <1>3, <1>4 DEF Moves

\* Every step of a handshake.
LEMMA DockStepMoves == Inv /\ DockStep => Moves /\ OwnStep
BY WaitPlugMoves, ReplyMoves, AwaitMoves, CompletionMoves, TimedMoves, LostMoves DEF DockStep

-----------------------------------------------------------------------------
(* The invariant's parts, step by step.                                    *)

\* The handshake the screen's flags speak of, and none on a screen left.
LEMMA RunStep == Types /\ [Next]_vars => RunFollowsHandshake' /\ LeftIsIdle'
<1> SUFFICES ASSUME Types, [Next]_vars PROVE RunFollowsHandshake' /\ LeftIsIdle'
  OBVIOUS
<1>0. d \in Handshakes /\ RunFollowsHandshake /\ LeftIsIdle /\ pc \in {"rest", "read"}
      /\ screen \in {"open", "left"} /\ running \in BOOLEAN /\ ran \in BOOLEAN
  BY DEF Types, TypeDock, TypeFlags
<1>1. CASE ReadAlerts
  <2>1. d'.state = d.state BY <1>0, <1>1 DEF ReadAlerts, Handshakes
  <2>2. /\ screen' = screen /\ running' = running /\ ran' = ran /\ resetting' = resetting
        /\ screen = "open" /\ running = TRUE
    BY <1>0, <1>1 DEF ReadAlerts, screenVars
  <2>. QED BY <1>0, <2>1, <2>2 DEF RunFollowsHandshake, LeftIsIdle
<1>2. CASE DockStep
  <2>1. PICK dd \in Handshakes, c \in Chips : dd.state # "IDLE" /\ EndTick(dd, c)
    BY <1>2, DockStepEnds DEF Types, Ended
  <2>2. /\ d' = dd /\ running' = ~(dd.state \in {"DONE", "FAILED"})
        /\ ran' = (dd.state \in {"DONE", "FAILED"}) /\ pc' = "rest" /\ screen' = screen
        /\ resetting' = resetting
    BY <2>1 DEF EndTick
  <2>3. pc = "read"
    BY <1>2 DEF DockStep, CableGone, Faulted, WaitPlug, RdoSent, MessageSent, AwaitCommand,
         PowerReady, Swapped, Identified, NinEntered, SvidsRead, ModesRead, DpEntered,
         DpConfigured, HpdWaited, StateRead, LightOn, HubDelayed, HubRead, Completed, In
  <2>4. screen = "open" BY <1>0, <2>3 DEF RunFollowsHandshake
  <2>. QED BY <2>1, <2>2, <2>4 DEF RunFollowsHandshake, LeftIsIdle
<1>3. CASE ResetStep
  <2>1. screen = "open" /\ screen' = screen /\ pc' = pc /\ running' = running /\ ran' = ran
        /\ d' = d
    BY <1>3, ResetEnding
       DEF ResetTo, ResetStep, ShortWait, Pulsed, Settled, IrqWaited, IdWaited, SysReset,
           Configured, Resetting
  <2>. QED BY <1>0, <2>1 DEF RunFollowsHandshake, LeftIsIdle
<1>4. CASE ActStart
  <2>1. d'.state = "WAIT_PLUG"
    <3>1. "WAIT_PLUG" \in DockStates BY Names
    <3>. QED BY <1>4, <3>1, FirstRecords, DockStores DEF ActStart
  <2>2. running' = TRUE /\ ran' = FALSE /\ pc' = "rest" /\ screen' = "open"
    BY <1>4 DEF ActStart, AtRest
  <2>3. /\ running' = (d'.state \notin {"IDLE", "DONE", "FAILED"})
        /\ ran' = (d'.state \in {"DONE", "FAILED"})
    <3>1. (d'.state \notin {"IDLE", "DONE", "FAILED"}) = TRUE BY <2>1, <2>2
    <3>2. (d'.state \in {"DONE", "FAILED"}) = FALSE BY <2>1, <2>2
    <3>. QED BY <2>1, <2>2, <3>1, <3>2, Zenon
  <2>. QED BY <2>1, <2>2, <2>3 DEF RunFollowsHandshake, LeftIsIdle
<1>5. CASE View \/ ActReset
  BY <1>0, <1>5 DEF View, ActReset, AtRest, screenVars, RunFollowsHandshake, LeftIsIdle
<1>6. CASE Leave
  <2>1. [d EXCEPT !.state = "IDLE"].state = "IDLE" BY <1>0 DEF Handshakes
  <2>2. running \/ ran \/ d.state = "IDLE" BY <1>0 DEF RunFollowsHandshake
  <2>3. /\ running' = FALSE /\ ran' = FALSE /\ resetting' = FALSE /\ pc' = "rest"
        /\ d'.state = "IDLE"
    BY <1>6, <2>1, <2>2 DEF Leave, AtRest
  <2>4. /\ running' = (d'.state \notin {"IDLE", "DONE", "FAILED"})
        /\ ran' = (d'.state \in {"DONE", "FAILED"})
    <3>1. (d'.state \notin {"IDLE", "DONE", "FAILED"}) = FALSE BY <2>3
    <3>2. (d'.state \in {"DONE", "FAILED"}) = FALSE BY <2>3
    <3>. QED BY <2>3, <3>1, <3>2, Zenon
  <2>. QED BY <2>3, <2>4 DEF RunFollowsHandshake, LeftIsIdle
<1>7. CASE Open
  <2>1. running = FALSE /\ ran = FALSE /\ resetting = FALSE /\ pc = "rest"
    BY <1>0, <1>7 DEF Open, RunFollowsHandshake, LeftIsIdle, Types, TypeFlags
  <2>2. running' = FALSE /\ ran' = FALSE /\ pc' = "rest" /\ d'.state = "IDLE"
        /\ screen' = "open"
    BY <1>7, <2>1 DEF Open, NoHandshake
  <2>3. /\ running' = (d'.state \notin {"IDLE", "DONE", "FAILED"})
        /\ ran' = (d'.state \in {"DONE", "FAILED"})
    <3>1. (d'.state \notin {"IDLE", "DONE", "FAILED"}) = FALSE BY <2>2
    <3>2. (d'.state \in {"DONE", "FAILED"}) = FALSE BY <2>2
    <3>. QED BY <2>2, <3>1, <3>2, Zenon
  <2>. QED BY <2>2, <2>3 DEF RunFollowsHandshake, LeftIsIdle
<1>8. CASE Pass
  <2>1. d'.state = d.state BY <1>0, <1>8 DEF Pass, Handshakes
  <2>. QED BY <1>0, <1>8, <2>1 DEF Pass, software, screenVars, RunFollowsHandshake, LeftIsIdle
<1>9. CASE World \/ UNCHANGED vars
  <2>1. UNCHANGED <<screen, running, ran, resetting, pc, d>>
    BY <1>9, WorldMoves DEF Outside, software, screenVars, vars
  <2>. QED BY <1>0, <2>1 DEF RunFollowsHandshake, LeftIsIdle
<1>. QED BY <1>1, <1>2, <1>3, <1>4, <1>5, <1>6, <1>7, <1>8, <1>9 DEF Next, Tick, User

\* The line is driven in the pulse only.
LEMMA LineStep == Types /\ LineRestsLow /\ [Next]_vars => LineRestsLow'
<1> SUFFICES ASSUME Types, LineRestsLow, [Next]_vars PROVE LineRestsLow'
  OBVIOUS
<1>0. rst \in Resets BY DEF Types, TypeReset
<1>1. CASE ResetStep
  <2>1. CASE Pulsed BY <2>1 DEF Pulsed, LineRestsLow
  <2>2. CASE ShortWait("PULSE")
    <3>1. rst'.state = "PULSE" /\ resetting' = TRUE /\ screen' = screen /\ line' = line
      BY <2>2 DEF ShortWait, ResetTo
    <3>. QED BY <3>1 DEF LineRestsLow
  <2>3. CASE \/ ShortWait("SETTLE") \/ ShortWait("SYS_RESET") \/ Settled \/ IrqWaited
             \/ IdWaited \/ SysReset \/ Configured
    <3>1. rst.state # "PULSE" /\ line' = line
      BY <2>3 DEF ShortWait, Settled, IrqWaited, IdWaited, SysReset, Configured, Resetting
    <3>. QED BY <3>1 DEF LineRestsLow
  <2>. QED BY <1>1, <2>1, <2>2, <2>3 DEF ResetStep
<1>2. CASE ActReset
  <2>1. rst'.state = "PULSE" /\ resetting' = TRUE /\ screen' = "open"
    BY <1>2 DEF ActReset, AtRest
  <2>. QED BY <2>1 DEF LineRestsLow
<1>3. CASE Leave BY <1>3 DEF Leave, LineRestsLow
<1>4. CASE Open BY <1>4 DEF Open, LineRestsLow
<1>5. CASE Pass
  <2>1. rst'.state = rst.state BY <1>0, <1>5 DEF Pass, Resets
  <2>. QED BY <1>5, <2>1 DEF Pass, software, screenVars, LineRestsLow
<1>6. CASE UNCHANGED <<screen, resetting, rst, line>>
  BY <1>6 DEF LineRestsLow
<1>7. ReadAlerts \/ DockStep \/ View \/ ActStart \/ World \/ UNCHANGED vars
      => UNCHANGED <<screen, resetting, rst, line>>
  BY DockStepEnds, WorldMoves
     DEF Ended, EndTick, ReadAlerts, View, ActStart, screenVars, vars
<1>. QED BY <1>1, <1>2, <1>3, <1>4, <1>5, <1>6, <1>7 DEF Next, Tick, User

\* The steps other than a handshake's: one that opens or closes a run; one
\* beside it; one that leaves its state alone while the controller goes on.
Inert == {"IDLE", "WAIT_PLUG", "DONE", "FAILED"}
Begins == /\ pc = "rest" /\ pc' = "rest" /\ d'.state \in {"IDLE", "WAIT_PLUG"}
          /\ d'.led = TRUE => d'.state = "IDLE"
Aside == d' = d /\ pc' = "rest" /\ d.state \in Inert
Completes == /\ chip.power = "up" /\ chip'.power = "up"
             /\ chip.cmd # "none" /\ chip'.cmd = "none"
             /\ chip'.last.cmd = chip.cmd /\ "done" \in chip'.alert
Keeps == /\ chip'.power = chip.power /\ chip'.cmd = chip.cmd /\ chip'.last = chip.last
         /\ (chip.power = "up" /\ "done" \in chip.alert \cup d.alerts)
               => "done" \in chip'.alert \cup d'.alerts
Follows == /\ d'.state = d.state /\ d'.led = d.led /\ resetting' = resetting
           /\ pc' = "read" => resetting = FALSE
           /\ chip'.power = "quiet" \/ chip.power = "reset" \/ Completes \/ Keeps

\* The controller's own steps.
LEMMA WorldChip ==
    ASSUME chip \in Chips, World
    PROVE  chip'.power = "quiet" \/ chip.power = "reset" \/ Completes \/ Keeps
<1>0. d' = d BY WorldMoves
<1>1. CASE ChipBoots BY <1>1 DEF ChipBoots
<1>2. CASE Trouble
  <2>1. chip' = [chip EXCEPT !.fault = TRUE] \/ chip' = [ChipUp EXCEPT !.power = "quiet"]
    BY <1>2 DEF Trouble
  <2>. QED BY <1>0, <2>1 DEF Chips, ChipUp, Keeps
<1>3. CASE Finish
  <2>1. chip.power = "up" /\ chip.cmd # "none" BY <1>3 DEF Finish, Busy, Answers
  <2>2. PICK ok, r :
          chip' = [chip EXCEPT !.cmd = "none", !.sent = FALSE,
                               !.last = [cmd |-> chip.cmd, ok |-> ok],
                               !.alert = @ \cup {"done"}, !.role = r]
    BY <1>3 DEF Finish
  <2>. QED BY <2>1, <2>2 DEF Chips, Completes
<1>4. CASE Answer
  <2>1. PICK a : chip' = [chip EXCEPT !.alert = @ \cup {a}] BY <1>4 DEF Answer
  <2>. QED BY <1>0, <2>1 DEF Chips, Keeps
<1>5. CASE Transmit
  <2>1. chip' = [chip EXCEPT !.sent = TRUE] BY <1>5 DEF Transmit
  <2>. QED BY <1>0, <2>1 DEF Chips, Keeps
<1>6. CASE Plug \/ Unplug
  <2>1. PICK r : chip' = [chip EXCEPT !.role = r] BY <1>6 DEF Plug, Unplug
  <2>. QED BY <1>0, <2>1 DEF Chips, Keeps
<1>7. CASE NoAnswer \/ Announce
  BY <1>0, <1>7 DEF NoAnswer, Announce, Keeps
<1>. QED BY <1>1, <1>2, <1>3, <1>4, <1>5, <1>6, <1>7 DEF World

\* Every step is a handshake's or of one of these kinds.
LEMMA OtherKinds == Inv /\ [Next]_vars => DockStep \/ Begins \/ Aside \/ Follows
<1> SUFFICES ASSUME Inv, [Next]_vars PROVE DockStep \/ Begins \/ Aside \/ Follows
  OBVIOUS
<1>0. /\ d \in Handshakes /\ chip \in Chips /\ RunFollowsHandshake /\ LeftIsIdle
      /\ resetting \in BOOLEAN /\ pc \in {"rest", "read"} /\ d.state \in DockStates
  BY DEF Inv, Types, TypeDock, TypeChip, TypeFlags, Handshakes
<1>1. CASE ReadAlerts
  <2>1. /\ d' = [d EXCEPT !.alerts = @ \cup (IF Answers THEN chip.alert ELSE {})]
        /\ chip' = [chip EXCEPT !.alert = IF Answers THEN {} ELSE @]
        /\ resetting' = resetting /\ resetting = FALSE
    BY <1>0, <1>1 DEF ReadAlerts, screenVars
  <2>2. d'.state = d.state /\ d'.led = d.led BY <1>0, <2>1 DEF Handshakes
  <2>3. Keeps BY <1>0, <2>1 DEF Handshakes, Chips, Answers, Keeps
  <2>. QED BY <2>1, <2>2, <2>3 DEF Follows
<1>2. CASE ResetStep
  <2>1. resetting = TRUE /\ pc = "rest" BY <1>2, ResetEnding DEF Inv
  <2>2. pc' = pc /\ d' = d BY <1>2, ResetEnding DEF Inv, ResetTo
  <2>. QED BY <2>1, <2>2 DEF Inv, Alone, Aside, Inert
<1>3. CASE View \/ ActReset
  <2>1. pc = "rest" /\ ~running /\ pc' = pc /\ d' = d
    BY <1>3 DEF View, ActReset, AtRest
  <2>2. d.state \in Inert BY <1>0, <2>1 DEF RunFollowsHandshake, Inert
  <2>. QED BY <2>1, <2>2 DEF Aside
<1>4. CASE ActStart
  <2>1. d' = Go(NoHandshake, "WAIT_PLUG") /\ pc = "rest" /\ pc' = "rest"
    BY <1>4 DEF ActStart, AtRest
  <2>2. d'.state = "WAIT_PLUG" /\ d'.led = FALSE BY <2>1 DEF Go, NoHandshake
  <2>. QED BY <2>1, <2>2 DEF Begins
<1>5. CASE Leave
  <2>1. [d EXCEPT !.state = "IDLE"].state = "IDLE" BY <1>0 DEF Handshakes
  <2>2. running \/ ran \/ d.state = "IDLE" BY <1>0 DEF RunFollowsHandshake
  <2>3. d'.state = "IDLE" /\ pc = "rest" /\ pc' = "rest"
    BY <1>5, <2>1, <2>2 DEF Leave, AtRest
  <2>. QED BY <2>3 DEF Begins
<1>6. CASE Open
  <2>1. d'.state = "IDLE" BY <1>6 DEF Open, NoHandshake
  <2>2. pc = "rest" /\ pc' = "rest" BY <1>0, <1>6 DEF Open, RunFollowsHandshake
  <2>. QED BY <2>1, <2>2 DEF Begins
<1>7. CASE Pass
  <2>1. d'.state = d.state /\ d'.led = d.led /\ d'.alerts = d.alerts
    BY <1>0, <1>7 DEF Pass, Handshakes
  <2>2. chip' = chip /\ pc' = pc /\ resetting' = resetting
    BY <1>7 DEF Pass, software, screenVars
  <2>3. pc' = "read" => resetting = FALSE BY <2>2 DEF Inv, Alone
  <2>. QED BY <2>1, <2>2, <2>3 DEF Follows, Keeps
<1>8. CASE World
  <2>1. d' = d /\ pc' = pc /\ resetting' = resetting BY <1>8, WorldMoves
  <2>2. pc' = "read" => resetting = FALSE BY <2>1 DEF Inv, Alone
  <2>. QED BY <1>0, <1>8, <2>1, <2>2, WorldChip DEF Follows
<1>9. CASE UNCHANGED vars
  <2>1. d' = d /\ chip' = chip /\ pc' = pc /\ resetting' = resetting
    BY <1>9 DEF vars, screenVars
  <2>2. pc' = "read" => resetting = FALSE BY <2>1 DEF Inv, Alone
  <2>. QED BY <2>1, <2>2 DEF Follows, Keeps
<1>. QED BY <1>1, <1>2, <1>3, <1>4, <1>5, <1>6, <1>7, <1>8, <1>9 DEF Next, Tick, User

\* A reset and a handshake's commands exclude each other.
LEMMA AloneStep == Inv /\ [Next]_vars => Alone'
<1> SUFFICES ASSUME Inv, [Next]_vars PROVE Alone'
  OBVIOUS
<1>0. Alone /\ RunFollowsHandshake /\ d \in Handshakes /\ chip \in Chips /\ d.state \in DockStates
  BY DEF Inv, Types, TypeDock, TypeChip, Handshakes
<1>1. CASE DockStep
  <2>1. pc = "read" /\ pc' = "rest" /\ resetting' = resetting
    <3>1. pc = "read"
      BY <1>1 DEF DockStep, CableGone, Faulted, WaitPlug, RdoSent, MessageSent, AwaitCommand,
         PowerReady, Swapped, Identified, NinEntered, SvidsRead, ModesRead, DpEntered,
         DpConfigured, HpdWaited, StateRead, LightOn, HubDelayed, HubRead, Completed, In
    <3>2. pc' = "rest" /\ resetting' = resetting
      BY <1>1, DockStepEnds DEF Inv, Ended, EndTick
    <3>. QED BY <3>1, <3>2
  <2>2. resetting' = FALSE BY <1>0, <2>1 DEF Alone
  <2>3. d.state \notin {"IDLE", "DONE", "FAILED"} BY <1>0, <2>1 DEF RunFollowsHandshake
  <2>4. d.state # "WAIT_PLUG" => chip.power # "reset" BY <1>0, <2>3 DEF Alone
  <2>5. Moves BY <1>1, DockStepMoves
  <2>6. d'.state \notin Inert => chip'.power # "reset"
    <3>1. CASE \E next \in CommandStates : Issues(next)
      <4>1. d.state # "WAIT_PLUG" /\ chip'.power = chip.power
        BY <1>0, <3>1, IssueKeeps DEF Issues
      <4>. QED BY <2>4, <4>1
    <3>2. CASE Elsewhere BY <2>4, <3>2 DEF Elsewhere, Inert, Answers
    <3>3. CASE Waits
      <4>1. d.state # "WAIT_PLUG" BY <3>3, WaitFacts DEF Waits
      <4>. QED BY <2>4, <3>3, <4>1 DEF Waits
    <3>4. CASE Lights
      <4>1. d.state = "LED_ACC" BY <3>4 DEF Lights, Completed, In
      <4>. QED BY <2>4, <3>4, <4>1 DEF Lights
    <3>5. CASE Nothing BY <2>4, <3>5 DEF Nothing, Inert
    <3>. QED BY <2>5, <3>1, <3>2, <3>3, <3>4, <3>5 DEF Moves
  <2>. QED BY <2>1, <2>2, <2>6 DEF Alone, Inert
<1>2. CASE Begins BY <1>2 DEF Begins, Alone
<1>3. CASE Aside BY <1>3 DEF Aside, Inert, Alone
<1>4. CASE Follows
  <2>1. d.state \notin Inert => resetting' = FALSE /\ chip.power # "reset"
    BY <1>0, <1>4 DEF Follows, Alone, Inert
  <2>2. chip.power # "reset" => chip'.power # "reset"
    BY <1>4 DEF Follows, Completes, Keeps
  <2>3. d'.state = d.state /\ (pc' = "read" => resetting' = FALSE) BY <1>4 DEF Follows
  <2>. QED BY <2>1, <2>2, <2>3 DEF Alone, Inert
<1>. QED BY <1>1, <1>2, <1>3, <1>4, OtherKinds

\* The light's record.
LEMMA LightRecordedStep == Inv /\ [Next]_vars => LightRecorded'
<1> SUFFICES ASSUME Inv, [Next]_vars PROVE LightRecorded'
  OBVIOUS
<1>0. LightRecorded /\ d \in Handshakes BY DEF Inv, Types, TypeDock
<1>1. CASE DockStep
  <2>1. CASE \E next \in CommandStates : Issues(next) BY <2>1 DEF Issues, LightRecorded
  <2>2. CASE Elsewhere BY <2>2 DEF Elsewhere, LightRecorded
  <2>3. CASE Waits
    <3>1. "done" \in Alerts BY DEF Alerts
    <3>2. d'.state = d.state /\ d'.led = d.led
      BY <1>0, <2>3, <3>1, DockStores, DockKeeps DEF Waits
    <3>. QED BY <1>0, <3>2 DEF LightRecorded
  <2>4. CASE Lights BY <2>4 DEF Lights, LightRecorded
  <2>5. CASE Nothing BY <1>0, <2>5 DEF Nothing, LightRecorded
  <2>. QED BY <1>1, <2>1, <2>2, <2>3, <2>4, <2>5, DockStepMoves DEF Moves
<1>2. CASE Begins BY <1>2 DEF Begins, LightRecorded
<1>3. CASE Aside BY <1>0, <1>3 DEF Aside, LightRecorded
<1>4. CASE Follows BY <1>0, <1>4 DEF Follows, LightRecorded
<1>. QED BY <1>1, <1>2, <1>3, <1>4, OtherKinds

\* What a handshake waits for runs, or its done bit is still to be taken.
LEMMA OwedStep == Inv /\ [Next]_vars => OwedCompletion'
<1> SUFFICES ASSUME Inv, [Next]_vars, Waiting', chip'.power = "up"
             PROVE  \/ chip'.cmd = WaitsFor[d'.state]
                    \/ /\ chip'.cmd = "none" /\ chip'.last.cmd = WaitsFor[d'.state]
                       /\ "done" \in chip'.alert \cup d'.alerts
  BY DEF OwedCompletion
<1>0. d \in Handshakes /\ chip \in Chips /\ OwedCompletion /\ Alone
  BY DEF Inv, Types, TypeDock, TypeChip
<1>1. CASE DockStep
  <2>1. CASE \E next \in CommandStates : Issues(next)
    <3>1. PICK next \in CommandStates : Issues(next) BY <2>1
    <3>2. d'.state = next /\ chip' = Issue(chip, WaitsFor[next]) BY <3>1 DEF Issues
    <3>3. chip.power = "up" BY <1>0, <3>2, IssueKeeps
    <3>. QED BY <1>0, <3>2, <3>3, IssueKeeps
  <2>2. CASE Elsewhere BY <2>2 DEF Elsewhere, Waiting
  <2>3. CASE Waits
    <3>1. "done" \in Alerts BY DEF Alerts
    <3>2. /\ d'.state = d.state /\ d'.led = d.led /\ d'.alerts = d.alerts \ {"done"}
          /\ chip' = chip
      <4>1. d'.state = d.state /\ d'.led = d.led
        BY <1>0, <2>3, <3>1, DockStores, DockKeeps DEF Waits
      <4>2. d'.alerts = d.alerts \ {"done"} BY <1>0, <2>3 DEF Waits, Take, Handshakes
      <4>. QED BY <2>3, <4>1, <4>2 DEF Waits
    <3>3. Waiting /\ chip.power = "up" BY <3>2 DEF Waiting
    <3>4. "done" \notin d.alerts \/ chip.cmd # "none"
      BY <2>3 DEF Waits, CmdDone, Busy
    <3>. QED BY <1>0, <3>2, <3>3, <3>4, WaitFacts DEF OwedCompletion
  <2>4. CASE Lights BY <2>4 DEF Lights, Waiting
  <2>5. CASE Nothing BY <1>0, <2>5 DEF Nothing, Waiting, OwedCompletion
  <2>. QED BY <1>1, <2>1, <2>2, <2>3, <2>4, <2>5, DockStepMoves DEF Moves
<1>2. CASE Begins
  BY <1>2, WaitFacts DEF Begins, Waiting
<1>3. CASE Aside
  BY <1>3, WaitFacts DEF Aside, Inert, Waiting
<1>4. CASE Follows
  <2>1. d'.state = d.state /\ Waiting BY <1>4 DEF Follows, Waiting
  <2>2. chip.power # "reset" BY <1>0, <2>1, WaitFacts DEF Alone, Waiting
  <2>3. CASE Completes
    <3>1. chip.cmd = WaitsFor[d.state] BY <1>0, <2>1, <2>3 DEF Completes, OwedCompletion
    <3>. QED BY <2>1, <2>3, <3>1 DEF Completes
  <2>4. CASE Keeps BY <1>0, <2>1, <2>4 DEF Keeps, OwedCompletion
  <2>. QED BY <1>4, <2>2, <2>3, <2>4 DEF Follows
<1>. QED BY <1>1, <1>2, <1>3, <1>4, OtherKinds

\* While the light's delay goes on nothing runs.
LEMMA LightEndedStep == Inv /\ [Next]_vars => LightEnded'
<1> SUFFICES ASSUME Inv, [Next]_vars,
                    d'.state = "LED_ACC", d'.led = TRUE, chip'.power = "up"
             PROVE  chip'.cmd = "none" /\ chip'.last.cmd = "ACCEPT"
  BY DEF LightEnded
<1>0. d \in Handshakes /\ chip \in Chips /\ LightEnded /\ Alone
  BY DEF Inv, Types, TypeDock, TypeChip
<1>a. "LED_ACC" \in CommandStates /\ WaitsFor["LED_ACC"] = "ACCEPT" BY Names, WaitFacts
<1>1. CASE DockStep
  <2>1. CASE \E next \in CommandStates : Issues(next) BY <2>1 DEF Issues
  <2>2. CASE Elsewhere BY <1>a, <2>2 DEF Elsewhere
  <2>3. CASE Waits
    <3>1. "done" \in Alerts BY DEF Alerts
    <3>2. d'.state = d.state /\ d'.led = d.led /\ chip' = chip
      BY <1>0, <2>3, <3>1, DockStores, DockKeeps DEF Waits
    <3>. QED BY <1>0, <3>2 DEF LightEnded
  <2>4. CASE Lights
    <3>1. /\ In("LED_ACC") /\ CmdDone \in {"done", "refused"} /\ d.led = FALSE /\ chip' = chip
      BY <2>4 DEF Lights, Completed
    <3>. QED BY <1>a, <3>1, CompletionIsOwn
  <2>5. CASE Nothing BY <1>0, <2>5 DEF Nothing, LightEnded
  <2>. QED BY <1>1, <2>1, <2>2, <2>3, <2>4, <2>5, DockStepMoves DEF Moves
<1>2. CASE Begins BY <1>2 DEF Begins
<1>3. CASE Aside BY <1>3 DEF Aside, Inert
<1>4. CASE Follows
  <2>1. d.state = "LED_ACC" /\ d.led = TRUE BY <1>4 DEF Follows
  <2>2. chip.power # "reset" BY <1>0, <2>1 DEF Alone
  <2>3. CASE Completes BY <1>0, <2>1, <2>3 DEF Completes, LightEnded
  <2>4. CASE Keeps BY <1>0, <2>1, <2>4 DEF Keeps, LightEnded
  <2>. QED BY <1>4, <2>2, <2>3, <2>4 DEF Follows
<1>. QED BY <1>1, <1>2, <1>3, <1>4, OtherKinds

-----------------------------------------------------------------------------
(* The invariant, and what follows from it.                                *)

\* The invariant at first: nothing runs.
LEMMA InitInv == Init => Inv
<1> SUFFICES ASSUME Init PROVE Inv
  OBVIOUS
<1>1. d = NoHandshake /\ chip = ChipUp /\ port = Unplugged
  BY DEF Init
<1>2. TypeFlags /\ TypeReset
  BY AgeFacts DEF Init, TypeFlags, TypeReset, Resets, ResetStates
<1>3. TypeDock /\ TypeChip /\ TypePort
  BY <1>1, FirstRecords DEF TypeDock, TypeChip, TypePort
<1>4. TypeLeft
  <2>1. MaxRuns \in 0 .. MaxRuns /\ MaxPlugs \in 0 .. MaxPlugs /\ MaxBusy \in 0 .. MaxBusy
    BY WaitsAssumption
  <2>. QED BY <2>1 DEF Init, TypeLeft, Bounds
<1>5. d.state = "IDLE" /\ d.led = FALSE BY <1>1 DEF NoHandshake
<1>6. RunFollowsHandshake /\ LeftIsIdle /\ LineRestsLow
  <2>1. /\ screen = "open" /\ pc = "rest" /\ running = FALSE /\ ran = FALSE /\ line = FALSE
    BY DEF Init
  <2>2. /\ running = (d.state \notin {"IDLE", "DONE", "FAILED"})
        /\ ran = (d.state \in {"DONE", "FAILED"})
    <3>1. (d.state \notin {"IDLE", "DONE", "FAILED"}) = FALSE BY <1>5
    <3>2. (d.state \in {"DONE", "FAILED"}) = FALSE BY <1>5
    <3>. QED BY <2>1, <3>1, <3>2, Zenon
  <2>. QED BY <2>1, <2>2 DEF RunFollowsHandshake, LeftIsIdle, LineRestsLow
<1>7. Alone /\ LightRecorded
  BY <1>5 DEF Init, Alone, LightRecorded
<1>8. OwedCompletion /\ LightEnded
  BY <1>5, WaitFacts DEF OwedCompletion, Waiting, LightEnded
<1>. QED BY <1>2, <1>3, <1>4, <1>6, <1>7, <1>8 DEF Inv, Types

\* The invariant is kept, part by part.
LEMMA StepInv == Inv /\ [Next]_vars => Inv'
<1> SUFFICES ASSUME Inv, [Next]_vars PROVE Inv'
  OBVIOUS
<1>1. Types BY DEF Inv
<1>2. Types'
  BY <1>1, FlagsStep, DockTypeStep, ResetTypeStep, ChipStep, PortStep, LeftStep, RunStep DEF Types
<1>3. LineRestsLow' BY LineStep DEF Inv
<1>. QED
  BY <1>2, <1>3, AloneStep, LightRecordedStep, OwedStep, LightEndedStep DEF Inv

\* The inductive invariant holds in every state of every behaviour.
THEOREM Invariance == Spec => []Inv
<1>1. Init => Inv BY InitInv
<1>2. Inv /\ [Next]_vars => Inv' BY StepInv
<1>. QED BY <1>1, <1>2, PTL DEF Spec

\* The records hold what their C structures and the chip can, and s_running
\* and s_ran agree with the handshake's state.
THEOREM TypeCorrect == Spec => []TypeOK
<1>1. Inv => TypeOK
  BY DEF Inv, Types, TypeFlags, TypeDock, TypeReset, TypeChip, TypePort, TypeLeft, TypeOK
<1>. QED BY <1>1, Invariance, PTL

\* PV5 is high only in the reset's pulse on an open screen: _dk_leave lets it
\* go wherever it is left.
THEOREM LineRests == Spec => []LineRestsLow
<1>1. Inv => LineRestsLow BY DEF Inv
<1>. QED BY <1>1, Invariance, PTL

\* Whatever is delayed, lost, unplugged or reset: a state that waits for a
\* command (_cmd_done) is left, or called refused, on that command's own end.
THEOREM CompletionsAreOwn == Spec => StepsOnItsOwnCompletion
<1>1. Inv /\ [Next]_vars =>
        [\A s \in CommandStates :
            pc = "read" /\ d.state = s
            /\ (d'.state \notin {s, "FAILED"} \/ (d'.state = "FAILED" /\ d'.why = "refused"))
            => ~Busy /\ chip.last.cmd = WaitsFor[s]]_vars
  <2> SUFFICES ASSUME Inv, [Next]_vars, NEW s \in CommandStates, pc = "read", d.state = s,
                      \/ d'.state \notin {s, "FAILED"}
                      \/ d'.state = "FAILED" /\ d'.why = "refused"
               PROVE  (~Busy /\ chip.last.cmd = WaitsFor[s]) \/ UNCHANGED vars
    OBVIOUS
  <2>1. s \notin Inert BY WaitFacts DEF Inert
  <2>2. CASE DockStep BY <2>2, DockStepMoves DEF OwnStep
  <2>3. CASE Begins BY <2>3 DEF Begins
  <2>4. CASE Aside BY <2>1, <2>4 DEF Aside
  <2>5. CASE Follows BY <2>1, <2>5 DEF Follows, Inert
  <2>. QED BY <2>2, <2>3, <2>4, <2>5, OtherKinds
<1>. QED BY <1>1, Invariance, PTL DEF Spec, StepsOnItsOwnCompletion

\* "no answer to ..." is never said of a command whose end another step read.
THEOREM SilencesAreReal == Spec => SilenceIsReal
<1>1. Inv /\ [Next]_vars =>
        [d.state # "FAILED" /\ d'.state = "FAILED" /\ d'.why = "no answer"
           => Busy \/ "done" \in chip.alert]_vars
  <2> SUFFICES ASSUME Inv, [Next]_vars,
                      d.state # "FAILED", d'.state = "FAILED", d'.why = "no answer"
               PROVE  Busy \/ "done" \in chip.alert
    OBVIOUS
  <2>1. CASE DockStep BY <2>1, DockStepMoves DEF OwnStep
  <2>2. CASE Begins BY <2>2 DEF Begins
  <2>3. CASE Aside BY <2>3 DEF Aside
  <2>4. CASE Follows BY <2>4 DEF Follows
  <2>. QED BY <2>1, <2>2, <2>3, <2>4, OtherKinds
<1>. QED BY <1>1, Invariance, PTL DEF Spec, SilenceIsReal

\* While a reset goes on no handshake's command reaches the controller.
THEOREM ResetsAreAlone == Spec => ResetIsAlone
<1>1. Inv /\ [Next]_vars =>
        [resetting /\ chip'.cmd # chip.cmd => chip'.cmd \in {"none", "SYS_RESET"}]_vars
  <2> SUFFICES ASSUME Inv, [Next]_vars, resetting
               PROVE  chip'.cmd = chip.cmd \/ chip'.cmd \in {"none", "SYS_RESET"}
    OBVIOUS
  <2>0. chip \in Chips /\ pc # "read" BY DEF Inv, Types, TypeChip, Alone
  <2>1. CASE DockStep
    BY <2>0, <2>1 DEF DockStep, CableGone, Faulted, WaitPlug, RdoSent, MessageSent, AwaitCommand,
         PowerReady, Swapped, Identified, NinEntered, SvidsRead, ModesRead, DpEntered,
         DpConfigured, HpdWaited, StateRead, LightOn, HubDelayed, HubRead, Completed, In
  <2>2. CASE ReadAlerts \/ View \/ ActStart \/ Open
    BY <2>0, <2>2 DEF ReadAlerts, View, ActStart, Open, Chips
  <2>3. CASE ResetStep
    <3>1. CASE IdWaited
      <4>1. chip' = Issue([chip EXCEPT !.alert = {}], "SYS_RESET") \/ chip' = chip
        BY <3>1 DEF IdWaited
      <4>. QED BY <2>0, <4>1 DEF Issue, Chips
    <3>2. CASE SysReset BY <2>0, <3>2 DEF SysReset, Chips
    <3>3. CASE chip' = chip BY <3>3
    <3>. QED BY <2>3, <3>1, <3>2, <3>3
           DEF ResetStep, ShortWait, Pulsed, Settled, IrqWaited, Configured
  <2>4. CASE ActReset
    <3>1. chip' = [ChipUp EXCEPT !.power = "reset"] BY <2>4 DEF ActReset
    <3>. QED BY <3>1 DEF ChipUp
  <2>5. CASE Leave
    <3>1. chip' = [chip EXCEPT !.cmd = "none"] \/ chip' = chip BY <2>5 DEF Leave, DockStop
    <3>. QED BY <2>0, <3>1 DEF Chips
  <2>6. CASE World
    <3>1. CASE ChipBoots BY <2>0, <3>1 DEF ChipBoots, Chips
    <3>2. CASE Trouble
      <4>1. chip' = [chip EXCEPT !.fault = TRUE] \/ chip' = [ChipUp EXCEPT !.power = "quiet"]
        BY <3>2 DEF Trouble
      <4>. QED BY <2>0, <4>1 DEF Chips, ChipUp
    <3>3. CASE Transmit \/ Answer \/ NoAnswer \/ Plug \/ Unplug \/ Announce
      BY <2>0, <3>3 DEF Transmit, Answer, NoAnswer, Plug, Unplug, Announce, Chips
    <3>4. CASE Finish
      <4>1. PICK ok, r :
              chip' = [chip EXCEPT !.cmd = "none", !.sent = FALSE,
                                   !.last = [cmd |-> chip.cmd, ok |-> ok],
                                   !.alert = @ \cup {"done"}, !.role = r]
        BY <3>4 DEF Finish
      <4>. QED BY <2>0, <4>1 DEF Chips
    <3>. QED BY <2>6, <3>1, <3>2, <3>3, <3>4 DEF World
  <2>7. CASE Pass \/ UNCHANGED vars BY <2>7 DEF Pass, vars
  <2>. QED BY <2>1, <2>2, <2>3, <2>4, <2>5, <2>6, <2>7 DEF Next, Tick, User
<1>. QED BY <1>1, Invariance, PTL DEF Spec, ResetIsAlone

-----------------------------------------------------------------------------
(* What the first run switches on is on record when it ends.               *)

LampStates == {"LED_SENT", "LED_ACC"}
LightOwed ==
    port.light = TRUE \/ chip.cmd = "LED"
      => d.led = TRUE \/ d.state \in LampStates \cup {"FAILED", "IDLE"}
ModeOwed ==
    port.dp = TRUE \/ chip.cmd = "DP_ENTER" => d.dpOn = TRUE \/ d.state = "IDLE"
Untouched ==
    /\ d.state = "IDLE" /\ port.light = FALSE /\ port.dp = FALSE
    /\ chip.cmd \notin {"LED", "DP_ENTER"}
FirstRun ==
    /\ left.runs = MaxRuns => Untouched
    /\ left.runs + 1 >= MaxRuns => LightOwed /\ ModeOwed

\* What a handshake's step does to the two records: a command that switches
\* something on is sent where it is recorded, or about to be.
Records ==
    /\ d.led = TRUE => d'.led = TRUE
    /\ d.dpOn = TRUE => d'.dpOn = TRUE
    /\ \/ chip'.cmd = chip.cmd
       \/ chip'.cmd \notin {"LED", "DP_ENTER"}
       \/ chip'.cmd = "LED" /\ d'.state = "LED_SENT"
       \/ chip'.cmd = "DP_ENTER" /\ d'.dpOn = TRUE
    /\ d.state \in LampStates
         => d'.led = TRUE \/ d'.state \in LampStates \cup {"FAILED"}

\* What a tick's end, and a command issued, do to the command that runs.
LEMMA CommandAtEnd ==
    ASSUME NEW dd, NEW c \in Chips, EndTick(dd, c)
    PROVE  d' = dd /\ chip'.cmd = c.cmd
BY DEF EndTick, Chips

\* A command sent runs, unless the controller does not answer.
LEMMA CommandIssued ==
    ASSUME NEW c \in Chips, NEW cmd
    PROVE  Issue(c, cmd).cmd \in {c.cmd, cmd}
BY DEF Issue, Chips

\* What the words of the handshake do to the record of the mode.
LEMMA ModeKept ==
    ASSUME NEW dd \in Handshakes
    PROVE  /\ \A s \in DockStates : Go(dd, s).dpOn = dd.dpOn
           /\ \A w \in Reasons : Fail(dd, w).dpOn = dd.dpOn
           /\ \A b \in Alerts : Take(dd, b).dpOn = dd.dpOn
           /\ \A cmd \in Commands, s \in DockStates :
                 CmdGo(dd, cmd, s).dpOn = (dd.dpOn \/ cmd = "DP_ENTER")
BY DEF Go, Fail, Take, CmdGo, Handshakes

\* The messages do not switch DisplayPort on, and the other commands no light.
LEMMA LampNames ==
    /\ "DP_ENTER" \notin Messages /\ Messages \subseteq Commands
    /\ "LED_ACC" \in LampStates /\ "LED_SENT" \in LampStates
BY DEF Messages, Commands, Asks, LampStates

\* Each way a step ends keeps the records.
LEMMA RecordedEnds ==
    ASSUME NEW dd \in Handshakes, chip \in Chips, dd.led = d.led, dd.dpOn = d.dpOn
    PROVE  /\ dd.state = d.state /\ Stay(dd) => Records
           /\ \A w \in Reasons : Stay(Fail(dd, w)) => Records
           /\ \A n \in DockStates :
                 Stay(Go(dd, n)) /\ (d.state \in LampStates => d.led = TRUE) => Records
           /\ \A msg \in Messages, n \in DockStates :
                 /\ SendVdm(dd, msg, n) /\ (msg = "LED" => n = "LED_SENT")
                 /\ d.state \in LampStates => d.led = TRUE
                 => Records
           /\ \A cmd \in Commands, n \in CommandStates :
                 /\ Command(dd, cmd, n) /\ cmd # "LED"
                 /\ d.state \in LampStates => d.led = TRUE \/ n \in LampStates
                 => Records
<1>1. ASSUME dd.state = d.state, Stay(dd) PROVE Records
  <2>1. d' = dd /\ chip'.cmd = chip.cmd BY <1>1, CommandAtEnd DEF Stay
  <2>. QED BY <1>1, <2>1 DEF Records
<1>2. ASSUME NEW w \in Reasons, Stay(Fail(dd, w)) PROVE Records
  <2>1. d' = Fail(dd, w) /\ chip'.cmd = chip.cmd BY <1>2, CommandAtEnd DEF Stay
  <2>2. d'.state = "FAILED" /\ d'.led = d.led /\ d'.dpOn = d.dpOn
    BY <2>1, DockStores, DockKeeps, ModeKept
  <2>. QED BY <2>1, <2>2 DEF Records
<1>3. ASSUME NEW n \in DockStates, Stay(Go(dd, n)), d.state \in LampStates => d.led = TRUE
      PROVE  Records
  <2>1. d' = Go(dd, n) /\ chip'.cmd = chip.cmd BY <1>3, CommandAtEnd DEF Stay
  <2>2. d'.led = d.led /\ d'.dpOn = d.dpOn BY <2>1, DockKeeps, ModeKept
  <2>. QED BY <1>3, <2>1, <2>2 DEF Records
<1>4. ASSUME NEW msg \in Messages, NEW n \in DockStates, SendVdm(dd, msg, n),
             msg = "LED" => n = "LED_SENT", d.state \in LampStates => d.led = TRUE
      PROVE  Records
  <2>1. CASE Stay(Fail(dd, "unwritten"))
    <3>1. "unwritten" \in Reasons BY DEF Reasons
    <3>. QED BY <1>2, <2>1, <3>1
  <2>2. CASE EndTick(Go(dd, n), Issue(chip, msg))
    <3>1. msg \in Commands /\ msg # "DP_ENTER" BY LampNames
    <3>2. Issue(chip, msg) \in Chips BY <3>1, ChipStores
    <3>3. d' = Go(dd, n) /\ chip'.cmd \in {chip.cmd, msg}
      BY <2>2, <3>2, CommandAtEnd, CommandIssued
    <3>4. d'.state = n /\ d'.led = d.led /\ d'.dpOn = d.dpOn
      BY <3>3, DockStores, DockKeeps, ModeKept
    <3>. QED BY <1>4, <3>1, <3>3, <3>4 DEF Records
  <2>. QED BY <1>4, <2>1, <2>2 DEF SendVdm
<1>5. ASSUME NEW cmd \in Commands, NEW n \in CommandStates, Command(dd, cmd, n),
             cmd # "LED", d.state \in LampStates => d.led = TRUE \/ n \in LampStates
      PROVE  Records
  <2>1. n \in DockStates BY Names
  <2>2. Issue(chip, cmd) \in Chips BY ChipStores
  <2>3. d' = CmdGo(dd, cmd, n) /\ chip'.cmd \in {chip.cmd, cmd}
    BY <1>5, <2>2, CommandAtEnd, CommandIssued DEF Command
  <2>4. d'.state = n /\ d'.led = d.led BY <2>1, <2>3, DockStores, DockKeeps
  <2>5. d'.dpOn = (d.dpOn \/ cmd = "DP_ENTER") BY <2>1, <2>3, ModeKept
  <2>6. d.dpOn \in BOOLEAN BY DEF Handshakes
  <2>7. /\ d.dpOn = TRUE => d'.dpOn = TRUE
        /\ cmd = "DP_ENTER" => d'.dpOn = TRUE
    BY <2>5, <2>6
  <2>. QED BY <1>5, <2>3, <2>4, <2>7 DEF Records
<1>. QED BY <1>1, <1>2, <1>3, <1>4, <1>5

\* Every step of a handshake keeps them.
LEMMA DockStepRecords == Inv /\ DockStep => Records
<1>. SUFFICES ASSUME Inv, DockStep PROVE Records
  OBVIOUS
<1>0. /\ d \in Handshakes /\ chip \in Chips /\ d.led \in BOOLEAN
      /\ port.kind \in Kinds \cup {"none"}
  BY DEF Inv, Types, TypeDock, TypeChip, TypePort, Handshakes, Ports
<1>1. /\ Rest \in Handshakes /\ Rest.state = d.state /\ Rest.led = d.led
      /\ Rest.dpOn = d.dpOn
  <2>1. "done" \in Alerts BY DEF Alerts
  <2>. QED BY <1>0, <2>1, DockStores, DockKeeps, ModeKept DEF Rest
<1>2. /\ \A b \in {"contract", "vdm"} :
            Take(d, b) \in Handshakes /\ Take(d, b).led = d.led /\ Take(d, b).dpOn = d.dpOn
  <2>1. {"contract", "vdm"} \subseteq Alerts BY DEF Alerts
  <2>. QED BY <1>0, <2>1, DockStores, DockKeeps, ModeKept
<1>3. {"gone", "quiet", "fault", "no profiles", "none fits", "no contract", "no reply",
       "no answer", "refused", "no role", "not the host", "who", "refused its mode",
       "no modes", "no DisplayPort", "no pins"} \subseteq Reasons
  BY DEF Reasons
<1>4. CASE CableGone \/ Faulted
  BY <1>0, <1>3, <1>4, RecordedEnds DEF CableGone, Faulted
<1>5. CASE WaitPlug
  <2>. DEFINE seen == IF Plugged /\ ~d.plugSeen
                      THEN [d EXCEPT !.plugSeen = TRUE, !.age = 0] ELSE d
              deaf == [seen EXCEPT !.alerts = {}]
  <2>1. seen \in Handshakes BY <1>0, DockFields
  <2>2. seen.state = d.state /\ seen.led = d.led /\ seen.dpOn = d.dpOn
    BY <1>0 DEF Handshakes
  <2>3. deaf \in Handshakes BY <2>1, DockFields
  <2>4. deaf.led = seen.led /\ deaf.dpOn = seen.dpOn BY <2>1 DEF Handshakes
  <2>5. \/ Stay(seen) \/ Stay(Fail(seen, "no profiles")) \/ Stay(Fail(seen, "none fits"))
        \/ EndTick(Go(deaf, "RDO_SENT"), Issue(chip, "RDO"))
    BY <1>5 DEF WaitPlug
  <2>6. d.state \notin LampStates BY <1>5 DEF WaitPlug, In, LampStates
  <2>. HIDE DEF seen, deaf
  <2>7. CASE EndTick(Go(deaf, "RDO_SENT"), Issue(chip, "RDO"))
    <3>1. "RDO" \in Commands /\ "RDO_SENT" \in DockStates BY Names
    <3>2. Issue(chip, "RDO") \in Chips BY <1>0, <3>1, ChipStores
    <3>3. d' = Go(deaf, "RDO_SENT") /\ chip'.cmd \in {chip.cmd, "RDO"}
      BY <1>0, <2>7, <3>2, CommandAtEnd, CommandIssued
    <3>4. d'.led = d.led /\ d'.dpOn = d.dpOn
      BY <2>2, <2>3, <2>4, <3>1, <3>3, DockKeeps, ModeKept
    <3>. QED BY <2>6, <3>3, <3>4 DEF Records
  <2>. QED BY <1>0, <1>3, <2>1, <2>2, <2>5, <2>7, RecordedEnds
<1>6. CASE RdoSent
  <2>1. \/ Stay(d) \/ Stay(Fail(d, "no contract"))
        \/ Command(Take(d, "contract"), "PS_RDY", "PS_RDY_SENT")
    BY <1>6 DEF RdoSent
  <2>2. d.state \notin LampStates BY <1>6 DEF RdoSent, In, LampStates
  <2>3. CASE Command(Take(d, "contract"), "PS_RDY", "PS_RDY_SENT")
    <3>1. "PS_RDY" \in Commands /\ "PS_RDY_SENT" \in CommandStates BY Names
    <3>. QED BY <1>0, <1>2, <2>2, <2>3, <3>1, RecordedEnds
  <2>. QED BY <1>0, <1>3, <2>1, <2>3, RecordedEnds
<1>7. CASE MessageSent
  <2>1. PICK s \in MessageStates :
          /\ d.state = s
          /\ \/ Command(Take(d, "vdm"), "ACCEPT", Reply[s])
             \/ Stay(Fail(d, "no reply")) \/ Stay(d)
    BY <1>7 DEF MessageSent, In
  <2>2. CASE Command(Take(d, "vdm"), "ACCEPT", Reply[s])
    <3>1. "ACCEPT" \in Commands /\ Reply[s] \in CommandStates BY Names
    <3>2. s \in LampStates => Reply[s] \in LampStates
      BY WaitFacts, Names DEF LampStates, Reply, MessageStates
    <3>. QED BY <1>0, <1>2, <2>1, <2>2, <3>1, <3>2, RecordedEnds
  <2>. QED BY <1>0, <1>3, <2>1, <2>2, RecordedEnds
<1>8. CASE AwaitCommand
  <2>1. \/ Stay(Rest) \/ Stay(Fail(d, "no answer")) \/ Stay(Fail(Rest, "refused"))
    BY <1>8 DEF AwaitCommand, Rest
  <2>. QED BY <1>0, <1>1, <1>3, <2>1, RecordedEnds
<1>9. ASSUME NEW s, Completed(s), s \notin LampStates PROVE d.state \notin LampStates
  BY <1>9 DEF Completed, In
<1>10. CASE PowerReady \/ Swapped
  <2>1. d.state \notin LampStates
    BY <1>10 DEF PowerReady, Swapped, Completed, In, LampStates
  <2>2. \/ Stay(Fail(Rest, "no role")) \/ Stay(Fail(Rest, "not the host"))
        \/ SendVdm(Rest, "ID", "ID_SENT") \/ Command(Rest, "DR_SWAP", "DR_SWAP_SENT")
    BY <1>10 DEF PowerReady, Swapped
  <2>3. "DR_SWAP" \in Commands /\ "DR_SWAP_SENT" \in CommandStates
        /\ "ID" \in Messages /\ "ID_SENT" \in DockStates
    BY Names
  <2>. QED BY <1>0, <1>1, <1>3, <2>1, <2>2, <2>3, RecordedEnds
<1>11. CASE Identified
  <2>. DEFINE known == [Rest EXCEPT !.nin = port.kind]
  <2>1. \/ Stay(Fail(Rest, "who"))
        \/ SendVdm(known, "NIN", "NIN_SENT")
        \/ SendVdm(known, "SVID", "SVID_SENT")
        \/ Stay(Go(known, "DONE"))
    BY <1>11 DEF Identified
  <2>2. d.state \notin LampStates /\ port.kind # "none"
    BY <1>11 DEF Identified, Completed, In, LampStates, Connected, Plugged
  <2>3. known \in Handshakes BY <1>0, <1>1, <2>2, DockFields
  <2>4. known.led = d.led /\ known.dpOn = d.dpOn BY <1>1 DEF Handshakes
  <2>5. /\ "NIN" \in Messages /\ "NIN_SENT" \in DockStates
        /\ "SVID" \in Messages /\ "SVID_SENT" \in DockStates /\ "DONE" \in DockStates
    BY Names
  <2>. HIDE DEF known
  <2>. QED BY <1>0, <1>1, <1>3, <2>1, <2>2, <2>3, <2>4, <2>5, RecordedEnds
<1>12. CASE NinEntered \/ ModesRead
  <2>1. d.state \notin LampStates
    BY <1>12 DEF NinEntered, ModesRead, Completed, In, LampStates
  <2>2. \/ Stay(Fail(Rest, "refused its mode")) \/ Stay(Fail(Rest, "no DisplayPort"))
        \/ Command(Rest, "DP_ENTER", "DP_ENTER_SENT")
    BY <1>12 DEF NinEntered, ModesRead
  <2>3. "DP_ENTER" \in Commands /\ "DP_ENTER_SENT" \in CommandStates BY Names
  <2>. QED BY <1>0, <1>1, <1>3, <2>1, <2>2, <2>3, RecordedEnds
<1>13. CASE SvidsRead \/ DpEntered
  <2>1. d.state \notin LampStates
    BY <1>13 DEF SvidsRead, DpEntered, Completed, In, LampStates
  <2>2. \/ Stay(Fail(Rest, "no modes")) \/ Stay(Fail(Rest, "no pins"))
        \/ SendVdm(Rest, "MODE", "MODE_SENT") \/ Command(Rest, "DP_CFG", "DP_CFG_SENT")
    BY <1>13 DEF SvidsRead, DpEntered
  <2>3. "DP_CFG" \in Commands /\ "DP_CFG_SENT" \in CommandStates
        /\ "MODE" \in Messages /\ "MODE_SENT" \in DockStates
    BY Names
  <2>. QED BY <1>0, <1>1, <1>3, <2>1, <2>2, <2>3, RecordedEnds
<1>14. CASE DpConfigured \/ HpdWaited \/ StateRead
  <2>1. d.state \notin LampStates
    BY <1>14 DEF DpConfigured, HpdWaited, StateRead, Completed, In, LampStates
  <2>2. \/ Stay(Go(Rest, "HPD_WAIT")) \/ Stay(d) \/ Stay(Go(d, "DONE"))
        \/ SendVdm(d, "QUERY", "QUERY_SENT") \/ SendVdm(Rest, "LED", "LED_SENT")
    BY <1>14 DEF DpConfigured, HpdWaited, StateRead
  <2>3. /\ {"HPD_WAIT", "DONE", "QUERY_SENT", "LED_SENT"} \subseteq DockStates
        /\ "QUERY" \in Messages /\ "LED" \in Messages
    BY Names
  <2>. QED BY <1>0, <1>1, <2>1, <2>2, <2>3, RecordedEnds
<1>15. CASE LightOn
  <2>. DEFINE lit == [Rest EXCEPT !.led = TRUE, !.age = 0]
  <2>1. Stay(lit) BY <1>15 DEF LightOn
  <2>2. lit.led = TRUE /\ lit.dpOn = d.dpOn BY <1>1 DEF Handshakes
  <2>. HIDE DEF lit
  <2>3. d' = lit /\ chip'.cmd = chip.cmd BY <1>0, <2>1, CommandAtEnd DEF Stay
  <2>. QED BY <2>2, <2>3 DEF Records
<1>16. CASE HubDelayed
  <2>1. d.led = TRUE BY <1>0, <1>16 DEF HubDelayed
  <2>2. Stay(d) \/ SendVdm(d, "HUB", "HUB_SENT") BY <1>16 DEF HubDelayed
  <2>3. "HUB" \in Messages /\ "HUB_SENT" \in DockStates BY Names
  <2>. QED BY <1>0, <2>1, <2>2, <2>3, RecordedEnds
<1>17. CASE HubRead
  <2>. DEFINE again == [Rest EXCEPT !.tries = @ + 1]
              told == [Rest EXCEPT !.hub = Replied("HUB")]
  <2>1. d.state \notin LampStates BY <1>17 DEF HubRead, Completed, In, LampStates
  <2>2. \/ d.tries < 10 /\ SendVdm(again, "HUB", "HUB_SENT")
        \/ Stay(Go(told, "DONE"))
    BY <1>17 DEF HubRead
  <2>3. "HUB" \in Messages /\ "HUB_SENT" \in DockStates /\ "DONE" \in DockStates BY Names
  <2>4. /\ again.led = d.led /\ again.dpOn = d.dpOn
        /\ told.led = d.led /\ told.dpOn = d.dpOn
    BY <1>1 DEF Handshakes
  <2>5. told \in Handshakes
    <3>1. Replied("HUB") \in BOOLEAN BY DEF Replied
    <3>. QED BY <1>1, <3>1, DockFields
  <2>6. d.tries < 10 => again \in Handshakes
    <3>1. Rest.tries = d.tries BY <1>0 DEF Rest, Take, Handshakes
    <3>. QED BY <1>1, <3>1, DockFields
  <2>. HIDE DEF again, told
  <2>. QED BY <1>0, <2>1, <2>2, <2>3, <2>4, <2>5, <2>6, RecordedEnds
<1>. QED BY <1>4, <1>5, <1>6, <1>7, <1>8, <1>10, <1>11, <1>12, <1>13, <1>14, <1>15,
            <1>16, <1>17 DEF DockStep

\* A step that begins no run, and switches on only what a command switches on.
Quieter ==
    /\ left'.runs = left.runs
    /\ \/ d'.state = "IDLE"
       \/ d'.state = d.state /\ d'.led = d.led /\ d'.dpOn = d.dpOn
    /\ port'.light = TRUE => port.light = TRUE \/ chip.cmd = "LED"
    /\ port'.dp = TRUE => port.dp = TRUE \/ chip.cmd = "DP_ENTER"
    /\ chip'.cmd \in {chip.cmd, "none", "SYS_RESET"}

\* Such a step keeps the first run's records.
LEMMA QuieterKeeps == FirstRun /\ Quieter => FirstRun'
<1>. SUFFICES ASSUME FirstRun, Quieter PROVE FirstRun'
  OBVIOUS
<1>0. chip'.cmd \in {"LED", "DP_ENTER"} => chip'.cmd = chip.cmd BY DEF Quieter
<1>1. left'.runs = MaxRuns => Untouched'
  <2>. SUFFICES ASSUME left'.runs = MaxRuns PROVE Untouched' OBVIOUS
  <2>1. Untouched BY DEF Quieter, FirstRun
  <2>. QED BY <1>0, <2>1 DEF Untouched, Quieter
<1>2. left'.runs + 1 >= MaxRuns => LightOwed' /\ ModeOwed'
  <2>. SUFFICES ASSUME left'.runs + 1 >= MaxRuns PROVE LightOwed' /\ ModeOwed' OBVIOUS
  <2>1. LightOwed /\ ModeOwed BY DEF Quieter, FirstRun
  <2>2. LightOwed' BY <1>0, <2>1 DEF LightOwed, Quieter
  <2>3. ModeOwed' BY <1>0, <2>1 DEF ModeOwed, Quieter
  <2>. QED BY <2>2, <2>3
<1>. QED BY <1>1, <1>2 DEF FirstRun

\* What the controller, the cable and time do.
LEMMA WorldQuieter == Types /\ (World \/ Pass) => Quieter
<1>. SUFFICES ASSUME Types, World \/ Pass PROVE Quieter
  OBVIOUS
<1>0. chip \in Chips /\ port \in Ports /\ d \in Handshakes /\ left \in Bounds
  BY DEF Types, TypeChip, TypePort, TypeDock, TypeLeft
<1>1. CASE Pass
  <2>1. /\ d' = [d EXCEPT !.age = IF running THEN Later(@, StepTimeout + 1) ELSE @]
        /\ port' = [port EXCEPT !.age = IF @ <= StepTimeout /\ port.kind # "none"
                                        THEN @ + 1 ELSE @]
        /\ chip' = chip /\ left' = left
    BY <1>1 DEF Pass
  <2>2. d'.state = d.state /\ d'.led = d.led /\ d'.dpOn = d.dpOn
    BY <1>0, <2>1 DEF Handshakes
  <2>3. port'.light = port.light /\ port'.dp = port.dp BY <1>0, <2>1 DEF Ports
  <2>. QED BY <2>1, <2>2, <2>3 DEF Quieter
<1>2. World => d' = d BY WorldMoves
<1>3. CASE ChipBoots
  <2>1. chip'.cmd = chip.cmd /\ port' = port /\ left' = left
    BY <1>0, <1>3 DEF ChipBoots, Chips
  <2>. QED BY <1>2, <1>3, <2>1 DEF Quieter, World
<1>4. CASE Transmit
  <2>1. chip'.cmd = chip.cmd /\ left' = left BY <1>0, <1>4 DEF Transmit, Chips
  <2>2. port' = port
        \/ port' = [port EXCEPT !.owed = chip.cmd, !.light = @ \/ chip.cmd = "LED"]
    BY <1>4 DEF Transmit
  <2>3. port'.dp = port.dp /\ (port'.light = TRUE => port.light = TRUE \/ chip.cmd = "LED")
    BY <1>0, <2>2 DEF Ports
  <2>. QED BY <1>2, <1>4, <2>1, <2>3 DEF Quieter, World
<1>5. CASE Answer
  <2>1. PICK ok :
          LET busy == port.owed = "HUB" /\ ~ok IN
          /\ left' = [left EXCEPT !.busy = IF busy THEN @ - 1 ELSE @]
          /\ port' = [port EXCEPT !.owed = "none",
                                  !.inbox = IF port.owed = "RDO" THEN @
                                            ELSE [to |-> port.owed, ok |-> ok]]
    BY <1>5 DEF Answer
  <2>2. left'.runs = left.runs BY <1>0, <2>1 DEF Bounds
  <2>3. port'.light = port.light /\ port'.dp = port.dp BY <1>0, <2>1 DEF Ports
  <2>4. chip'.cmd = chip.cmd BY <1>0, <1>5 DEF Answer, Chips
  <2>. QED BY <1>2, <1>5, <2>2, <2>3, <2>4 DEF Quieter, World
<1>6. CASE NoAnswer \/ Announce
  <2>1. chip' = chip /\ left' = left /\ port'.light = port.light /\ port'.dp = port.dp
    BY <1>0, <1>6 DEF NoAnswer, Announce, Ports
  <2>. QED BY <1>2, <1>6, <2>1 DEF Quieter, World
<1>7. CASE Finish
  <2>1. PICK ok \in BOOLEAN :
          /\ chip' = [chip EXCEPT !.cmd = "none", !.sent = FALSE,
                                  !.last = [cmd |-> chip.cmd, ok |-> ok],
                                  !.alert = @ \cup {"done"},
                                  !.role = IF ok /\ chip.cmd = "DR_SWAP" THEN "dfp" ELSE @]
          /\ port' = [port EXCEPT
                        !.dp = CASE ok /\ chip.cmd = "DP_ENTER"  -> port.kind # "none"
                                 [] ok /\ chip.cmd = "SYS_RESET" -> FALSE
                                 [] OTHER                        -> @]
    BY <1>7 DEF Finish
  <2>2. chip'.cmd = "none" BY <1>0, <2>1 DEF Chips
  <2>3. port'.light = port.light /\ (port'.dp = TRUE => port.dp = TRUE \/ chip.cmd = "DP_ENTER")
    BY <1>0, <2>1 DEF Ports
  <2>4. left' = left BY <1>7 DEF Finish
  <2>. QED BY <1>2, <1>7, <2>2, <2>3, <2>4 DEF Quieter, World
<1>8. CASE Trouble
  <2>1. chip' = [chip EXCEPT !.fault = TRUE] \/ chip' = [ChipUp EXCEPT !.power = "quiet"]
    BY <1>8 DEF Trouble
  <2>2. chip'.cmd \in {chip.cmd, "none"} BY <1>0, <2>1 DEF Chips, ChipUp
  <2>3. port' = port /\ left' = left BY <1>8 DEF Trouble
  <2>. QED BY <1>2, <1>8, <2>2, <2>3 DEF Quieter, World
<1>9. CASE Plug \/ Unplug
  <2>1. chip'.cmd = chip.cmd /\ left'.runs = left.runs
    BY <1>0, <1>9 DEF Plug, Unplug, Chips, Bounds
  <2>2. port' = Unplugged \/ \E k \in Kinds : port' = [Unplugged EXCEPT !.kind = k]
    BY <1>9 DEF Plug, Unplug
  <2>3. port'.light = FALSE /\ port'.dp = FALSE BY <2>2 DEF Unplugged
  <2>. QED BY <1>2, <1>9, <2>1, <2>3 DEF Quieter, World
<1>. QED BY <1>1, <1>3, <1>4, <1>5, <1>6, <1>7, <1>8, <1>9 DEF World

\* What the screen's steps but a Run do, and the reset's.
LEMMA ScreenQuieter ==
    Types /\ (ReadAlerts \/ View \/ ResetStep \/ ActReset \/ Leave \/ Open \/ UNCHANGED vars)
    => Quieter
<1>. SUFFICES ASSUME Types, ReadAlerts \/ View \/ ResetStep \/ ActReset \/ Leave \/ Open
                            \/ UNCHANGED vars
              PROVE  Quieter
  OBVIOUS
<1>0. chip \in Chips /\ port \in Ports /\ d \in Handshakes /\ RunFollowsHandshake
  BY DEF Types, TypeChip, TypePort, TypeDock
<1>1. CASE ReadAlerts
  <2>1. /\ d' = [d EXCEPT !.alerts = @ \cup (IF Answers THEN chip.alert ELSE {})]
        /\ chip' = [chip EXCEPT !.alert = IF Answers THEN {} ELSE @]
        /\ port' = port /\ left' = left
    BY <1>1 DEF ReadAlerts
  <2>2. d'.state = d.state /\ d'.led = d.led /\ d'.dpOn = d.dpOn
    BY <1>0, <2>1 DEF Handshakes
  <2>3. chip'.cmd = chip.cmd BY <1>0, <2>1 DEF Chips
  <2>. QED BY <2>1, <2>2, <2>3 DEF Quieter
<1>2. CASE View
  <2>1. chip'.cmd = chip.cmd /\ d' = d /\ port' = port /\ left' = left
    BY <1>0, <1>2 DEF View, Chips
  <2>. QED BY <2>1 DEF Quieter
<1>3. CASE ResetStep
  <2>1. d' = d /\ left' = left BY <1>3, ResetEnding DEF ResetTo
  <2>2. port' = port
    BY <1>3 DEF ResetStep, ShortWait, Pulsed, Settled, IrqWaited, IdWaited, SysReset, Configured
  <2>3. chip'.cmd \in {chip.cmd, "SYS_RESET"}
    <3>1. CASE IdWaited
      <4>1. chip' = Issue([chip EXCEPT !.alert = {}], "SYS_RESET") \/ chip' = chip
        BY <3>1 DEF IdWaited
      <4>. QED BY <1>0, <4>1 DEF Issue, Chips
    <3>2. CASE SysReset BY <1>0, <3>2 DEF SysReset, Chips
    <3>3. CASE chip' = chip BY <3>3
    <3>. QED BY <1>3, <3>1, <3>2, <3>3
           DEF ResetStep, ShortWait, Pulsed, Settled, IrqWaited, Configured
  <2>. QED BY <2>1, <2>2, <2>3 DEF Quieter
<1>4. CASE ActReset
  <2>1. chip'.cmd = "none" BY <1>4 DEF ActReset, ChipUp
  <2>2. port'.light = port.light /\ port'.dp = FALSE BY <1>0, <1>4 DEF ActReset, Ports
  <2>3. d' = d /\ left' = left BY <1>4 DEF ActReset
  <2>. QED BY <2>1, <2>2, <2>3 DEF Quieter
<1>5. CASE Leave
  <2>1. [d EXCEPT !.state = "IDLE"].state = "IDLE" BY <1>0 DEF Handshakes
  <2>2. running \/ ran \/ d.state = "IDLE" BY <1>0 DEF RunFollowsHandshake
  <2>3. d'.state = "IDLE" /\ left' = left BY <1>5, <2>1, <2>2 DEF Leave
  <2>4. \/ UNCHANGED <<port, chip>>
        \/ /\ port' = [port EXCEPT !.light = @ /\ ~d.led, !.dp = @ /\ ~d.dpOn]
           /\ chip' = [chip EXCEPT !.cmd = "none"] \/ chip' = chip
    BY <1>5 DEF Leave, DockStop
  <2>5. /\ port'.light = TRUE => port.light = TRUE
        /\ port'.dp = TRUE => port.dp = TRUE
        /\ chip'.cmd \in {chip.cmd, "none"}
    <3>1. CASE UNCHANGED <<port, chip>> BY <3>1
    <3>2. CASE /\ port' = [port EXCEPT !.light = @ /\ ~d.led, !.dp = @ /\ ~d.dpOn]
               /\ chip' = [chip EXCEPT !.cmd = "none"] \/ chip' = chip
      <4>1. port'.light = (port.light /\ ~d.led) /\ port'.dp = (port.dp /\ ~d.dpOn)
        BY <1>0, <3>2 DEF Ports
      <4>2. port.light \in BOOLEAN /\ port.dp \in BOOLEAN BY <1>0 DEF Ports
      <4>3. chip'.cmd \in {chip.cmd, "none"} BY <1>0, <3>2 DEF Chips
      <4>. QED BY <4>1, <4>2, <4>3
    <3>. QED BY <2>4, <3>1, <3>2
  <2>. QED BY <2>3, <2>5 DEF Quieter
<1>6. CASE Open
  <2>1. d'.state = "IDLE" /\ port' = port /\ left' = left BY <1>6 DEF Open, NoHandshake
  <2>2. chip'.cmd = chip.cmd BY <1>0, <1>6 DEF Open, Chips
  <2>. QED BY <2>1, <2>2 DEF Quieter
<1>7. CASE UNCHANGED vars
  BY <1>7 DEF vars, Quieter
<1>. QED BY <1>1, <1>2, <1>3, <1>4, <1>5, <1>6, <1>7

(* Through the first run, what is switched on is on record or about to be. *)
LEMMA FirstRunStep == Inv /\ FirstRun /\ [Next]_vars => FirstRun'
<1>. SUFFICES ASSUME Inv, FirstRun, [Next]_vars PROVE FirstRun'
  OBVIOUS
<1>0. Types /\ left \in Bounds /\ left.runs \in 0 .. MaxRuns /\ MaxRuns \in Nat
  BY WaitsAssumption DEF Inv, Types, TypeLeft, Bounds
<1>1. CASE DockStep
  <2>1. Records BY <1>1, DockStepRecords
  <2>2. port' = port /\ left' = left BY <1>0, <1>1, DockStepEnds DEF Ended, EndTick
  <2>3. d.state \notin {"IDLE", "FAILED"}
    <3>1. pc = "read"
      BY <1>1 DEF DockStep, CableGone, Faulted, WaitPlug, RdoSent, MessageSent, AwaitCommand,
           PowerReady, Swapped, Identified, NinEntered, SvidsRead, ModesRead, DpEntered,
           DpConfigured, HpdWaited, StateRead, LightOn, HubDelayed, HubRead, Completed, In
    <3>2. RunFollowsHandshake BY <1>0 DEF Types
    <3>. QED BY <3>1, <3>2 DEF RunFollowsHandshake
  <2>4. left.runs # MaxRuns BY <2>3 DEF FirstRun, Untouched
  <2>5. left.runs + 1 >= MaxRuns => LightOwed' /\ ModeOwed'
    <3>. SUFFICES ASSUME LightOwed, ModeOwed PROVE LightOwed' /\ ModeOwed'
      BY DEF FirstRun
    <3>1. d'.led = TRUE \/ d'.state = "LED_SENT" \/ (chip'.cmd = "LED" => chip.cmd = "LED")
      BY <2>1 DEF Records
    <3>2. port'.light = TRUE \/ chip'.cmd = "LED"
          => d'.led = TRUE \/ d'.state \in LampStates \cup {"FAILED"}
      BY <2>1, <2>2, <2>3, <3>1 DEF LightOwed, Records, LampStates
    <3>3. port'.dp = TRUE \/ chip'.cmd = "DP_ENTER" => d'.dpOn = TRUE
      BY <2>1, <2>2, <2>3 DEF ModeOwed, Records
    <3>. QED BY <3>2, <3>3 DEF LightOwed, ModeOwed
  <2>. QED BY <2>2, <2>4, <2>5 DEF FirstRun
<1>2. CASE ActStart
  <2>1. /\ left' = [left EXCEPT !.runs = @ - 1] /\ port' = port
        /\ chip' = [chip EXCEPT !.alert = {}]
    BY <1>2 DEF ActStart
  <2>2. left'.runs = left.runs - 1 BY <1>0, <2>1 DEF Bounds
  <2>3. chip'.cmd = chip.cmd BY <1>0, <2>1 DEF Types, TypeChip, Chips
  <2>4. left'.runs # MaxRuns BY <1>0, <2>2
  <2>5. left'.runs + 1 >= MaxRuns => left.runs = MaxRuns BY <1>0, <2>2
  <2>6. left'.runs + 1 >= MaxRuns => LightOwed' /\ ModeOwed'
    BY <2>1, <2>3, <2>5 DEF FirstRun, Untouched, LightOwed, ModeOwed
  <2>. QED BY <2>4, <2>6 DEF FirstRun
<1>3. CASE World \/ Pass BY <1>0, <1>3, WorldQuieter, QuieterKeeps
<1>4. CASE ReadAlerts \/ View \/ ResetStep \/ ActReset \/ Leave \/ Open \/ UNCHANGED vars
  BY <1>0, <1>4, ScreenQuieter, QuieterKeeps
<1>. QED BY <1>1, <1>2, <1>3, <1>4 DEF Next, Tick, User

\* Leaving the first run at any step leaves DisplayPort mode exited and the dock's
\* light off, but for a light whose message is not yet on record: for every dock,
\* trouble and way of plugging.
THEOREM LeavesDockClean == Spec => LeavingIsClean
<1>1. Init => FirstRun
  BY DEF Init, NoHandshake, ChipUp, Unplugged, FirstRun, Untouched, LightOwed, ModeOwed
<1>2. Inv /\ FirstRun /\ [Next]_vars => FirstRun' BY FirstRunStep
<1>3. Inv /\ FirstRun /\ [Next]_vars =>
        [screen = "open" /\ screen' = "left" /\ d.state # "IDLE" /\ Answers
         /\ left.runs + 1 = MaxRuns
           => /\ ~port'.dp
              /\ port'.light => ~d.led /\ d.state \in {"LED_SENT", "LED_ACC", "FAILED"}]_vars
  <2>. SUFFICES ASSUME Inv, FirstRun, [Next]_vars, screen = "open", screen' = "left",
                       d.state # "IDLE", Answers, left.runs + 1 = MaxRuns
                PROVE  /\ ~port'.dp
                       /\ port'.light => ~d.led /\ d.state \in {"LED_SENT", "LED_ACC", "FAILED"}
    OBVIOUS
  <2>0. /\ Types /\ d \in Handshakes /\ port \in Ports /\ RunFollowsHandshake
        /\ left.runs \in 0 .. MaxRuns /\ MaxRuns \in Nat
    BY WaitsAssumption DEF Inv, Types, TypeDock, TypePort, TypeLeft, Bounds
  <2>1. Leave
    <3>1. DockStep => screen' = screen BY <2>0, DockStepEnds DEF Ended, EndTick
    <3>2. ResetStep => screen' = screen BY <2>0, ResetEnding DEF ResetTo
    <3>3. World \/ Pass => screen' = screen BY WorldMoves DEF Pass, software, screenVars
    <3>4. ReadAlerts \/ View \/ ActStart \/ ActReset \/ UNCHANGED vars => screen' = screen
      BY DEF ReadAlerts, View, ActStart, ActReset, vars, screenVars
    <3>5. ~Open BY DEF Open
    <3>. QED BY <3>1, <3>2, <3>3, <3>4, <3>5 DEF Next, Tick, User
  <2>2. running \/ ran BY <2>0 DEF RunFollowsHandshake
  <2>3. port' = [port EXCEPT !.light = @ /\ ~d.led, !.dp = @ /\ ~d.dpOn]
    BY <2>1, <2>2 DEF Leave, DockStop
  <2>4. port'.light = (port.light /\ ~d.led) /\ port'.dp = (port.dp /\ ~d.dpOn)
    BY <2>0, <2>3 DEF Ports
  <2>5. LightOwed /\ ModeOwed
    <3>1. left.runs + 1 >= MaxRuns BY <2>0
    <3>. QED BY <3>1 DEF FirstRun
  <2>6. port.light \in BOOLEAN /\ port.dp \in BOOLEAN /\ d.led \in BOOLEAN /\ d.dpOn \in BOOLEAN
    BY <2>0 DEF Ports, Handshakes
  <2>. QED BY <2>4, <2>5, <2>6 DEF LightOwed, ModeOwed, LampStates
<1>. QED BY <1>1, <1>2, <1>3, Invariance, PTL DEF Spec, LeavingIsClean

=============================================================================
