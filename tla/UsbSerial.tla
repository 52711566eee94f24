----------------------------- MODULE UsbSerial -----------------------------
(***************************************************************************)
(* gui/usbser.c: the USB serial port of the GUI's debug console, over the  *)
(* controller driver the SoC needs, down to the PC.                        *)
(*                                                                         *)
(* The BPMP polls: usbser_poll asks the driver what happened, brings the   *)
(* port's state up to date and moves bytes between the two queues and the  *)
(* endpoints.  PC and controller act between any two of its steps.  Bytes  *)
(* going out are counted, not told apart, and a packet, a chunk and a byte *)
(* are all one here.  What the receive queue does with the bytes that come *)
(* in is ByteRing's.                                                       *)
(***************************************************************************)
EXTENDS Xusb, Usb2

CONSTANT TxSize   \* the transmit queue

ASSUME QueueAssumption == TxSize \in Nat \ {0}

VARIABLES soc,     \* which controller the console has; never changes
          port,    \* usbser.c's state, DTR and transmit queue
          power,   \* the clocks and PHY parts that are up
          poll     \* where usbser_poll is, and the end of its events

vars == <<hostVars, xusbVars, usb2Vars, soc, port, power, poll>>

OnX == soc = "xusb"

(* ---- the power sequences ---- *)

\* Which parts each driver brings up, and takes down at the end.
XusbParts == {"pllu", "utmipll", "xusb", "padctl", "xusb_dev", "xusb_ss"}
Usb2Parts == {"pllu", "utmipll", "usbd", "padctl", "bias", "crystal"}
UpParts == IF OnX THEN (power \ {"usbd"}) \cup XusbParts
                  ELSE power \cup Usb2Parts
\* Mutant: the driver's end forgets the PLL.
DownPartsKeepsPll == power \ ((IF OnX THEN XusbParts ELSE Usb2Parts) \ {"pllu"})
DownParts == power \ (IF OnX THEN XusbParts ELSE Usb2Parts)

(* ---- the port ---- *)

Port(state) == [state |-> state, dtr |-> FALSE, tx |-> 0]
Off == {"OFF", "FAILED"}
Idle == [at |-> "idle", limit |-> 0]

Init ==
    /\ soc \in {"xusb", "usb2"}
    /\ HostInit
    /\ x = XInit /\ ev = EventRingInit /\ csc = FALSE
    /\ u = UInit /\ op = NoOp
    /\ port = Port("OFF") /\ power = {} /\ poll = Idle

\* The controller comes up, or does not: only the USB2 one waits for its PHY
\* and its modes.  A PC on the cable finds a new device.
BroughtUp(ok) ==
    /\ ok \/ ~OnX
    /\ x' = XInit /\ ev' = EventRingInit /\ u' = UInit /\ op' = NoOp
    /\ csc' = FALSE
    /\ IF ok THEN port' = Port("WAITING") /\ power' = UpParts
             ELSE port' = Port("FAILED") /\ power' = DownParts
    /\ host' = Fresh(FALSE)
    /\ UNCHANGED <<pc, upsets, failures, soc>>

\* usbser_start, from gui_dbg_set; a PC that is on the cable plugs in after.
Start(ok) ==
    /\ port.state \in Off /\ poll = Idle
    /\ BroughtUp(ok)
    /\ UNCHANGED poll

\* usbser_stop: the endpoints off, the power down.
Stop ==
    /\ port.state \notin Off /\ poll = Idle
    /\ x' = DisableEps(x) /\ u' = DisableEps2(u)
    /\ port' = [port EXCEPT !.state = "OFF"]
    /\ power' = DownParts
    /\ host' = Fresh(FALSE)
    /\ UNCHANGED <<pc, upsets, failures, ev, csc, op, soc, poll>>

\* usbser_poll finds the PC gone: the controller starts over.
PollLost ==
    /\ port.state \notin Off /\ poll = Idle /\ OnX /\ x.lost
    /\ BroughtUp(TRUE)
    /\ UNCHANGED poll

Configured(X, U) == IF OnX THEN X.state = "configured" ELSE U.configured
TxIdle(X, U) == IF OnX THEN XTxIdle(X) ELSE UTxIdle(U)

\* A chunk goes out: somebody listens, and the last one is through.
Sends(X, U, p) == p.dtr /\ p.tx > 0 /\ TxIdle(X, U)

\* Struct x and u once the port has read what came in, queued the next read
\* and sent its chunk.
BulkX(X, sends) ==
    LET Y == XRxQueued([X EXCEPT !.rxq = @ /\ ~XRxReady(X)]) IN
    IF sends THEN Queue(Y, "in", "normal") ELSE Y
BulkU(U, sends) ==
    LET V == URxQueued([U EXCEPT !.rxq = @ /\ ~URxReady(U)]) IN
    IF sends THEN Prime(V, "in") ELSE V

\* The rest of usbser_poll, with the driver as its poll left it: the state,
\* what came in, what goes out.  What waits to go out is dropped when nobody
\* listens.
PollPort(X, U, p) ==
    /\ IF ~Configured(X, U)
         THEN port' = [p EXCEPT !.state = "WAITING"] /\ x' = X /\ u' = U
         ELSE /\ port' = [p EXCEPT
                            !.state = IF p.dtr THEN "OPEN" ELSE "CONNECTED",
                            !.tx = IF ~p.dtr \/ Sends(X, U, p) THEN 0 ELSE @]
              /\ x' = IF OnX THEN BulkX(X, Sends(X, U, p)) ELSE X
              /\ u' = IF OnX THEN U ELSE BulkU(U, Sends(X, U, p))
    /\ poll' = Idle

DtrOf(r, was) == CASE r = "dtr1" -> TRUE [] r = "dtr0" -> FALSE [] OTHER -> was

\* usbser_poll asks the XUSB driver for events: up to where the controller
\* stands now, if it raised its flag.
PollX ==
    /\ port.state \notin Off /\ poll = Idle /\ OnX /\ ~x.lost
    /\ IF ev.ip THEN /\ poll' = [at |-> "events", limit |-> ev.enq]
                     /\ UNCHANGED <<x, u, port>>
                ELSE PollPort(x, u, port)
    /\ ev' = [ev EXCEPT !.ip = FALSE]
    /\ UNCHANGED <<hostVars, csc, op, soc, power>>

\* One event, if there is a new one.  Class requests reach usbser_class on
\* the way.  After the last event the port has its turn.
Event ==
    /\ poll.at = "events"
    /\ LET e == NextEvent.what
           X == HandleEvent(x, e)
           p == IF e.t = "setup" THEN [port EXCEPT !.dtr = DtrOf(e.req, @)] ELSE port
       IN  IF ~IsNew THEN PollPort(x, u, port) /\ UNCHANGED <<csc, ev>>
           ELSE /\ csc' = (csc /\ e.t # "port")
                /\ ev' = Consumed(ev)
                /\ IF ev'.deq = poll.limit THEN PollPort(X, u, p)
                   ELSE x' = X /\ port' = p /\ UNCHANGED <<u, poll>>
    /\ UNCHANGED <<hostVars, op, soc, power>>

\* usbser_poll asks the USB2 driver: a bus reset, then a SETUP packet, which
\* holds the BPMP until its stages are through.
Poll2 ==
    /\ port.state \notin Off /\ poll = Idle /\ ~OnX
    /\ LET U == BusResetHandled(u)
           p == IF U.setupstat THEN [port EXCEPT !.dtr = DtrOf(U.mail, @)] ELSE port
       IN  /\ op' = FirstOp(U)
           /\ IF FirstOp(U) = NoOp THEN PollPort(x, Taken(U), p)
              ELSE /\ u' = Taken(U) /\ port' = p
                   /\ poll' = [at |-> "op", limit |-> 0] /\ UNCHANGED x
    /\ UNCHANGED <<hostVars, ev, csc, soc, power>>

\* A stage of the control transfer ends; after the last the port's turn.
Op2 ==
    /\ poll.at = "op"
    /\ \E end \in {OpDone, OpTimesOut} :
         /\ end.happens
         /\ op' = end.op
         /\ IF end.op = NoOp THEN PollPort(x, end.u, port)
            ELSE u' = end.u /\ UNCHANGED <<x, port, poll>>
    /\ UNCHANGED <<hostVars, ev, csc, soc, power>>

\* usbser_send: a byte queued while a program has the port.  One that finds
\* the queue full for 20 ms of polling is dropped, which is no step here.
Send ==
    /\ port.state = "OPEN" /\ poll = Idle /\ port.tx < TxSize
    /\ port' = [port EXCEPT !.tx = @ + 1]
    /\ UNCHANGED <<hostVars, xusbVars, usb2Vars, soc, power, poll>>

Bpmp == \/ PollLost \/ PollX \/ Event \/ Poll2 \/ Op2
Console == \/ \E ok \in BOOLEAN : Start(ok)
           \/ Stop \/ Send

(* ---- the controller and the PC, while the controller is up ---- *)

Answers == \/ OnX /\ (XStage \/ XStale \/ XStalls) /\ UNCHANGED usb2Vars
           \/ ~OnX /\ (UStage \/ UStalls) /\ UNCHANGED xusbVars
Moves(e) == \/ OnX /\ XBulk(e) /\ UNCHANGED usb2Vars
            \/ ~OnX /\ UBulk(e) /\ UNCHANGED xusbVars
Asks(r) == \/ OnX /\ XBegin(r) /\ UNCHANGED usb2Vars
           \/ ~OnX /\ UBegin(r) /\ UNCHANGED xusbVars
Plugs == \/ OnX /\ XPlug /\ UNCHANGED usb2Vars
         \/ ~OnX /\ UPlug /\ UNCHANGED xusbVars
\* The PC waited long enough for a request nothing answers any more.
Waits ==
    /\ host.req # NoReq /\ poll = Idle
    /\ IF OnX THEN XNothingComes ELSE UNothingComes
    /\ TimedOut
    /\ UNCHANGED <<pc, xusbVars, usb2Vars>>
Upsets == \/ GiveUp /\ UNCHANGED <<pc, xusbVars, usb2Vars>>
          \/ OnX /\ (XUnplug \/ XBusReset \/ XBabble) /\ UNCHANGED usb2Vars
          \/ ~OnX /\ (UUnplug \/ UBusReset \/ \E q \in {"out", "in"} : UBulkError(q))
             /\ UNCHANGED xusbVars

Line == /\ port.state \notin Off
        /\ \/ Answers \/ Plugs \/ Waits \/ Upsets
           \/ \E e \in BulkEp : Moves(e)
           \/ \E r \in pc.asks : Asks(r)
        /\ UNCHANGED <<soc, port, power, poll>>

Next == Bpmp \/ Console \/ Line

Spec == Init /\ [][Next]_vars

\* The GUI's loop polls, and the controller does its part.  The PC goes on:
\* it is plugged in, takes part in what it asked for, asks again for what it
\* does not have, and gives up only what nothing answers.
Fairness ==
    /\ WF_vars(Bpmp)
    /\ WF_vars(port.state \notin Off /\ Answers /\ UNCHANGED <<soc, port, power, poll>>)
    /\ WF_vars(port.state \notin Off /\ Plugs /\ UNCHANGED <<soc, port, power, poll>>)
    /\ SF_vars(port.state \notin Off /\ Waits /\ UNCHANGED <<soc, port, power, poll>>)
    /\ \A r \in {"addr", "conf1"} :
         SF_vars(port.state \notin Off /\ Asks(r) /\ UNCHANGED <<soc, port, power, poll>>)
FairSpec == Spec /\ Fairness

-----------------------------------------------------------------------------
(* What the driver counts as pending on a ring is what the controller has  *)
(* not run plus the completions still on the event ring: cycle bits, Links *)
(* and the two event segments' wrap never make the two ends lose count, so *)
(* a buffer is never handed out twice and no transfer waits for ever.      *)
CompletionsOf(e) ==
    Cardinality({i \in EventsWaiting : ev.slot[i].what.t = "xfer"
                                       /\ ev.slot[i].what.ep = e})
NotRun(r) == Cardinality({i \in DOMAIN r.slot : r.slot[i].kind # "none"})
EndsAgree ==
    OnX /\ port.state \notin Off =>
        /\ \A e \in Ep : (e = "ctrl" \/ x.run) =>
             /\ x.ring[e].pending = NotRun(x.ring[e]) + CompletionsOf(e)
             /\ Runnable(x.ring[e]) <=> NotRun(x.ring[e]) > 0
        /\ \A e \in BulkEp : x.run => x.ring[e].pending <= 1

(* No request of a PC goes unanswered, or is stalled, of itself: only what *)
(* a transfer given up, a bus reset, an unplugging or a transfer in error  *)
(* left behind can cost one, and none of these costs two.                  *)
FailuresAreCaused == failures <= upsets

(* A chunk is not written over while the PC may still be taking it: it was *)
(* taken, or the PC halted the endpoint or configures it afresh.           *)
InBusy == IF OnX THEN Runnable(x.ring["in"]) ELSE EpStatus(u, "in") = "active"
ChunksAreTaken == 
    [][port.tx > 0 /\ port'.tx = 0 /\ port'.state = "OPEN"
         => ~InBusy \/ (op # NoOp /\ u.setup = "conf1")]_vars

(* A port that is off, or that did not come up, leaves no clock and no PHY *)
(* part of either controller running.                                      *)
OffIsDown == port.state \in Off => power \cap (XusbParts \cup Usb2Parts) = {}

(* A PC that is on the cable and goes on asking gets the device configured *)
(* whatever it gave up, reset or left before.                              *)
PcGetsIn == []<>(host.configured \/ ~host.here \/ port.state \in Off)
=============================================================================
