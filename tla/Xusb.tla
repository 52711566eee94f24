-------------------------------- MODULE Xusb --------------------------------
(***************************************************************************)
(* gui/usbser_xusb.c: Mariko's device controller under the USB serial      *)
(* port, with the controller itself and the PC.                            *)
(*                                                                         *)
(* Driver and controller meet in memory.  Each endpoint has a ring of      *)
(* TRBs: the driver writes at enq with its cycle bit, the controller runs  *)
(* what carries the cycle it expects, and the Link at the end hands both   *)
(* back to the start with the cycle flipped.  The controller posts what    *)
(* happened on an event ring of two segments, told new from old by a       *)
(* cycle bit too.  All rings are shorter here; the numbers are CONSTANTS.  *)
(*                                                                         *)
(* A doorbell carries the sequence number of the SETUP it answers; here a  *)
(* stage is fresh when that is the PC's latest, and stale otherwise.       *)
(* Packet sizes and buffer addresses are left out, and so is the fourth    *)
(* endpoint, notifications, on whose ring nothing is ever queued.          *)
(***************************************************************************)
EXTENDS UsbHost, Sequences

CONSTANTS CtrlSlots,    \* TRBs of the control ring before its Link,
          BulkSlots,    \* and of a bulk one: LINK_TRB_IDX for both
          EventSlots    \* events of the two segments together

ASSUME RingAssumption == /\ CtrlSlots \in Nat /\ CtrlSlots > 1
                         /\ BulkSlots \in Nat /\ BulkSlots > 0
                         /\ EventSlots \in Nat /\ EventSlots > 1

VARIABLES x,     \* the driver's struct x, its rings and the endpoint registers
          ev,    \* the event ring, both ends
          csc    \* the port register's connect status change

xusbVars == <<x, ev, csc>>

Ep == {"ctrl", "out", "in"}
BulkEp == {"out", "in"}
Blank == [cycle |-> 0, kind |-> "none", fresh |-> FALSE]

(* ---- a transfer ring ---- *)

\* An empty ring closed by a Link; the controller starts over with it.
RingInit(n) == [enq |-> 0, deq |-> 0, cycle |-> 1, pending |-> 0,
                slot |-> [i \in 0 .. n - 1 |-> Blank], link |-> 0,
                hwdeq |-> 0, dcs |-> 1]
BulkRing == RingInit(BulkSlots)
Slots(r) == Cardinality(DOMAIN r.slot)

\* Mutant: the Link keeps its old cycle bit.
QueueTrbOldLink(r, kind, fresh) ==
    LET wraps == r.enq + 1 = Slots(r) IN
    [r EXCEPT !.slot[r.enq] = [cycle |-> r.cycle, kind |-> kind, fresh |-> fresh],
              !.cycle = IF wraps THEN 1 - @ ELSE @,
              !.enq = (@ + 1) % Slots(r),
              !.pending = @ + 1]

\* A TRB with the ring's cycle bit.  The Link it reaches is handed the cycle
\* and followed, and the cycle flips.
QueueTrb(r, kind, fresh) ==
    LET wraps == r.enq + 1 = Slots(r) IN
    [r EXCEPT !.slot[r.enq] = [cycle |-> r.cycle, kind |-> kind, fresh |-> fresh],
              !.link = IF wraps THEN r.cycle ELSE @,
              !.cycle = IF wraps THEN 1 - @ ELSE @,
              !.enq = (@ + 1) % Slots(r),
              !.pending = @ + 1]

\* Where the controller stands: past the Link, once that has its cycle.
AtLink(r) == r.hwdeq = Slots(r)
Runnable(r) == ~AtLink(r) /\ r.slot[r.hwdeq].cycle = r.dcs
Running(r) == r.slot[r.hwdeq]

\* The controller is through with a TRB, of which the cycle bit is all that
\* is looked at again, and follows a Link it owns.
Ran(r) ==
    LET s == [r EXCEPT !.slot[r.hwdeq] = [Blank EXCEPT !.cycle = r.dcs]] IN
    IF r.hwdeq + 1 < Slots(r) THEN [s EXCEPT !.hwdeq = @ + 1]
    ELSE IF r.link = r.dcs THEN [s EXCEPT !.hwdeq = 0, !.dcs = 1 - @]
    ELSE [s EXCEPT !.hwdeq = Slots(r)]

\* The driver learns of it: its own dequeue pointer, past the Link.
Completed(r) == [r EXCEPT !.deq = (@ + 1) % Slots(r),
                          !.pending = IF @ > 0 THEN @ - 1 ELSE 0]

(* ---- the event ring ---- *)

NoEvent == [t |-> "none"]
Xfer(e, ok) == [t |-> "xfer", ep |-> e, comp |-> ok]
SetupEvent(r) == [t |-> "setup", req |-> r]
PortEvent == [t |-> "port"]

EventRingInit == [slot |-> [i \in 0 .. EventSlots - 1 |->
                               [cycle |-> 0, what |-> NoEvent]],
                  enq |-> 0, pcs |-> 1, deq |-> 0, ccs |-> 1, ip |-> FALSE]

EventsFull == (ev.enq + 1) % EventSlots = ev.deq

\* The controller posts an event, and raises the interrupt flag.
Posted(q, e) ==
    LET wraps == q.enq + 1 = EventSlots IN
    [q EXCEPT !.slot[q.enq] = [cycle |-> q.pcs, what |-> e],
              !.enq = (@ + 1) % EventSlots,
              !.pcs = IF wraps THEN 1 - @ ELSE @,
              !.ip = TRUE]

EventsWaiting == IF ev.deq <= ev.enq THEN ev.deq .. ev.enq - 1
                 ELSE (ev.deq .. EventSlots - 1) \cup (0 .. ev.enq - 1)
SetupsWaiting == {i \in EventsWaiting : ev.slot[i].what.t = "setup"}

NextEvent == ev.slot[ev.deq]
IsNew == NextEvent.cycle = ev.ccs

\* Mutant: the cycle a new event carries does not flip with the wrap.
ConsumedOldCycle(q) == [q EXCEPT !.deq = (@ + 1) % EventSlots,
                                 !.slot[q.deq].what = NoEvent]

\* The next event, wrapping from the second segment's end to the first.  Of
\* the one that was read only the cycle bit is looked at again.
Consumed(q) ==
    [q EXCEPT !.deq = (@ + 1) % EventSlots,
              !.ccs = IF q.deq + 1 = EventSlots THEN 1 - @ ELSE @,
              !.slot[q.deq].what = NoEvent]

(* ---- the driver's handlers: X is struct x before, the value after ---- *)

XInit == [state |-> "default", seq |-> TRUE, wait |-> "none", out |-> FALSE,
          rxq |-> FALSE, lost |-> FALSE, run |-> FALSE, halted |-> {},
          ring |-> [e \in Ep |-> IF e = "ctrl" THEN RingInit(CtrlSlots)
                                  ELSE BulkRing]]

Queue(X, e, kind) == [X EXCEPT !.ring[e] = QueueTrb(@, kind, X.seq)]
CtrlIdle(X) == X.ring["ctrl"].enq = X.ring["ctrl"].deq

\* The data stage; nothing while an earlier stage is still on the ring.
CtrlData(X, kind) ==
    IF CtrlIdle(X) THEN [Queue(X, "ctrl", kind) EXCEPT !.wait = "data"] ELSE X

\* The status stage; to the PC, only on an idle ring.
CtrlStatus(X, kind) ==
    IF kind = "status_in" /\ ~CtrlIdle(X) THEN X
    ELSE [Queue(X, "ctrl", kind) EXCEPT !.wait = "status"]

\* Mutant: the status stage goes the same way as the data.
CtrlDoneSameWay(X) ==
    CASE X.wait = "data" ->
           CtrlStatus(X, IF X.out THEN "status_out" ELSE "status_in")
      [] X.wait = "status" ->
           [X EXCEPT !.wait = "none",
                     !.state = CASE @ = "addressed_wait"  -> "addressed"
                                 [] @ = "configured_wait" -> "configured"
                                 [] OTHER -> @]
      [] OTHER -> X

\* A stage is over: the status stage follows the data, the other way.
CtrlDone(X) ==
    CASE X.wait = "data" ->
           CtrlStatus(X, IF X.out THEN "status_in" ELSE "status_out")
      [] X.wait = "status" ->
           [X EXCEPT !.wait = "none",
                     !.state = CASE @ = "addressed_wait"  -> "addressed"
                                 [] @ = "configured_wait" -> "configured"
                                 [] OTHER -> @]
      [] OTHER -> X

SetEpStall(X, e, stall) ==
    [X EXCEPT !.halted = IF stall THEN @ \cup {e} ELSE @ \ {e}]

\* A transfer the controller reports over.
TransferEvent(X, e, comp) ==
    LET Y == [X EXCEPT !.ring[e] = Completed(@)] IN
    CASE comp = "ok" /\ e = "ctrl" -> CtrlDone(Y)
      [] comp = "babble"           -> SetEpStall(Y, e, TRUE)
      [] OTHER                     -> Y

DisableEps(X) == [X EXCEPT !.run = FALSE, !.state = "default", !.rxq = FALSE]

SetAddress(X) == [CtrlStatus(X, "status_in") EXCEPT !.state = "addressed_wait"]

\* SET_CONFIGURATION: off, or every endpoint set up afresh.
SetConfiguration(X, on) ==
    IF ~on THEN CtrlStatus(DisableEps(X), "status_in")
    ELSE [CtrlStatus([X EXCEPT !.ring = [e \in Ep |-> IF e \in BulkEp
                                            THEN BulkRing ELSE @[e]],
                               !.halted = @ \ BulkEp,
                               !.rxq = FALSE, !.run = TRUE], "status_in")
            EXCEPT !.state = "configured_wait"]

\* A SETUP packet: endpoint 0 is unhalted, then the request answered.
CtrlSetup(X0, r) ==
    LET X == [X0 EXCEPT !.seq = (SetupsWaiting = {ev.deq}), !.out = (r = "coding"),
                        !.halted = @ \ {"ctrl"}]
    IN  CASE r = "addr"            -> SetAddress(X)
          [] r = "conf1"           -> SetConfiguration(X, TRUE)
          [] r = "conf0"           -> SetConfiguration(X, FALSE)
          [] r \in {"dtr1", "dtr0"} -> CtrlStatus(X, "status_in")
          [] r = "desc"            -> CtrlData(X, "data_in")
          [] r = "coding"          -> CtrlData(X, "data_out")
          [] r = "halt_in"   -> CtrlStatus(SetEpStall(X, "in", TRUE), "status_in")
          [] r = "clear_in"  -> CtrlStatus(SetEpStall(X, "in", FALSE), "status_in")
          [] r = "clear_out" -> CtrlStatus(SetEpStall(X, "out", FALSE), "status_in")
          [] OTHER                 -> SetEpStall(X, "ctrl", TRUE)

\* A port change, read off the register when its event is handled: a PC
\* that is gone by then is lost.
PortChange(X) == IF csc /\ ~host.here THEN [X EXCEPT !.lost = TRUE] ELSE X

HandleEvent(X, e) ==
    CASE e.t = "xfer"  -> TransferEvent(X, e.ep, e.comp)
      [] e.t = "setup" -> CtrlSetup(X, e.req)
      [] e.t = "port"  -> PortChange(X)
      [] OTHER         -> X

(* ---- what usbser.c asks of the driver ---- *)

XTxIdle(X) == X.ring["in"].pending = 0
\* The last read is over: one packet for the port.
XRxReady(X) == X.rxq /\ X.ring["out"].pending = 0
\* The next read queued, if none is.
XRxQueued(X) == IF X.rxq THEN X ELSE [Queue(X, "out", "normal") EXCEPT !.rxq = TRUE]

(* ---- the controller, with the PC at its other end ---- *)

\* The PC starts a request: its SETUP packet becomes an event, and what is
\* on the control ring is stale.
XBegin(r) ==
    /\ CanBegin(r) /\ ~EventsFull
    /\ host' = Begun(r)
    /\ x' = [x EXCEPT !.seq = FALSE,
                      !.ring["ctrl"].slot =
                          [i \in DOMAIN @ |-> [@[i] EXCEPT !.fresh = FALSE]]]
    /\ ev' = Posted(ev, SetupEvent(r))
    /\ UNCHANGED <<pc, upsets, failures, csc>>

\* A stage on the control ring that the PC wants runs.
XStage ==
    LET r == x.ring["ctrl"] IN
    /\ Runnable(r) /\ ~EventsFull /\ "ctrl" \notin x.halted
    /\ Running(r).fresh
    /\ host.req # NoReq /\ host.stage = Running(r).kind
    /\ host' = Advanced(host)
    /\ x' = [x EXCEPT !.ring["ctrl"] = Ran(@)]
    /\ ev' = Posted(ev, Xfer("ctrl", "ok"))
    /\ UNCHANGED <<pc, upsets, failures, csc>>

\* A stale one ends with a sequence number error.
XStale ==
    LET r == x.ring["ctrl"] IN
    /\ Runnable(r) /\ ~EventsFull
    /\ ~Running(r).fresh
    /\ x' = [x EXCEPT !.ring["ctrl"] = Ran(@)]
    /\ ev' = Posted(ev, Xfer("ctrl", "error"))
    /\ UNCHANGED <<hostVars, csc>>

\* Endpoint 0 halted for the PC's request, which ends in a STALL.
XStalls ==
    /\ "ctrl" \in x.halted /\ x.seq /\ host.req # NoReq
    /\ Stalled
    /\ UNCHANGED <<pc, upsets, xusbVars>>

\* A bulk transfer the PC takes part in.
XBulk(e) ==
    /\ x.run /\ e \notin x.halted /\ ~EventsFull
    /\ host.here /\ host.configured /\ host.dtr /\ host.req = NoReq
    /\ Runnable(x.ring[e])
    /\ x' = [x EXCEPT !.ring[e] = Ran(@)]
    /\ ev' = Posted(ev, Xfer(e, "ok"))
    /\ UNCHANGED <<hostVars, csc>>

\* A packet longer than the transfer: a babble on bulk OUT.
XBabble ==
    /\ x.run /\ "out" \notin x.halted /\ ~EventsFull
    /\ host.here /\ host.configured /\ host.dtr /\ host.req = NoReq
    /\ Runnable(x.ring["out"])
    /\ x' = [x EXCEPT !.ring["out"] = Ran(@)]
    /\ ev' = Posted(ev, Xfer("out", "babble"))
    /\ Upset
    /\ UNCHANGED <<pc, host, failures, csc>>

\* A port change is one event until the driver acknowledges it.
XPortChanged(h) ==
    /\ csc \/ ~EventsFull
    /\ host' = h
    /\ csc' = TRUE
    /\ ev' = IF csc THEN ev ELSE Posted(ev, PortEvent)
    /\ UNCHANGED <<pc, failures, x>>

XPlug == ~host.here /\ XPortChanged(Fresh(TRUE)) /\ Upset
XUnplug == host.here /\ XPortChanged(Fresh(FALSE)) /\ Upset

\* The PC resets the bus: the driver only acknowledges the change.
XBusReset ==
    /\ host.here /\ ~EventsFull
    /\ host' = Fresh(TRUE)
    /\ ev' = Posted(ev, PortEvent)
    /\ Upset
    /\ UNCHANGED <<pc, failures, x, csc>>

\* Nothing on its way answers the PC's request any more: it times out.
XNothingComes ==
    /\ ev.deq = ev.enq
    /\ ~("ctrl" \in x.halted /\ x.seq)
    /\ LET r == x.ring["ctrl"] IN
         ~(Runnable(r) /\ (Running(r).fresh => Running(r).kind = host.stage))
=============================================================================
