-------------------------- MODULE UsbSerial_proofs --------------------------
(***************************************************************************)
(* The USB serial port, for every PC, every queue and every ring.  First   *)
(* its power: the parts that are up are the driver's own, and none is      *)
(* while the port is off or did not come up.  Then its transfers: driver   *)
(* and controller never lose count on a ring, and no chunk takes the place *)
(* of one the PC may still be at.                                          *)
(*                                                                         *)
(* Last what a PC may lose: every request that failed has an upset of its  *)
(* own to blame.                                                           *)
(*                                                                         *)
(* The second argument is one invariant, RingInv.  A ring is clear or      *)
(* holds one TRB; the event ring's waiting slots are told by its cycle     *)
(* bits; and what is pending is the TRB, or the event that tells of its    *)
(* end.  Lemmas come in that order: the transfer ring, the event ring, the *)
(* driver's handlers, the controller's steps, and the specification's.     *)
(*                                                                         *)
(* The third, DebtInv, adds where the PC's request is.  At any time what   *)
(* is on its way agrees with the stage the PC is at (Told); and as long as *)
(* each upset has cost a request, nothing an upset left behind stands in   *)
(* the way of the next (Clean).  A request fails only when it is not clean *)
(* and is clean after, so a failure pays for an upset.                     *)
(***************************************************************************)
EXTENDS UsbSerial, FiniteSetTheorems, TLAPS

States == {"OFF", "WAITING", "CONNECTED", "OPEN", "FAILED"}

\* The inductive invariant: OffIsDown alone does not know which driver's parts
\* a stop has to take down.
IInv ==
    /\ soc \in {"xusb", "usb2"}
    /\ port \in [state : States, dtr : BOOLEAN, tx : Nat]
    /\ power \subseteq IF OnX THEN XusbParts ELSE Usb2Parts
    /\ port.state \in Off => power = {}

(* The driver's parts, taken down, leave nothing of it up.                 *)
LEMMA DownIsAll == ASSUME power \subseteq IF OnX THEN XusbParts ELSE Usb2Parts
                   PROVE  DownParts = {}
<1>1. CASE OnX BY <1>1 DEF DownParts
<1>2. CASE ~OnX BY <1>2 DEF DownParts
<1>. QED BY <1>1, <1>2

(* What comes up belongs to the driver that brought it up.                 *)
LEMMA UpIsOwn == ASSUME power \subseteq IF OnX THEN XusbParts ELSE Usb2Parts
                 PROVE  UpParts \subseteq IF OnX THEN XusbParts ELSE Usb2Parts
<1>1. CASE OnX BY <1>1 DEF UpParts
<1>2. CASE ~OnX BY <1>2 DEF UpParts
<1>. QED BY <1>1, <1>2

\* A step that keeps the power and does not switch the port off.
Stays == /\ UNCHANGED <<soc, power>>
         /\ port' \in [state : States, dtr : BOOLEAN, tx : Nat]
         /\ port'.state \in Off => port.state \in Off

(* A step that leaves the port and both controllers alone is safe.         *)
LEMMA StaysSafe == IInv /\ Stays => IInv'
  BY DEF IInv, Stays, OnX, XusbParts, Usb2Parts

(* The rest of usbser_poll leaves the port on.                             *)
LEMMA PollPortOn ==
    ASSUME NEW X, NEW U, NEW p \in [state : States, dtr : BOOLEAN, tx : Nat],
           PollPort(X, U, p)
    PROVE  /\ port' \in [state : States, dtr : BOOLEAN, tx : Nat]
           /\ port'.state \notin Off
<1>1. CASE ~Configured(X, U)
  <2>1. port' = [p EXCEPT !.state = "WAITING"] BY <1>1 DEF PollPort
  <2>. QED BY <2>1 DEF States, Off
<1>2. CASE Configured(X, U)
  <2>1. PICK t \in Nat : port' = [p EXCEPT !.state = IF p.dtr THEN "OPEN" ELSE "CONNECTED",
                                           !.tx = t]
    <3>1. port' = [p EXCEPT !.state = IF p.dtr THEN "OPEN" ELSE "CONNECTED",
                            !.tx = IF ~p.dtr \/ Sends(X, U, p) THEN 0 ELSE @]
      BY <1>2 DEF PollPort
    <3>2. (IF ~p.dtr \/ Sends(X, U, p) THEN 0 ELSE p.tx) \in Nat OBVIOUS
    <3>. QED BY <3>1, <3>2
  <2>. QED BY <2>1 DEF States, Off
<1>. QED BY <1>1, <1>2

(* At the start the port is down.                                          *)
LEMMA InitInv == Init => IInv
  BY DEF Init, IInv, Port, States, Off

(* Bringing a controller up, or failing to, leaves the other one down.     *)
LEMMA BroughtUpSafe == ASSUME IInv, NEW ok \in BOOLEAN, BroughtUp(ok) PROVE IInv'
<1>0. soc' = soc BY DEF BroughtUp
<1>1. CASE ok
  <2>1. port' = Port("WAITING") /\ power' = UpParts BY <1>1 DEF BroughtUp
  <2>2. power' \subseteq IF OnX THEN XusbParts ELSE Usb2Parts BY <2>1, UpIsOwn DEF IInv
  <2>. QED BY <1>0, <2>1, <2>2 DEF IInv, Port, States, Off, OnX
<1>2. CASE ~ok
  <2>1. port' = Port("FAILED") /\ power' = DownParts BY <1>2 DEF BroughtUp
  <2>2. power' = {} BY <2>1, DownIsAll DEF IInv
  <2>. QED BY <1>0, <2>1, <2>2 DEF IInv, Port, States, Off, OnX
<1>. QED BY <1>1, <1>2

(* Every step keeps a port that is off down.                               *)
LEMMA StepInv == IInv /\ [Next]_vars => IInv'
<1>. SUFFICES ASSUME IInv, [Next]_vars PROVE IInv'
  OBVIOUS
<1>0. port \in [state : States, dtr : BOOLEAN, tx : Nat] BY DEF IInv
<1>1. ASSUME NEW ok \in BOOLEAN, Start(ok) PROVE IInv'
  BY <1>1, BroughtUpSafe DEF Start
<1>2. CASE PollLost
  BY <1>2, BroughtUpSafe DEF PollLost
<1>3. CASE Stop
  <2>1. port' = [port EXCEPT !.state = "OFF"] /\ power' = DownParts /\ soc' = soc
    BY <1>3 DEF Stop
  <2>2. power' = {} BY <2>1, DownIsAll DEF IInv
  <2>. QED BY <1>0, <2>1, <2>2 DEF IInv, States, Off, OnX
<1>4. CASE PollX
  <2>1. CASE ev.ip
    <3>1. UNCHANGED <<soc, power, port>> BY <1>4, <2>1 DEF PollX
    <3>. QED BY <1>0, <3>1, StaysSafe DEF Stays
  <2>2. CASE ~ev.ip
    <3>1. UNCHANGED <<soc, power>> /\ PollPort(x, u, port) BY <1>4, <2>2 DEF PollX
    <3>. QED BY <1>0, <3>1, PollPortOn, StaysSafe DEF Stays
  <2>. QED BY <2>1, <2>2
<1>5. CASE Event
  <2>. DEFINE e == NextEvent.what
              p == IF e.t = "setup" THEN [port EXCEPT !.dtr = DtrOf(e.req, @)] ELSE port
  <2>1. p \in [state : States, dtr : BOOLEAN, tx : Nat] /\ p.state = port.state
    BY <1>0 DEF DtrOf
  <2>2. UNCHANGED <<soc, power>> BY <1>5 DEF Event
  <2>3. PollPort(x, u, port) \/ PollPort(HandleEvent(x, e), u, p) \/ port' = p
    BY <1>5 DEF Event
  <2>. HIDE DEF p, e
  <2>. QED BY <1>0, <2>1, <2>2, <2>3, PollPortOn, StaysSafe DEF Stays
<1>6. CASE Poll2
  <2>. DEFINE U == BusResetHandled(u)
              p == IF U.setupstat THEN [port EXCEPT !.dtr = DtrOf(U.mail, @)] ELSE port
  <2>1. p \in [state : States, dtr : BOOLEAN, tx : Nat] /\ p.state = port.state
    BY <1>0 DEF DtrOf
  <2>2. UNCHANGED <<soc, power>> BY <1>6 DEF Poll2
  <2>3. PollPort(x, Taken(U), p) \/ port' = p BY <1>6 DEF Poll2
  <2>. HIDE DEF p, U
  <2>. QED BY <1>0, <2>1, <2>2, <2>3, PollPortOn, StaysSafe DEF Stays
<1>7. CASE Op2
  <2>1. PICK end \in {OpDone, OpTimesOut} :
          IF end.op = NoOp THEN PollPort(x, end.u, port) ELSE UNCHANGED port
    BY <1>7 DEF Op2
  <2>2. UNCHANGED <<soc, power>> BY <1>7 DEF Op2
  <2>. QED BY <1>0, <2>1, <2>2, PollPortOn, StaysSafe DEF Stays
<1>8. CASE Send
  <2>1. UNCHANGED <<soc, power>> /\ port' = [port EXCEPT !.tx = @ + 1] BY <1>8 DEF Send
  <2>2. port' \in [state : States, dtr : BOOLEAN, tx : Nat] /\ port'.state = port.state
    BY <1>0, <2>1
  <2>. QED BY <2>1, <2>2, StaysSafe DEF Stays
<1>9. CASE Line \/ UNCHANGED vars
  <2>1. UNCHANGED <<soc, port, power>> BY <1>9 DEF Line, vars
  <2>. QED BY <1>0, <2>1, StaysSafe DEF Stays
<1>. QED BY <1>1, <1>2, <1>3, <1>4, <1>5, <1>6, <1>7, <1>8, <1>9
         DEF Next, Bpmp, Console

(* The invariant says what the property does.                              *)
LEMMA InvOff == IInv => OffIsDown
  BY DEF IInv, OffIsDown

(* A port that is off, that was stopped or that did not come up, has no    *)
(* clock and no PHY part of either controller running: whichever SoC it is *)
(* and whatever the PC did before (usbser_stop, the drivers' end).         *)
THEOREM PortsOffAreDown == Spec => []OffIsDown
<1>1. Spec => []IInv BY InitInv, StepInv, PTL DEF Spec
<1>. QED BY <1>1, InvOff, PTL

-----------------------------------------------------------------------------

(* The invariant of the transfers.                                         *)

SizeOf(e) == IF e = "ctrl" THEN CtrlSlots ELSE BulkSlots
Kinds == {"none", "data_in", "data_out", "status_in", "status_out", "normal"}
TrbType == [cycle : {0, 1}, kind : Kinds, fresh : BOOLEAN]
RingType(n) == [enq : 0 .. n - 1, deq : 0 .. n - 1, cycle : {0, 1}, pending : Nat,
                slot : [0 .. n - 1 -> TrbType], link : {0, 1}, hwdeq : 0 .. n, dcs : {0, 1}]
Rings == RingType(CtrlSlots) \cup RingType(BulkSlots)
XType == [state : {"default", "addressed_wait", "addressed", "configured_wait", "configured"},
          seq : BOOLEAN, wait : {"none", "data", "status"}, out : BOOLEAN, rxq : BOOLEAN,
          lost : BOOLEAN, run : BOOLEAN, halted : SUBSET Ep, ring : [Ep -> Rings]]

\* Nothing is left to run, or one TRB is, and the Link after it has its cycle.
Clear(r) == /\ \A i \in DOMAIN r.slot : r.slot[i].kind = "none"
            /\ r.hwdeq = r.enq /\ r.dcs = r.cycle
Holds(r) == /\ r.hwdeq \in DOMAIN r.slot /\ r.slot[r.hwdeq].kind # "none"
            /\ \A i \in DOMAIN r.slot : i # r.hwdeq => r.slot[i].kind = "none"
            /\ IF r.hwdeq + 1 \in DOMAIN r.slot
               THEN r.enq = r.hwdeq + 1 /\ r.dcs = r.cycle
               ELSE r.enq = 0 /\ r.dcs = 1 - r.cycle /\ r.link = r.dcs
RingOK(r, n) ==
    /\ r \in RingType(n)
    /\ \A i \in 0 .. n - 1 : r.slot[i].cycle = IF i < r.enq THEN r.cycle ELSE 1 - r.cycle
    /\ Clear(r) \/ Holds(r)

\* The event ring: which slots hold an event of this turn of the ring.
Whats == {NoEvent, PortEvent} \cup {SetupEvent(r) : r \in AllRequests}
         \cup {Xfer(e, c) : e \in Ep, c \in {"ok", "error", "babble"}}
EvType == [slot : [0 .. EventSlots - 1 -> [cycle : {0, 1}, what : Whats]],
           enq : 0 .. EventSlots - 1, pcs : {0, 1}, deq : 0 .. EventSlots - 1,
           ccs : {0, 1}, ip : BOOLEAN]
EvOK(q) ==
    /\ q \in EvType
    /\ \A i \in 0 .. EventSlots - 1 : q.slot[i].cycle = IF i < q.enq THEN q.pcs ELSE 1 - q.pcs
    /\ q.ccs = IF q.deq <= q.enq THEN q.pcs ELSE 1 - q.pcs

\* What waits on it, by kind.
WaitingIn(q) == IF q.deq <= q.enq THEN q.deq .. q.enq - 1
                ELSE (q.deq .. EventSlots - 1) \cup (0 .. q.enq - 1)
SetupsIn(q) == {i \in WaitingIn(q) : q.slot[i].what.t = "setup"}
ConfsIn(q) == {i \in SetupsIn(q) : q.slot[i].what.req = "conf1"}
XfersIn(q, e) == {i \in WaitingIn(q) : q.slot[i].what.t = "xfer" /\ q.slot[i].what.ep = e}

\* Of two events that wait, j comes later.
Later(d, i, j) == IF (i >= d) = (j >= d) THEN j > i ELSE i >= d

\* No bulk transfer ends between a configuration and its handling, which sets
\* the rings up afresh.
Ordered(q) == \A e \in BulkEp : \A i \in ConfsIn(q), j \in XfersIn(q, e) : ~Later(q.deq, i, j)

\* What is pending on a ring is its TRB, or the event of its end.
Counts(r, ends) ==
    \/ Clear(r) /\ ends = {} /\ r.pending = 0
    \/ Holds(r) /\ ends = {} /\ r.pending = 1
    \/ Clear(r) /\ (\E i \in 0 .. EventSlots - 1 : ends = {i}) /\ r.pending = 1

\* The driver's struct X with the events of q still to come.
DrvOK(X, q) ==
    /\ X \in XType
    /\ \A e \in Ep : RingOK(X.ring[e], SizeOf(e))
    /\ \A e \in Ep : e = "ctrl" \/ X.run => Counts(X.ring[e], XfersIn(q, e))
    /\ LET r == X.ring["ctrl"] IN r.enq = IF r.pending = 0 THEN r.deq ELSE (r.deq + 1) % CtrlSlots
    /\ X.state \in {"configured_wait", "configured"} => X.run
    /\ X.run /\ ~X.rxq => X.ring["out"].pending = 0
    /\ \A i \in 0 .. CtrlSlots - 1 : X.ring["ctrl"].slot[i].fresh => X.seq

\* Driver, event ring and PC: a stage is fresh only with no SETUP packet on
\* its way, and the PC is not configured while its configuration is.
BothEnds ==
    /\ DrvOK(x, ev) /\ EvOK(ev) /\ Ordered(ev)
    /\ x.seq => SetupsIn(ev) = {}
    /\ ConfsIn(ev) # {} => ~host.configured

HostType == [here : BOOLEAN, addressed : BOOLEAN, configured : BOOLEAN, dtr : BOOLEAN,
             req : AllRequests \cup {NoReq}, stage : {"data_in", "data_out", "status_in", "status_out", "over"}]
UType == [setup : AllRequests \cup {NoReq, Zeroed}, configured : BOOLEAN, rxq : BOOLEAN,
          primed : [Qh -> BOOLEAN], active : [Qh -> BOOLEAN], error : [Qh -> BOOLEAN],
          stall : SUBSET Qh, enabled : SUBSET Qh, mail : AllRequests \cup {Zeroed},
          setupstat : BOOLEAN, uri : BOOLEAN]

\* Which part of usbser_poll is under way, and on which controller.
PollOK ==
    /\ poll.at \in {"idle", "events", "op"} /\ (poll.at # "idle" => port.state \notin Off)
    /\ poll.at = "events" => OnX
    /\ poll.at = "op" => ~OnX /\ op.qh \in CtrlQh

\* The inductive invariant.
RingInv ==
    /\ pc \in Pcs /\ host \in HostType /\ u \in UType /\ PollOK
    /\ OnX /\ port.state \notin Off => BothEnds

USE RingAssumption

-----------------------------------------------------------------------------
(* Transfer rings.                                                         *)

(* The next index of a ring.                                               *)
LEMMA NextIndex ==
    ASSUME NEW n \in Nat \ {0}, NEW a \in 0 .. n - 1
    PROVE  (a + 1) % n = IF a + 1 = n THEN 0 ELSE a + 1
<1>1. CASE a + 1 = n
  <2>1. n % n = 0 OBVIOUS
  <2>. QED BY <1>1, <2>1
<1>2. CASE a + 1 < n BY <1>2
<1>. QED BY <1>1, <1>2

(* A ring has as many slots as its type says.                              *)
LEMMA SlotsOfRing ==
    ASSUME NEW n \in Nat \ {0}, NEW r \in RingType(n)
    PROVE  DOMAIN r.slot = 0 .. n - 1 /\ Slots(r) = n
<1>1. DOMAIN r.slot = 0 .. n - 1 BY DEF RingType
<1>2. Cardinality(0 .. n - 1) = n BY FS_Interval
<1>. QED BY <1>1, <1>2 DEF Slots

(* An empty ring of n slots.                                               *)
LEMMA EmptyRing ==
    ASSUME NEW n \in Nat \ {0}
    PROVE  /\ RingOK(RingInit(n), n) /\ Clear(RingInit(n))
           /\ RingInit(n).pending = 0 /\ RingInit(n).enq = RingInit(n).deq
           /\ \A i \in 0 .. n - 1 : ~RingInit(n).slot[i].fresh
<1>. DEFINE r == RingInit(n)
<1>1. r \in RingType(n) BY DEF RingInit, RingType, Blank, TrbType, Kinds
<1>2. \A i \in 0 .. n - 1 : r.slot[i] = Blank BY DEF RingInit
<1>3. DOMAIN r.slot = 0 .. n - 1 /\ r.enq = 0 /\ r.deq = 0 /\ r.cycle = 1 /\ r.pending = 0
      /\ r.hwdeq = 0 /\ r.dcs = 1
  BY DEF RingInit
<1>4. Clear(r) BY <1>2, <1>3 DEF Clear, Blank
<1>. QED BY <1>1, <1>2, <1>3, <1>4 DEF RingOK, Blank

(* A clear ring has nothing to run; on one that holds a TRB it is next.    *)
LEMMA RunnableIff ==
    ASSUME NEW n \in Nat \ {0}, NEW r, RingOK(r, n)
    PROVE  /\ Runnable(r) <=> Holds(r)
           /\ ~(Clear(r) /\ Holds(r))
<1>1. r \in RingType(n) BY DEF RingOK
<1>2. DOMAIN r.slot = 0 .. n - 1 /\ Slots(r) = n BY <1>1, SlotsOfRing
<1>3. r.enq \in 0 .. n - 1 /\ r.cycle \in {0, 1} /\ r.dcs \in {0, 1} /\ r.hwdeq \in 0 .. n
  BY <1>1 DEF RingType
<1>4. \A i \in 0 .. n - 1 : r.slot[i].cycle = IF i < r.enq THEN r.cycle ELSE 1 - r.cycle
  BY DEF RingOK
<1>5. ~(Clear(r) /\ Holds(r)) BY DEF Clear, Holds
<1>6. ASSUME Clear(r) PROVE ~Runnable(r)
  <2>1. r.slot[r.hwdeq].cycle = 1 - r.dcs BY <1>3, <1>4, <1>6 DEF Clear
  <2>. QED BY <2>1, <1>3 DEF Runnable
<1>7. ASSUME Holds(r) PROVE Runnable(r)
  <2>1. r.hwdeq \in 0 .. n - 1 BY <1>2, <1>7 DEF Holds
  <2>2. r.slot[r.hwdeq].cycle = IF r.hwdeq < r.enq THEN r.cycle ELSE 1 - r.cycle
    BY <2>1, <1>4
  <2>3. CASE r.hwdeq + 1 \in DOMAIN r.slot
    <3>1. r.enq = r.hwdeq + 1 /\ r.dcs = r.cycle BY <1>7, <2>3 DEF Holds
    <3>. QED BY <3>1, <2>1, <2>2, <1>2, <1>3 DEF Runnable, AtLink
  <2>4. CASE r.hwdeq + 1 \notin DOMAIN r.slot
    <3>1. r.enq = 0 /\ r.dcs = 1 - r.cycle BY <1>7, <2>4 DEF Holds
    <3>. QED BY <3>1, <2>1, <2>2, <1>2, <1>3 DEF Runnable, AtLink
  <2>. QED BY <2>3, <2>4
<1>. QED BY <1>5, <1>6, <1>7 DEF RingOK

(* What a ring has not run is none or one TRB.                             *)
LEMMA NotRunIs ==
    ASSUME NEW r
    PROVE  (Clear(r) => NotRun(r) = 0) /\ (Holds(r) => NotRun(r) = 1)
<1>1. ASSUME Clear(r) PROVE NotRun(r) = 0
  <2>1. {i \in DOMAIN r.slot : r.slot[i].kind # "none"} = {} BY <1>1 DEF Clear
  <2>. QED BY <2>1, FS_EmptySet DEF NotRun
<1>2. ASSUME Holds(r) PROVE NotRun(r) = 1
  <2>1. {i \in DOMAIN r.slot : r.slot[i].kind # "none"} = {r.hwdeq} BY <1>2 DEF Holds
  <2>. QED BY <2>1, FS_Singleton DEF NotRun
<1>. QED BY <1>1, <1>2

(* A TRB queued on a clear ring is the one it holds; a Link it reaches gets *)
(* the cycle.                                                              *)
LEMMA QueuedHolds ==
    ASSUME NEW n \in Nat \ {0}, NEW r, RingOK(r, n), Clear(r),
           NEW k \in Kinds \ {"none"}, NEW f \in BOOLEAN
    PROVE  LET q == QueueTrb(r, k, f) IN
           /\ RingOK(q, n) /\ Holds(q)
           /\ q.pending = r.pending + 1 /\ q.deq = r.deq /\ q.enq = (r.enq + 1) % n
           /\ \A i \in 0 .. n - 1 : q.slot[i].fresh => f \/ r.slot[i].fresh
<1>. DEFINE q == QueueTrb(r, k, f)
            t == [cycle |-> r.cycle, kind |-> k, fresh |-> f]
            w == r.enq + 1 = n
<1>1. r \in RingType(n) BY DEF RingOK
<1>2. DOMAIN r.slot = 0 .. n - 1 /\ Slots(r) = n BY <1>1, SlotsOfRing
<1>3. r.enq \in 0 .. n - 1 /\ r.cycle \in {0, 1} /\ r.dcs \in {0, 1} /\ r.hwdeq \in 0 .. n
      /\ r.deq \in 0 .. n - 1 /\ r.link \in {0, 1} /\ r.pending \in Nat
      /\ r.slot \in [0 .. n - 1 -> TrbType]
  BY <1>1 DEF RingType
<1>4. (r.enq + 1) % n = IF w THEN 0 ELSE r.enq + 1 BY <1>3, NextIndex
<1>5. q = [enq |-> IF w THEN 0 ELSE r.enq + 1, deq |-> r.deq,
           cycle |-> IF w THEN 1 - r.cycle ELSE r.cycle, pending |-> r.pending + 1,
           slot |-> [r.slot EXCEPT ![r.enq] = t], link |-> IF w THEN r.cycle ELSE r.link,
           hwdeq |-> r.hwdeq, dcs |-> r.dcs]
  <2>1. q = [r EXCEPT !.slot = [r.slot EXCEPT ![r.enq] = t],
                      !.link = IF w THEN r.cycle ELSE r.link,
                      !.cycle = IF w THEN 1 - r.cycle ELSE r.cycle,
                      !.enq = IF w THEN 0 ELSE r.enq + 1,
                      !.pending = r.pending + 1]
    BY <1>2, <1>4 DEF QueueTrb
  <2>. HIDE DEF q, t
  <2>. QED BY <1>1, <2>1 DEF RingType
<1>6. t \in TrbType BY <1>3 DEF TrbType
<1>7. [r.slot EXCEPT ![r.enq] = t] \in [0 .. n - 1 -> TrbType] BY <1>3, <1>6
<1>8. q \in RingType(n) BY <1>3, <1>5, <1>7 DEF RingType
<1>9. /\ q.enq = IF w THEN 0 ELSE r.enq + 1
      /\ q.deq = r.deq /\ q.pending = r.pending + 1
      /\ q.cycle = IF w THEN 1 - r.cycle ELSE r.cycle
      /\ q.hwdeq = r.hwdeq /\ q.dcs = r.dcs
      /\ q.link = IF w THEN r.cycle ELSE r.link
      /\ q.slot = [r.slot EXCEPT ![r.enq] = t]
  BY <1>5
<1>10. /\ DOMAIN q.slot = 0 .. n - 1
       /\ \A i \in 0 .. n - 1 : q.slot[i] = IF i = r.enq THEN t ELSE r.slot[i]
  BY <1>3, <1>9
<1>11. t.cycle = r.cycle /\ t.kind = k /\ t.fresh = f OBVIOUS
<1>12. \A i \in 0 .. n - 1 : r.slot[i].cycle = IF i < r.enq THEN r.cycle ELSE 1 - r.cycle
  BY DEF RingOK
<1>13. (\A i \in 0 .. n - 1 : r.slot[i].kind = "none") /\ r.hwdeq = r.enq /\ r.dcs = r.cycle
  BY <1>2 DEF Clear
<1>. HIDE DEF q, t
<1>14. \A i \in 0 .. n - 1 : q.slot[i].cycle = IF i < q.enq THEN q.cycle ELSE 1 - q.cycle
  <2>1. CASE w
    <3>. SUFFICES ASSUME NEW i \in 0 .. n - 1 PROVE q.slot[i].cycle = r.cycle
      BY <2>1, <1>3, <1>9
    <3>. QED BY <2>1, <1>3, <1>10, <1>11, <1>12
  <2>2. CASE ~w
    <3>. SUFFICES ASSUME NEW i \in 0 .. n - 1
                  PROVE  q.slot[i].cycle = IF i < r.enq + 1 THEN r.cycle ELSE 1 - r.cycle
      BY <2>2, <1>9
    <3>. QED BY <2>2, <1>3, <1>10, <1>11, <1>12
  <2>. QED BY <2>1, <2>2
<1>15. Holds(q)
  <2>1. q.hwdeq \in DOMAIN q.slot /\ q.slot[q.hwdeq].kind # "none"
    BY <1>3, <1>9, <1>10, <1>11, <1>13
  <2>2. \A i \in DOMAIN q.slot : i # q.hwdeq => q.slot[i].kind = "none"
    BY <1>9, <1>10, <1>13
  <2>3. IF q.hwdeq + 1 \in DOMAIN q.slot THEN q.enq = q.hwdeq + 1 /\ q.dcs = q.cycle
        ELSE q.enq = 0 /\ q.dcs = 1 - q.cycle /\ q.link = q.dcs
    <3>1. q.hwdeq + 1 \in DOMAIN q.slot <=> ~w BY <1>3, <1>9, <1>10, <1>13
    <3>2. CASE w BY <3>1, <3>2, <1>3, <1>9, <1>13
    <3>3. CASE ~w BY <3>1, <3>3, <1>3, <1>9, <1>13
    <3>. QED BY <3>2, <3>3
  <2>. QED BY <2>1, <2>2, <2>3 DEF Holds
<1>16. \A i \in 0 .. n - 1 : q.slot[i].fresh => f \/ r.slot[i].fresh
  BY <1>10, <1>11
<1>17. RingOK(q, n) BY <1>8, <1>14, <1>15 DEF RingOK
<1>. QED BY <1>4, <1>9, <1>15, <1>16, <1>17 DEF q

(* Of a TRB that was run the cycle bit is left.                            *)
LEMMA UsedUpTrb ==
    ASSUME NEW c \in {0, 1}
    PROVE  LET t == [Blank EXCEPT !.cycle = c] IN
           t \in TrbType /\ t.cycle = c /\ t.kind = "none" /\ ~t.fresh
<1>1. Blank \in TrbType /\ Blank.kind = "none" /\ ~Blank.fresh BY DEF Blank, TrbType, Kinds
<1>. QED BY <1>1 DEF TrbType

(* The controller runs the TRB a ring holds, and the ring is clear.        *)
LEMMA RanClears ==
    ASSUME NEW n \in Nat \ {0}, NEW r, RingOK(r, n), Holds(r)
    PROVE  LET q == Ran(r) IN
           /\ RingOK(q, n) /\ Clear(q)
           /\ q.pending = r.pending /\ q.deq = r.deq /\ q.enq = r.enq
           /\ \A i \in 0 .. n - 1 : q.slot[i].fresh => r.slot[i].fresh
<1>. DEFINE q == Ran(r)
            h == r.hwdeq
            t == [Blank EXCEPT !.cycle = r.dcs]
            w == h + 1 = n
<1>1. r \in RingType(n) BY DEF RingOK
<1>2. DOMAIN r.slot = 0 .. n - 1 /\ Slots(r) = n BY <1>1, SlotsOfRing
<1>3. r.enq \in 0 .. n - 1 /\ r.cycle \in {0, 1} /\ r.dcs \in {0, 1}
      /\ r.deq \in 0 .. n - 1 /\ r.link \in {0, 1} /\ r.pending \in Nat
      /\ r.slot \in [0 .. n - 1 -> TrbType]
  BY <1>1 DEF RingType
<1>4. h \in 0 .. n - 1 BY <1>2 DEF Holds
<1>5. \A i \in 0 .. n - 1 : i # h => r.slot[i].kind = "none" BY <1>2 DEF Holds
<1>6. IF ~w THEN r.enq = h + 1 /\ r.dcs = r.cycle
      ELSE r.enq = 0 /\ r.dcs = 1 - r.cycle /\ r.link = r.dcs
  <2>1. h + 1 \in 0 .. n - 1 <=> ~w BY <1>4
  <2>. QED BY <2>1, <1>2 DEF Holds
<1>7. q = [enq |-> r.enq, deq |-> r.deq, cycle |-> r.cycle, pending |-> r.pending,
           slot |-> [r.slot EXCEPT ![h] = t], link |-> r.link,
           hwdeq |-> IF w THEN 0 ELSE h + 1, dcs |-> IF w THEN 1 - r.dcs ELSE r.dcs]
  <2>1. CASE ~w
    <3>1. h + 1 < n BY <1>4, <2>1
    <3>. QED BY <3>1, <2>1, <1>1, <1>2 DEF Ran, RingType
  <2>2. CASE w
    <3>1. ~(h + 1 < n) /\ r.link = r.dcs BY <1>6, <2>2
    <3>. QED BY <3>1, <2>2, <1>1, <1>2 DEF Ran, RingType
  <2>. QED BY <2>1, <2>2
<1>9. t \in TrbType /\ t.cycle = r.dcs /\ t.kind = "none" /\ ~t.fresh BY <1>3, UsedUpTrb
<1>10. [r.slot EXCEPT ![h] = t] \in [0 .. n - 1 -> TrbType] BY <1>3, <1>9
<1>11. q \in RingType(n)
  <2>1. (IF w THEN 0 ELSE h + 1) \in 0 .. n /\ (IF w THEN 1 - r.dcs ELSE r.dcs) \in {0, 1}
    BY <1>3, <1>4
  <2>. QED BY <2>1, <1>3, <1>7, <1>10 DEF RingType
<1>12. /\ q.enq = r.enq /\ q.deq = r.deq /\ q.cycle = r.cycle /\ q.pending = r.pending
       /\ q.hwdeq = (IF w THEN 0 ELSE h + 1)
       /\ q.dcs = (IF w THEN 1 - r.dcs ELSE r.dcs)
       /\ q.slot = [r.slot EXCEPT ![h] = t]
  BY <1>7
<1>13. /\ DOMAIN q.slot = 0 .. n - 1
       /\ \A i \in 0 .. n - 1 : q.slot[i] = IF i = h THEN t ELSE r.slot[i]
  BY <1>3, <1>12
<1>15. \A i \in 0 .. n - 1 : r.slot[i].cycle = IF i < r.enq THEN r.cycle ELSE 1 - r.cycle
  BY DEF RingOK
<1>. HIDE DEF q, t
<1>16. \A i \in 0 .. n - 1 : q.slot[i].cycle = IF i < q.enq THEN q.cycle ELSE 1 - q.cycle
  <2>. SUFFICES ASSUME NEW i \in 0 .. n - 1
                PROVE  q.slot[i].cycle = IF i < r.enq THEN r.cycle ELSE 1 - r.cycle
    BY <1>12
  <2>1. CASE i # h BY <2>1, <1>13, <1>15
  <2>2. CASE i = h BY <2>2, <1>3, <1>4, <1>6, <1>13, <1>9
  <2>. QED BY <2>1, <2>2
<1>17. Clear(q)
  <2>1. \A i \in DOMAIN q.slot : q.slot[i].kind = "none" BY <1>5, <1>13, <1>9
  <2>2. q.hwdeq = q.enq /\ q.dcs = q.cycle BY <1>3, <1>6, <1>12
  <2>. QED BY <2>1, <2>2 DEF Clear
<1>18. \A i \in 0 .. n - 1 : q.slot[i].fresh => r.slot[i].fresh
  BY <1>13, <1>9
<1>19. RingOK(q, n) BY <1>11, <1>16, <1>17 DEF RingOK
<1>. QED BY <1>12, <1>17, <1>18, <1>19 DEF q

(* A completion moves the driver's end alone.                              *)
LEMMA CompletedKeeps ==
    ASSUME NEW n \in Nat \ {0}, NEW r, RingOK(r, n)
    PROVE  LET q == Completed(r) IN
           /\ RingOK(q, n) /\ (Clear(q) <=> Clear(r)) /\ (Holds(q) <=> Holds(r))
           /\ q.pending = (IF r.pending > 0 THEN r.pending - 1 ELSE 0)
           /\ q.deq = (r.deq + 1) % n /\ q.enq = r.enq /\ q.slot = r.slot
<1>. DEFINE q == Completed(r)
<1>1. r \in RingType(n) BY DEF RingOK
<1>2. DOMAIN r.slot = 0 .. n - 1 /\ Slots(r) = n BY <1>1, SlotsOfRing
<1>3. r.deq \in 0 .. n - 1 /\ r.pending \in Nat BY <1>1 DEF RingType
<1>4. (r.deq + 1) % n \in 0 .. n - 1 BY <1>3, NextIndex
<1>5. q = [r EXCEPT !.deq = (r.deq + 1) % n,
                    !.pending = IF r.pending > 0 THEN r.pending - 1 ELSE 0]
  BY <1>2 DEF Completed
<1>6. q \in RingType(n)
  <2>1. (IF r.pending > 0 THEN r.pending - 1 ELSE 0) \in Nat BY <1>3
  <2>. HIDE DEF q
  <2>. QED BY <1>1, <1>4, <1>5, <2>1 DEF RingType
<1>7. /\ q.deq = (r.deq + 1) % n
      /\ q.pending = (IF r.pending > 0 THEN r.pending - 1 ELSE 0)
      /\ q.enq = r.enq /\ q.cycle = r.cycle /\ q.slot = r.slot
      /\ q.link = r.link /\ q.hwdeq = r.hwdeq /\ q.dcs = r.dcs
  BY <1>1, <1>5 DEF RingType
<1>. HIDE DEF q
<1>8. (Clear(q) <=> Clear(r)) /\ (Holds(q) <=> Holds(r)) BY <1>7 DEF Clear, Holds
<1>9. RingOK(q, n) BY <1>6, <1>7, <1>8 DEF RingOK
<1>. QED BY <1>7, <1>8, <1>9 DEF q

(* A new SETUP packet makes what is on the control ring stale, no more.    *)
LEMMA StaleKeeps ==
    ASSUME NEW n \in Nat \ {0}, NEW r, RingOK(r, n)
    PROVE  LET q == [r EXCEPT !.slot = [i \in DOMAIN @ |-> [@[i] EXCEPT !.fresh = FALSE]]] IN
           /\ RingOK(q, n) /\ (Clear(q) <=> Clear(r)) /\ (Holds(q) <=> Holds(r))
           /\ q.pending = r.pending /\ q.deq = r.deq /\ q.enq = r.enq
           /\ \A i \in 0 .. n - 1 : ~q.slot[i].fresh
<1>. DEFINE s == [i \in 0 .. n - 1 |-> [r.slot[i] EXCEPT !.fresh = FALSE]]
            q == [r EXCEPT !.slot = s]
<1>1. r \in RingType(n) BY DEF RingOK
<1>2. DOMAIN r.slot = 0 .. n - 1 BY <1>1, SlotsOfRing
<1>3. \A i \in 0 .. n - 1 : r.slot[i] \in TrbType BY <1>1 DEF RingType
<1>4. s \in [0 .. n - 1 -> TrbType] BY <1>3 DEF TrbType
<1>5. \A i \in 0 .. n - 1 : /\ s[i].cycle = r.slot[i].cycle /\ s[i].kind = r.slot[i].kind
                            /\ s[i].fresh = FALSE
  BY <1>3 DEF TrbType
<1>6. DOMAIN s = 0 .. n - 1 OBVIOUS
<1>. HIDE DEF s
<1>7. q \in RingType(n) BY <1>1, <1>4 DEF RingType
<1>8. /\ q.deq = r.deq /\ q.pending = r.pending
      /\ q.enq = r.enq /\ q.cycle = r.cycle /\ q.slot = s
      /\ q.link = r.link /\ q.hwdeq = r.hwdeq /\ q.dcs = r.dcs
  BY <1>1 DEF RingType
<1>. HIDE DEF q
<1>9. (Clear(q) <=> Clear(r)) /\ (Holds(q) <=> Holds(r))
  <2>1. Clear(q) <=> Clear(r) BY <1>2, <1>5, <1>6, <1>8 DEF Clear
  <2>2. Holds(q) <=> Holds(r) BY <1>2, <1>5, <1>6, <1>8 DEF Holds
  <2>. QED BY <2>1, <2>2
<1>10. RingOK(q, n) BY <1>5, <1>7, <1>8, <1>9 DEF RingOK
<1>11. q = [r EXCEPT !.slot = [i \in DOMAIN @ |-> [@[i] EXCEPT !.fresh = FALSE]]]
  BY <1>2 DEF q, s
<1>. QED BY <1>5, <1>8, <1>9, <1>10, <1>11

-----------------------------------------------------------------------------
(* The event ring.                                                         *)

Ends == 0 .. EventSlots - 1

(* The fields of the event ring, and of the ring one event later.          *)
LEMMA EventRingFields ==
    ASSUME NEW q, EvOK(q)
    PROVE  /\ q \in EvType /\ q.enq \in Ends /\ q.deq \in Ends /\ q.pcs \in {0, 1}
           /\ q.ccs \in {0, 1} /\ DOMAIN q.slot = Ends
           /\ \A i \in Ends : q.slot[i] \in [cycle : {0, 1}, what : Whats]
           /\ WaitingIn(q) \subseteq Ends
<1>1. q \in EvType BY DEF EvOK
<1>2. q.enq \in Ends /\ q.deq \in Ends /\ q.pcs \in {0, 1} /\ q.ccs \in {0, 1}
      /\ q.slot \in [Ends -> [cycle : {0, 1}, what : Whats]]
  BY <1>1 DEF EvType, Ends
<1>3. WaitingIn(q) \subseteq Ends BY <1>2 DEF WaitingIn, Ends
<1>. QED BY <1>1, <1>2, <1>3

(* An event is new to the driver just if one waits.                        *)
LEMMA NewIffWaiting ==
    ASSUME EvOK(ev)
    PROVE  /\ IsNew <=> ev.deq # ev.enq
           /\ IsNew => ev.deq \in WaitingIn(ev)
<1>1. ev.enq \in Ends /\ ev.deq \in Ends /\ ev.pcs \in {0, 1} BY EventRingFields
<1>2. ev.slot[ev.deq].cycle = IF ev.deq < ev.enq THEN ev.pcs ELSE 1 - ev.pcs
  BY <1>1 DEF EvOK, Ends
<1>3. ev.ccs = IF ev.deq <= ev.enq THEN ev.pcs ELSE 1 - ev.pcs BY DEF EvOK
<1>4. IsNew <=> ev.deq # ev.enq
  BY <1>1, <1>2, <1>3 DEF IsNew, NextEvent, Ends
<1>5. ev.deq # ev.enq => ev.deq \in WaitingIn(ev) BY <1>1 DEF WaitingIn, Ends
<1>. QED BY <1>4, <1>5

(* An empty event ring.                                                    *)
LEMMA EmptyEvents ==
    /\ EvOK(EventRingInit) /\ WaitingIn(EventRingInit) = {} /\ Ordered(EventRingInit)
    /\ SetupsIn(EventRingInit) = {} /\ ConfsIn(EventRingInit) = {}
    /\ \A e : XfersIn(EventRingInit, e) = {}
<1>. DEFINE q == EventRingInit
<1>1. q \in EvType
  <2>1. NoEvent \in Whats BY DEF Whats
  <2>2. [cycle |-> 0, what |-> NoEvent] \in [cycle : {0, 1}, what : Whats] BY <2>1
  <2>. QED BY <2>2 DEF EventRingInit, EvType
<1>2. /\ q.enq = 0 /\ q.deq = 0 /\ q.pcs = 1 /\ q.ccs = 1
      /\ \A i \in 0 .. EventSlots - 1 : q.slot[i].cycle = 0
  BY DEF EventRingInit
<1>3. EvOK(q) BY <1>1, <1>2 DEF EvOK
<1>4. WaitingIn(q) = {}
  <2>1. WaitingIn(q) = 0 .. -1 BY <1>2 DEF WaitingIn
  <2>. QED BY <2>1
<1>5. SetupsIn(q) = {} BY <1>4 DEF SetupsIn
<1>6. ConfsIn(q) = {} BY <1>5 DEF ConfsIn
<1>7. \A e : XfersIn(q, e) = {} BY <1>4 DEF XfersIn
<1>8. Ordered(q) BY <1>6 DEF Ordered
<1>. QED BY <1>3, <1>4, <1>5, <1>6, <1>7, <1>8

(* An event is posted where none waits, behind those that do.              *)
LEMMA PostedWaits ==
    ASSUME NEW q, EvOK(q), (q.enq + 1) % EventSlots # q.deq, NEW e \in Whats
    PROVE  LET p == Posted(q, e) IN
           /\ EvOK(p) /\ p.deq = q.deq /\ q.enq \in Ends /\ q.enq \notin WaitingIn(q)
           /\ WaitingIn(p) = WaitingIn(q) \cup {q.enq}
           /\ p.slot[q.enq].what = e
           /\ \A i \in WaitingIn(q) : p.slot[i] = q.slot[i]
<1>. DEFINE p == Posted(q, e)
            w == q.enq + 1 = EventSlots
            c == [cycle |-> q.pcs, what |-> e]
<1>1. /\ q \in EvType /\ q.enq \in Ends /\ q.deq \in Ends /\ q.pcs \in {0, 1}
      /\ q.ccs \in {0, 1} /\ DOMAIN q.slot = Ends /\ WaitingIn(q) \subseteq Ends
      /\ q.slot \in [Ends -> [cycle : {0, 1}, what : Whats]]
  BY EventRingFields DEF EvType, Ends
<1>2. (q.enq + 1) % EventSlots = IF w THEN 0 ELSE q.enq + 1 BY <1>1, NextIndex DEF Ends
<1>2a. (IF w THEN 0 ELSE q.enq + 1) # q.deq BY <1>2
<1>3. /\ p.enq = (IF w THEN 0 ELSE q.enq + 1) /\ p.deq = q.deq /\ p.ccs = q.ccs
      /\ p.pcs = (IF w THEN 1 - q.pcs ELSE q.pcs) /\ p.ip = TRUE
      /\ p.slot = [q.slot EXCEPT ![q.enq] = c]
  BY <1>1, <1>2 DEF Posted, EvType
<1>4. c \in [cycle : {0, 1}, what : Whats] BY <1>1
<1>5. p.slot \in [Ends -> [cycle : {0, 1}, what : Whats]]
  <2>. HIDE DEF c, p
  <2>. QED BY <1>1, <1>3, <1>4
<1>6. p \in EvType
  <2>1. p = [q EXCEPT !.slot = p.slot, !.enq = p.enq, !.pcs = p.pcs, !.ip = TRUE]
    BY <1>1, <1>2, <1>3 DEF Posted, EvType
  <2>2. p.enq \in Ends /\ p.pcs \in {0, 1} BY <1>1, <1>3 DEF Ends
  <2>. HIDE DEF p
  <2>. QED BY <1>1, <1>5, <2>1, <2>2 DEF EvType, Ends
<1>7. c.cycle = q.pcs /\ c.what = e OBVIOUS
<1>8. \A i \in Ends : p.slot[i] = IF i = q.enq THEN c ELSE q.slot[i]
  <2>. HIDE DEF c, p
  <2>. QED BY <1>1, <1>3
<1>9. \A i \in Ends : q.slot[i].cycle = IF i < q.enq THEN q.pcs ELSE 1 - q.pcs
  BY DEF EvOK, Ends
<1>10. q.ccs = IF q.deq <= q.enq THEN q.pcs ELSE 1 - q.pcs BY DEF EvOK
<1>. HIDE DEF p, c
<1>11. \A i \in Ends : p.slot[i].cycle = IF i < p.enq THEN p.pcs ELSE 1 - p.pcs
  <2>. SUFFICES ASSUME NEW i \in Ends
                PROVE  p.slot[i].cycle = IF i < p.enq THEN p.pcs ELSE 1 - p.pcs
    OBVIOUS
  <2>1. p.slot[i].cycle = IF i <= q.enq THEN q.pcs ELSE 1 - q.pcs
    <3>1. CASE i = q.enq BY <3>1, <1>1, <1>7, <1>8 DEF Ends
    <3>2. CASE i # q.enq BY <3>2, <1>1, <1>8, <1>9 DEF Ends
    <3>. QED BY <3>1, <3>2
  <2>. QED BY <2>1, <1>1, <1>3 DEF Ends
<1>12. p.ccs = IF p.deq <= p.enq THEN p.pcs ELSE 1 - p.pcs
  <2>1. CASE w
    <3>1. p.enq = 0 /\ p.deq > 0 /\ q.deq <= q.enq BY <2>1, <1>1, <1>2a, <1>3 DEF Ends
    <3>2. p.ccs = q.pcs /\ p.pcs = 1 - q.pcs BY <2>1, <3>1, <1>3, <1>10
    <3>3. ~(p.deq <= p.enq) BY <3>1, <1>1, <1>3 DEF Ends
    <3>4. 1 - p.pcs = q.pcs BY <3>2, <1>1
    <3>. QED BY <3>2, <3>3, <3>4
  <2>2. CASE ~w BY <2>2, <1>1, <1>2a, <1>3, <1>10 DEF Ends
  <2>. QED BY <2>1, <2>2
<1>13. EvOK(p) BY <1>6, <1>11, <1>12 DEF EvOK, Ends
<1>14. q.enq \notin WaitingIn(q) BY <1>1 DEF WaitingIn, Ends
<1>15. WaitingIn(p) = WaitingIn(q) \cup {q.enq}
  <2>1. CASE w BY <2>1, <1>1, <1>2a, <1>3 DEF WaitingIn, Ends
  <2>2. CASE ~w BY <2>2, <1>1, <1>2a, <1>3 DEF WaitingIn, Ends
  <2>. QED BY <2>1, <2>2
<1>. QED BY <1>1, <1>3, <1>7, <1>8, <1>13, <1>14, <1>15 DEF p

(* The driver is through with the first event that waits.                  *)
LEMMA ConsumedLeaves ==
    ASSUME NEW q, EvOK(q), q.deq # q.enq
    PROVE  LET p == Consumed(q) IN
           /\ EvOK(p) /\ p.deq = (q.deq + 1) % EventSlots
           /\ WaitingIn(p) = WaitingIn(q) \ {q.deq}
           /\ \A i \in WaitingIn(p) : p.slot[i] = q.slot[i]
<1>. DEFINE p == Consumed(q)
            w == q.deq + 1 = EventSlots
            c == [q.slot[q.deq] EXCEPT !.what = NoEvent]
<1>1. /\ q \in EvType /\ q.enq \in Ends /\ q.deq \in Ends /\ q.pcs \in {0, 1}
      /\ q.ccs \in {0, 1} /\ DOMAIN q.slot = Ends /\ WaitingIn(q) \subseteq Ends
      /\ q.slot \in [Ends -> [cycle : {0, 1}, what : Whats]]
  BY EventRingFields DEF EvType, Ends
<1>2. (q.deq + 1) % EventSlots = IF w THEN 0 ELSE q.deq + 1 BY <1>1, NextIndex DEF Ends
<1>3. /\ p.deq = (IF w THEN 0 ELSE q.deq + 1) /\ p.enq = q.enq /\ p.pcs = q.pcs
      /\ p.ccs = (IF w THEN 1 - q.ccs ELSE q.ccs) /\ p.ip = q.ip
      /\ p.slot = [q.slot EXCEPT ![q.deq] = c]
  BY <1>1, <1>2 DEF Consumed, EvType
<1>4. c \in [cycle : {0, 1}, what : Whats] /\ c.cycle = q.slot[q.deq].cycle
  <2>1. q.slot[q.deq] \in [cycle : {0, 1}, what : Whats] BY <1>1
  <2>2. NoEvent \in Whats BY DEF Whats
  <2>. QED BY <2>1, <2>2
<1>5. p.slot \in [Ends -> [cycle : {0, 1}, what : Whats]]
  <2>. HIDE DEF c, p
  <2>. QED BY <1>1, <1>3, <1>4
<1>6. p \in EvType
  <2>1. p = [q EXCEPT !.slot = p.slot, !.deq = p.deq, !.ccs = p.ccs]
    BY <1>1, <1>2, <1>3 DEF Consumed, EvType
  <2>2. p.deq \in Ends /\ p.ccs \in {0, 1} BY <1>1, <1>3 DEF Ends
  <2>. HIDE DEF p
  <2>. QED BY <1>1, <1>5, <2>1, <2>2 DEF EvType, Ends
<1>. HIDE DEF c
<1>8. \A i \in Ends : p.slot[i] = IF i = q.deq THEN c ELSE q.slot[i]
  <2>. HIDE DEF p
  <2>. QED BY <1>1, <1>3
<1>9. \A i \in Ends : q.slot[i].cycle = IF i < q.enq THEN q.pcs ELSE 1 - q.pcs
  BY DEF EvOK, Ends
<1>10. q.ccs = IF q.deq <= q.enq THEN q.pcs ELSE 1 - q.pcs BY DEF EvOK
<1>. HIDE DEF p
<1>11. \A i \in Ends : p.slot[i].cycle = IF i < p.enq THEN p.pcs ELSE 1 - p.pcs
  <2>. SUFFICES ASSUME NEW i \in Ends
                PROVE  p.slot[i].cycle = IF i < p.enq THEN p.pcs ELSE 1 - p.pcs
    OBVIOUS
  <2>1. p.slot[i].cycle = q.slot[i].cycle BY <1>4, <1>8
  <2>. QED BY <2>1, <1>3, <1>9
<1>12. p.ccs = IF p.deq <= p.enq THEN p.pcs ELSE 1 - p.pcs
  BY <1>1, <1>2, <1>3, <1>10 DEF Ends
<1>13. EvOK(p) BY <1>6, <1>11, <1>12 DEF EvOK, Ends
<1>15. WaitingIn(p) = WaitingIn(q) \ {q.deq}
  BY <1>1, <1>2, <1>3 DEF WaitingIn, Ends
<1>. QED BY <1>1, <1>2, <1>3, <1>8, <1>13, <1>15 DEF p

(* What waits, by kind, once an event is posted.                           *)
LEMMA PostedKinds ==
    ASSUME NEW q, EvOK(q), (q.enq + 1) % EventSlots # q.deq, NEW e \in Whats
    PROVE  LET p == Posted(q, e) IN
           /\ \A k : XfersIn(p, k) = IF e.t = "xfer" /\ e.ep = k THEN XfersIn(q, k) \cup {q.enq}
                                     ELSE XfersIn(q, k)
           /\ SetupsIn(p) = IF e.t = "setup" THEN SetupsIn(q) \cup {q.enq} ELSE SetupsIn(q)
           /\ ConfsIn(p) = IF e.t = "setup" /\ e.req = "conf1" THEN ConfsIn(q) \cup {q.enq}
                           ELSE ConfsIn(q)
<1>. DEFINE p == Posted(q, e)
<1>1. /\ WaitingIn(p) = WaitingIn(q) \cup {q.enq} /\ q.enq \notin WaitingIn(q)
      /\ p.slot[q.enq].what = e
      /\ \A i \in WaitingIn(q) : p.slot[i] = q.slot[i]
  BY PostedWaits
<1>. HIDE DEF p
<1>2. ASSUME NEW k
      PROVE  XfersIn(p, k) = IF e.t = "xfer" /\ e.ep = k THEN XfersIn(q, k) \cup {q.enq}
                             ELSE XfersIn(q, k)
  BY <1>1 DEF XfersIn
<1>3. SetupsIn(p) = IF e.t = "setup" THEN SetupsIn(q) \cup {q.enq} ELSE SetupsIn(q)
  BY <1>1 DEF SetupsIn
<1>4. SetupsIn(q) \subseteq WaitingIn(q) BY DEF SetupsIn
<1>5. ConfsIn(p) = IF e.t = "setup" /\ e.req = "conf1" THEN ConfsIn(q) \cup {q.enq}
                   ELSE ConfsIn(q)
  BY <1>1, <1>3, <1>4 DEF ConfsIn
<1>. QED BY <1>2, <1>3, <1>5 DEF p

(* And once the first one is consumed.                                     *)
LEMMA ConsumedKinds ==
    ASSUME NEW q, EvOK(q), q.deq # q.enq
    PROVE  LET p == Consumed(q) IN
           /\ \A k : XfersIn(p, k) = XfersIn(q, k) \ {q.deq}
           /\ SetupsIn(p) = SetupsIn(q) \ {q.deq}
           /\ ConfsIn(p) = ConfsIn(q) \ {q.deq}
<1>. DEFINE p == Consumed(q)
<1>1. /\ WaitingIn(p) = WaitingIn(q) \ {q.deq}
      /\ \A i \in WaitingIn(p) : p.slot[i] = q.slot[i]
  BY ConsumedLeaves
<1>. HIDE DEF p
<1>2. \A k : XfersIn(p, k) = XfersIn(q, k) \ {q.deq} BY <1>1 DEF XfersIn
<1>3. SetupsIn(p) = SetupsIn(q) \ {q.deq} BY <1>1 DEF SetupsIn
<1>4. SetupsIn(p) \subseteq WaitingIn(p) BY DEF SetupsIn
<1>5. ConfsIn(p) = ConfsIn(q) \ {q.deq} BY <1>1, <1>3, <1>4 DEF ConfsIn
<1>. QED BY <1>2, <1>3, <1>5 DEF p

(* A new event comes after all that wait, and the first before them.       *)
LEMMA LastAndFirst ==
    ASSUME NEW q, EvOK(q), NEW j \in WaitingIn(q)
    PROVE  /\ ~Later(q.deq, q.enq, j)
           /\ j # q.deq => Later(q.deq, q.deq, j)
<1>1. q.enq \in Ends /\ q.deq \in Ends BY EventRingFields
<1>. QED BY <1>1 DEF Later, WaitingIn, Ends

(* Consuming the first leaves the order of the others.                     *)
LEMMA OrderStays ==
    ASSUME NEW q, EvOK(q), q.deq # q.enq,
           NEW i \in WaitingIn(q) \ {q.deq}, NEW j \in WaitingIn(q) \ {q.deq}
    PROVE  Later((q.deq + 1) % EventSlots, i, j) <=> Later(q.deq, i, j)
<1>1. q.enq \in Ends /\ q.deq \in Ends BY EventRingFields
<1>2. (q.deq + 1) % EventSlots = IF q.deq + 1 = EventSlots THEN 0 ELSE q.deq + 1
  BY <1>1, NextIndex DEF Ends
<1>. QED BY <1>1, <1>2 DEF Later, WaitingIn, Ends

(* A posted event keeps the order, unless it is a bulk transfer's behind a *)
(* configuration.                                                          *)
LEMMA PostedOrdered ==
    ASSUME NEW q, EvOK(q), Ordered(q), (q.enq + 1) % EventSlots # q.deq, NEW e \in Whats,
           e.t = "xfer" /\ e.ep \in BulkEp => ConfsIn(q) = {}
    PROVE  Ordered(Posted(q, e))
<1>. DEFINE p == Posted(q, e)
<1>. SUFFICES ASSUME NEW k \in BulkEp, NEW i \in ConfsIn(p), NEW j \in XfersIn(p, k)
              PROVE  ~Later(p.deq, i, j)
  BY DEF Ordered
<1>1. p.deq = q.deq /\ q.enq \notin WaitingIn(q) BY PostedWaits
<1>2. /\ XfersIn(p, k) = IF e.t = "xfer" /\ e.ep = k THEN XfersIn(q, k) \cup {q.enq}
                         ELSE XfersIn(q, k)
      /\ ConfsIn(p) = IF e.t = "setup" /\ e.req = "conf1" THEN ConfsIn(q) \cup {q.enq}
                      ELSE ConfsIn(q)
  BY PostedKinds
<1>. HIDE DEF p
<1>3. CASE e.t = "xfer" /\ e.ep = k
  <2>1. ConfsIn(q) = {} BY <1>3
  <2>2. ConfsIn(p) = {} BY <2>1, <1>2, <1>3
  <2>. QED BY <2>2
<1>4. CASE ~(e.t = "xfer" /\ e.ep = k)
  <2>1. j \in XfersIn(q, k) BY <1>2, <1>4
  <2>2. j \in WaitingIn(q) BY <2>1 DEF XfersIn
  <2>3. i \in ConfsIn(q) \/ i = q.enq BY <1>2
  <2>4. CASE i \in ConfsIn(q) BY <2>1, <2>4, <1>1 DEF Ordered
  <2>5. CASE i = q.enq BY <2>2, <2>5, <1>1, LastAndFirst
  <2>. QED BY <2>3, <2>4, <2>5
<1>. QED BY <1>3, <1>4

(* Consuming keeps the order.                                              *)
LEMMA ConsumedOrdered ==
    ASSUME NEW q, EvOK(q), Ordered(q), q.deq # q.enq
    PROVE  Ordered(Consumed(q))
<1>. DEFINE p == Consumed(q)
<1>. SUFFICES ASSUME NEW k \in BulkEp, NEW i \in ConfsIn(p), NEW j \in XfersIn(p, k)
              PROVE  ~Later(p.deq, i, j)
  BY DEF Ordered
<1>1. p.deq = (q.deq + 1) % EventSlots BY ConsumedLeaves
<1>2. i \in ConfsIn(q) \ {q.deq} /\ j \in XfersIn(q, k) \ {q.deq} BY ConsumedKinds
<1>. HIDE DEF p
<1>3. i \in WaitingIn(q) \ {q.deq} /\ j \in WaitingIn(q) \ {q.deq}
  BY <1>2 DEF ConfsIn, SetupsIn, XfersIn
<1>4. ~Later(q.deq, i, j) BY <1>2 DEF Ordered
<1>. QED BY <1>1, <1>3, <1>4, OrderStays

(* When the first event that waits is a configuration, no bulk transfer's  *)
(* waits.                                                                  *)
LEMMA NoneBehindConf ==
    ASSUME NEW q, EvOK(q), Ordered(q), q.deq \in ConfsIn(q), NEW k \in BulkEp
    PROVE  XfersIn(q, k) = {}
<1>. SUFFICES ASSUME NEW j \in XfersIn(q, k) PROVE FALSE
  OBVIOUS
<1>1. j \in WaitingIn(q) /\ q.slot[j].what.t = "xfer" BY DEF XfersIn
<1>2. q.slot[q.deq].what.t = "setup" BY DEF ConfsIn, SetupsIn
<1>3. j # q.deq BY <1>1, <1>2
<1>4. Later(q.deq, q.deq, j) BY <1>1, <1>3, LastAndFirst
<1>. QED BY <1>4 DEF Ordered

-----------------------------------------------------------------------------
(* The driver's struct.                                                    *)

DrvStates == {"default", "addressed_wait", "addressed", "configured_wait", "configured"}
On == {"configured_wait", "configured"}

(* The fields of the driver's struct.                                      *)
LEMMA DriverFields ==
    ASSUME NEW X \in XType
    PROVE  /\ X.state \in DrvStates /\ X.seq \in BOOLEAN /\ X.wait \in {"none", "data", "status"}
           /\ X.out \in BOOLEAN /\ X.rxq \in BOOLEAN /\ X.lost \in BOOLEAN /\ X.run \in BOOLEAN
           /\ X.halted \in SUBSET Ep /\ X.ring \in [Ep -> Rings]
  BY DEF XType, DrvStates

(* Every ring has slots, and its type is one of the rings'.                *)
LEMMA SizesOK == ASSUME NEW e \in Ep PROVE SizeOf(e) \in Nat \ {0} /\ RingType(SizeOf(e)) \subseteq Rings
  BY DEF SizeOf, Rings

(* What is pending on a ring tells whether it is clear.                    *)
LEMMA CountsTell ==
    ASSUME NEW r, NEW ends, Counts(r, ends)
    PROVE  /\ r.pending \in {0, 1}
           /\ r.pending = 0 <=> Clear(r) /\ ends = {}
  BY DEF Counts, Clear, Holds

(* A driver that differs in nothing but what its rings do not depend on.   *)
LEMMA Retouched ==
    ASSUME NEW X, NEW q, DrvOK(X, q), NEW Y \in XType, Y.ring = X.ring, Y.run = X.run,
           Y.run /\ ~Y.rxq => X.ring["out"].pending = 0, X.seq => Y.seq,
           Y.state \in On => Y.run
    PROVE  DrvOK(Y, q)
  BY DEF DrvOK, On

(* The control ring is idle just when nothing on it is pending.            *)
LEMMA IdleIff ==
    ASSUME NEW X, NEW q, DrvOK(X, q)
    PROVE  CtrlIdle(X) <=> X.ring["ctrl"].pending = 0
<1>. DEFINE r == X.ring["ctrl"]
<1>1. r \in RingType(CtrlSlots) BY DEF DrvOK, RingOK, SizeOf, Ep
<1>2. r.deq \in 0 .. CtrlSlots - 1 BY <1>1 DEF RingType
<1>3. (r.deq + 1) % CtrlSlots = IF r.deq + 1 = CtrlSlots THEN 0 ELSE r.deq + 1
  BY <1>2, NextIndex
<1>4. (IF r.deq + 1 = CtrlSlots THEN 0 ELSE r.deq + 1) # r.deq BY <1>2
<1>5. r.enq = IF r.pending = 0 THEN r.deq ELSE (r.deq + 1) % CtrlSlots BY DEF DrvOK
<1>. HIDE DEF r
<1>6. r.enq = r.deq <=> r.pending = 0 BY <1>3, <1>4, <1>5
<1>. QED BY <1>6 DEF CtrlIdle, r

(* A TRB queued on a ring with nothing pending.                            *)
LEMMA QueueSafe ==
    ASSUME NEW X, NEW q, DrvOK(X, q), NEW e \in Ep, NEW k \in Kinds \ {"none"},
           e = "ctrl" \/ X.run, X.ring[e].pending = 0, e # "out" \/ X.rxq
    PROVE  LET Y == Queue(X, e, k) IN
           /\ DrvOK(Y, q)
           /\ Y.state = X.state /\ Y.seq = X.seq /\ Y.run = X.run /\ Y.rxq = X.rxq
           /\ \A d \in Ep \ {e} : Y.ring[d] = X.ring[d]
<1>. DEFINE Y == Queue(X, e, k)
            r == X.ring[e]
            n == SizeOf(e)
            t == QueueTrb(r, k, X.seq)
<1>1. X \in XType /\ X.ring \in [Ep -> Rings] /\ X.seq \in BOOLEAN
  BY DriverFields DEF DrvOK
<1>2. n \in Nat \ {0} BY SizesOK
<1>3. RingOK(r, n) BY DEF DrvOK
<1>4. Counts(r, XfersIn(q, e)) BY DEF DrvOK
<1>5. Clear(r) /\ XfersIn(q, e) = {} BY <1>4, CountsTell
<1>6. /\ RingOK(t, n) /\ Holds(t)
      /\ t.pending = r.pending + 1 /\ t.deq = r.deq /\ t.enq = (r.enq + 1) % n
      /\ \A i \in 0 .. n - 1 : t.slot[i].fresh => X.seq \/ r.slot[i].fresh
  BY <1>1, <1>2, <1>3, <1>5, QueuedHolds
<1>7. t \in Rings BY <1>6, SizesOK DEF RingOK
<1>8. Y = [X EXCEPT !.ring = [X.ring EXCEPT ![e] = t]]
  BY DEF Queue
<1>. HIDE DEF t
<1>9. [X.ring EXCEPT ![e] = t] \in [Ep -> Rings] BY <1>1, <1>7
<1>10. Y \in XType BY <1>1, <1>8, <1>9 DEF XType
<1>11. /\ Y.state = X.state /\ Y.seq = X.seq /\ Y.run = X.run /\ Y.rxq = X.rxq
       /\ Y.ring = [X.ring EXCEPT ![e] = t]
  BY <1>1, <1>8 DEF XType
<1>12. Y.ring[e] = t /\ \A d \in Ep \ {e} : Y.ring[d] = X.ring[d] BY <1>1, <1>11
<1>. HIDE DEF Y
<1>13. \A d \in Ep : RingOK(Y.ring[d], SizeOf(d)) BY <1>6, <1>12 DEF DrvOK
<1>14. t.pending = 1 BY <1>6
<1>15. Counts(t, XfersIn(q, e)) BY <1>5, <1>6, <1>14 DEF Counts
<1>16. \A d \in Ep : d = "ctrl" \/ Y.run => Counts(Y.ring[d], XfersIn(q, d))
  BY <1>11, <1>12, <1>15 DEF DrvOK
<1>17. LET c == Y.ring["ctrl"] IN c.enq = IF c.pending = 0 THEN c.deq ELSE (c.deq + 1) % CtrlSlots
  <2>1. CASE e = "ctrl"
    <3>1. r.enq = r.deq BY <2>1 DEF DrvOK
    <3>2. n = CtrlSlots BY <2>1 DEF SizeOf
    <3>. QED BY <3>1, <3>2, <2>1, <1>6, <1>12, <1>14
  <2>2. CASE e # "ctrl" BY <2>2, <1>12 DEF DrvOK, Ep
  <2>. QED BY <2>1, <2>2
<1>18. Y.state \in {"configured_wait", "configured"} => Y.run BY <1>11 DEF DrvOK
<1>19. Y.run /\ ~Y.rxq => Y.ring["out"].pending = 0
  BY <1>11, <1>12 DEF DrvOK, Ep
<1>20. \A i \in 0 .. CtrlSlots - 1 : Y.ring["ctrl"].slot[i].fresh => Y.seq
  <2>1. CASE e = "ctrl"
    <3>1. n = CtrlSlots BY <2>1 DEF SizeOf
    <3>. QED BY <3>1, <2>1, <1>6, <1>11, <1>12 DEF DrvOK
  <2>2. CASE e # "ctrl" BY <2>2, <1>11, <1>12 DEF DrvOK, Ep
  <2>. QED BY <2>1, <2>2
<1>21. DrvOK(Y, q) BY <1>10, <1>13, <1>16, <1>17, <1>18, <1>19, <1>20 DEF DrvOK
<1>. QED BY <1>11, <1>12, <1>21 DEF Y

\* What a stage on the control ring leaves as it was.
SameBulk(Y, X) == /\ Y.run = X.run /\ Y.rxq = X.rxq /\ Y.seq = X.seq
                  /\ \A d \in BulkEp : Y.ring[d] = X.ring[d]

(* A stage queued on an idle control ring, and what is waited for after it. *)
LEMMA StageSafe ==
    ASSUME NEW X, NEW q, DrvOK(X, q), CtrlIdle(X), NEW k \in Kinds \ {"none"},
           NEW w \in {"none", "data", "status"}
    PROVE  LET Y == [Queue(X, "ctrl", k) EXCEPT !.wait = w] IN
           DrvOK(Y, q) /\ SameBulk(Y, X) /\ Y.state = X.state
<1>. DEFINE Z == Queue(X, "ctrl", k)
            Y == [Z EXCEPT !.wait = w]
<1>1. X.ring["ctrl"].pending = 0 BY IdleIff
<1>2. DrvOK(Z, q) /\ Z.state = X.state /\ SameBulk(Z, X)
  BY <1>1, QueueSafe DEF SameBulk, Ep, BulkEp
<1>. HIDE DEF Z
<1>3. Z \in XType BY <1>2 DEF DrvOK
<1>4. Y \in XType /\ Y.ring = Z.ring /\ Y.run = Z.run /\ Y.rxq = Z.rxq /\ Y.seq = Z.seq
      /\ Y.state = Z.state
  BY <1>3 DEF XType
<1>. HIDE DEF Y
<1>5. Y.run /\ ~Y.rxq => Z.ring["out"].pending = 0 BY <1>2, <1>4 DEF DrvOK
<1>6. Y.state \in On => Y.run BY <1>2, <1>4 DEF DrvOK, On
<1>7. DrvOK(Y, q) BY <1>2, <1>4, <1>5, <1>6, Retouched
<1>. QED BY <1>2, <1>4, <1>7 DEF SameBulk, Y, Z

(* The status stage.                                                       *)
LEMMA StatusSafe ==
    ASSUME NEW X, NEW q, DrvOK(X, q), NEW k \in {"status_in", "status_out"},
           k = "status_out" => CtrlIdle(X)
    PROVE  LET Y == CtrlStatus(X, k) IN
           DrvOK(Y, q) /\ SameBulk(Y, X) /\ Y.state = X.state
<1>1. CASE CtrlIdle(X)
  <2>. DEFINE Z == [Queue(X, "ctrl", k) EXCEPT !.wait = "status"]
  <2>1. CtrlStatus(X, k) = Z BY <1>1 DEF CtrlStatus
  <2>2. k \in Kinds \ {"none"} BY DEF Kinds
  <2>3. DrvOK(Z, q) /\ SameBulk(Z, X) /\ Z.state = X.state BY <1>1, <2>2, StageSafe
  <2>. HIDE DEF Z
  <2>. QED BY <2>1, <2>3
<1>2. CASE ~CtrlIdle(X)
  <2>1. CtrlStatus(X, k) = X BY <1>2 DEF CtrlStatus
  <2>. QED BY <2>1 DEF SameBulk
<1>. QED BY <1>1, <1>2

(* The data stage.                                                         *)
LEMMA DataSafe ==
    ASSUME NEW X, NEW q, DrvOK(X, q), NEW k \in {"data_in", "data_out"}
    PROVE  LET Y == CtrlData(X, k) IN
           DrvOK(Y, q) /\ SameBulk(Y, X) /\ Y.state = X.state
<1>1. CASE CtrlIdle(X)
  <2>. DEFINE Z == [Queue(X, "ctrl", k) EXCEPT !.wait = "data"]
  <2>1. CtrlData(X, k) = Z BY <1>1 DEF CtrlData
  <2>2. k \in Kinds \ {"none"} BY DEF Kinds
  <2>3. DrvOK(Z, q) /\ SameBulk(Z, X) /\ Z.state = X.state BY <1>1, <2>2, StageSafe
  <2>. HIDE DEF Z
  <2>. QED BY <2>1, <2>3
<1>2. CASE ~CtrlIdle(X)
  <2>1. CtrlData(X, k) = X BY <1>2 DEF CtrlData
  <2>. QED BY <2>1 DEF SameBulk
<1>. QED BY <1>1, <1>2

-----------------------------------------------------------------------------
(* What its handlers do to it.                                             *)

(* A driver that moved to another state, and is running in one that needs  *)
(* it.                                                                     *)
LEMMA StateSafe ==
    ASSUME NEW X, NEW q, DrvOK(X, q), NEW s \in DrvStates, s \in On => X.run
    PROVE  LET Y == [X EXCEPT !.state = s] IN
           DrvOK(Y, q) /\ SameBulk(Y, X) /\ Y.state = s
<1>. DEFINE Y == [X EXCEPT !.state = s]
<1>1. X \in XType BY DEF DrvOK
<1>2. Y \in XType /\ Y.ring = X.ring /\ Y.run = X.run /\ Y.rxq = X.rxq /\ Y.seq = X.seq
      /\ Y.state = s
  BY <1>1 DEF XType, DrvStates
<1>. HIDE DEF Y
<1>3. Y.run /\ ~Y.rxq => X.ring["out"].pending = 0 BY <1>2 DEF DrvOK
<1>4. DrvOK(Y, q) BY <1>2, <1>3, Retouched
<1>. QED BY <1>2, <1>4 DEF SameBulk, Y

(* An endpoint halted, or not any more.                                    *)
LEMMA HaltSafe ==
    ASSUME NEW X, NEW q, DrvOK(X, q), NEW e \in Ep, NEW on \in BOOLEAN
    PROVE  LET Y == SetEpStall(X, e, on) IN
           DrvOK(Y, q) /\ SameBulk(Y, X) /\ Y.state = X.state
<1>. DEFINE Y == SetEpStall(X, e, on)
<1>1. X \in XType BY DEF DrvOK
<1>2. PICK h \in SUBSET Ep : Y = [X EXCEPT !.halted = h]
  <2>1. X.halted \in SUBSET Ep BY <1>1, DriverFields
  <2>2. (IF on THEN X.halted \cup {e} ELSE X.halted \ {e}) \in SUBSET Ep BY <2>1
  <2>. QED BY <2>2 DEF SetEpStall
<1>3. Y \in XType /\ Y.ring = X.ring /\ Y.run = X.run /\ Y.rxq = X.rxq /\ Y.seq = X.seq
      /\ Y.state = X.state
  BY <1>1, <1>2 DEF XType
<1>. HIDE DEF Y
<1>4. Y.run /\ ~Y.rxq => X.ring["out"].pending = 0 BY <1>3 DEF DrvOK
<1>5. Y.state \in On => Y.run BY <1>3 DEF DrvOK, On
<1>6. DrvOK(Y, q) BY <1>3, <1>4, <1>5, Retouched
<1>. QED BY <1>3, <1>6 DEF SameBulk, Y

(* The endpoints off: nothing is asked of the bulk rings any more.         *)
LEMMA OffSafe ==
    ASSUME NEW X, NEW q, DrvOK(X, q)
    PROVE  LET Y == DisableEps(X) IN
           DrvOK(Y, q) /\ Y.ring = X.ring /\ ~Y.run /\ Y.seq = X.seq /\ Y.state = "default"
<1>. DEFINE Y == DisableEps(X)
<1>1. X \in XType BY DEF DrvOK
<1>2. Y \in XType /\ Y.ring = X.ring /\ ~Y.run /\ ~Y.rxq /\ Y.seq = X.seq
      /\ Y.state = "default"
  BY <1>1 DEF XType, DisableEps
<1>. HIDE DEF Y
<1>3. DrvOK(Y, q) BY <1>2 DEF DrvOK
<1>. QED BY <1>2, <1>3 DEF Y

(* The endpoints set up afresh, with no transfer's end waiting.            *)
LEMMA FreshSafe ==
    ASSUME NEW X, NEW q, DrvOK(X, q), \A e \in BulkEp : XfersIn(q, e) = {}
    PROVE  LET Y == [X EXCEPT !.ring = [e \in Ep |-> IF e \in BulkEp THEN BulkRing ELSE @[e]],
                              !.halted = @ \ BulkEp, !.rxq = FALSE, !.run = TRUE] IN
           DrvOK(Y, q) /\ Y.run /\ Y.seq = X.seq
<1>. DEFINE R == [e \in Ep |-> IF e \in BulkEp THEN BulkRing ELSE X.ring[e]]
            Y == [X EXCEPT !.ring = R, !.halted = @ \ BulkEp, !.rxq = FALSE, !.run = TRUE]
<1>1. X \in XType /\ X.ring \in [Ep -> Rings] /\ X.halted \in SUBSET Ep
  BY DriverFields DEF DrvOK
<1>2. /\ RingOK(BulkRing, BulkSlots) /\ Clear(BulkRing) /\ BulkRing.pending = 0
  BY EmptyRing DEF BulkRing
<1>3. BulkRing \in Rings BY <1>2 DEF RingOK, Rings
<1>4. /\ R \in [Ep -> Rings] /\ R["ctrl"] = X.ring["ctrl"]
      /\ \A e \in BulkEp : R[e] = BulkRing
  BY <1>1, <1>3 DEF Ep, BulkEp
<1>. HIDE DEF R
<1>5. Y \in XType BY <1>1, <1>4 DEF XType
<1>6. Y.ring = R /\ Y.run /\ ~Y.rxq /\ Y.seq = X.seq BY <1>1 DEF XType
<1>7. Y = [X EXCEPT !.ring = [e \in Ep |-> IF e \in BulkEp THEN BulkRing ELSE @[e]],
                    !.halted = @ \ BulkEp, !.rxq = FALSE, !.run = TRUE]
  BY DEF R
<1>. HIDE DEF Y
<1>8. \A e \in Ep : RingOK(Y.ring[e], SizeOf(e))
  <2>1. RingOK(Y.ring["ctrl"], SizeOf("ctrl")) BY <1>4, <1>6 DEF DrvOK, Ep
  <2>2. \A e \in BulkEp : RingOK(Y.ring[e], SizeOf(e)) BY <1>2, <1>4, <1>6 DEF SizeOf, BulkEp
  <2>. QED BY <2>1, <2>2 DEF Ep, BulkEp
<1>9. \A e \in BulkEp : Counts(Y.ring[e], XfersIn(q, e)) BY <1>2, <1>4, <1>6 DEF Counts
<1>10. Counts(Y.ring["ctrl"], XfersIn(q, "ctrl")) BY <1>4, <1>6 DEF DrvOK, Ep
<1>11. Y.ring["ctrl"] = X.ring["ctrl"] /\ Y.ring["out"].pending = 0
  BY <1>2, <1>4, <1>6 DEF BulkEp
<1>12. \A e \in Ep : e = "ctrl" \/ Y.run => Counts(Y.ring[e], XfersIn(q, e))
  BY <1>9, <1>10 DEF Ep, BulkEp
<1>13. DrvOK(Y, q)
  BY <1>5, <1>6, <1>8, <1>11, <1>12 DEF DrvOK
<1>. QED BY <1>6, <1>7, <1>13

(* A transfer's end is taken off the event ring and off the ring it was on. *)
LEMMA CompletedSafe ==
    ASSUME NEW X, NEW q, DrvOK(X, q), EvOK(q), q.deq # q.enq, q.deq \in WaitingIn(q),
           NEW e \in Ep, q.slot[q.deq].what.t = "xfer", q.slot[q.deq].what.ep = e
    PROVE  LET Y == [X EXCEPT !.ring[e] = Completed(@)] IN
           /\ DrvOK(Y, Consumed(q))
           /\ Y.state = X.state /\ Y.seq = X.seq /\ Y.run = X.run /\ Y.rxq = X.rxq
           /\ \A d \in Ep \ {e} : Y.ring[d] = X.ring[d]
           /\ Y.ring[e] = Completed(X.ring[e])
           /\ e = "ctrl" => CtrlIdle(Y)
           /\ Y.wait = X.wait /\ Y.out = X.out
<1>. DEFINE r == X.ring[e]
            n == SizeOf(e)
            t == Completed(r)
            c == Consumed(q)
            Y == [X EXCEPT !.ring[e] = t]
<1>1. X \in XType /\ X.ring \in [Ep -> Rings] BY DriverFields DEF DrvOK
<1>2. n \in Nat \ {0} BY SizesOK
<1>3. RingOK(r, n) BY DEF DrvOK
<1>4. q.deq \in XfersIn(q, e) BY DEF XfersIn
<1>5. /\ RingOK(t, n) /\ (Clear(t) <=> Clear(r)) /\ (Holds(t) <=> Holds(r))
      /\ t.pending = (IF r.pending > 0 THEN r.pending - 1 ELSE 0)
      /\ t.deq = (r.deq + 1) % n /\ t.enq = r.enq /\ t.slot = r.slot
  BY <1>2, <1>3, CompletedKeeps
<1>6. t \in Rings BY <1>5, SizesOK DEF RingOK
<1>7. Y = [X EXCEPT !.ring = [X.ring EXCEPT ![e] = t]] OBVIOUS
<1>. HIDE DEF t
<1>8. [X.ring EXCEPT ![e] = t] \in [Ep -> Rings] BY <1>1, <1>6
<1>9. Y \in XType BY <1>1, <1>7, <1>8 DEF XType
<1>10. /\ Y.state = X.state /\ Y.seq = X.seq /\ Y.run = X.run /\ Y.rxq = X.rxq
       /\ Y.wait = X.wait /\ Y.out = X.out
       /\ Y.ring = [X.ring EXCEPT ![e] = t]
  BY <1>1, <1>7 DEF XType
<1>11. Y.ring[e] = t /\ \A d \in Ep \ {e} : Y.ring[d] = X.ring[d] BY <1>1, <1>10
<1>. HIDE DEF Y
<1>12. \A d \in Ep : RingOK(Y.ring[d], SizeOf(d)) BY <1>5, <1>11 DEF DrvOK
<1>13. \A d \in Ep : XfersIn(c, d) = XfersIn(q, d) \ {q.deq} BY ConsumedKinds
<1>. HIDE DEF c
<1>14. \A d \in Ep \ {e} : XfersIn(c, d) = XfersIn(q, d)
  <2>. SUFFICES ASSUME NEW d \in Ep \ {e} PROVE q.deq \notin XfersIn(q, d)
    BY <1>13
  <2>. QED BY DEF XfersIn
<1>15. e = "ctrl" \/ Y.run => Counts(t, XfersIn(c, e)) /\ t.pending = 0
  <2>. SUFFICES ASSUME e = "ctrl" \/ X.run PROVE Counts(t, XfersIn(c, e)) /\ t.pending = 0
    BY <1>10
  <2>1. Counts(r, XfersIn(q, e)) BY DEF DrvOK
  <2>2. Clear(r) /\ r.pending = 1 /\ \E i \in 0 .. EventSlots - 1 : XfersIn(q, e) = {i}
    BY <2>1, <1>4 DEF Counts
  <2>3. XfersIn(c, e) = {} BY <2>2, <1>4, <1>13
  <2>4. t.pending = 0 BY <2>2, <1>5
  <2>. QED BY <2>2, <2>3, <2>4, <1>5 DEF Counts
<1>16. \A d \in Ep : d = "ctrl" \/ Y.run => Counts(Y.ring[d], XfersIn(c, d))
  BY <1>10, <1>11, <1>14, <1>15 DEF DrvOK
<1>17. LET s == Y.ring["ctrl"] IN s.enq = IF s.pending = 0 THEN s.deq ELSE (s.deq + 1) % CtrlSlots
  <2>1. CASE e = "ctrl"
    <3>1. Counts(r, XfersIn(q, e)) BY <2>1 DEF DrvOK
    <3>2. r.pending = 1 BY <3>1, <1>4 DEF Counts
    <3>3. r.enq = (r.deq + 1) % n BY <2>1, <3>2 DEF DrvOK, SizeOf
    <3>. QED BY <2>1, <3>3, <1>5, <1>11, <1>15
  <2>2. CASE e # "ctrl" BY <2>2, <1>11 DEF DrvOK, Ep
  <2>. QED BY <2>1, <2>2
<1>18. Y.state \in {"configured_wait", "configured"} => Y.run BY <1>10 DEF DrvOK
<1>19. Y.run /\ ~Y.rxq => Y.ring["out"].pending = 0
  <2>1. CASE e = "out" BY <2>1, <1>11, <1>15
  <2>2. CASE e # "out" BY <2>2, <1>10, <1>11 DEF DrvOK, Ep
  <2>. QED BY <2>1, <2>2
<1>20. \A i \in 0 .. CtrlSlots - 1 : Y.ring["ctrl"].slot[i].fresh => Y.seq
  <2>1. Y.ring["ctrl"].slot = X.ring["ctrl"].slot BY <1>5, <1>11 DEF Ep
  <2>. QED BY <2>1, <1>10 DEF DrvOK
<1>21. DrvOK(Y, c) BY <1>9, <1>12, <1>16, <1>17, <1>18, <1>19, <1>20 DEF DrvOK
<1>22. e = "ctrl" => CtrlIdle(Y) BY <1>11, <1>15, <1>21, IdleIff
<1>. QED BY <1>10, <1>11, <1>21, <1>22 DEF Y, t, c

(* Any other event leaves the rings' counts.                               *)
LEMMA OtherSafe ==
    ASSUME NEW X, NEW q, DrvOK(X, q), EvOK(q), q.deq # q.enq, q.slot[q.deq].what.t # "xfer"
    PROVE  DrvOK(X, Consumed(q))
<1>1. \A e : XfersIn(Consumed(q), e) = XfersIn(q, e) \ {q.deq} BY ConsumedKinds
<1>2. \A e : q.deq \notin XfersIn(q, e) BY DEF XfersIn
<1>3. \A e : XfersIn(Consumed(q), e) = XfersIn(q, e) BY <1>1, <1>2
<1>. QED BY <1>3 DEF DrvOK

(* A control stage is over, and the ring idle.                             *)
LEMMA DoneSafe ==
    ASSUME NEW X, NEW q, DrvOK(X, q), CtrlIdle(X)
    PROVE  LET Y == CtrlDone(X) IN DrvOK(Y, q) /\ SameBulk(Y, X)
<1>. DEFINE Y == CtrlDone(X)
<1>0. X \in XType BY DEF DrvOK
<1>1. CASE X.wait = "data"
  <2>. DEFINE k == IF X.out THEN "status_in" ELSE "status_out"
  <2>1. Y = CtrlStatus(X, k) BY <1>1 DEF CtrlDone
  <2>2. k \in {"status_in", "status_out"} OBVIOUS
  <2>. HIDE DEF k, Y
  <2>3. DrvOK(CtrlStatus(X, k), q) /\ SameBulk(CtrlStatus(X, k), X) BY <2>2, StatusSafe
  <2>. QED BY <2>1, <2>3 DEF Y
<1>2. CASE X.wait = "status"
  <2>. DEFINE s == CASE X.state = "addressed_wait"  -> "addressed"
                     [] X.state = "configured_wait" -> "configured"
                     [] OTHER -> X.state
  <2>1. Y = [X EXCEPT !.wait = "none", !.state = s] BY <1>2 DEF CtrlDone
  <2>2. X.state \in DrvStates BY <1>0, DriverFields
  <2>3. s \in DrvStates /\ (s \in On => X.state \in On) BY <2>2 DEF DrvStates, On
  <2>. HIDE DEF s
  <2>4. Y \in XType /\ Y.ring = X.ring /\ Y.run = X.run /\ Y.rxq = X.rxq /\ Y.seq = X.seq
        /\ Y.state = s
    BY <1>0, <2>1, <2>3 DEF XType, DrvStates
  <2>. HIDE DEF Y
  <2>5. Y.run /\ ~Y.rxq => X.ring["out"].pending = 0 BY <2>4 DEF DrvOK
  <2>6. Y.state \in On => Y.run BY <2>3, <2>4 DEF DrvOK, On
  <2>7. DrvOK(Y, q) BY <2>4, <2>5, <2>6, Retouched
  <2>. QED BY <2>4, <2>7 DEF SameBulk, Y
<1>3. CASE X.wait \notin {"data", "status"}
  <2>1. Y = X BY <1>3 DEF CtrlDone
  <2>. HIDE DEF Y
  <2>. QED BY <2>1 DEF SameBulk, Y
<1>. QED BY <1>1, <1>2, <1>3

\* What the ring of chunks may be once an event was handled, while the driver
\* still counts as configured.
InRingKept(Y, X) == \/ Y.ring["in"] = X.ring["in"]
                    \/ Y.ring["in"] = Completed(X.ring["in"])

(* A transfer the controller reports over.                                 *)
LEMMA TransferSafe ==
    ASSUME NEW X, NEW q, DrvOK(X, q), EvOK(q), q.deq # q.enq, q.deq \in WaitingIn(q),
           NEW e \in Ep, NEW c, q.slot[q.deq].what.t = "xfer", q.slot[q.deq].what.ep = e
    PROVE  LET Y == TransferEvent(X, e, c) IN
           DrvOK(Y, Consumed(q)) /\ Y.seq = X.seq /\ InRingKept(Y, X)
<1>. DEFINE p == Consumed(q)
            Z == [X EXCEPT !.ring[e] = Completed(@)]
            Y == TransferEvent(X, e, c)
<1>1. /\ DrvOK(Z, p) /\ Z.seq = X.seq
      /\ \A d \in Ep \ {e} : Z.ring[d] = X.ring[d]
      /\ Z.ring[e] = Completed(X.ring[e])
      /\ e = "ctrl" => CtrlIdle(Z)
  BY CompletedSafe
<1>2. InRingKept(Z, X) BY <1>1 DEF InRingKept, Ep
<1>3. Y = (CASE c = "ok" /\ e = "ctrl" -> CtrlDone(Z)
             [] c = "babble"           -> SetEpStall(Z, e, TRUE)
             [] OTHER                  -> Z)
  BY DEF TransferEvent
<1>. HIDE DEF Z, Y, p
<1>4. ASSUME SameBulk(Y, Z) PROVE Y.seq = X.seq /\ InRingKept(Y, X)
  BY <1>1, <1>2, <1>4 DEF SameBulk, InRingKept, BulkEp
<1>5. CASE c = "ok" /\ e = "ctrl"
  <2>1. Y = CtrlDone(Z) BY <1>3, <1>5
  <2>2. DrvOK(CtrlDone(Z), p) /\ SameBulk(CtrlDone(Z), Z) BY <1>1, <1>5, DoneSafe
  <2>. QED BY <1>4, <2>1, <2>2 DEF Y, p
<1>6. CASE c = "babble"
  <2>1. Y = SetEpStall(Z, e, TRUE) BY <1>3, <1>6
  <2>2. DrvOK(SetEpStall(Z, e, TRUE), p) /\ SameBulk(SetEpStall(Z, e, TRUE), Z)
    BY <1>1, HaltSafe
  <2>. QED BY <1>4, <2>1, <2>2 DEF Y, p
<1>7. CASE ~(c = "ok" /\ e = "ctrl") /\ c # "babble"
  <2>1. Y = Z BY <1>3, <1>7
  <2>. QED BY <1>1, <1>2, <2>1 DEF Y, p
<1>. QED BY <1>5, <1>6, <1>7

(* A configuration taken on or off, while no bulk transfer's end waits.    *)
LEMMA ConfigSafe ==
    ASSUME NEW X, NEW q, DrvOK(X, q), NEW on \in BOOLEAN,
           on => \A e \in BulkEp : XfersIn(q, e) = {}
    PROVE  LET Y == SetConfiguration(X, on) IN
           DrvOK(Y, q) /\ Y.seq = X.seq /\ Y.state # "configured"
<1>1. CASE ~on
  <2>. DEFINE Z == DisableEps(X)
              Y == CtrlStatus(Z, "status_in")
  <2>1. SetConfiguration(X, on) = Y BY <1>1 DEF SetConfiguration
  <2>2. DrvOK(Z, q) /\ Z.seq = X.seq /\ Z.state = "default" BY OffSafe
  <2>. HIDE DEF Z
  <2>3. DrvOK(Y, q) /\ SameBulk(Y, Z) /\ Y.state = Z.state BY <2>2, StatusSafe
  <2>. HIDE DEF Y
  <2>. QED BY <2>1, <2>2, <2>3 DEF SameBulk
<1>2. CASE on
  <2>. DEFINE Z == [X EXCEPT !.ring = [e \in Ep |-> IF e \in BulkEp THEN BulkRing ELSE @[e]],
                             !.halted = @ \ BulkEp, !.rxq = FALSE, !.run = TRUE]
              W == CtrlStatus(Z, "status_in")
              Y == [W EXCEPT !.state = "configured_wait"]
  <2>1. SetConfiguration(X, on) = Y BY <1>2 DEF SetConfiguration
  <2>2. DrvOK(Z, q) /\ Z.run /\ Z.seq = X.seq BY <1>2, FreshSafe
  <2>. HIDE DEF Z
  <2>3. DrvOK(W, q) /\ SameBulk(W, Z) BY <2>2, StatusSafe
  <2>. HIDE DEF W
  <2>4. W.run BY <2>2, <2>3 DEF SameBulk
  <2>5. "configured_wait" \in DrvStates BY DEF DrvStates
  <2>6. DrvOK(Y, q) /\ SameBulk(Y, W) /\ Y.state = "configured_wait"
    BY <2>3, <2>4, <2>5, StateSafe
  <2>. HIDE DEF Y
  <2>. QED BY <2>1, <2>2, <2>3, <2>6 DEF SameBulk
<1>. QED BY <1>1, <1>2

(* An address taken on.                                                    *)
LEMMA AddressSafe ==
    ASSUME NEW X, NEW q, DrvOK(X, q)
    PROVE  LET Y == SetAddress(X) IN DrvOK(Y, q) /\ SameBulk(Y, X)
<1>. DEFINE W == CtrlStatus(X, "status_in")
            Y == [W EXCEPT !.state = "addressed_wait"]
<1>1. SetAddress(X) = Y BY DEF SetAddress
<1>2. DrvOK(W, q) /\ SameBulk(W, X) BY StatusSafe
<1>. HIDE DEF W
<1>3. "addressed_wait" \in DrvStates \ On BY DEF DrvStates, On
<1>4. DrvOK(Y, q) /\ SameBulk(Y, W) BY <1>2, <1>3, StateSafe
<1>. HIDE DEF Y
<1>. QED BY <1>1, <1>2, <1>4 DEF SameBulk

(* The requests but the configurations queue what they answer with, or     *)
(* halt an endpoint.                                                       *)
LEMMA RequestSafe ==
    ASSUME NEW X, NEW q, DrvOK(X, q), NEW Y,
           \/ Y = SetAddress(X)
           \/ Y = CtrlStatus(X, "status_in")
           \/ Y = CtrlData(X, "data_in")
           \/ Y = CtrlData(X, "data_out")
           \/ \E e \in Ep, on \in BOOLEAN : Y = CtrlStatus(SetEpStall(X, e, on), "status_in")
           \/ Y = SetEpStall(X, "ctrl", TRUE)
    PROVE  DrvOK(Y, q) /\ SameBulk(Y, X)
<1>1. CASE Y = SetAddress(X) BY <1>1, AddressSafe
<1>2. CASE Y = CtrlStatus(X, "status_in") BY <1>2, StatusSafe
<1>3. CASE Y = CtrlData(X, "data_in") BY <1>3, DataSafe
<1>4. CASE Y = CtrlData(X, "data_out") BY <1>4, DataSafe
<1>5. ASSUME NEW e \in Ep, NEW on \in BOOLEAN, Y = CtrlStatus(SetEpStall(X, e, on), "status_in")
      PROVE  DrvOK(Y, q) /\ SameBulk(Y, X)
  <2>. DEFINE Z == SetEpStall(X, e, on)
  <2>1. DrvOK(Z, q) /\ SameBulk(Z, X) BY HaltSafe
  <2>2. Y = CtrlStatus(Z, "status_in") BY <1>5
  <2>. HIDE DEF Z
  <2>3. DrvOK(Y, q) /\ SameBulk(Y, Z) BY <2>1, <2>2, StatusSafe
  <2>. QED BY <2>1, <2>3 DEF SameBulk
<1>6. CASE Y = SetEpStall(X, "ctrl", TRUE)
  <2>1. "ctrl" \in Ep BY DEF Ep
  <2>. QED BY <1>6, <2>1, HaltSafe
<1>. QED BY <1>1, <1>2, <1>3, <1>4, <1>5, <1>6

(* A SETUP packet: what was queued before it is stale, and what is queued  *)
(* now is fresh if it is the last one that waits.                          *)
LEMMA SetupSafe ==
    ASSUME NEW X0, DrvOK(X0, ev), EvOK(ev), Ordered(ev), ev.deq # ev.enq,
           ev.deq \in WaitingIn(ev), NEW r, NextEvent.what.t = "setup", NextEvent.what.req = r,
           X0.seq => SetupsIn(ev) = {}
    PROVE  LET Y == CtrlSetup(X0, r) IN
           /\ DrvOK(Y, Consumed(ev))
           /\ Y.seq => SetupsIn(Consumed(ev)) = {}
           /\ Y.state = "configured" => InRingKept(Y, X0)
<1>. DEFINE p == Consumed(ev)
            X == [X0 EXCEPT !.seq = (SetupsWaiting = {ev.deq}), !.out = (r = "coding"),
                            !.halted = @ \ {"ctrl"}]
            Y == CtrlSetup(X0, r)
<1>1. X0 \in XType /\ X0.halted \in SUBSET Ep BY DriverFields DEF DrvOK
<1>2. SetupsWaiting = SetupsIn(ev) /\ ev.deq \in SetupsIn(ev)
  BY DEF SetupsWaiting, SetupsIn, EventsWaiting, WaitingIn, NextEvent
<1>3. SetupsIn(p) = SetupsIn(ev) \ {ev.deq} BY ConsumedKinds
<1>4. DrvOK(X0, p) BY OtherSafe DEF NextEvent
<1>. HIDE DEF p
<1>5. ~X0.seq BY <1>2
<1>6. /\ X \in XType /\ X.ring = X0.ring /\ X.run = X0.run /\ X.rxq = X0.rxq
      /\ X.state = X0.state /\ (X.seq <=> SetupsWaiting = {ev.deq})
  BY <1>1 DEF XType
<1>7. X.seq => SetupsIn(p) = {} BY <1>2, <1>3, <1>6
<1>8. DrvOK(X, p)
  <2>. HIDE DEF X
  <2>1. X.run /\ ~X.rxq => X0.ring["out"].pending = 0 BY <1>4, <1>6 DEF DrvOK
  <2>2. X.state \in On => X.run BY <1>4, <1>6 DEF DrvOK, On
  <2>. QED BY <1>4, <1>5, <1>6, <2>1, <2>2, Retouched
<1>9. Y = (CASE r = "addr"            -> SetAddress(X)
             [] r = "conf1"           -> SetConfiguration(X, TRUE)
             [] r = "conf0"           -> SetConfiguration(X, FALSE)
             [] r \in {"dtr1", "dtr0"} -> CtrlStatus(X, "status_in")
             [] r = "desc"            -> CtrlData(X, "data_in")
             [] r = "coding"          -> CtrlData(X, "data_out")
             [] r = "halt_in"   -> CtrlStatus(SetEpStall(X, "in", TRUE), "status_in")
             [] r = "clear_in"  -> CtrlStatus(SetEpStall(X, "in", FALSE), "status_in")
             [] r = "clear_out" -> CtrlStatus(SetEpStall(X, "out", FALSE), "status_in")
             [] OTHER                 -> SetEpStall(X, "ctrl", TRUE))
  BY DEF CtrlSetup
<1>. HIDE DEF X, Y
<1>10. CASE r \in {"conf1", "conf0"}
  <2>. DEFINE on == r = "conf1"
  <2>1. Y = SetConfiguration(X, on) BY <1>9, <1>10
  <2>2. on => \A e \in BulkEp : XfersIn(p, e) = {}
    <3>. SUFFICES ASSUME on, NEW e \in BulkEp PROVE XfersIn(p, e) = {}
      OBVIOUS
    <3>1. ev.deq \in ConfsIn(ev) BY <1>2 DEF ConfsIn, NextEvent
    <3>2. XfersIn(ev, e) = {} BY <3>1, NoneBehindConf
    <3>. QED BY <3>2, ConsumedKinds DEF p
  <2>3. on \in BOOLEAN OBVIOUS
  <2>. HIDE DEF on
  <2>4. DrvOK(Y, p) /\ Y.seq = X.seq /\ Y.state # "configured"
    BY <1>8, <2>1, <2>2, <2>3, ConfigSafe
  <2>. QED BY <1>7, <2>4 DEF Y, p
<1>11. CASE r \notin {"conf1", "conf0"}
  <2>1. \/ Y = SetAddress(X)
        \/ Y = CtrlStatus(X, "status_in")
        \/ Y = CtrlData(X, "data_in")
        \/ Y = CtrlData(X, "data_out")
        \/ \E e \in Ep, on \in BOOLEAN : Y = CtrlStatus(SetEpStall(X, e, on), "status_in")
        \/ Y = SetEpStall(X, "ctrl", TRUE)
    <3>1. CASE r \in {"halt_in", "clear_in", "clear_out"} BY <3>1, <1>9 DEF Ep
    <3>2. CASE r \notin {"halt_in", "clear_in", "clear_out"} BY <3>2, <1>9, <1>11
    <3>. QED BY <3>1, <3>2
  <2>2. DrvOK(Y, p) /\ SameBulk(Y, X) BY <1>8, <2>1, RequestSafe
  <2>3. InRingKept(Y, X0) BY <2>2, <1>6 DEF SameBulk, InRingKept, BulkEp
  <2>. QED BY <1>7, <2>2, <2>3 DEF SameBulk, Y, p
<1>. QED BY <1>10, <1>11

(* A port change loses the PC at most.                                     *)
LEMMA PortSafe ==
    ASSUME NEW X, NEW q, DrvOK(X, q)
    PROVE  LET Y == PortChange(X) IN DrvOK(Y, q) /\ SameBulk(Y, X)
<1>. DEFINE Y == PortChange(X)
<1>1. X \in XType BY DEF DrvOK
<1>2. Y = X \/ Y = [X EXCEPT !.lost = TRUE] BY DEF PortChange
<1>3. Y \in XType /\ Y.ring = X.ring /\ Y.run = X.run /\ Y.rxq = X.rxq /\ Y.seq = X.seq
      /\ Y.state = X.state
  <2>. HIDE DEF Y
  <2>. QED BY <1>1, <1>2 DEF XType
<1>. HIDE DEF Y
<1>4. Y.run /\ ~Y.rxq => X.ring["out"].pending = 0 BY <1>3 DEF DrvOK
<1>5. Y.state \in On => Y.run BY <1>3 DEF DrvOK, On
<1>6. DrvOK(Y, q) BY <1>3, <1>4, <1>5, Retouched
<1>. QED BY <1>3, <1>6 DEF SameBulk, Y

(* One event handled: driver and controller still agree on every ring.     *)
LEMMA HandledSafe ==
    ASSUME NEW X, DrvOK(X, ev), EvOK(ev), Ordered(ev), IsNew,
           X.seq => SetupsIn(ev) = {}
    PROVE  LET Y == HandleEvent(X, NextEvent.what) IN
           /\ DrvOK(Y, Consumed(ev)) /\ EvOK(Consumed(ev)) /\ Ordered(Consumed(ev))
           /\ Y.seq => SetupsIn(Consumed(ev)) = {}
           /\ Y.state = "configured" => InRingKept(Y, X)
<1>. DEFINE e == NextEvent.what
            p == Consumed(ev)
            Y == HandleEvent(X, e)
<1>1. ev.deq # ev.enq /\ ev.deq \in WaitingIn(ev) BY NewIffWaiting
<1>2. EvOK(p) /\ Ordered(p) BY <1>1, ConsumedLeaves, ConsumedOrdered
<1>3. SetupsIn(p) = SetupsIn(ev) \ {ev.deq} BY <1>1, ConsumedKinds
<1>4. ev.slot[ev.deq].what = e BY DEF NextEvent
<1>5. e \in Whats
  <2>1. WaitingIn(ev) \subseteq Ends /\ \A i \in Ends : ev.slot[i] \in [cycle : {0, 1}, what : Whats]
    BY EventRingFields
  <2>. QED BY <1>1, <1>4, <2>1
<1>6. Y = (CASE e.t = "xfer"  -> TransferEvent(X, e.ep, e.comp)
             [] e.t = "setup" -> CtrlSetup(X, e.req)
             [] e.t = "port"  -> PortChange(X)
             [] OTHER         -> X)
  BY DEF HandleEvent
<1>. HIDE DEF Y, p, e
<1>7. CASE e.t = "xfer"
  <2>1. e.ep \in Ep BY <1>5, <1>7 DEF Whats, NoEvent, PortEvent, SetupEvent, Xfer
  <2>2. Y = TransferEvent(X, e.ep, e.comp) BY <1>6, <1>7
  <2>3. DrvOK(Y, p) /\ Y.seq = X.seq /\ InRingKept(Y, X)
    BY <1>1, <1>4, <1>7, <2>1, <2>2, TransferSafe DEF p
  <2>. QED BY <1>2, <1>3, <2>3 DEF Y, p, e
<1>8. CASE e.t = "setup"
  <2>1. Y = CtrlSetup(X, e.req) BY <1>6, <1>8
  <2>2. DrvOK(Y, p) /\ (Y.seq => SetupsIn(p) = {})
        /\ (Y.state = "configured" => InRingKept(Y, X))
    BY <1>1, <1>8, <2>1, SetupSafe DEF p, e
  <2>. QED BY <1>2, <2>2 DEF Y, p, e
<1>9. ASSUME e.t # "xfer", Y = X \/ Y = PortChange(X)
      PROVE  DrvOK(Y, p) /\ (Y.seq => SetupsIn(p) = {}) /\ InRingKept(Y, X)
  <2>1. DrvOK(X, p) BY <1>1, <1>4, <1>9, OtherSafe DEF p
  <2>2. DrvOK(Y, p) /\ Y.seq = X.seq /\ Y.ring["in"] = X.ring["in"]
    BY <1>9, <2>1, PortSafe DEF SameBulk, BulkEp
  <2>. QED BY <1>3, <2>2 DEF InRingKept
<1>10. CASE e.t \notin {"xfer", "setup"}
  <2>1. Y = X \/ Y = PortChange(X) BY <1>6, <1>10
  <2>. QED BY <1>2, <1>9, <1>10, <2>1 DEF Y, p, e
<1>. QED BY <1>7, <1>8, <1>10

-----------------------------------------------------------------------------
(* The port's turn and the controller's steps.                             *)

(* A read queued.                                                          *)
LEMMA ReadSafe ==
    ASSUME NEW X, NEW q, DrvOK(X, q), X.run, X.rxq, X.ring["out"].pending = 0
    PROVE  LET Y == Queue(X, "out", "normal") IN
           /\ DrvOK(Y, q) /\ Y.seq = X.seq /\ Y.run = X.run /\ Y.rxq = X.rxq
           /\ Y.ring["in"] = X.ring["in"]
<1>1. "out" \in Ep /\ "in" \in Ep \ {"out"} /\ "normal" \in Kinds \ {"none"} BY DEF Ep, Kinds
<1>. DEFINE Y == Queue(X, "out", "normal")
<1>2. DrvOK(Y, q) /\ Y.seq = X.seq /\ Y.run = X.run /\ Y.rxq = X.rxq BY <1>1, QueueSafe
<1>3. \A d \in Ep \ {"out"} : Y.ring[d] = X.ring[d] BY <1>1, QueueSafe
<1>. HIDE DEF Y
<1>. QED BY <1>1, <1>2, <1>3 DEF Y

(* The port's turn: a read queued when the last is over, a chunk sent when *)
(* the last is through.                                                    *)
LEMMA BulkSafe ==
    ASSUME NEW X, NEW q, DrvOK(X, q), X.run, NEW s \in BOOLEAN,
           s => X.ring["in"].pending = 0
    PROVE  LET Y == BulkX(X, s) IN DrvOK(Y, q) /\ Y.seq = X.seq
<1>. DEFINE b == X.rxq /\ ~XRxReady(X)
            X1 == [X EXCEPT !.rxq = b]
            X2 == [X EXCEPT !.rxq = TRUE]
            W == IF b THEN X1 ELSE Queue(X2, "out", "normal")
            Y == BulkX(X, s)
<1>1. X \in XType /\ X.rxq \in BOOLEAN /\ b \in BOOLEAN /\ X.ring \in [Ep -> Rings]
  BY DriverFields DEF DrvOK
<1>2. ~b => X.ring["out"].pending = 0 BY DEF DrvOK, XRxReady
<1>3. Y = (IF s THEN Queue(XRxQueued(X1), "in", "normal") ELSE XRxQueued(X1)) BY DEF BulkX
<1>. HIDE DEF b
<1>4. /\ X1 \in XType /\ X1.rxq = b /\ X1.ring = X.ring /\ X1.run = X.run /\ X1.seq = X.seq
      /\ X1.state = X.state
  BY <1>1 DEF XType
<1>5. /\ X2 \in XType /\ X2.rxq /\ X2.ring = X.ring /\ X2.run = X.run /\ X2.seq = X.seq
      /\ X2.state = X.state
  BY <1>1 DEF XType
<1>6. X.state \in On => X.run OBVIOUS
<1>7. DrvOK(X1, q)
  <2>. HIDE DEF X1
  <2>1. X1.run /\ ~X1.rxq => X.ring["out"].pending = 0 BY <1>2, <1>4
  <2>. QED BY <1>4, <1>6, <2>1, Retouched
<1>8. DrvOK(X2, q)
  <2>. HIDE DEF X2
  <2>. QED BY <1>5, <1>6, Retouched
<1>9. XRxQueued(X1) = W
  <2>1. CASE b BY <2>1, <1>4 DEF XRxQueued
  <2>2. CASE ~b
    <3>. DEFINE t == QueueTrb(X.ring["out"], "normal", X.seq)
                R == [X.ring EXCEPT !["out"] = t]
    <3>1. XRxQueued(X1) = [Queue(X1, "out", "normal") EXCEPT !.rxq = TRUE]
      BY <2>2, <1>4 DEF XRxQueued
    <3>2. Queue(X1, "out", "normal") = [X1 EXCEPT !.ring = R] BY <1>4 DEF Queue
    <3>3. Queue(X2, "out", "normal") = [X2 EXCEPT !.ring = R] BY <1>5 DEF Queue
    <3>. HIDE DEF R
    <3>4. [[X1 EXCEPT !.ring = R] EXCEPT !.rxq = TRUE] = [X2 EXCEPT !.ring = R]
      BY <1>1 DEF XType
    <3>. QED BY <2>2, <3>1, <3>2, <3>3, <3>4
  <2>. QED BY <2>1, <2>2
<1>. HIDE DEF X1, Y
<1>10. DrvOK(W, q) /\ W.seq = X.seq /\ W.run /\ W.rxq /\ W.ring["in"] = X.ring["in"]
  <2>1. CASE b
    <3>1. W = X1 BY <2>1
    <3>. HIDE DEF W
    <3>. QED BY <2>1, <3>1, <1>4, <1>7
  <2>2. CASE ~b
    <3>1. X2.ring["out"].pending = 0 BY <2>2, <1>2, <1>5
    <3>. HIDE DEF X2
    <3>. DEFINE Z == Queue(X2, "out", "normal")
    <3>3. DrvOK(Z, q) /\ Z.seq = X2.seq /\ Z.run = X2.run /\ Z.rxq = X2.rxq
          /\ Z.ring["in"] = X2.ring["in"]
      BY <1>5, <1>8, <3>1, ReadSafe
    <3>4. W = Z BY <2>2
    <3>. HIDE DEF Z, W
    <3>. QED BY <1>5, <3>3, <3>4
  <2>. QED BY <2>1, <2>2
<1>. HIDE DEF W
<1>11. CASE ~s
  <2>1. Y = W BY <1>3, <1>9, <1>11
  <2>. QED BY <1>10, <2>1 DEF Y
<1>12. CASE s
  <2>1. Y = Queue(W, "in", "normal") BY <1>3, <1>9, <1>12
  <2>2. "in" \in Ep /\ "normal" \in Kinds \ {"none"} BY DEF Ep, Kinds
  <2>3. DrvOK(Y, q) /\ Y.seq = W.seq BY <1>10, <1>12, <2>1, <2>2, QueueSafe
  <2>. QED BY <1>10, <2>3 DEF Y
<1>. QED BY <1>11, <1>12

(* The rest of usbser_poll keeps the two ends together.                    *)
LEMMA TurnSafe ==
    ASSUME NEW X, NEW q, NEW U, NEW p, DrvOK(X, q), OnX, PollPort(X, U, p)
    PROVE  DrvOK(x', q) /\ x'.seq = X.seq
<1>1. CASE ~Configured(X, U)
  <2>1. x' = X BY <1>1 DEF PollPort
  <2>. QED BY <2>1
<1>2. CASE Configured(X, U)
  <2>. DEFINE s == Sends(X, U, p)
  <2>1. x' = BulkX(X, s) BY <1>2 DEF PollPort
  <2>2. X.run BY <1>2 DEF Configured, DrvOK
  <2>3. s \in BOOLEAN BY DEF Sends
  <2>4. s => X.ring["in"].pending = 0 BY DEF Sends, TxIdle, XTxIdle
  <2>. HIDE DEF s
  <2>. QED BY <2>1, <2>2, <2>3, <2>4, BulkSafe
<1>. QED BY <1>1, <1>2

(* The controller runs a TRB and posts its end.                            *)
LEMMA RunSafe ==
    ASSUME NEW X, NEW q, DrvOK(X, q), EvOK(q), (q.enq + 1) % EventSlots # q.deq,
           NEW d \in Ep, d = "ctrl" \/ X.run, Runnable(X.ring[d]),
           NEW c \in {"ok", "error", "babble"}
    PROVE  LET Y == [X EXCEPT !.ring[d] = Ran(@)] IN
           DrvOK(Y, Posted(q, Xfer(d, c))) /\ Y.seq = X.seq
<1>. DEFINE r == X.ring[d]
            n == SizeOf(d)
            t == Ran(r)
            e == Xfer(d, c)
            p == Posted(q, e)
            Y == [X EXCEPT !.ring[d] = t]
<1>1. X \in XType /\ X.ring \in [Ep -> Rings] BY DriverFields DEF DrvOK
<1>2. n \in Nat \ {0} BY SizesOK
<1>3. RingOK(r, n) /\ Counts(r, XfersIn(q, d)) BY DEF DrvOK
<1>4. Holds(r) /\ ~Clear(r) BY <1>2, <1>3, RunnableIff
<1>5. XfersIn(q, d) = {} /\ r.pending = 1 BY <1>3, <1>4 DEF Counts
<1>6. /\ RingOK(t, n) /\ Clear(t) /\ t.pending = r.pending /\ t.deq = r.deq /\ t.enq = r.enq
      /\ \A i \in 0 .. n - 1 : t.slot[i].fresh => r.slot[i].fresh
  BY <1>2, <1>3, <1>4, RanClears
<1>7. t \in Rings BY <1>6, SizesOK DEF RingOK
<1>8. Y = [X EXCEPT !.ring = [X.ring EXCEPT ![d] = t]] OBVIOUS
<1>. HIDE DEF t
<1>9. [X.ring EXCEPT ![d] = t] \in [Ep -> Rings] BY <1>1, <1>7
<1>10. Y \in XType BY <1>1, <1>8, <1>9 DEF XType
<1>11. /\ Y.state = X.state /\ Y.seq = X.seq /\ Y.run = X.run /\ Y.rxq = X.rxq
       /\ Y.ring = [X.ring EXCEPT ![d] = t]
  BY <1>1, <1>8 DEF XType
<1>12. Y.ring[d] = t /\ \A f \in Ep \ {d} : Y.ring[f] = X.ring[f] BY <1>1, <1>11
<1>. HIDE DEF Y
<1>13. e \in Whats /\ e.t = "xfer" /\ e.ep = d BY DEF Whats, Xfer
<1>. HIDE DEF e
<1>14. \A f : XfersIn(p, f) = IF f = d THEN XfersIn(q, f) \cup {q.enq} ELSE XfersIn(q, f)
  BY <1>13, PostedKinds
<1>15. q.enq \in 0 .. EventSlots - 1 BY EventRingFields DEF Ends
<1>. HIDE DEF p
<1>16. XfersIn(p, d) = {q.enq} BY <1>5, <1>14
<1>17. \A f \in Ep \ {d} : XfersIn(p, f) = XfersIn(q, f) BY <1>14
<1>18. Counts(t, XfersIn(p, d)) BY <1>5, <1>6, <1>15, <1>16 DEF Counts
<1>19. \A f \in Ep : RingOK(Y.ring[f], SizeOf(f)) BY <1>6, <1>12 DEF DrvOK
<1>20. \A f \in Ep : f = "ctrl" \/ Y.run => Counts(Y.ring[f], XfersIn(p, f))
  BY <1>11, <1>12, <1>17, <1>18 DEF DrvOK
<1>21. LET s == Y.ring["ctrl"] IN s.enq = IF s.pending = 0 THEN s.deq ELSE (s.deq + 1) % CtrlSlots
  <2>1. CASE d = "ctrl" BY <2>1, <1>6, <1>12 DEF DrvOK
  <2>2. CASE d # "ctrl" BY <2>2, <1>12 DEF DrvOK, Ep
  <2>. QED BY <2>1, <2>2
<1>22. Y.state \in {"configured_wait", "configured"} => Y.run BY <1>11 DEF DrvOK
<1>23. Y.run /\ ~Y.rxq => Y.ring["out"].pending = 0
  <2>1. CASE d = "out" BY <2>1, <1>6, <1>11, <1>12 DEF DrvOK
  <2>2. CASE d # "out" BY <2>2, <1>11, <1>12 DEF DrvOK, Ep
  <2>. QED BY <2>1, <2>2
<1>24. \A i \in 0 .. CtrlSlots - 1 : Y.ring["ctrl"].slot[i].fresh => Y.seq
  <2>1. CASE d = "ctrl"
    <3>1. n = CtrlSlots BY <2>1 DEF SizeOf
    <3>. QED BY <3>1, <2>1, <1>6, <1>11, <1>12 DEF DrvOK
  <2>2. CASE d # "ctrl" BY <2>2, <1>11, <1>12 DEF DrvOK, Ep
  <2>. QED BY <2>1, <2>2
<1>25. DrvOK(Y, p) BY <1>10, <1>19, <1>20, <1>21, <1>22, <1>23, <1>24 DEF DrvOK
<1>. QED BY <1>11, <1>25 DEF Y, p, e, t

(* An event that ends no transfer leaves the rings' counts.                *)
LEMMA PostSafe ==
    ASSUME NEW X, NEW q, DrvOK(X, q), EvOK(q), (q.enq + 1) % EventSlots # q.deq,
           NEW e \in Whats, e.t # "xfer"
    PROVE  DrvOK(X, Posted(q, e))
<1>1. \A f : XfersIn(Posted(q, e), f) = XfersIn(q, f) BY PostedKinds
<1>. QED BY <1>1 DEF DrvOK

(* A SETUP packet makes the control ring's stage stale, and waits.         *)
LEMMA StaleSafe ==
    ASSUME NEW X, NEW q, DrvOK(X, q), EvOK(q), (q.enq + 1) % EventSlots # q.deq,
           NEW e \in Whats, e.t # "xfer"
    PROVE  LET Y == [X EXCEPT !.seq = FALSE,
                              !.ring["ctrl"].slot =
                                  [i \in DOMAIN @ |-> [@[i] EXCEPT !.fresh = FALSE]]] IN
           DrvOK(Y, Posted(q, e)) /\ ~Y.seq
<1>. DEFINE r == X.ring["ctrl"]
            t == [r EXCEPT !.slot = [i \in DOMAIN @ |-> [@[i] EXCEPT !.fresh = FALSE]]]
            p == Posted(q, e)
            Y == [X EXCEPT !.seq = FALSE, !.ring = [X.ring EXCEPT !["ctrl"] = t]]
<1>1. X \in XType /\ X.ring \in [Ep -> Rings] BY DriverFields DEF DrvOK
<1>2. DrvOK(X, p) BY PostSafe
<1>. HIDE DEF p
<1>3. RingOK(r, CtrlSlots) BY DEF DrvOK, Ep, SizeOf
<1>3a. CtrlSlots \in Nat \ {0} OBVIOUS
<1>4. /\ RingOK(t, CtrlSlots) /\ (Clear(t) <=> Clear(r)) /\ (Holds(t) <=> Holds(r))
      /\ t.pending = r.pending /\ t.deq = r.deq /\ t.enq = r.enq
      /\ \A i \in 0 .. CtrlSlots - 1 : ~t.slot[i].fresh
  BY <1>3, <1>3a, StaleKeeps, Zenon
<1>5. t \in Rings BY <1>4 DEF RingOK, Rings
<1>6. Y = [X EXCEPT !.seq = FALSE,
                    !.ring["ctrl"].slot =
                        [i \in DOMAIN @ |-> [@[i] EXCEPT !.fresh = FALSE]]]
  OBVIOUS
<1>. HIDE DEF t
<1>7. [X.ring EXCEPT !["ctrl"] = t] \in [Ep -> Rings] BY <1>1, <1>5
<1>8. Y \in XType BY <1>1, <1>7 DEF XType
<1>9. /\ Y.state = X.state /\ ~Y.seq /\ Y.run = X.run /\ Y.rxq = X.rxq
      /\ Y.ring = [X.ring EXCEPT !["ctrl"] = t]
  BY <1>1 DEF XType
<1>10. Y.ring["ctrl"] = t /\ \A f \in BulkEp : Y.ring[f] = X.ring[f]
  BY <1>1, <1>9 DEF Ep, BulkEp
<1>. HIDE DEF Y
<1>11. \A f \in Ep : RingOK(Y.ring[f], SizeOf(f))
  <2>1. RingOK(Y.ring["ctrl"], SizeOf("ctrl")) BY <1>4, <1>10 DEF SizeOf
  <2>. QED BY <2>1, <1>2, <1>10 DEF DrvOK, Ep, BulkEp
<1>12. \A f \in Ep : f = "ctrl" \/ Y.run => Counts(Y.ring[f], XfersIn(p, f))
  <2>1. Counts(t, XfersIn(p, "ctrl"))
    <3>1. Counts(r, XfersIn(p, "ctrl")) BY <1>2 DEF DrvOK, Ep
    <3>. QED BY <3>1, <1>4 DEF Counts
  <2>. QED BY <2>1, <1>2, <1>9, <1>10 DEF DrvOK, Ep, BulkEp
<1>13. t.enq = IF t.pending = 0 THEN t.deq ELSE (t.deq + 1) % CtrlSlots BY <1>2, <1>4 DEF DrvOK
<1>14. Y.state \in {"configured_wait", "configured"} => Y.run BY <1>2, <1>9 DEF DrvOK
<1>15. Y.run /\ ~Y.rxq => Y.ring["out"].pending = 0 BY <1>2, <1>9, <1>10 DEF DrvOK, BulkEp
<1>16. DrvOK(Y, p)
  BY <1>4, <1>8, <1>10, <1>11, <1>12, <1>13, <1>14, <1>15 DEF DrvOK
<1>. QED BY <1>6, <1>9, <1>16 DEF p

(* A step that leaves both ends alone, and the PC no more configured.      *)
LEMMA QuietEnds ==
    ASSUME BothEnds, x' = x, ev' = ev, host'.configured => host.configured
    PROVE  BothEnds'
  BY DEF BothEnds

(* The controller runs a TRB: a bulk one only for a PC that is configured. *)
LEMMA RunEnds ==
    ASSUME BothEnds, ~EventsFull, NEW d \in Ep, d = "ctrl" \/ x.run, Runnable(x.ring[d]),
           NEW c \in {"ok", "error", "babble"},
           x' = [x EXCEPT !.ring[d] = Ran(@)], ev' = Posted(ev, Xfer(d, c)),
           d \in BulkEp => host.configured,
           host'.configured => host.configured \/ ConfsIn(ev) = {}
    PROVE  BothEnds'
<1>. DEFINE e == Xfer(d, c)
<1>1. DrvOK(x, ev) /\ EvOK(ev) /\ Ordered(ev) BY DEF BothEnds
<1>2. (ev.enq + 1) % EventSlots # ev.deq BY DEF EventsFull
<1>3. e \in Whats /\ e.t = "xfer" /\ e.ep = d BY DEF Whats, Xfer
<1>4. DrvOK(x', ev') /\ x'.seq = x.seq BY <1>1, <1>2, RunSafe
<1>5. ev' = Posted(ev, e) OBVIOUS
<1>. HIDE DEF e
<1>6. EvOK(ev') BY <1>1, <1>2, <1>3, <1>5, PostedWaits
<1>7. SetupsIn(ev') = SetupsIn(ev) /\ ConfsIn(ev') = ConfsIn(ev)
  BY <1>1, <1>2, <1>3, <1>5, PostedKinds
<1>8. d \in BulkEp => ConfsIn(ev) = {} BY DEF BothEnds
<1>9. Ordered(ev') BY <1>1, <1>2, <1>3, <1>5, <1>8, PostedOrdered
<1>10. x'.seq => SetupsIn(ev') = {} BY <1>4, <1>7 DEF BothEnds
<1>11. ConfsIn(ev') # {} => ~host'.configured BY <1>7 DEF BothEnds
<1>. QED BY <1>4, <1>6, <1>9, <1>10, <1>11 DEF BothEnds

(* A port change is posted.                                                *)
LEMMA PortEnds ==
    ASSUME BothEnds, ~EventsFull, x' = x, ev' = Posted(ev, PortEvent),
           host'.configured => host.configured
    PROVE  BothEnds'
<1>. DEFINE e == PortEvent
<1>1. DrvOK(x, ev) /\ EvOK(ev) /\ Ordered(ev) BY DEF BothEnds
<1>2. (ev.enq + 1) % EventSlots # ev.deq BY DEF EventsFull
<1>3. e \in Whats /\ e.t = "port" BY DEF Whats, PortEvent
<1>4. ev' = Posted(ev, e) OBVIOUS
<1>. HIDE DEF e
<1>5. DrvOK(x', ev') BY <1>1, <1>2, <1>3, <1>4, PostSafe
<1>6. EvOK(ev') BY <1>1, <1>2, <1>3, <1>4, PostedWaits
<1>7. SetupsIn(ev') = SetupsIn(ev) /\ ConfsIn(ev') = ConfsIn(ev)
  BY <1>1, <1>2, <1>3, <1>4, PostedKinds
<1>8. Ordered(ev') BY <1>1, <1>2, <1>3, <1>4, PostedOrdered
<1>. QED BY <1>5, <1>6, <1>7, <1>8 DEF BothEnds

(* The PC starts a request: a configuration only while it has none.        *)
LEMMA BeginEnds ==
    ASSUME BothEnds, NEW r \in AllRequests, XBegin(r), host \in HostType
    PROVE  BothEnds'
<1>. DEFINE e == SetupEvent(r)
            Y == [x EXCEPT !.seq = FALSE,
                           !.ring["ctrl"].slot =
                               [i \in DOMAIN @ |-> [@[i] EXCEPT !.fresh = FALSE]]]
<1>1. DrvOK(x, ev) /\ EvOK(ev) /\ Ordered(ev) BY DEF BothEnds
<1>2. (ev.enq + 1) % EventSlots # ev.deq BY DEF XBegin, EventsFull
<1>3. e \in Whats /\ e.t = "setup" /\ e.req = r BY DEF Whats, SetupEvent
<1>4. ev' = Posted(ev, e) /\ x' = Y BY DEF XBegin
<1>. HIDE DEF e
<1>5. DrvOK(Y, Posted(ev, e)) /\ ~Y.seq BY <1>1, <1>2, <1>3, StaleSafe
<1>. HIDE DEF Y
<1>6. EvOK(ev') BY <1>1, <1>2, <1>3, <1>4, PostedWaits
<1>7. ConfsIn(ev') = IF r = "conf1" THEN ConfsIn(ev) \cup {ev.enq} ELSE ConfsIn(ev)
  BY <1>1, <1>2, <1>3, <1>4, PostedKinds
<1>8. Ordered(ev') BY <1>1, <1>2, <1>3, <1>4, PostedOrdered
<1>9. host'.configured = host.configured BY DEF XBegin, Begun, HostType
<1>10. r = "conf1" => ~host.configured BY DEF XBegin, CanBegin, Allowed
<1>11. ConfsIn(ev') # {} => ~host'.configured BY <1>7, <1>9, <1>10 DEF BothEnds
<1>. QED BY <1>4, <1>5, <1>6, <1>8, <1>11 DEF BothEnds

(* The PC's states.                                                        *)
LEMMA HostStates ==
    ASSUME host \in HostType
    PROVE  /\ \A b \in BOOLEAN : Fresh(b) \in HostType /\ ~Fresh(b).configured
           /\ \A r \in AllRequests : Begun(r) \in HostType
           /\ Dropped(host) \in HostType /\ Dropped(host).configured = host.configured
           /\ Advanced(host) \in HostType
<1>1. \A b \in BOOLEAN : Fresh(b) \in HostType /\ ~Fresh(b).configured
  BY DEF Fresh, HostType
<1>2. \A r \in AllRequests : Begun(r) \in HostType
  BY DEF Begun, FirstStage, HostType
<1>3. Dropped(host) \in HostType /\ Dropped(host).configured = host.configured
  BY DEF Dropped, HostType
<1>4. Advanced(host) \in HostType
  <2>1. Served(host) \in HostType
    <3>. DEFINE g == [host EXCEPT !.req = NoReq, !.stage = "over"]
    <3>1. g \in HostType BY DEF HostType
    <3>2. Served(host) = (CASE host.req = "addr"  -> [g EXCEPT !.addressed = TRUE]
                            [] host.req = "conf1" -> [g EXCEPT !.configured = TRUE]
                            [] host.req = "conf0" -> [g EXCEPT !.configured = FALSE, !.dtr = FALSE]
                            [] host.req = "dtr1"  -> [g EXCEPT !.dtr = TRUE]
                            [] host.req = "dtr0"  -> [g EXCEPT !.dtr = FALSE]
                            [] OTHER              -> g)
      BY DEF Served
    <3>. HIDE DEF g
    <3>3. /\ [g EXCEPT !.addressed = TRUE] \in HostType
          /\ [g EXCEPT !.configured = TRUE] \in HostType
          /\ [g EXCEPT !.configured = FALSE, !.dtr = FALSE] \in HostType
          /\ [g EXCEPT !.dtr = TRUE] \in HostType
          /\ [g EXCEPT !.dtr = FALSE] \in HostType
      BY <3>1 DEF HostType
    <3>. QED BY <3>1, <3>2, <3>3, Zenon
  <2>2. [host EXCEPT !.stage = NextStage(host.stage)] \in HostType BY DEF HostType, NextStage
  <2>. QED BY <2>1, <2>2 DEF Advanced
<1>. QED BY <1>1, <1>2, <1>3, <1>4

\* The steps of controller and PC on Mariko.
XLine == \/ XStage \/ XStale \/ XStalls \/ XPlug \/ XUnplug \/ XBusReset \/ XBabble
         \/ \E e \in BulkEp : XBulk(e)
         \/ \E r \in AllRequests : XBegin(r)
         \/ UNCHANGED xusbVars /\ host' = Dropped(host)

(* Whatever controller and PC do, they and the driver agree after it.      *)
LEMMA LineEnds ==
    ASSUME BothEnds, host \in HostType, XLine
    PROVE  BothEnds'
<1>0. DrvOK(x, ev) BY DEF BothEnds
<1>1. CASE XStage
  <2>. DEFINE r == x.ring["ctrl"]
  <2>1. /\ Runnable(r) /\ ~EventsFull /\ Running(r).fresh
        /\ x' = [x EXCEPT !.ring["ctrl"] = Ran(@)]
        /\ ev' = Posted(ev, Xfer("ctrl", "ok"))
    BY <1>1 DEF XStage
  <2>2. RingOK(r, CtrlSlots) BY <1>0 DEF DrvOK, Ep, SizeOf
  <2>3. Holds(r) BY <2>1, <2>2, RunnableIff
  <2>4. r \in RingType(CtrlSlots) BY <2>2 DEF RingOK
  <2>5. r.hwdeq \in 0 .. CtrlSlots - 1 BY <2>3, <2>4, SlotsOfRing DEF Holds
  <2>6. x.seq BY <1>0, <2>1, <2>5 DEF DrvOK, Running
  <2>7. ConfsIn(ev) = {} BY <2>6 DEF BothEnds, ConfsIn
  <2>. QED BY <2>1, <2>7, RunEnds DEF Ep, BulkEp
<1>2. CASE XStale
  <2>1. /\ Runnable(x.ring["ctrl"]) /\ ~EventsFull
        /\ x' = [x EXCEPT !.ring["ctrl"] = Ran(@)]
        /\ ev' = Posted(ev, Xfer("ctrl", "error"))
        /\ host' = host
    BY <1>2 DEF XStale, hostVars
  <2>. QED BY <2>1, RunEnds DEF Ep, BulkEp
<1>3. CASE XStalls
  <2>1. x' = x /\ ev' = ev /\ host' = Dropped(host) BY <1>3 DEF XStalls, Stalled, xusbVars
  <2>. QED BY <2>1, QuietEnds, HostStates
<1>4. ASSUME NEW h, XPortChanged(h), ~h.configured PROVE BothEnds'
  <2>1. x' = x /\ host' = h BY <1>4 DEF XPortChanged
  <2>2. CASE csc
    <3>1. ev' = ev BY <1>4, <2>2 DEF XPortChanged
    <3>. QED BY <1>4, <2>1, <3>1, QuietEnds
  <2>3. CASE ~csc
    <3>1. ~EventsFull /\ ev' = Posted(ev, PortEvent) BY <1>4, <2>3 DEF XPortChanged
    <3>. QED BY <1>4, <2>1, <3>1, PortEnds
  <2>. QED BY <2>2, <2>3
<1>5. CASE XPlug BY <1>4, <1>5, HostStates DEF XPlug
<1>6. CASE XUnplug BY <1>4, <1>6, HostStates DEF XUnplug
<1>7. CASE XBusReset
  <2>1. ~EventsFull /\ x' = x /\ ev' = Posted(ev, PortEvent) /\ host' = Fresh(TRUE)
    BY <1>7 DEF XBusReset
  <2>. QED BY <2>1, PortEnds, HostStates
<1>8. CASE XBabble
  <2>1. /\ Runnable(x.ring["out"]) /\ ~EventsFull /\ x.run /\ host.configured
        /\ x' = [x EXCEPT !.ring["out"] = Ran(@)]
        /\ ev' = Posted(ev, Xfer("out", "babble"))
        /\ host' = host
    BY <1>8 DEF XBabble
  <2>. QED BY <2>1, RunEnds DEF Ep, BulkEp
<1>9. ASSUME NEW e \in BulkEp, XBulk(e) PROVE BothEnds'
  <2>1. /\ Runnable(x.ring[e]) /\ ~EventsFull /\ x.run /\ host.configured
        /\ x' = [x EXCEPT !.ring[e] = Ran(@)]
        /\ ev' = Posted(ev, Xfer(e, "ok"))
        /\ host' = host
    BY <1>9 DEF XBulk, hostVars
  <2>2. e \in Ep BY DEF Ep, BulkEp
  <2>. QED BY <2>1, <2>2, RunEnds
<1>10. ASSUME NEW r \in AllRequests, XBegin(r) PROVE BothEnds' BY <1>10, BeginEnds
<1>11. CASE UNCHANGED xusbVars /\ host' = Dropped(host)
  BY <1>11, QuietEnds, HostStates DEF xusbVars
<1>. QED BY <1>1, <1>2, <1>3, <1>5, <1>6, <1>7, <1>8, <1>9, <1>10, <1>11 DEF XLine

-----------------------------------------------------------------------------
(* The USB2 driver.                                                        *)

(* The fields of the USB2 driver's struct.                                 *)
LEMMA U2Fields ==
    ASSUME NEW U \in UType
    PROVE  /\ U.setup \in AllRequests \cup {NoReq, Zeroed} /\ U.configured \in BOOLEAN
           /\ U.rxq \in BOOLEAN /\ U.primed \in [Qh -> BOOLEAN] /\ U.active \in [Qh -> BOOLEAN]
           /\ U.error \in [Qh -> BOOLEAN] /\ U.stall \in SUBSET Qh /\ U.enabled \in SUBSET Qh
           /\ U.mail \in AllRequests \cup {Zeroed} /\ U.setupstat \in BOOLEAN
           /\ U.uri \in BOOLEAN
  BY DEF UType

(* A transfer taken off a half touches no other half.                      *)
LEMMA MarkedOther ==
    ASSUME NEW U \in UType, NEW q \in Qh
    PROVE  LET V == MarkComplete(U, q) IN
           /\ V \in UType
           /\ q # "in" => EpStatus(V, "in") = EpStatus(U, "in")
           /\ V.configured = U.configured /\ V.setup = U.setup
<1>. DEFINE V == MarkComplete(U, q)
            m == IF q = "cout" THEN Zeroed ELSE U.mail
            a == [U.active EXCEPT ![q] = FALSE]
            b == [U.primed EXCEPT ![q] = FALSE]
            c == [U.error EXCEPT ![q] = FALSE]
<1>1. V = [U EXCEPT !.primed = b, !.active = a, !.error = c, !.mail = m] BY DEF MarkComplete
<1>2. m \in AllRequests \cup {Zeroed} BY U2Fields
<1>3. a \in [Qh -> BOOLEAN] /\ b \in [Qh -> BOOLEAN] /\ c \in [Qh -> BOOLEAN] BY U2Fields
<1>4. "in" \in Qh BY DEF Qh
<1>5. q # "in" => a["in"] = U.active["in"] /\ b["in"] = U.primed["in"] /\ c["in"] = U.error["in"]
  BY <1>4, U2Fields
<1>. HIDE DEF a, b, c, m
<1>6. V \in UType BY <1>1, <1>2, <1>3 DEF UType
<1>7. /\ V.active = a /\ V.primed = b /\ V.error = c /\ V.stall = U.stall
      /\ V.enabled = U.enabled /\ V.configured = U.configured /\ V.setup = U.setup
  BY <1>1 DEF UType
<1>. HIDE DEF V
<1>8. q # "in" => EpStatus(V, "in") = EpStatus(U, "in") BY <1>5, <1>7 DEF EpStatus
<1>. QED BY <1>6, <1>7, <1>8 DEF V

(* A transfer primed.                                                      *)
LEMMA PrimedType ==
    ASSUME NEW U \in UType, NEW q \in Qh
    PROVE  Prime(U, q) \in UType
<1>. DEFINE V == MarkComplete(U, q)
            f == ~(q \in CtrlQh /\ U.setupstat)
            a == [V.active EXCEPT ![q] = f]
            b == [V.primed EXCEPT ![q] = TRUE]
<1>1. V \in UType BY MarkedOther
<1>2. Prime(U, q) = [V EXCEPT !.primed = b, !.active = a] BY DEF Prime
<1>. HIDE DEF V
<1>3. f \in BOOLEAN OBVIOUS
<1>. HIDE DEF f
<1>4. a \in [Qh -> BOOLEAN] /\ b \in [Qh -> BOOLEAN] BY <1>1, <1>3, U2Fields
<1>. HIDE DEF a, b
<1>. QED BY <1>1, <1>2, <1>4 DEF UType

(* A bulk half set up.                                                     *)
LEMMA EpCtrlType ==
    ASSUME NEW U \in UType, NEW q \in Qh
    PROVE  EpCtrlInit(U, q) \in UType
<1>. DEFINE a == [U.active EXCEPT ![q] = FALSE]
            b == [U.primed EXCEPT ![q] = FALSE]
            c == [U.error EXCEPT ![q] = FALSE]
            s == U.stall \ {q}
            n == U.enabled \cup {q}
<1>1. EpCtrlInit(U, q) = [U EXCEPT !.primed = b, !.active = a, !.error = c,
                                   !.stall = s, !.enabled = n]
  BY DEF EpCtrlInit
<1>2. a \in [Qh -> BOOLEAN] /\ b \in [Qh -> BOOLEAN] /\ c \in [Qh -> BOOLEAN] BY U2Fields
<1>3. s \in SUBSET Qh /\ n \in SUBSET Qh BY U2Fields
<1>. HIDE DEF a, b, c, s, n
<1>. QED BY <1>1, <1>2, <1>3 DEF UType

(* The bulk halves off.                                                    *)
LEMMA Disabled2 ==
    ASSUME NEW U \in UType
    PROVE  DisableEps2(U) \in UType /\ ~DisableEps2(U).configured
<1>. DEFINE a == [q \in Qh |-> FALSE]
            s == U.stall \ {"out", "in"}
            n == U.enabled \ {"out", "in"}
<1>1. DisableEps2(U) = [U EXCEPT !.active = a, !.stall = s, !.enabled = n,
                                 !.configured = FALSE, !.rxq = FALSE]
  BY DEF DisableEps2
<1>2. a \in [Qh -> BOOLEAN] OBVIOUS
<1>3. s \in SUBSET Qh /\ n \in SUBSET Qh BY U2Fields
<1>. HIDE DEF a, s, n
<1>. QED BY <1>1, <1>2, <1>3 DEF UType

(* Halves stalled or not.                                                  *)
LEMMA StalledType ==
    ASSUME NEW U \in UType, NEW S \in SUBSET Qh
    PROVE  LET V == [U EXCEPT !.stall = S] IN
           /\ V \in UType /\ V.configured = U.configured /\ V.setup = U.setup
           /\ V.setupstat = U.setupstat
           /\ ("in" \in S <=> "in" \in U.stall) => EpStatus(V, "in") = EpStatus(U, "in")
<1>. DEFINE V == [U EXCEPT !.stall = S]
<1>1. V \in UType BY DEF UType
<1>2. /\ V.configured = U.configured /\ V.setup = U.setup /\ V.setupstat = U.setupstat
      /\ V.stall = S /\ V.enabled = U.enabled /\ V.active = U.active /\ V.primed = U.primed
      /\ V.error = U.error
  BY DEF UType
<1>. HIDE DEF V
<1>3. ("in" \in S <=> "in" \in U.stall) => EpStatus(V, "in") = EpStatus(U, "in")
  BY <1>2 DEF EpStatus
<1>. QED BY <1>1, <1>2, <1>3 DEF V

(* What a bus reset leaves: no configuration, if there was one.            *)
LEMMA ResetType ==
    ASSUME NEW U \in UType
    PROVE  LET V == BusResetHandled(U) IN
           V \in UType /\ (V = U \/ ~V.configured)
<1>1. CASE ~U.uri BY <1>1 DEF BusResetHandled
<1>2. CASE U.uri
  <2>. DEFINE W == [U EXCEPT !.setupstat = FALSE]
              D == DisableEps2(W)
  <2>1. BusResetHandled(U) = [D EXCEPT !.uri = FALSE] BY <1>2 DEF BusResetHandled
  <2>2. W \in UType BY DEF UType
  <2>. HIDE DEF W
  <2>3. D \in UType /\ ~D.configured BY <2>2, Disabled2
  <2>. HIDE DEF D
  <2>. QED BY <2>1, <2>3 DEF UType
<1>. QED BY <1>1, <1>2

(* What a request does before its first stage.                             *)
LEMMA BeforeType ==
    ASSUME NEW U \in UType
    PROVE  LET V == Before(U) IN
           /\ V \in UType /\ V.configured = U.configured /\ V.setup = U.setup
           /\ FirstQh(U.setup) = "none" => EpStatus(V, "in") = EpStatus(U, "in")
<1>. DEFINE S == CASE U.setup = "halt_in"   -> U.stall \cup {"in"}
                   [] U.setup = "clear_in"  -> U.stall \ {"in"}
                   [] U.setup = "clear_out" -> U.stall \ {"out"}
                   [] FirstQh(U.setup) = "none" -> U.stall \cup CtrlQh
                   [] OTHER -> U.stall
            V == [U EXCEPT !.stall = S]
<1>1. Before(U) = V
  <2>1. SetStall(U, "in", TRUE) = [U EXCEPT !.stall = U.stall \cup {"in"}] BY DEF SetStall
  <2>2. SetStall(U, "in", FALSE) = [U EXCEPT !.stall = U.stall \ {"in"}] BY DEF SetStall
  <2>3. SetStall(U, "out", FALSE) = [U EXCEPT !.stall = U.stall \ {"out"}] BY DEF SetStall
  <2>4. Ep0Stall(U) = [U EXCEPT !.stall = U.stall \cup CtrlQh] BY DEF Ep0Stall
  <2>5. U = [U EXCEPT !.stall = U.stall] BY DEF UType
  <2>6. CASE U.setup = "halt_in"
    <3>1. S = U.stall \cup {"in"} BY <2>6 DEF FirstQh, Zeroed
    <3>2. Before(U) = SetStall(U, "in", TRUE) BY <2>6 DEF Before, FirstQh, Zeroed
    <3>. HIDE DEF S
    <3>. QED BY <2>1, <3>1, <3>2
  <2>7. CASE U.setup = "clear_in"
    <3>1. S = U.stall \ {"in"} BY <2>7 DEF FirstQh, Zeroed
    <3>2. Before(U) = SetStall(U, "in", FALSE) BY <2>7 DEF Before, FirstQh, Zeroed
    <3>. HIDE DEF S
    <3>. QED BY <2>2, <3>1, <3>2
  <2>8. CASE U.setup = "clear_out"
    <3>1. S = U.stall \ {"out"} BY <2>8 DEF FirstQh, Zeroed
    <3>2. Before(U) = SetStall(U, "out", FALSE) BY <2>8 DEF Before, FirstQh, Zeroed
    <3>. HIDE DEF S
    <3>. QED BY <2>3, <3>1, <3>2
  <2>9. CASE U.setup \notin {"halt_in", "clear_in", "clear_out"}
    <3>1. CASE FirstQh(U.setup) = "none"
      <4>1. S = U.stall \cup CtrlQh BY <2>9, <3>1
      <4>2. Before(U) = Ep0Stall(U) BY <2>9, <3>1 DEF Before
      <4>. HIDE DEF S
      <4>. QED BY <2>4, <4>1, <4>2
    <3>2. CASE FirstQh(U.setup) # "none"
      <4>1. S = U.stall BY <2>9, <3>2
      <4>2. Before(U) = U BY <2>9, <3>2 DEF Before
      <4>. HIDE DEF S
      <4>. QED BY <2>5, <4>1, <4>2
    <3>. QED BY <3>1, <3>2
  <2>. QED BY <2>6, <2>7, <2>8, <2>9
<1>2. S \in SUBSET Qh
  <2>1. U.stall \in SUBSET Qh BY U2Fields
  <2>. QED BY <2>1 DEF Qh, CtrlQh
<1>3. FirstQh(U.setup) = "none" => ("in" \in S <=> "in" \in U.stall)
  BY DEF FirstQh, CtrlQh, Zeroed
<1>. HIDE DEF S
<1>4. /\ V \in UType /\ V.configured = U.configured /\ V.setup = U.setup
      /\ ("in" \in S <=> "in" \in U.stall) => EpStatus(V, "in") = EpStatus(U, "in")
  BY <1>2, StalledType
<1>. HIDE DEF V
<1>. QED BY <1>1, <1>3, <1>4

(* A SETUP packet taken: nothing that needs no stage touches the IN half.  *)
LEMMA TakenType ==
    ASSUME NEW U \in UType
    PROVE  LET V == Taken(U) IN
           /\ V \in UType
           /\ FirstOp(U) = NoOp => /\ EpStatus(V, "in") = EpStatus(U, "in")
                                   /\ V.configured = U.configured
           /\ FirstOp(U) # NoOp => FirstOp(U).qh \in CtrlQh
<1>. DEFINE V == Taken(U)
            W == [U EXCEPT !.setupstat = FALSE, !.setup = U.mail]
            B == Before(W)
<1>1. FirstOp(U) # NoOp => FirstOp(U).qh \in CtrlQh BY DEF FirstOp, NoOp, FirstQh, CtrlQh
<1>2. CASE ~U.setupstat
  <2>1. V = U BY <1>2 DEF Taken
  <2>. HIDE DEF V
  <2>. QED BY <2>1, <1>1 DEF V
<1>3. CASE U.setupstat
  <2>1. V = IF FirstQh(B.setup) = "none" THEN B ELSE Prime(B, FirstQh(B.setup))
    BY <1>3 DEF Taken
  <2>2. U.mail \in AllRequests \cup {NoReq, Zeroed} BY U2Fields
  <2>3. W \in UType /\ W.setup = U.mail /\ W.configured = U.configured
        /\ W.stall = U.stall /\ W.enabled = U.enabled /\ W.active = U.active
        /\ W.primed = U.primed /\ W.error = U.error
    BY <2>2 DEF UType
  <2>. HIDE DEF W
  <2>4. EpStatus(W, "in") = EpStatus(U, "in") BY <2>3 DEF EpStatus
  <2>5. /\ B \in UType /\ B.configured = W.configured /\ B.setup = W.setup
        /\ FirstQh(W.setup) = "none" => EpStatus(B, "in") = EpStatus(W, "in")
    BY <2>3, BeforeType
  <2>. HIDE DEF B
  <2>6. CASE FirstQh(U.mail) = "none"
    <3>1. V = B BY <2>1, <2>3, <2>5, <2>6
    <3>. HIDE DEF V
    <3>. QED BY <3>1, <1>1, <2>3, <2>4, <2>5, <2>6 DEF V
  <2>7. CASE FirstQh(U.mail) # "none"
    <3>1. V = Prime(B, FirstQh(B.setup)) BY <2>1, <2>3, <2>5, <2>7
    <3>2. FirstQh(B.setup) \in Qh BY <2>3, <2>5, <2>7 DEF FirstQh, Qh
    <3>3. FirstOp(U) # NoOp
      <4>1. FirstOp(U).qh = FirstQh(U.mail) BY <1>3, <2>7 DEF FirstOp
      <4>. QED BY <4>1, <2>7 DEF NoOp
    <3>. HIDE DEF V
    <3>. QED BY <3>1, <3>2, <3>3, <1>1, <2>5, PrimedType DEF V
  <2>. QED BY <2>6, <2>7
<1>. QED BY <1>2, <1>3

(* The end of a request.                                                   *)
LEMMA AfterType ==
    ASSUME NEW U \in UType
    PROVE  LET V == After(U) IN
           /\ V \in UType
           /\ V = U \/ ~V.configured \/ U.setup = "conf1"
<1>1. CASE U.setup = "conf0"
  <2>1. After(U) = DisableEps2(U) BY <1>1 DEF After
  <2>. QED BY <2>1, Disabled2
<1>2. CASE U.setup = "conf1"
  <2>. DEFINE D == EpCtrlInit(U, "out")
              E == EpCtrlInit(D, "in")
  <2>1. After(U) = [E EXCEPT !.rxq = FALSE, !.configured = TRUE] BY <1>2 DEF After
  <2>2. D \in UType BY EpCtrlType DEF Qh
  <2>. HIDE DEF D
  <2>3. E \in UType BY <2>2, EpCtrlType DEF Qh
  <2>. HIDE DEF E
  <2>4. After(U) \in UType BY <2>1, <2>3 DEF UType
  <2>. QED BY <1>2, <2>4
<1>3. CASE U.setup \notin {"conf0", "conf1"}
  <2>1. After(U) = U BY <1>3 DEF After
  <2>. QED BY <2>1
<1>. QED BY <1>1, <1>2, <1>3

(* The port's turn on Erista.                                              *)
LEMMA Bulk2Type ==
    ASSUME NEW U \in UType, NEW s \in BOOLEAN
    PROVE  BulkU(U, s) \in UType
<1>. DEFINE b == U.rxq /\ ~URxReady(U)
            W == [U EXCEPT !.rxq = b]
            V == URxQueued(W)
<1>1. BulkU(U, s) = IF s THEN Prime(V, "in") ELSE V BY DEF BulkU
<1>2. b \in BOOLEAN BY U2Fields
<1>. HIDE DEF b
<1>3. W \in UType BY <1>2 DEF UType
<1>. HIDE DEF W
<1>4. Prime(W, "out") \in UType BY <1>3, PrimedType DEF Qh
<1>5. [Prime(W, "out") EXCEPT !.rxq = TRUE] \in UType BY <1>4 DEF UType
<1>6. V \in UType BY <1>3, <1>5 DEF URxQueued
<1>. HIDE DEF V
<1>7. Prime(V, "in") \in UType BY <1>6, PrimedType DEF Qh
<1>. QED BY <1>1, <1>6, <1>7

-----------------------------------------------------------------------------
(* The steps of the specification.                                         *)

(* A controller that was just brought up, and nothing on any ring.         *)
LEMMA FreshEnds ==
    ASSUME x' = XInit, ev' = EventRingInit
    PROVE  BothEnds'
<1>. DEFINE Y == XInit
            R == [e \in Ep |-> IF e = "ctrl" THEN RingInit(CtrlSlots) ELSE BulkRing]
<1>1. \A n \in Nat \ {0} : /\ RingOK(RingInit(n), n) /\ Clear(RingInit(n))
                           /\ RingInit(n).pending = 0 /\ RingInit(n).enq = RingInit(n).deq
  BY EmptyRing
<1>2. CtrlSlots \in Nat \ {0} /\ BulkSlots \in Nat \ {0} OBVIOUS
<1>3. \A e \in Ep : /\ RingOK(R[e], SizeOf(e)) /\ Clear(R[e]) /\ R[e].pending = 0
                    /\ R[e].enq = R[e].deq
  BY <1>1, <1>2 DEF SizeOf, BulkRing
<1>4. \A e \in Ep : R[e] \in Rings BY <1>3, SizesOK DEF RingOK
<1>5. R \in [Ep -> Rings] BY <1>4
<1>. HIDE DEF R
<1>6. Y = [state |-> "default", seq |-> TRUE, wait |-> "none", out |-> FALSE,
           rxq |-> FALSE, lost |-> FALSE, run |-> FALSE, halted |-> {}, ring |-> R]
  BY DEF XInit, R
<1>7. Y \in XType BY <1>5, <1>6 DEF XType
<1>8. Y.state = "default" /\ Y.seq /\ ~Y.run /\ Y.ring = R BY <1>6
<1>. HIDE DEF Y
<1>9. \A e : XfersIn(EventRingInit, e) = {} BY EmptyEvents
<1>10. \A e \in Ep : Counts(Y.ring[e], XfersIn(EventRingInit, e)) BY <1>3, <1>8, <1>9 DEF Counts
<1>11. DrvOK(Y, EventRingInit) BY <1>3, <1>7, <1>8, <1>10 DEF DrvOK, Ep
<1>. QED BY <1>11, EmptyEvents DEF BothEnds, Y

(* The invariant holds at the start.                                       *)
LEMMA InitRing == Init => RingInv
<1>. SUFFICES ASSUME Init PROVE RingInv
  OBVIOUS
<1>1. pc \in Pcs /\ host \in HostType BY DEF Init, HostInit, Fresh, HostType
<1>2. UInit \in UType BY DEF UInit, UType, Qh, CtrlQh
<1>3. PollOK BY DEF Init, Idle, PollOK
<1>. QED BY <1>1, <1>2, <1>3 DEF Init, Port, Off, RingInv

(* The port's turn ends the poll.                                          *)
LEMMA TurnType ==
    ASSUME NEW X, NEW U \in UType, NEW p, PollPort(X, U, p)
    PROVE  u' \in UType /\ poll' = Idle
<1>1. poll' = Idle BY DEF PollPort
<1>. DEFINE s == Sends(X, U, p)
<1>2. BulkU(U, s) \in UType
  <2>1. s \in BOOLEAN BY DEF Sends
  <2>. HIDE DEF s
  <2>. QED BY <2>1, Bulk2Type
<1>3. u' = U \/ u' = BulkU(U, s) BY DEF PollPort
<1>. HIDE DEF s
<1>. QED BY <1>1, <1>2, <1>3

(* A controller brought up, or not.                                        *)
LEMMA UpRing ==
    ASSUME RingInv, NEW ok \in BOOLEAN, BroughtUp(ok), poll = Idle, UNCHANGED poll
    PROVE  RingInv'
<1>1. x' = XInit /\ ev' = EventRingInit /\ u' = UInit /\ host' = Fresh(FALSE) /\ pc' = pc
      /\ soc' = soc
  BY DEF BroughtUp
<1>2. BothEnds' BY <1>1, FreshEnds
<1>3. UInit \in UType BY DEF UInit, UType, Qh, CtrlQh
<1>4. Fresh(FALSE) \in HostType BY DEF Fresh, HostType
<1>5. PollOK' BY DEF Idle, PollOK
<1>. QED BY <1>1, <1>2, <1>3, <1>4, <1>5 DEF RingInv

(* The port stopped.                                                       *)
LEMMA StopRing == ASSUME RingInv, IInv, Stop PROVE RingInv'
<1>1. u' = DisableEps2(u) /\ host' = Fresh(FALSE) /\ pc' = pc /\ soc' = soc /\ poll' = poll
      /\ poll = Idle /\ port' = [port EXCEPT !.state = "OFF"]
  BY DEF Stop
<1>2. u' \in UType BY <1>1, Disabled2 DEF RingInv
<1>3. Fresh(FALSE) \in HostType BY DEF Fresh, HostType
<1>4. port'.state = "OFF" BY <1>1 DEF IInv
<1>5. PollOK' BY <1>1 DEF Idle, PollOK
<1>. QED BY <1>1, <1>2, <1>3, <1>4, <1>5 DEF RingInv, Off

(* The poll of the XUSB driver: what it finds is what waits.               *)
LEMMA PollXRing == ASSUME RingInv, PollX PROVE RingInv'
<1>. DEFINE q == [ev EXCEPT !.ip = FALSE]
<1>1. port.state \notin Off /\ OnX /\ ev' = q /\ UNCHANGED <<hostVars, soc>> BY DEF PollX
<1>2. BothEnds BY <1>1 DEF RingInv
<1>3. ev \in EvType BY <1>2 DEF BothEnds, EvOK
<1>4. /\ q \in EvType /\ q.slot = ev.slot /\ q.enq = ev.enq /\ q.deq = ev.deq
      /\ q.pcs = ev.pcs /\ q.ccs = ev.ccs
  BY <1>3 DEF EvType
<1>. HIDE DEF q
<1>5. WaitingIn(q) = WaitingIn(ev) BY <1>4 DEF WaitingIn
<1>6. /\ SetupsIn(q) = SetupsIn(ev) /\ \A e : XfersIn(q, e) = XfersIn(ev, e)
  BY <1>4, <1>5 DEF SetupsIn, XfersIn
<1>7. ConfsIn(q) = ConfsIn(ev) BY <1>4, <1>6 DEF ConfsIn
<1>8. EvOK(q) BY <1>2, <1>4 DEF BothEnds, EvOK
<1>9. Ordered(q) BY <1>2, <1>4, <1>6, <1>7 DEF BothEnds, Ordered
<1>10. DrvOK(x, q) BY <1>2, <1>6 DEF BothEnds, DrvOK
<1>11. u \in UType BY DEF RingInv
<1>12. DrvOK(x', q) /\ x'.seq = x.seq /\ u' \in UType
       /\ (poll' = Idle \/ (poll'.at = "events" /\ port' = port))
  <2>1. CASE ev.ip
    <3>1. x' = x /\ u' = u /\ port' = port /\ poll' = [at |-> "events", limit |-> ev.enq]
      BY <2>1 DEF PollX
    <3>. QED BY <3>1, <1>10, <1>11
  <2>2. CASE ~ev.ip
    <3>1. PollPort(x, u, port) BY <2>2 DEF PollX
    <3>. QED BY <3>1, <1>1, <1>10, <1>11, TurnSafe, TurnType
  <2>. QED BY <2>1, <2>2
<1>13. BothEnds'
  BY <1>1, <1>2, <1>6, <1>7, <1>8, <1>9, <1>12 DEF BothEnds, hostVars
<1>14. PollOK' BY <1>1, <1>12 DEF PollOK, Idle, OnX
<1>. QED BY <1>1, <1>12, <1>13, <1>14 DEF RingInv, hostVars

(* One event of the poll.                                                  *)
LEMMA EventRingInv == ASSUME RingInv, IInv, Event PROVE RingInv'
<1>. DEFINE e == NextEvent.what
            X == HandleEvent(x, e)
            p == IF e.t = "setup" THEN [port EXCEPT !.dtr = DtrOf(e.req, @)] ELSE port
<1>1. poll.at = "events" /\ UNCHANGED <<hostVars, op, soc>> BY DEF Event
<1>2. OnX /\ port.state \notin Off BY <1>1 DEF RingInv, PollOK
<1>3. BothEnds /\ u \in UType BY <1>2 DEF RingInv
<1>4. DrvOK(x, ev) /\ EvOK(ev) /\ Ordered(ev) /\ (x.seq => SetupsIn(ev) = {})
  BY <1>3 DEF BothEnds
<1>5. CASE ~IsNew
  <2>1. PollPort(x, u, port) /\ ev' = ev BY <1>5 DEF Event
  <2>2. DrvOK(x', ev) /\ x'.seq = x.seq /\ u' \in UType /\ poll' = Idle
    BY <2>1, <1>2, <1>3, <1>4, TurnSafe, TurnType
  <2>3. BothEnds' BY <1>1, <1>3, <2>1, <2>2 DEF BothEnds, hostVars
  <2>4. PollOK' BY <2>2 DEF PollOK, Idle
  <2>. QED BY <1>1, <2>2, <2>3, <2>4 DEF RingInv, hostVars
<1>6. CASE IsNew
  <2>1. ev' = Consumed(ev) BY <1>6 DEF Event
  <2>2. /\ DrvOK(X, ev') /\ EvOK(ev') /\ Ordered(ev')
        /\ X.seq => SetupsIn(ev') = {}
    BY <1>4, <1>6, <2>1, HandledSafe
  <2>3. ConfsIn(ev') = ConfsIn(ev) \ {ev.deq} BY <1>4, <1>6, <2>1, NewIffWaiting, ConsumedKinds
  <2>4. PollPort(X, u, p) \/ (x' = X /\ u' = u /\ port' = p /\ poll' = poll)
    BY <1>6 DEF Event
  <2>5. p.state = port.state BY DEF IInv, DtrOf
  <2>. HIDE DEF X, p
  <2>6. /\ DrvOK(x', ev') /\ x'.seq = X.seq /\ u' \in UType
        /\ poll' = Idle \/ (poll' = poll /\ port'.state = port.state)
    <3>1. CASE PollPort(X, u, p) BY <3>1, <1>2, <1>3, <2>2, TurnSafe, TurnType
    <3>2. CASE x' = X /\ u' = u /\ port' = p /\ poll' = poll BY <3>2, <1>3, <2>2, <2>5
    <3>. QED BY <2>4, <3>1, <3>2
  <2>7. BothEnds' BY <1>1, <1>3, <2>2, <2>3, <2>6 DEF BothEnds, hostVars
  <2>8. PollOK' BY <1>1, <1>2, <2>6 DEF PollOK, Idle, OnX
  <2>. QED BY <1>1, <2>6, <2>7, <2>8 DEF RingInv, hostVars
<1>. QED BY <1>5, <1>6

(* The poll of the USB2 driver.                                            *)
LEMMA Poll2Ring == ASSUME RingInv, IInv, Poll2 PROVE RingInv'
<1>. DEFINE U == BusResetHandled(u)
            p == IF U.setupstat THEN [port EXCEPT !.dtr = DtrOf(U.mail, @)] ELSE port
<1>1. ~OnX /\ port.state \notin Off /\ UNCHANGED <<hostVars, soc>> /\ op' = FirstOp(U)
  BY DEF Poll2
<1>2. u \in UType BY DEF RingInv
<1>3. U \in UType BY <1>2, ResetType
<1>4. p.state = port.state BY DEF IInv, DtrOf
<1>5. PollPort(x, Taken(U), p) \/ (/\ FirstOp(U) # NoOp /\ u' = Taken(U) /\ port' = p
                                   /\ poll' = [at |-> "op", limit |-> 0])
  BY DEF Poll2
<1>. HIDE DEF U, p
<1>6. Taken(U) \in UType /\ (FirstOp(U) # NoOp => FirstOp(U).qh \in CtrlQh) BY <1>3, TakenType
<1>7. u' \in UType /\ (\/ poll' = Idle
                       \/ poll'.at = "op" /\ port'.state \notin Off /\ op'.qh \in CtrlQh)
  <2>1. CASE PollPort(x, Taken(U), p) BY <2>1, <1>6, TurnType
  <2>2. CASE /\ FirstOp(U) # NoOp /\ u' = Taken(U) /\ port' = p
             /\ poll' = [at |-> "op", limit |-> 0]
    BY <2>2, <1>1, <1>4, <1>6
  <2>. QED BY <1>5, <2>1, <2>2
<1>8. PollOK' BY <1>1, <1>7 DEF PollOK, Idle, OnX
<1>. QED BY <1>1, <1>7, <1>8 DEF RingInv, OnX, hostVars

\* The half of endpoint 0 that is waited for.
OpQh == op.qh \in CtrlQh

(* The end of a stage: the IN half is as it was, unless the request was a  *)
(* configuration.                                                          *)
LEMMA StageEnds ==
    ASSUME u \in UType, OpQh, NEW end \in {OpDone, OpTimesOut}
    PROVE  /\ end.u \in UType /\ (end.op # NoOp => end.op.qh \in CtrlQh)
           /\ end.op = NoOp => \/ EpStatus(end.u, "in") = EpStatus(u, "in")
                               \/ ~end.u.configured
                               \/ u.setup = "conf1"
<1>1. CASE end = OpDone
  <2>. DEFINE ok == EpStatus(u, op.qh) = "idle"
              q  == IF op.qh = "cin" THEN "cout" ELSE "cin"
              v  == IF ~ok THEN u ELSE IF op.last THEN After(u) ELSE Prime(u, q)
              o  == IF ok /\ ~op.last THEN [qh |-> q, last |-> TRUE] ELSE NoOp
  <2>1. end.u = v /\ end.op = o BY <1>1 DEF OpDone
  <2>2. q \in CtrlQh /\ q \in Qh BY DEF CtrlQh, Qh
  <2>3. Prime(u, q) \in UType
    <3>. HIDE DEF q
    <3>. QED BY <2>2, PrimedType
  <2>4. /\ After(u) \in UType
        /\ After(u) = u \/ ~After(u).configured \/ u.setup = "conf1"
    BY AfterType
  <2>5. o # NoOp => o.qh \in CtrlQh
    <3>. HIDE DEF q
    <3>. QED BY <2>2
  <2>6. v \in UType
    <3>. HIDE DEF q, ok
    <3>. QED BY <2>3, <2>4
  <2>7. o = NoOp => ~(ok /\ ~op.last)
    <3>1. q # "none" OBVIOUS
    <3>. HIDE DEF q, ok
    <3>. QED BY <3>1 DEF NoOp
  <2>8. o = NoOp => v = u \/ v = After(u)
    <3>. HIDE DEF q, ok, o
    <3>. QED BY <2>7
  <2>. HIDE DEF v, o
  <2>. QED BY <2>1, <2>4, <2>5, <2>6, <2>8
<1>2. CASE end = OpTimesOut
  <2>1. end.u = MarkComplete(u, op.qh) /\ end.op = NoOp BY <1>2 DEF OpTimesOut
  <2>2. op.qh \in Qh /\ op.qh # "in" BY DEF OpQh, CtrlQh, Qh
  <2>. QED BY <2>1, <2>2, MarkedOther
<1>. QED BY <1>1, <1>2

(* A stage of the USB2 driver's control transfer.                          *)
LEMMA Op2Ring == ASSUME RingInv, Op2 PROVE RingInv'
<1>1. poll.at = "op" /\ UNCHANGED <<hostVars, soc>> BY DEF Op2
<1>2. ~OnX /\ OpQh /\ port.state \notin Off BY <1>1 DEF RingInv, PollOK, OpQh
<1>3. PICK end \in {OpDone, OpTimesOut} :
        /\ op' = end.op
        /\ IF end.op = NoOp THEN PollPort(x, end.u, port)
           ELSE u' = end.u /\ UNCHANGED <<x, port, poll>>
  BY DEF Op2
<1>4. u \in UType BY DEF RingInv
<1>5. end.u \in UType /\ (end.op # NoOp => end.op.qh \in CtrlQh) BY <1>2, <1>4, StageEnds
<1>6. u' \in UType /\ (\/ poll' = Idle
                       \/ poll' = poll /\ port' = port /\ op'.qh \in CtrlQh)
  <2>1. CASE end.op = NoOp
    <3>1. PollPort(x, end.u, port) BY <1>3, <2>1
    <3>. QED BY <3>1, <1>5, TurnType
  <2>2. CASE end.op # NoOp BY <1>3, <1>5, <2>2
  <2>. QED BY <2>1, <2>2
<1>7. PollOK' BY <1>1, <1>2, <1>6 DEF PollOK, Idle, OnX
<1>. QED BY <1>1, <1>2, <1>6, <1>7 DEF RingInv, OnX, hostVars

(* Any request a PC makes is one of the known.                             *)
LEMMA AskedIsKnown == ASSUME pc \in Pcs, NEW r \in pc.asks PROVE r \in AllRequests
  BY PcsAssumption

(* The steps of controller and PC on Mariko, and the PC's state after.     *)
LEMMA LineOnX ==
    ASSUME Line, OnX, pc \in Pcs, host \in HostType
    PROVE  XLine /\ host' \in HostType /\ UNCHANGED <<u, op, pc>>
<1>0. /\ \A b \in BOOLEAN : Fresh(b) \in HostType
      /\ \A r \in AllRequests : Begun(r) \in HostType
      /\ Dropped(host) \in HostType /\ Advanced(host) \in HostType
  BY HostStates
<1>1. CASE Answers
  <2>1. (XStage \/ XStale \/ XStalls) /\ UNCHANGED usb2Vars BY <1>1 DEF Answers
  <2>2. host' \in HostType /\ pc' = pc
    BY <1>0, <2>1 DEF XStage, XStale, XStalls, Stalled, hostVars
  <2>. QED BY <2>1, <2>2 DEF XLine, usb2Vars
<1>2. CASE Plugs
  <2>1. XPlug /\ UNCHANGED usb2Vars BY <1>2 DEF Plugs
  <2>2. host' \in HostType /\ pc' = pc BY <1>0, <2>1 DEF XPlug, XPortChanged
  <2>. QED BY <2>1, <2>2 DEF XLine, usb2Vars
<1>3. CASE Waits
  <2>1. host' = Dropped(host) /\ UNCHANGED <<pc, xusbVars, usb2Vars>> BY <1>3 DEF Waits, TimedOut
  <2>. QED BY <1>0, <2>1 DEF XLine, usb2Vars
<1>4. CASE Upsets
  <2>1. \/ GiveUp /\ UNCHANGED <<pc, xusbVars, usb2Vars>>
        \/ (XUnplug \/ XBusReset \/ XBabble) /\ UNCHANGED usb2Vars
    BY <1>4 DEF Upsets
  <2>2. CASE GiveUp /\ UNCHANGED <<pc, xusbVars, usb2Vars>>
    <3>1. host' = Dropped(host) BY <2>2 DEF GiveUp
    <3>. QED BY <1>0, <2>2, <3>1 DEF XLine, usb2Vars
  <2>3. CASE (XUnplug \/ XBusReset \/ XBabble) /\ UNCHANGED usb2Vars
    <3>1. host' \in HostType /\ pc' = pc
      BY <1>0, <2>3 DEF XUnplug, XPortChanged, XBusReset, XBabble
    <3>. QED BY <2>3, <3>1 DEF XLine, usb2Vars
  <2>. QED BY <2>1, <2>2, <2>3
<1>5. ASSUME NEW e \in BulkEp, Moves(e)
      PROVE  XLine /\ host' \in HostType /\ UNCHANGED <<u, op, pc>>
  <2>1. XBulk(e) /\ UNCHANGED usb2Vars BY <1>5 DEF Moves
  <2>2. host' \in HostType /\ pc' = pc BY <2>1 DEF XBulk, hostVars
  <2>. QED BY <2>1, <2>2 DEF XLine, usb2Vars
<1>6. ASSUME NEW r \in pc.asks, Asks(r)
      PROVE  XLine /\ host' \in HostType /\ UNCHANGED <<u, op, pc>>
  <2>1. XBegin(r) /\ UNCHANGED usb2Vars BY <1>6 DEF Asks
  <2>2. r \in AllRequests BY AskedIsKnown
  <2>3. host' \in HostType /\ pc' = pc BY <1>0, <2>1, <2>2 DEF XBegin
  <2>. QED BY <2>1, <2>2, <2>3 DEF XLine, usb2Vars
<1>. QED BY <1>1, <1>2, <1>3, <1>4, <1>5, <1>6 DEF Line

(* The half of a transfer that moved.                                      *)
LEMMA MovedType ==
    ASSUME u \in UType, NEW q
    PROVE  /\ [u EXCEPT !.active[q] = FALSE] \in UType
           /\ [u EXCEPT !.active[q] = FALSE, !.error[q] = TRUE] \in UType
<1>. DEFINE a == [u.active EXCEPT ![q] = FALSE]
            c == [u.error EXCEPT ![q] = TRUE]
<1>1. a \in [Qh -> BOOLEAN] /\ c \in [Qh -> BOOLEAN] BY U2Fields
<1>. HIDE DEF a, c
<1>2. [u EXCEPT !.active = a] \in UType /\ [u EXCEPT !.active = a, !.error = c] \in UType
  BY <1>1 DEF UType
<1>. QED BY <1>2 DEF a, c

(* The steps of controller and PC on Erista.                               *)
LEMMA LineOnU ==
    ASSUME Line, ~OnX, pc \in Pcs, host \in HostType, u \in UType
    PROVE  host' \in HostType /\ u' \in UType /\ UNCHANGED <<op, pc>>
<1>0. /\ \A b \in BOOLEAN : Fresh(b) \in HostType
      /\ \A r \in AllRequests : Begun(r) \in HostType
      /\ Dropped(host) \in HostType /\ Advanced(host) \in HostType
  BY HostStates
<1>1. CASE Answers
  <2>1. UStage \/ UStalls BY <1>1 DEF Answers
  <2>2. CASE UStage BY <1>0, <2>2, MovedType DEF UStage
  <2>3. CASE UStalls BY <1>0, <2>3 DEF UStalls, Stalled, usb2Vars
  <2>. QED BY <2>1, <2>2, <2>3
<1>r. ASSUME UReset PROVE host' \in HostType /\ u' \in UType /\ UNCHANGED <<op, pc>>
  <2>1. [u EXCEPT !.uri = TRUE] \in UType BY DEF UType
  <2>. QED BY <1>0, <1>r, <2>1 DEF UReset
<1>2. CASE Plugs BY <1>2, <1>r DEF Plugs, UPlug
<1>3. CASE Waits
  <2>1. host' = Dropped(host) /\ UNCHANGED <<pc, usb2Vars>> BY <1>3 DEF Waits, TimedOut
  <2>. QED BY <1>0, <2>1 DEF usb2Vars
<1>4. CASE Upsets
  <2>1. \/ GiveUp /\ UNCHANGED <<pc, usb2Vars>>
        \/ UUnplug \/ UBusReset \/ \E q \in {"out", "in"} : UBulkError(q)
    BY <1>4 DEF Upsets
  <2>2. CASE GiveUp /\ UNCHANGED <<pc, usb2Vars>>
    BY <1>0, <2>2 DEF GiveUp, usb2Vars
  <2>3. CASE UUnplug BY <1>0, <2>3 DEF UUnplug, usb2Vars
  <2>4. CASE UBusReset BY <2>4, <1>r DEF UBusReset
  <2>5. CASE \E q \in {"out", "in"} : UBulkError(q) BY <2>5, MovedType DEF UBulkError
  <2>. QED BY <2>1, <2>2, <2>3, <2>4, <2>5
<1>5. ASSUME NEW e \in BulkEp, Moves(e)
      PROVE  host' \in HostType /\ u' \in UType /\ UNCHANGED <<op, pc>>
  <2>1. UBulk(e) BY <1>5 DEF Moves
  <2>. QED BY <2>1, MovedType DEF UBulk, hostVars
<1>6. ASSUME NEW r \in pc.asks, Asks(r)
      PROVE  host' \in HostType /\ u' \in UType /\ UNCHANGED <<op, pc>>
  <2>1. UBegin(r) BY <1>6 DEF Asks
  <2>2. r \in AllRequests BY AskedIsKnown
  <2>. DEFINE a == [q \in Qh |-> q \notin CtrlQh /\ u.active[q]]
              s == u.stall \ CtrlQh
  <2>3. a \in [Qh -> BOOLEAN] /\ s \in SUBSET Qh BY U2Fields
  <2>4. u' = [u EXCEPT !.mail = r, !.setupstat = TRUE, !.stall = s, !.active = a]
    BY <2>1 DEF UBegin
  <2>. HIDE DEF a, s
  <2>5. u' \in UType BY <2>2, <2>3, <2>4 DEF UType
  <2>. QED BY <1>0, <2>1, <2>2, <2>5 DEF UBegin
<1>. QED BY <1>1, <1>2, <1>3, <1>4, <1>5, <1>6 DEF Line

(* Every step keeps the two ends of every ring in agreement.               *)
LEMMA StepRing == RingInv /\ IInv /\ [Next]_vars => RingInv'
<1>. SUFFICES ASSUME RingInv, IInv, [Next]_vars PROVE RingInv'
  OBVIOUS
<1>1. ASSUME NEW ok \in BOOLEAN, Start(ok) PROVE RingInv' BY <1>1, UpRing DEF Start
<1>2. CASE PollLost BY <1>2, UpRing DEF PollLost
<1>3. CASE Stop BY <1>3, StopRing
<1>4. CASE PollX BY <1>4, PollXRing
<1>5. CASE Event BY <1>5, EventRingInv
<1>6. CASE Poll2 BY <1>6, Poll2Ring
<1>7. CASE Op2 BY <1>7, Op2Ring
<1>8. CASE Send
  <2>1. UNCHANGED <<hostVars, xusbVars, usb2Vars, soc, poll>> /\ port.state \notin Off
        /\ poll = Idle
    BY <1>8 DEF Send, Off
  <2>2. PollOK' BY <2>1 DEF PollOK, Idle
  <2>3. OnX => BothEnds' BY <2>1, QuietEnds DEF RingInv, hostVars, xusbVars
  <2>. QED BY <2>1, <2>2, <2>3 DEF RingInv, OnX, hostVars, xusbVars, usb2Vars
<1>9. CASE Line
  <2>1. port.state \notin Off /\ UNCHANGED <<soc, port, power, poll>> BY <1>9 DEF Line
  <2>2. pc \in Pcs /\ host \in HostType /\ u \in UType BY DEF RingInv
  <2>3. CASE OnX
    <3>1. XLine /\ host' \in HostType /\ UNCHANGED <<u, op, pc>> BY <1>9, <2>2, <2>3, LineOnX
    <3>2. BothEnds' BY <2>1, <2>2, <2>3, <3>1, LineEnds DEF RingInv
    <3>3. PollOK' BY <2>1, <3>1 DEF RingInv, PollOK, OnX
    <3>. QED BY <2>2, <3>1, <3>2, <3>3 DEF RingInv
  <2>4. CASE ~OnX
    <3>1. host' \in HostType /\ u' \in UType /\ UNCHANGED <<op, pc>> BY <1>9, <2>2, <2>4, LineOnU
    <3>2. PollOK' BY <2>1, <3>1 DEF RingInv, PollOK, OnX
    <3>. QED BY <2>1, <2>2, <2>4, <3>1, <3>2 DEF RingInv, OnX
  <2>. QED BY <2>3, <2>4
<1>10. CASE UNCHANGED vars
  <2>1. UNCHANGED <<hostVars, xusbVars, usb2Vars, soc, port, poll>> BY <1>10 DEF vars
  <2>2. PollOK' BY <2>1 DEF RingInv, PollOK, OnX, usb2Vars
  <2>3. OnX /\ port.state \notin Off => BothEnds'
    BY <2>1, QuietEnds DEF RingInv, hostVars, xusbVars
  <2>. QED BY <2>1, <2>2, <2>3 DEF RingInv, OnX, hostVars, xusbVars, usb2Vars
<1>. QED BY <1>1, <1>2, <1>3, <1>4, <1>5, <1>6, <1>7, <1>8, <1>9, <1>10
         DEF Next, Bpmp, Console

(* Rings that agree count the same.                                        *)
LEMMA InvEnds == RingInv => EndsAgree
<1>. SUFFICES ASSUME BothEnds
              PROVE  /\ \A e \in Ep : (e = "ctrl" \/ x.run) =>
                          /\ x.ring[e].pending = NotRun(x.ring[e]) + CompletionsOf(e)
                          /\ Runnable(x.ring[e]) <=> NotRun(x.ring[e]) > 0
                     /\ \A e \in BulkEp : x.run => x.ring[e].pending <= 1
  BY DEF RingInv, EndsAgree
<1>1. DrvOK(x, ev) BY DEF BothEnds
<1>2. ASSUME NEW e \in Ep, e = "ctrl" \/ x.run
      PROVE  /\ x.ring[e].pending = NotRun(x.ring[e]) + CompletionsOf(e)
             /\ Runnable(x.ring[e]) <=> NotRun(x.ring[e]) > 0
             /\ x.ring[e].pending <= 1
  <2>. DEFINE r == x.ring[e]
              w == XfersIn(ev, e)
  <2>1. RingOK(r, SizeOf(e)) /\ Counts(r, w) BY <1>1, <1>2 DEF DrvOK
  <2>2. SizeOf(e) \in Nat \ {0} BY SizesOK
  <2>3. CompletionsOf(e) = Cardinality(w)
    BY DEF CompletionsOf, XfersIn, EventsWaiting, WaitingIn
  <2>. HIDE DEF w
  <2>4. (Clear(r) => NotRun(r) = 0) /\ (Holds(r) => NotRun(r) = 1) BY NotRunIs
  <2>5. (Runnable(r) <=> Holds(r)) /\ ~(Clear(r) /\ Holds(r)) BY <2>1, <2>2, RunnableIff
  <2>. HIDE DEF r
  <2>6. CASE Clear(r) /\ w = {} /\ r.pending = 0
    BY <2>3, <2>4, <2>5, <2>6, FS_EmptySet DEF r
  <2>7. CASE Holds(r) /\ w = {} /\ r.pending = 1
    BY <2>3, <2>4, <2>5, <2>7, FS_EmptySet DEF r
  <2>8. CASE Clear(r) /\ (\E i \in 0 .. EventSlots - 1 : w = {i}) /\ r.pending = 1
    <3>1. Cardinality(w) = 1 BY <2>8, FS_Singleton
    <3>. QED BY <2>3, <2>4, <2>5, <2>8, <3>1 DEF r
  <2>. QED BY <2>1, <2>6, <2>7, <2>8 DEF Counts
<1>. QED BY <1>2 DEF Ep, BulkEp

(* What the driver counts as pending on a ring is what the controller has  *)
(* not run plus the completions that wait, whatever the sizes of the       *)
(* rings, the PC and the interleaving: no buffer is handed out twice and   *)
(* no transfer is waited for that never comes (usbser_xusb.c).             *)
THEOREM RingsAgree == Spec => []EndsAgree
<1>1. Init => IInv /\ RingInv BY InitInv, InitRing
<1>2. (IInv /\ RingInv) /\ [Next]_vars => (IInv /\ RingInv)' BY StepInv, StepRing
<1>3. Spec => [](IInv /\ RingInv) BY <1>1, <1>2, PTL DEF Spec
<1>. QED BY <1>3, InvEnds, PTL

-----------------------------------------------------------------------------
(* Chunks.                                                                 *)

\* What a step that sends, or drops, the last chunk must find.
Taking == ~InBusy \/ (op # NoOp /\ u.setup = "conf1")
Clears == port.tx > 0 /\ port'.tx = 0 /\ port'.state = "OPEN"

(* The port's turn empties the queue of an open port only when the driver  *)
(* is configured and the last chunk through.                               *)
LEMMA TurnSends ==
    ASSUME NEW X, NEW U, NEW p \in [state : States, dtr : BOOLEAN, tx : Nat],
           PollPort(X, U, p), p.tx > 0, port'.tx = 0, port'.state = "OPEN"
    PROVE  Configured(X, U) /\ TxIdle(X, U)
<1>1. CASE ~Configured(X, U)
  <2>1. port' = [p EXCEPT !.state = "WAITING"] BY <1>1 DEF PollPort
  <2>2. port'.state = "WAITING" BY <2>1
  <2>. QED BY <2>2
<1>2. CASE Configured(X, U)
  <2>. DEFINE t == IF ~p.dtr \/ Sends(X, U, p) THEN 0 ELSE p.tx
              s == IF p.dtr THEN "OPEN" ELSE "CONNECTED"
  <2>1. port' = [p EXCEPT !.state = s, !.tx = t] BY <1>2 DEF PollPort
  <2>2. s = "OPEN" => p.dtr OBVIOUS
  <2>3. t = 0 => ~p.dtr \/ Sends(X, U, p) OBVIOUS
  <2>. HIDE DEF s, t
  <2>4. port'.state = s /\ port'.tx = t BY <2>1
  <2>5. Sends(X, U, p) BY <2>2, <2>3, <2>4
  <2>. QED BY <1>2, <2>5 DEF Sends
<1>. QED BY <1>1, <1>2

(* A driver that is configured and counts nothing pending has a clear ring. *)
LEMMA IdleIsClear ==
    ASSUME NEW X, NEW q, DrvOK(X, q), X.state = "configured", X.ring["in"].pending = 0
    PROVE  ~Runnable(X.ring["in"])
<1>1. "in" \in Ep BY DEF Ep
<1>2. RingOK(X.ring["in"], SizeOf("in")) /\ Counts(X.ring["in"], XfersIn(q, "in"))
  BY <1>1 DEF DrvOK
<1>3. Clear(X.ring["in"]) BY <1>2, CountsTell
<1>. QED BY <1>1, <1>2, <1>3, SizesOK, RunnableIff

(* A completion leaves what can be run.                                    *)
LEMMA CompletedRuns == ASSUME NEW r, NEW n \in Nat \ {0}, RingOK(r, n)
                       PROVE  Runnable(Completed(r)) <=> Runnable(r)
  BY CompletedKeeps, RunnableIff

(* A poll of the XUSB driver that sends found the ring clear.              *)
LEMMA SendsX ==
    ASSUME OnX, BothEnds, NEW X, NEW q, DrvOK(X, q), NEW U,
           X.state = "configured" => InRingKept(X, x),
           Configured(X, U), TxIdle(X, U)
    PROVE  ~InBusy
<1>1. X.state = "configured" /\ X.ring["in"].pending = 0
  BY DEF Configured, TxIdle, XTxIdle
<1>2. ~Runnable(X.ring["in"]) BY <1>1, IdleIsClear
<1>3. RingOK(x.ring["in"], SizeOf("in")) /\ SizeOf("in") \in Nat \ {0}
  BY SizesOK DEF BothEnds, DrvOK, Ep
<1>4. Runnable(X.ring["in"]) <=> Runnable(x.ring["in"])
  BY <1>1, <1>3, CompletedRuns DEF InRingKept
<1>. QED BY <1>2, <1>4 DEF InBusy

(* No step of an open port takes the last chunk's place while the PC may   *)
(* still be at it.                                                         *)
LEMMA StepTakes ==
    ASSUME RingInv, IInv, [Next]_vars, Clears
    PROVE  Taking
<1>0. port \in [state : States, dtr : BOOLEAN, tx : Nat] /\ u \in UType
  BY DEF IInv, RingInv
<1>1. ASSUME NEW ok \in BOOLEAN, BroughtUp(ok) PROVE FALSE
  <2>1. port' = Port("WAITING") \/ port' = Port("FAILED") BY <1>1 DEF BroughtUp
  <2>2. port'.state # "OPEN" BY <2>1 DEF Port
  <2>. QED BY <2>2 DEF Clears
<1>2. CASE Stop
  <2>1. port' = [port EXCEPT !.state = "OFF"] BY <1>2 DEF Stop
  <2>2. port'.state # "OPEN" BY <1>0, <2>1
  <2>. QED BY <2>2 DEF Clears
<1>3. CASE PollX
  <2>1. OnX /\ port.state \notin Off BY <1>3 DEF PollX
  <2>2. BothEnds /\ DrvOK(x, ev) BY <2>1 DEF RingInv, BothEnds
  <2>3. PollPort(x, u, port) \/ port' = port BY <1>3 DEF PollX
  <2>4. port' # port BY <1>0 DEF Clears
  <2>5. Configured(x, u) /\ TxIdle(x, u) BY <1>0, <2>3, <2>4, TurnSends DEF Clears
  <2>6. InRingKept(x, x) BY DEF InRingKept
  <2>7. ~InBusy BY <2>1, <2>2, <2>5, <2>6, SendsX
  <2>. QED BY <2>7 DEF Taking
<1>4. CASE Event
  <2>. DEFINE e == NextEvent.what
              X == HandleEvent(x, e)
              p == IF e.t = "setup" THEN [port EXCEPT !.dtr = DtrOf(e.req, @)] ELSE port
  <2>1. poll.at = "events" BY <1>4 DEF Event
  <2>2. OnX /\ BothEnds BY <2>1 DEF RingInv, PollOK
  <2>3. DrvOK(x, ev) /\ EvOK(ev) /\ Ordered(ev) /\ (x.seq => SetupsIn(ev) = {})
    BY <2>2 DEF BothEnds
  <2>4. p \in [state : States, dtr : BOOLEAN, tx : Nat] /\ p.tx = port.tx
    BY <1>0 DEF DtrOf
  <2>5. CASE ~IsNew
    <3>1. PollPort(x, u, port) BY <1>4, <2>5 DEF Event
    <3>2. Configured(x, u) /\ TxIdle(x, u) BY <1>0, <3>1, TurnSends DEF Clears
    <3>3. InRingKept(x, x) BY DEF InRingKept
    <3>4. ~InBusy BY <2>2, <2>3, <3>2, <3>3, SendsX
    <3>. QED BY <3>4 DEF Taking
  <2>6. CASE IsNew
    <3>1. PollPort(X, u, p) \/ port' = p BY <1>4, <2>6 DEF Event
    <3>2. DrvOK(X, Consumed(ev)) /\ (X.state = "configured" => InRingKept(X, x))
      BY <2>3, <2>6, HandledSafe
    <3>. HIDE DEF X, p
    <3>3. port' # p BY <2>4 DEF Clears
    <3>4. Configured(X, u) /\ TxIdle(X, u) BY <2>4, <3>1, <3>3, TurnSends DEF Clears
    <3>5. ~InBusy BY <2>2, <3>2, <3>4, SendsX
    <3>. QED BY <3>5 DEF Taking
  <2>. QED BY <2>5, <2>6
<1>5. ASSUME ~OnX, NEW U, NEW p \in [state : States, dtr : BOOLEAN, tx : Nat], p.tx = port.tx,
             PollPort(x, U, p)
      PROVE  U.configured /\ EpStatus(U, "in") # "active"
  <2>1. Configured(x, U) /\ TxIdle(x, U) BY <1>5, TurnSends DEF Clears
  <2>. QED BY <1>5, <2>1 DEF Configured, TxIdle, UTxIdle
<1>6. CASE Poll2
  <2>. DEFINE U == BusResetHandled(u)
              p == IF U.setupstat THEN [port EXCEPT !.dtr = DtrOf(U.mail, @)] ELSE port
  <2>1. ~OnX BY <1>6 DEF Poll2
  <2>2. U \in UType /\ (U = u \/ ~U.configured) BY <1>0, ResetType
  <2>3. p \in [state : States, dtr : BOOLEAN, tx : Nat] /\ p.tx = port.tx
    BY <1>0 DEF DtrOf
  <2>4. (FirstOp(U) = NoOp /\ PollPort(x, Taken(U), p)) \/ port' = p BY <1>6 DEF Poll2
  <2>. HIDE DEF U, p
  <2>5. port' # p BY <2>3 DEF Clears
  <2>6. FirstOp(U) = NoOp /\ PollPort(x, Taken(U), p) BY <2>4, <2>5
  <2>7. EpStatus(Taken(U), "in") = EpStatus(U, "in") /\ Taken(U).configured = U.configured
    BY <2>2, <2>6, TakenType
  <2>8. Taken(U).configured /\ EpStatus(Taken(U), "in") # "active"
    BY <1>5, <2>1, <2>3, <2>6
  <2>9. EpStatus(u, "in") # "active" BY <2>2, <2>7, <2>8
  <2>. QED BY <2>1, <2>9 DEF Taking, InBusy
<1>7. CASE Op2
  <2>1. poll.at = "op" BY <1>7 DEF Op2
  <2>2. ~OnX /\ OpQh BY <2>1 DEF RingInv, PollOK, OpQh
  <2>3. PICK end \in {OpDone, OpTimesOut} :
          IF end.op = NoOp THEN PollPort(x, end.u, port) ELSE port' = port
    BY <1>7 DEF Op2
  <2>4. port' # port BY <1>0 DEF Clears
  <2>5. end.op = NoOp /\ PollPort(x, end.u, port) BY <2>3, <2>4
  <2>6. \/ EpStatus(end.u, "in") = EpStatus(u, "in")
        \/ ~end.u.configured
        \/ u.setup = "conf1"
    BY <1>0, <2>2, <2>5, StageEnds
  <2>7. end.u.configured /\ EpStatus(end.u, "in") # "active" BY <1>0, <1>5, <2>2, <2>5
  <2>8. op # NoOp BY <2>2 DEF OpQh, CtrlQh, NoOp
  <2>. QED BY <2>2, <2>6, <2>7, <2>8 DEF Taking, InBusy
<1>8. CASE Send
  <2>1. port'.tx = port.tx + 1 BY <1>0, <1>8 DEF Send
  <2>. QED BY <1>0, <2>1 DEF Clears
<1>9. CASE Line \/ UNCHANGED vars
  <2>1. port' = port BY <1>9 DEF Line, vars
  <2>. QED BY <1>0, <2>1 DEF Clears
<1>10. CASE PollLost BY <1>1, <1>10 DEF PollLost
<1>11. ASSUME NEW ok \in BOOLEAN, Start(ok) PROVE Taking BY <1>1, <1>11 DEF Start
<1>. QED BY <1>2, <1>3, <1>4, <1>6, <1>7, <1>8, <1>9, <1>10, <1>11
         DEF Next, Bpmp, Console

(* A chunk is never written over while the PC may still be taking it: on   *)
(* Mariko because pending is what is not run, on Erista because a control  *)
(* transfer, its time-out and a bus reset leave the IN half alone          *)
(* (usbser_poll, tx_idle of both drivers).                                 *)
THEOREM ChunksStayWhole == Spec => ChunksAreTaken
<1>1. Init => IInv /\ RingInv BY InitInv, InitRing
<1>2. (IInv /\ RingInv) /\ [Next]_vars => (IInv /\ RingInv)' BY StepInv, StepRing
<1>3. Spec => [](IInv /\ RingInv) BY <1>1, <1>2, PTL DEF Spec
<1>4. IInv /\ RingInv /\ [Next]_vars =>
        [port.tx > 0 /\ port'.tx = 0 /\ port'.state = "OPEN"
           => ~InBusy \/ (op # NoOp /\ u.setup = "conf1")]_vars
  BY StepTakes DEF Clears, Taking
<1>. QED BY <1>3, <1>4, PTL DEF Spec, ChunksAreTaken

-----------------------------------------------------------------------------
(* What a request of the PC may cost.                                      *)

\* On Mariko: the control ring, a stage of the PC's latest request on it, and
\* the stages that ended well.
Ctrl(X) == X.ring["ctrl"]
Live(X) == Holds(Ctrl(X)) /\ Running(Ctrl(X)).fresh
OksIn(q) == {i \in XfersIn(q, "ctrl") : q.slot[i].what.comp = "ok"}
DataStage(X) == IF X.out THEN "data_out" ELSE "data_in"
AfterData(X) == IF X.out THEN "status_in" ELSE "status_out"

\* The newest SETUP packet that waits is request r.
NewestIs(q, r) ==
    \A i \in SetupsIn(q) : (\A j \in SetupsIn(q) : ~Later(q.deq, i, j)) => q.slot[i].what.req = r

\* A driver that handled the PC's latest SETUP packet is where the PC is.
Follows(X, q, h) ==
    /\ Live(X) => /\ Running(Ctrl(X)).kind = h.stage
                  /\ IF h.stage = DataStage(X) THEN X.wait = "data"
                     ELSE X.wait = "status" /\ h.stage \in {"status_in", "status_out"}
    /\ OksIn(q) # {} /\ X.wait = "data" => h.stage = AfterData(X)
    /\ "ctrl" \in X.halted => h.req = "bad"

\* A stage never ends well once a SETUP packet came after it, and one that was
\* not handled yet is the PC's request.
Told(X, q, h) ==
    /\ \A i \in XfersIn(q, "ctrl") : q.slot[i].what.comp \in {"ok", "error"}
    /\ \A i \in SetupsIn(q), j \in OksIn(q) : ~Later(q.deq, i, j)
    /\ ~X.seq => SetupsIn(q) # {}
    /\ ~X.seq /\ h.req # NoReq => h.stage = FirstStage(h.req) /\ NewestIs(q, h.req)
    /\ X.seq /\ h.req # NoReq => Follows(X, q, h)

\* Nothing an upset left behind stands in the way of the PC's request: its
\* answer is on its way, or nothing is on the control ring that outlives what
\* comes before its SETUP packet.
Answered(X, q) ==
    IF "ctrl" \in X.halted THEN Clear(Ctrl(X)) /\ XfersIn(q, "ctrl") = {}
    ELSE Live(X) \/ (OksIn(q) # {} /\ X.wait = "data")
Ready(X, q, h) ==
    /\ h.req = NoReq => SetupsIn(q) = {}
    /\ \A i, j \in SetupsIn(q) : i = j
    /\ Clear(Ctrl(X))
    /\ X.wait = "data" => OksIn(q) = {}
    /\ \A i \in SetupsIn(q), j \in XfersIn(q, "ctrl") : Later(q.deq, j, i)
Clean(X, q, h) == IF X.seq /\ h.req # NoReq THEN Answered(X, q) ELSE Ready(X, q, h)

(* No event comes before the first, and a new one comes after all.         *)
LEMMA FirstAndLast ==
    ASSUME NEW q, EvOK(q), NEW i \in WaitingIn(q)
    PROVE  ~Later(q.deq, i, q.deq) /\ Later(q.deq, i, q.enq)
<1>1. q.enq \in Ends /\ q.deq \in Ends BY EventRingFields
<1>. QED BY <1>1 DEF Later, WaitingIn, Ends

\* As far as the control endpoint goes, two event rings tell the same.
SameTale(p, q) ==
    /\ SetupsIn(p) = SetupsIn(q) /\ XfersIn(p, "ctrl") = XfersIn(q, "ctrl")
    /\ \A i \in SetupsIn(q) \cup XfersIn(q, "ctrl") :
         /\ p.slot[i] = q.slot[i]
         /\ \A j \in SetupsIn(q) \cup XfersIn(q, "ctrl") : Later(p.deq, i, j) <=> Later(q.deq, i, j)

(* A posted event of another kind changes nothing of it.                   *)
LEMMA PostedTale ==
    ASSUME NEW q, EvOK(q), (q.enq + 1) % EventSlots # q.deq, NEW e \in Whats,
           e.t # "setup", ~(e.t = "xfer" /\ e.ep = "ctrl")
    PROVE  SameTale(Posted(q, e), q)
<1>1. /\ SetupsIn(Posted(q, e)) = SetupsIn(q)
      /\ XfersIn(Posted(q, e), "ctrl") = XfersIn(q, "ctrl")
  BY PostedKinds
<1>2. /\ Posted(q, e).deq = q.deq
      /\ \A i \in WaitingIn(q) : Posted(q, e).slot[i] = q.slot[i]
  BY PostedWaits
<1>3. SetupsIn(q) \cup XfersIn(q, "ctrl") \subseteq WaitingIn(q) BY DEF SetupsIn, XfersIn
<1>. QED BY <1>1, <1>2, <1>3 DEF SameTale

(* Consuming the first event leaves the others as they were.               *)
LEMMA ConsumedTale ==
    ASSUME NEW q, EvOK(q), q.deq # q.enq
    PROVE  LET p == Consumed(q) IN
           /\ SetupsIn(p) = SetupsIn(q) \ {q.deq}
           /\ XfersIn(p, "ctrl") = XfersIn(q, "ctrl") \ {q.deq}
           /\ \A i \in (SetupsIn(q) \cup XfersIn(q, "ctrl")) \ {q.deq} :
                /\ p.slot[i] = q.slot[i]
                /\ \A j \in (SetupsIn(q) \cup XfersIn(q, "ctrl")) \ {q.deq} :
                     Later(p.deq, i, j) <=> Later(q.deq, i, j)
<1>. DEFINE p == Consumed(q)
            M == (SetupsIn(q) \cup XfersIn(q, "ctrl")) \ {q.deq}
<1>1. SetupsIn(p) = SetupsIn(q) \ {q.deq} /\ XfersIn(p, "ctrl") = XfersIn(q, "ctrl") \ {q.deq}
  BY ConsumedKinds
<1>2. /\ p.deq = (q.deq + 1) % EventSlots /\ WaitingIn(p) = WaitingIn(q) \ {q.deq}
      /\ \A i \in WaitingIn(p) : p.slot[i] = q.slot[i]
  BY ConsumedLeaves
<1>. HIDE DEF p
<1>3. M \subseteq WaitingIn(q) \ {q.deq} BY DEF SetupsIn, XfersIn
<1>. HIDE DEF M
<1>4. ASSUME NEW i \in M PROVE p.slot[i] = q.slot[i] BY <1>2, <1>3
<1>5. ASSUME NEW i \in M, NEW j \in M PROVE Later(p.deq, i, j) <=> Later(q.deq, i, j)
  BY <1>2, <1>3, OrderStays
<1>. QED BY <1>1, <1>4, <1>5 DEF p, M

(* Oks of two rings that tell the same, and what is told of them.          *)
LEMMA SameStory ==
    ASSUME NEW X, NEW q, NEW h, NEW Y, NEW p, NEW g, SameTale(p, q),
           Y.seq = X.seq, Y.wait = X.wait, Y.out = X.out, Ctrl(Y) = Ctrl(X),
           "ctrl" \in Y.halted <=> "ctrl" \in X.halted,
           g.req = h.req, g.stage = h.stage
    PROVE  (Told(X, q, h) => Told(Y, p, g)) /\ (Clean(X, q, h) => Clean(Y, p, g))
<1>1. /\ SetupsIn(p) = SetupsIn(q) /\ XfersIn(p, "ctrl") = XfersIn(q, "ctrl")
      /\ \A i \in SetupsIn(q) \cup XfersIn(q, "ctrl") : p.slot[i] = q.slot[i]
  BY DEF SameTale
<1>2. OksIn(p) = OksIn(q) /\ OksIn(q) \subseteq XfersIn(q, "ctrl") BY <1>1 DEF OksIn
<1>3. Live(Y) <=> Live(X) BY DEF Live
<1>4. /\ \A i \in SetupsIn(q), j \in SetupsIn(q) : Later(p.deq, i, j) <=> Later(q.deq, i, j)
      /\ \A i \in SetupsIn(q), j \in XfersIn(q, "ctrl") :
            /\ Later(p.deq, i, j) <=> Later(q.deq, i, j)
            /\ Later(p.deq, j, i) <=> Later(q.deq, j, i)
  BY DEF SameTale
<1>5. \A r : NewestIs(q, r) => NewestIs(p, r) BY <1>1, <1>4 DEF NewestIs
<1>6. Follows(X, q, h) => Follows(Y, p, g) BY <1>2, <1>3 DEF Follows, DataStage, AfterData
<1>7. ASSUME Told(X, q, h) PROVE Told(Y, p, g)
  <2>1. \A i \in XfersIn(p, "ctrl") : p.slot[i].what.comp \in {"ok", "error"}
    BY <1>1, <1>7 DEF Told
  <2>2. \A i \in SetupsIn(p), j \in OksIn(p) : ~Later(p.deq, i, j)
    BY <1>1, <1>2, <1>4, <1>7 DEF Told
  <2>. QED BY <2>1, <2>2, <1>1, <1>5, <1>6, <1>7 DEF Told
<1>8. ASSUME Clean(X, q, h) PROVE Clean(Y, p, g)
  <2>1. Answered(X, q) => Answered(Y, p) BY <1>1, <1>2, <1>3 DEF Answered
  <2>2. Ready(X, q, h) => Ready(Y, p, g) BY <1>1, <1>2, <1>4 DEF Ready
  <2>. QED BY <2>1, <2>2, <1>8 DEF Clean
<1>. QED BY <1>7, <1>8

(* A request dropped leaves nothing to tell.                               *)
LEMMA DroppedStory ==
    ASSUME NEW X, NEW q, NEW h, NEW g, Told(X, q, h), g.req = NoReq
    PROVE  Told(X, q, g)
  BY DEF Told

(* The TRB queued on a clear ring is the next the controller looks at.     *)
LEMMA QueuedNext ==
    ASSUME NEW n \in Nat \ {0}, NEW r, RingOK(r, n), Clear(r), NEW k, NEW f
    PROVE  Running(QueueTrb(r, k, f)).kind = k /\ Running(QueueTrb(r, k, f)).fresh = f
<1>1. r \in RingType(n) BY DEF RingOK
<1>2. r.enq \in DOMAIN r.slot /\ r.hwdeq = r.enq BY <1>1 DEF RingType, Clear
<1>. DEFINE q == QueueTrb(r, k, f)
            t == [cycle |-> r.cycle, kind |-> k, fresh |-> f]
<1>3. q.slot = [r.slot EXCEPT ![r.enq] = t] /\ q.hwdeq = r.hwdeq
  BY <1>1 DEF QueueTrb, RingType
<1>4. q.slot[q.hwdeq] = t BY <1>2, <1>3
<1>. HIDE DEF q
<1>. QED BY <1>4 DEF Running, q

(* What is on the control ring of a driver that counts right.              *)
LEMMA CtrlFields ==
    ASSUME NEW X, NEW q, DrvOK(X, q)
    PROVE  /\ X \in XType /\ RingOK(Ctrl(X), CtrlSlots) /\ Counts(Ctrl(X), XfersIn(q, "ctrl"))
           /\ ~(Clear(Ctrl(X)) /\ Holds(Ctrl(X)))
           /\ Runnable(Ctrl(X)) <=> Holds(Ctrl(X))
           /\ Live(X) => X.seq
<1>1. X \in XType /\ RingOK(Ctrl(X), CtrlSlots) /\ Counts(Ctrl(X), XfersIn(q, "ctrl"))
  BY DEF DrvOK, Ep, SizeOf, Ctrl
<1>2. CtrlSlots \in Nat \ {0} OBVIOUS
<1>3. (Runnable(Ctrl(X)) <=> Holds(Ctrl(X))) /\ ~(Clear(Ctrl(X)) /\ Holds(Ctrl(X)))
  BY <1>1, <1>2, RunnableIff
<1>4. ASSUME Live(X) PROVE X.seq
  <2>1. Ctrl(X) \in RingType(CtrlSlots) /\ Holds(Ctrl(X)) BY <1>1, <1>4 DEF RingOK, Live
  <2>2. Ctrl(X).hwdeq \in 0 .. CtrlSlots - 1 BY <2>1, SlotsOfRing DEF Holds
  <2>. QED BY <2>2, <1>4 DEF DrvOK, Live, Running, Ctrl
<1>. QED BY <1>1, <1>3, <1>4

(* A stage queued on an idle control ring is the one to run, and fresh if  *)
(* its SETUP packet was the newest.                                        *)
LEMMA StageLive ==
    ASSUME NEW X, NEW q, DrvOK(X, q), CtrlIdle(X), NEW k \in Kinds \ {"none"},
           NEW w \in {"none", "data", "status"}
    PROVE  LET Y == [Queue(X, "ctrl", k) EXCEPT !.wait = w] IN
           /\ Holds(Ctrl(Y)) /\ Running(Ctrl(Y)).kind = k /\ Running(Ctrl(Y)).fresh = X.seq
           /\ Y.wait = w /\ Y.out = X.out /\ Y.halted = X.halted /\ Y.seq = X.seq
<1>. DEFINE r == Ctrl(X)
            t == QueueTrb(r, k, X.seq)
            Y == [Queue(X, "ctrl", k) EXCEPT !.wait = w]
<1>1. X \in XType /\ RingOK(r, CtrlSlots) BY CtrlFields
<1>2. X.ring \in [Ep -> Rings] /\ X.seq \in BOOLEAN BY <1>1, DriverFields
<1>3. Clear(r)
  <2>1. r.pending = 0 BY IdleIff DEF Ctrl
  <2>. QED BY <2>1, CtrlFields, CountsTell
<1>4. CtrlSlots \in Nat \ {0} OBVIOUS
<1>5. Holds(t) BY <1>1, <1>2, <1>3, <1>4, QueuedHolds
<1>6. Running(t).kind = k /\ Running(t).fresh = X.seq BY <1>1, <1>3, <1>4, QueuedNext
<1>7. Y = [X EXCEPT !.ring = [X.ring EXCEPT !["ctrl"] = t], !.wait = w] BY DEF Queue, Ctrl
<1>. HIDE DEF t
<1>8. /\ Y.ring = [X.ring EXCEPT !["ctrl"] = t]
      /\ Y.wait = w /\ Y.out = X.out /\ Y.halted = X.halted /\ Y.seq = X.seq
  BY <1>1, <1>7 DEF XType
<1>9. Ctrl(Y) = t BY <1>2, <1>8 DEF Ctrl, Ep
<1>. HIDE DEF Y
<1>. QED BY <1>5, <1>6, <1>8, <1>9 DEF Y

\* What of the driver a request's story rests on.
SameCtrl(Y, X) == /\ Ctrl(Y) = Ctrl(X) /\ Y.seq = X.seq /\ Y.wait = X.wait /\ Y.out = X.out
                  /\ "ctrl" \in Y.halted <=> "ctrl" \in X.halted

\* Y is X with stage k queued and w waited for, or X if the ring was not idle.
Staged(Y, X, k, w) ==
    /\ Y.seq = X.seq /\ Y.out = X.out /\ ("ctrl" \in Y.halted <=> "ctrl" \in X.halted)
    /\ IF CtrlIdle(X)
       THEN /\ Holds(Ctrl(Y)) /\ Running(Ctrl(Y)).kind = k /\ Running(Ctrl(Y)).fresh = X.seq
            /\ Y.wait = w
       ELSE Ctrl(Y) = Ctrl(X) /\ Y.wait = X.wait

(* A status stage is staged.                                               *)
LEMMA StatusStaged ==
    ASSUME NEW X, NEW q, DrvOK(X, q), NEW k \in {"status_in", "status_out"},
           k = "status_out" => CtrlIdle(X)
    PROVE  Staged(CtrlStatus(X, k), X, k, "status")
<1>0. k \in Kinds \ {"none"} BY DEF Kinds
<1>1. CASE CtrlIdle(X)
  <2>. DEFINE Y == [Queue(X, "ctrl", k) EXCEPT !.wait = "status"]
  <2>1. CtrlStatus(X, k) = Y BY <1>1 DEF CtrlStatus
  <2>2. /\ Holds(Ctrl(Y)) /\ Running(Ctrl(Y)).kind = k /\ Running(Ctrl(Y)).fresh = X.seq
        /\ Y.wait = "status" /\ Y.out = X.out /\ Y.halted = X.halted /\ Y.seq = X.seq
    BY <1>0, <1>1, StageLive
  <2>. HIDE DEF Y
  <2>. QED BY <1>1, <2>1, <2>2 DEF Staged
<1>2. CASE ~CtrlIdle(X)
  <2>1. CtrlStatus(X, k) = X BY <1>2 DEF CtrlStatus
  <2>. QED BY <1>2, <2>1 DEF Staged
<1>. QED BY <1>1, <1>2

(* So is the data stage.                                                   *)
LEMMA DataStaged ==
    ASSUME NEW X, NEW q, DrvOK(X, q), NEW k \in {"data_in", "data_out"}
    PROVE  Staged(CtrlData(X, k), X, k, "data")
<1>0. k \in Kinds \ {"none"} BY DEF Kinds
<1>1. CASE CtrlIdle(X)
  <2>. DEFINE Y == [Queue(X, "ctrl", k) EXCEPT !.wait = "data"]
  <2>1. CtrlData(X, k) = Y BY <1>1 DEF CtrlData
  <2>2. /\ Holds(Ctrl(Y)) /\ Running(Ctrl(Y)).kind = k /\ Running(Ctrl(Y)).fresh = X.seq
        /\ Y.wait = "data" /\ Y.out = X.out /\ Y.halted = X.halted /\ Y.seq = X.seq
    BY <1>0, <1>1, StageLive
  <2>. HIDE DEF Y
  <2>. QED BY <1>1, <2>1, <2>2 DEF Staged
<1>2. CASE ~CtrlIdle(X)
  <2>1. CtrlData(X, k) = X BY <1>2 DEF CtrlData
  <2>. QED BY <1>2, <2>1 DEF Staged
<1>. QED BY <1>1, <1>2

(* An endpoint halted, or not any more, touches neither ring nor request.  *)
LEMMA HaltSame ==
    ASSUME NEW X \in XType, NEW e \in Ep, NEW on \in BOOLEAN
    PROVE  LET Y == SetEpStall(X, e, on) IN
           /\ Ctrl(Y) = Ctrl(X) /\ Y.seq = X.seq /\ Y.wait = X.wait /\ Y.out = X.out
           /\ Y.halted = IF on THEN X.halted \cup {e} ELSE X.halted \ {e}
           /\ CtrlIdle(Y) <=> CtrlIdle(X)
  BY DEF SetEpStall, XType, Ctrl, CtrlIdle

(* A configuration keeps the control ring, but for its status stage.       *)
LEMMA ConfigStaged ==
    ASSUME NEW X, NEW q, DrvOK(X, q), NEW on \in BOOLEAN,
           on => \A e \in BulkEp : XfersIn(q, e) = {}
    PROVE  Staged(SetConfiguration(X, on), X, "status_in", "status")
<1>0. X \in XType /\ X.ring \in [Ep -> Rings] BY DriverFields DEF DrvOK
<1>1. CASE ~on
  <2>. DEFINE Z == DisableEps(X)
  <2>1. SetConfiguration(X, on) = CtrlStatus(Z, "status_in") BY <1>1 DEF SetConfiguration
  <2>2. DrvOK(Z, q) /\ Z.ring = X.ring /\ Z.seq = X.seq BY OffSafe
  <2>3. Z.wait = X.wait /\ Z.out = X.out /\ Z.halted = X.halted BY <1>0 DEF DisableEps, XType
  <2>. HIDE DEF Z
  <2>4. Staged(CtrlStatus(Z, "status_in"), Z, "status_in", "status") BY <2>2, StatusStaged
  <2>. QED BY <2>1, <2>2, <2>3, <2>4 DEF Staged, CtrlIdle, Ctrl
<1>2. CASE on
  <2>. DEFINE R == [e \in Ep |-> IF e \in BulkEp THEN BulkRing ELSE X.ring[e]]
              Z == [X EXCEPT !.ring = [e \in Ep |-> IF e \in BulkEp THEN BulkRing ELSE @[e]],
                             !.halted = @ \ BulkEp, !.rxq = FALSE, !.run = TRUE]
              W == CtrlStatus(Z, "status_in")
              Y == [W EXCEPT !.state = "configured_wait"]
  <2>1. SetConfiguration(X, on) = Y BY <1>2 DEF SetConfiguration
  <2>2. DrvOK(Z, q) BY <1>2, FreshSafe
  <2>3. Z = [X EXCEPT !.ring = R, !.halted = X.halted \ BulkEp, !.rxq = FALSE, !.run = TRUE]
    OBVIOUS
  <2>4. R["ctrl"] = X.ring["ctrl"] BY DEF Ep, BulkEp
  <2>. HIDE DEF R, Z
  <2>5. /\ Z.ring = R /\ Z.seq = X.seq /\ Z.wait = X.wait /\ Z.out = X.out
        /\ Z.halted = X.halted \ BulkEp
    BY <1>0, <2>3 DEF XType
  <2>6. Staged(W, Z, "status_in", "status") BY <2>2, StatusStaged
  <2>7. W \in XType BY <2>2, StatusSafe DEF DrvOK
  <2>. HIDE DEF W
  <2>8. Y.ring = W.ring /\ Y.seq = W.seq /\ Y.wait = W.wait /\ Y.out = W.out /\ Y.halted = W.halted
    BY <2>7 DEF XType
  <2>. HIDE DEF Y
  <2>9. "ctrl" \notin BulkEp BY DEF BulkEp
  <2>. QED BY <2>1, <2>4, <2>5, <2>6, <2>8, <2>9 DEF Staged, CtrlIdle, Ctrl
<1>. QED BY <1>1, <1>2

(* An address taken on is its status stage.                                *)
LEMMA AddressStaged ==
    ASSUME NEW X, NEW q, DrvOK(X, q)
    PROVE  Staged(SetAddress(X), X, "status_in", "status")
<1>. DEFINE W == CtrlStatus(X, "status_in")
            Y == [W EXCEPT !.state = "addressed_wait"]
<1>1. SetAddress(X) = Y BY DEF SetAddress
<1>2. W \in XType BY StatusSafe DEF DrvOK
<1>3. Staged(W, X, "status_in", "status") BY StatusStaged
<1>. HIDE DEF W
<1>4. Y.ring = W.ring /\ Y.seq = W.seq /\ Y.wait = W.wait /\ Y.out = W.out /\ Y.halted = W.halted
  BY <1>2 DEF XType
<1>. HIDE DEF Y
<1>. QED BY <1>1, <1>3, <1>4 DEF Staged, Ctrl

\* The stage a request begins with, and what the driver waits for then.
FirstWait(r) == IF r \in {"desc", "coding"} THEN "data" ELSE "status"

(* A SETUP packet: the newest one is out to be answered afresh, or halts   *)
(* the endpoint if it cannot be.                                           *)
LEMMA SetupStaged ==
    ASSUME NEW X0, DrvOK(X0, ev), EvOK(ev), Ordered(ev), ev.deq # ev.enq,
           ev.deq \in WaitingIn(ev), NEW r \in AllRequests, NextEvent.what.t = "setup",
           NextEvent.what.req = r, ~X0.seq
    PROVE  LET Y == CtrlSetup(X0, r)
               idle == CtrlIdle(X0) IN
           /\ Y.seq <=> SetupsIn(ev) = {ev.deq}
           /\ Y.out = (r = "coding")
           /\ "ctrl" \in Y.halted <=> r = "bad"
           /\ r # "bad" /\ idle => /\ Holds(Ctrl(Y)) /\ Running(Ctrl(Y)).kind = FirstStage(r)
                                   /\ Running(Ctrl(Y)).fresh = Y.seq /\ Y.wait = FirstWait(r)
           /\ r = "bad" \/ ~idle => Ctrl(Y) = Ctrl(X0) /\ Y.wait = X0.wait
<1>. DEFINE p == Consumed(ev)
            X == [X0 EXCEPT !.seq = (SetupsWaiting = {ev.deq}), !.out = (r = "coding"),
                            !.halted = @ \ {"ctrl"}]
            Y == CtrlSetup(X0, r)
<1>1. X0 \in XType /\ X0.halted \in SUBSET Ep BY DriverFields DEF DrvOK
<1>2. SetupsWaiting = SetupsIn(ev) /\ ev.deq \in SetupsIn(ev)
  BY DEF SetupsWaiting, SetupsIn, EventsWaiting, WaitingIn, NextEvent
<1>4. DrvOK(X0, p) BY OtherSafe DEF NextEvent
<1>. HIDE DEF p
<1>6. /\ X \in XType /\ X.ring = X0.ring /\ X.run = X0.run /\ X.rxq = X0.rxq
      /\ X.state = X0.state /\ (X.seq <=> SetupsIn(ev) = {ev.deq})
      /\ X.out = (r = "coding") /\ X.halted = X0.halted \ {"ctrl"} /\ X.wait = X0.wait
  BY <1>1, <1>2 DEF XType
<1>8. DrvOK(X, p)
  <2>. HIDE DEF X
  <2>1. X.run /\ ~X.rxq => X0.ring["out"].pending = 0 BY <1>4, <1>6 DEF DrvOK
  <2>2. X.state \in On => X.run BY <1>4, <1>6 DEF DrvOK, On
  <2>. QED BY <1>4, <1>6, <2>1, <2>2, Retouched
<1>9. Y = (CASE r = "addr"            -> SetAddress(X)
             [] r = "conf1"           -> SetConfiguration(X, TRUE)
             [] r = "conf0"           -> SetConfiguration(X, FALSE)
             [] r \in {"dtr1", "dtr0"} -> CtrlStatus(X, "status_in")
             [] r = "desc"            -> CtrlData(X, "data_in")
             [] r = "coding"          -> CtrlData(X, "data_out")
             [] r = "halt_in"   -> CtrlStatus(SetEpStall(X, "in", TRUE), "status_in")
             [] r = "clear_in"  -> CtrlStatus(SetEpStall(X, "in", FALSE), "status_in")
             [] r = "clear_out" -> CtrlStatus(SetEpStall(X, "out", FALSE), "status_in")
             [] OTHER                 -> SetEpStall(X, "ctrl", TRUE))
  BY DEF CtrlSetup
<1>. HIDE DEF X, Y
<1>10. (CtrlIdle(X) <=> CtrlIdle(X0)) /\ Ctrl(X) = Ctrl(X0) BY <1>6 DEF CtrlIdle, Ctrl
<1>11. ASSUME r # "bad" PROVE Staged(Y, X, FirstStage(r), FirstWait(r))
  <2>1. CASE r \in {"conf1", "conf0"}
    <3>. DEFINE on == r = "conf1"
    <3>1. Y = SetConfiguration(X, on) BY <1>9, <2>1
    <3>2. on => \A e \in BulkEp : XfersIn(p, e) = {}
      <4>. SUFFICES ASSUME on, NEW e \in BulkEp PROVE XfersIn(p, e) = {}
        OBVIOUS
      <4>1. ev.deq \in ConfsIn(ev) BY <1>2 DEF ConfsIn, NextEvent
      <4>2. XfersIn(ev, e) = {} BY <4>1, NoneBehindConf
      <4>. QED BY <4>2, ConsumedKinds DEF p
    <3>3. on \in BOOLEAN OBVIOUS
    <3>. HIDE DEF on
    <3>4. Staged(Y, X, "status_in", "status") BY <1>8, <3>1, <3>2, <3>3, ConfigStaged
    <3>. QED BY <2>1, <3>4 DEF FirstStage, FirstWait
  <2>2. CASE r = "addr"
    <3>1. Y = SetAddress(X) BY <1>9, <2>2
    <3>. QED BY <1>8, <2>2, <3>1, AddressStaged DEF FirstStage, FirstWait
  <2>3. CASE r \in {"dtr1", "dtr0"}
    <3>1. Y = CtrlStatus(X, "status_in") BY <1>9, <2>3
    <3>. QED BY <1>8, <2>3, <3>1, StatusStaged DEF FirstStage, FirstWait
  <2>4. CASE r = "desc"
    <3>1. Y = CtrlData(X, "data_in") BY <1>9, <2>4
    <3>. QED BY <1>8, <2>4, <3>1, DataStaged DEF FirstStage, FirstWait
  <2>5. CASE r = "coding"
    <3>1. Y = CtrlData(X, "data_out") BY <1>9, <2>5
    <3>. QED BY <1>8, <2>5, <3>1, DataStaged DEF FirstStage, FirstWait
  <2>6. ASSUME NEW e \in BulkEp, NEW b \in BOOLEAN, Y = CtrlStatus(SetEpStall(X, e, b), "status_in")
        PROVE  Staged(Y, X, "status_in", "status")
    <3>. DEFINE Z == SetEpStall(X, e, b)
    <3>1. e \in Ep /\ e # "ctrl" BY DEF Ep, BulkEp
    <3>2. DrvOK(Z, p) BY <1>8, <3>1, HaltSafe
    <3>6. X \in XType BY <1>6
    <3>7. /\ Ctrl(Z) = Ctrl(X) /\ Z.seq = X.seq /\ Z.wait = X.wait /\ Z.out = X.out
          /\ Z.halted = IF b THEN X.halted \cup {e} ELSE X.halted \ {e}
          /\ CtrlIdle(Z) <=> CtrlIdle(X)
      BY <3>1, <3>6, HaltSame
    <3>. HIDE DEF Z
    <3>3. "ctrl" \in Z.halted <=> "ctrl" \in X.halted BY <3>1, <3>7
    <3>4. Staged(CtrlStatus(Z, "status_in"), Z, "status_in", "status") BY <3>2, StatusStaged
    <3>5. Y = CtrlStatus(Z, "status_in") BY <2>6 DEF Z
    <3>. QED BY <3>3, <3>4, <3>5, <3>7 DEF Staged
  <2>7. CASE r \in {"halt_in", "clear_in", "clear_out"}
    <3>1. \E e \in BulkEp, b \in BOOLEAN : Y = CtrlStatus(SetEpStall(X, e, b), "status_in")
      BY <1>9, <2>7 DEF BulkEp
    <3>2. Staged(Y, X, "status_in", "status") BY <2>6, <3>1
    <3>. QED BY <2>7, <3>2 DEF FirstStage, FirstWait
  <2>. QED BY <1>11, <2>1, <2>2, <2>3, <2>4, <2>5, <2>7 DEF AllRequests
<1>12. CASE r # "bad"
  <2>1. Staged(Y, X, FirstStage(r), FirstWait(r)) BY <1>11, <1>12
  <2>2. "ctrl" \notin Y.halted BY <2>1, <1>6 DEF Staged
  <2>. QED BY <2>1, <2>2, <1>6, <1>10, <1>12 DEF Staged, Y
<1>13. CASE r = "bad"
  <2>1. Y = SetEpStall(X, "ctrl", TRUE) BY <1>9, <1>13
  <2>2. /\ Ctrl(Y) = Ctrl(X) /\ Y.seq = X.seq /\ Y.wait = X.wait /\ Y.out = X.out
        /\ Y.halted = X.halted \cup {"ctrl"}
    BY <1>6, <2>1, HaltSame DEF Ep
  <2>. QED BY <2>2, <1>6, <1>10, <1>13 DEF Y
<1>. QED BY <1>12, <1>13

\* What keeps a request's story: Y with the events of p tells PC h what X with
\* those of q told it.
Retold(Y, p, X, q, h) == Told(Y, p, h) /\ (Clean(X, q, h) => Clean(Y, p, h))

(* A consumed event that is neither a SETUP packet nor the control         *)
(* endpoint's changes nothing of what the others tell.                     *)
LEMMA ConsumedSame ==
    ASSUME NEW q, EvOK(q), q.deq # q.enq,
           q.deq \notin SetupsIn(q), q.deq \notin XfersIn(q, "ctrl")
    PROVE  SameTale(Consumed(q), q)
  BY ConsumedTale DEF SameTale

(* On a clear control ring no stage is live, and what a stage left there   *)
(* is told by its event alone.                                             *)
LEMMA ClearIsNotLive ==
    ASSUME NEW X, RingOK(Ctrl(X), CtrlSlots), Clear(Ctrl(X))
    PROVE  ~Live(X)
<1>1. CtrlSlots \in Nat \ {0} OBVIOUS
<1>. QED BY <1>1, RunnableIff DEF Live

(* The first event is the control endpoint's, and nothing but it is on its *)
(* way to the driver.                                                      *)
LEMMA EndedStage ==
    ASSUME NEW X, NEW q, DrvOK(X, q), EvOK(q), q.deq # q.enq, q.deq \in XfersIn(q, "ctrl")
    PROVE  /\ Clear(Ctrl(X)) /\ XfersIn(q, "ctrl") = {q.deq}
           /\ SetupsIn(Consumed(q)) = SetupsIn(q) /\ XfersIn(Consumed(q), "ctrl") = {}
           /\ OksIn(Consumed(q)) = {}
<1>1. XfersIn(q, "ctrl") # {} OBVIOUS
<1>2. Clear(Ctrl(X)) /\ \E i \in 0 .. EventSlots - 1 : XfersIn(q, "ctrl") = {i}
  BY <1>1, CtrlFields DEF Counts
<1>3. XfersIn(q, "ctrl") = {q.deq} BY <1>2
<1>4. q.deq \notin SetupsIn(q) BY DEF SetupsIn, XfersIn
<1>5. SetupsIn(Consumed(q)) = SetupsIn(q) /\ XfersIn(Consumed(q), "ctrl") = {}
  BY <1>3, <1>4, ConsumedTale
<1>6. OksIn(Consumed(q)) = {} BY <1>5 DEF OksIn
<1>. QED BY <1>2, <1>3, <1>5, <1>6

(* The SETUP packets that wait are in the order they were, and the newest  *)
(* is the newest still, once an event before them was consumed.            *)
LEMMA NewestStays ==
    ASSUME NEW q, EvOK(q), q.deq # q.enq, NEW r, NewestIs(q, r),
           \E i \in SetupsIn(q) : i # q.deq
    PROVE  NewestIs(Consumed(q), r)
<1>. DEFINE p == Consumed(q)
<1>1. /\ SetupsIn(p) = SetupsIn(q) \ {q.deq}
      /\ \A i \in SetupsIn(p) : p.slot[i] = q.slot[i]
      /\ \A i, j \in SetupsIn(p) : Later(p.deq, i, j) <=> Later(q.deq, i, j)
  BY ConsumedTale
<1>2. SetupsIn(q) \subseteq WaitingIn(q) BY DEF SetupsIn
<1>3. \A i \in SetupsIn(q) : ~Later(q.deq, i, q.deq) BY <1>2, FirstAndLast
<1>. HIDE DEF p
<1>. SUFFICES ASSUME NEW i \in SetupsIn(p), \A j \in SetupsIn(p) : ~Later(p.deq, i, j)
              PROVE  p.slot[i].what.req = r
  BY DEF NewestIs, p
<1>4. i \in SetupsIn(q) BY <1>1
<1>5. \A j \in SetupsIn(q) : ~Later(q.deq, i, j) BY <1>1, <1>3, <1>4
<1>. QED BY <1>1, <1>4, <1>5 DEF NewestIs

(* A stage's end that queues no other leaves nothing on its way; a request *)
(* that waits on nothing else was given up or lost before.                 *)
LEMMA EndedStory ==
    ASSUME NEW X, NEW q, DrvOK(X, q), EvOK(q), q.deq # q.enq, q.deq \in XfersIn(q, "ctrl"),
           NEW h, Told(X, q, h), NEW Y, RingOK(Ctrl(Y), CtrlSlots), Clear(Ctrl(Y)),
           Y.seq = X.seq, "ctrl" \in Y.halted <=> "ctrl" \in X.halted,
           Y.wait = "data" => X.wait = "data",
           ~(q.slot[q.deq].what.comp = "ok" /\ X.wait = "data")
    PROVE  Retold(Y, Consumed(q), X, q, h)
<1>. DEFINE p == Consumed(q)
<1>1. /\ Clear(Ctrl(X)) /\ XfersIn(q, "ctrl") = {q.deq} /\ SetupsIn(p) = SetupsIn(q)
      /\ XfersIn(p, "ctrl") = {} /\ OksIn(p) = {}
  BY EndedStage
<1>2. ~Live(Y) /\ ~Live(X) BY <1>1, ClearIsNotLive, CtrlFields
<1>3. SetupsIn(q) # {} => \E i \in SetupsIn(q) : i # q.deq BY DEF SetupsIn, XfersIn
<1>4. \A r : SetupsIn(q) # {} /\ NewestIs(q, r) => NewestIs(p, r) BY <1>3, NewestStays
<1>5. OksIn(q) # {} /\ X.wait = "data" => FALSE BY <1>1 DEF OksIn
<1>. HIDE DEF p
<1>6. Told(Y, p, h)
  <2>1. Follows(X, q, h) => Follows(Y, p, h) BY <1>1, <1>2 DEF Follows
  <2>. QED BY <1>1, <1>4, <2>1 DEF Told
<1>7. Clean(X, q, h) => Clean(Y, p, h)
  <2>1. ~Answered(X, q) BY <1>1, <1>2, <1>5 DEF Answered
  <2>2. Ready(X, q, h) => Ready(Y, p, h) BY <1>1 DEF Ready
  <2>. QED BY <2>1, <2>2 DEF Clean
<1>. QED BY <1>6, <1>7 DEF Retold, p

(* After the data the status stage is out, the one the PC goes on to.      *)
LEMMA DataStory ==
    ASSUME NEW X, NEW q, DrvOK(X, q), EvOK(q), q.deq # q.enq, q.deq \in XfersIn(q, "ctrl"),
           NEW h, Told(X, q, h), NEW Y,
           q.slot[q.deq].what.comp = "ok", X.wait = "data",
           Holds(Ctrl(Y)), Running(Ctrl(Y)).kind = AfterData(X),
           Running(Ctrl(Y)).fresh = X.seq, Y.wait = "status", Y.seq = X.seq, Y.out = X.out,
           "ctrl" \in Y.halted <=> "ctrl" \in X.halted
    PROVE  Retold(Y, Consumed(q), X, q, h)
<1>. DEFINE p == Consumed(q)
<1>1. /\ Clear(Ctrl(X)) /\ XfersIn(q, "ctrl") = {q.deq} /\ SetupsIn(p) = SetupsIn(q)
      /\ XfersIn(p, "ctrl") = {} /\ OksIn(p) = {}
  BY EndedStage
<1>3. SetupsIn(q) # {} => \E i \in SetupsIn(q) : i # q.deq BY DEF SetupsIn, XfersIn
<1>4. \A r : SetupsIn(q) # {} /\ NewestIs(q, r) => NewestIs(p, r) BY <1>3, NewestStays
<1>5. OksIn(q) # {} BY <1>1 DEF OksIn
<1>. HIDE DEF p
<1>6. Told(Y, p, h)
  <2>1. ASSUME Follows(X, q, h) PROVE Follows(Y, p, h)
    <3>1. h.stage = AfterData(X) /\ h.stage \in {"status_in", "status_out"}
      BY <1>5, <2>1 DEF Follows, AfterData
    <3>2. h.stage # DataStage(Y) BY <3>1 DEF DataStage
    <3>. QED BY <1>1, <2>1, <3>1, <3>2 DEF Follows
  <2>. QED BY <1>1, <1>4, <2>1 DEF Told
<1>7. Clean(X, q, h) => Clean(Y, p, h)
  <2>1. ~Ready(X, q, h) BY <1>5 DEF Ready
  <2>2. Answered(X, q) /\ X.seq => Answered(Y, p) BY <1>1 DEF Answered, Live
  <2>. QED BY <2>1, <2>2 DEF Clean
<1>. QED BY <1>6, <1>7 DEF Retold, p

(* The end of a transfer, handled.                                         *)
LEMMA TransferStory ==
    ASSUME NEW X, NEW q, DrvOK(X, q), EvOK(q), q.deq # q.enq, q.deq \in WaitingIn(q),
           NEW e \in Ep, q.slot[q.deq].what.t = "xfer", q.slot[q.deq].what.ep = e,
           NEW h, Told(X, q, h)
    PROVE  Retold(TransferEvent(X, e, q.slot[q.deq].what.comp), Consumed(q), X, q, h)
<1>. DEFINE c == q.slot[q.deq].what.comp
            W == [X EXCEPT !.ring[e] = Completed(@)]
            Y == TransferEvent(X, e, c)
<1>1. /\ DrvOK(W, Consumed(q)) /\ W.seq = X.seq
      /\ \A d \in Ep \ {e} : W.ring[d] = X.ring[d]
      /\ W.ring[e] = Completed(X.ring[e])
      /\ e = "ctrl" => CtrlIdle(W)
      /\ W.wait = X.wait /\ W.out = X.out
  BY CompletedSafe
<1>2. X \in XType /\ X.halted \in SUBSET Ep BY DriverFields DEF DrvOK
<1>3. W.halted = X.halted BY <1>2 DEF XType
<1>4. Y = (CASE c = "ok" /\ e = "ctrl" -> CtrlDone(W)
             [] c = "babble"           -> SetEpStall(W, e, TRUE)
             [] OTHER                  -> W)
  BY DEF TransferEvent
<1>5. W \in XType BY <1>1 DEF DrvOK
<1>. HIDE DEF W, Y, c
<1>6. CASE e # "ctrl"
  <2>1. SameTale(Consumed(q), q) BY <1>6, ConsumedSame DEF SetupsIn, XfersIn
  <2>2. Ctrl(W) = Ctrl(X) BY <1>1, <1>6 DEF Ctrl, Ep
  <2>3. SameCtrl(Y, X)
    <3>1. CASE c = "babble"
      <4>1. Y = SetEpStall(W, e, TRUE) BY <1>4, <1>6, <3>1
      <4>2. /\ Ctrl(Y) = Ctrl(W) /\ Y.seq = W.seq /\ Y.wait = W.wait /\ Y.out = W.out
            /\ Y.halted = W.halted \cup {e}
        BY <1>5, <4>1, HaltSame
      <4>. QED BY <1>1, <1>3, <1>6, <2>2, <4>2 DEF SameCtrl
    <3>2. CASE c # "babble"
      <4>1. Y = W BY <1>4, <1>6, <3>2
      <4>. QED BY <1>1, <1>3, <2>2, <4>1 DEF SameCtrl
    <3>. QED BY <3>1, <3>2
  <2>. QED BY <2>1, <2>3, SameStory DEF SameCtrl, Retold, Y, c
<1>7. CASE e = "ctrl"
  <2>1. q.deq \in XfersIn(q, "ctrl") BY <1>7 DEF XfersIn
  <2>2. c \in {"ok", "error"} BY <2>1 DEF Told, c
  <2>3. RingOK(Ctrl(W), CtrlSlots) BY <1>1, CtrlFields
  <2>4. Clear(Ctrl(W))
    <3>1. CtrlSlots \in Nat \ {0} OBVIOUS
    <3>2. RingOK(Ctrl(X), CtrlSlots) /\ Clear(Ctrl(X)) BY <2>1, CtrlFields, EndedStage
    <3>. QED BY <1>1, <1>7, <3>1, <3>2, CompletedKeeps DEF Ctrl
  <2>5. ASSUME ~(c = "ok" /\ X.wait = "data"), Ctrl(Y) = Ctrl(W), Y.seq = W.seq,
               Y.halted = W.halted, Y.wait = "data" => X.wait = "data"
        PROVE  Retold(Y, Consumed(q), X, q, h)
    BY <1>1, <1>3, <2>1, <2>3, <2>4, <2>5, EndedStory DEF c
  <2>6. CASE c = "error"
    <3>1. Y = W BY <1>4, <2>6
    <3>. QED BY <1>1, <2>5, <2>6, <3>1 DEF Y, c
  <2>7. CASE c = "ok" /\ X.wait = "data"
    <3>. DEFINE k == AfterData(X)
    <3>1. Y = CtrlStatus(W, k) BY <1>1, <1>4, <1>7, <2>7 DEF CtrlDone, AfterData
    <3>2. k \in {"status_in", "status_out"} BY DEF AfterData
    <3>. HIDE DEF k
    <3>3. Staged(Y, W, k, "status") BY <1>1, <1>7, <3>1, <3>2, StatusStaged
    <3>4. /\ Holds(Ctrl(Y)) /\ Running(Ctrl(Y)).kind = k /\ Running(Ctrl(Y)).fresh = X.seq
          /\ Y.wait = "status" /\ Y.seq = X.seq /\ Y.out = X.out
          /\ "ctrl" \in Y.halted <=> "ctrl" \in X.halted
      BY <1>1, <1>3, <1>7, <3>3 DEF Staged
    <3>. QED BY <2>1, <2>7, <3>4, DataStory DEF Y, c, k
  <2>8. CASE c = "ok" /\ X.wait # "data"
    <3>1. Y = CtrlDone(W) BY <1>4, <1>7, <2>8
    <3>2. Y.ring = W.ring /\ Y.seq = W.seq /\ Y.halted = W.halted /\ Y.wait # "data"
      <4>1. CASE X.wait = "status"
        <5>1. \E s : Y = [W EXCEPT !.wait = "none", !.state = s]
          BY <1>1, <3>1, <4>1 DEF CtrlDone
        <5>. QED BY <1>5, <5>1 DEF XType
      <4>2. CASE X.wait # "status"
        <5>1. Y = W BY <1>1, <2>8, <3>1, <4>2 DEF CtrlDone
        <5>. QED BY <1>1, <2>8, <5>1
      <4>. QED BY <4>1, <4>2
    <3>. QED BY <2>5, <2>8, <3>2 DEF Ctrl, Y, c
  <2>. QED BY <2>2, <2>6, <2>7, <2>8
<1>. QED BY <1>6, <1>7

(* A SETUP packet handled: if it is the newest, the request it carries is  *)
(* the PC's and its first stage is out.                                    *)
LEMMA SetupStory ==
    ASSUME BothEnds, NEW h, Told(x, ev, h), ev.deq # ev.enq, ev.deq \in WaitingIn(ev),
           NEW r \in AllRequests, NextEvent.what.t = "setup", NextEvent.what.req = r
    PROVE  Retold(CtrlSetup(x, r), Consumed(ev), x, ev, h)
<1>. DEFINE p == Consumed(ev)
            Y == CtrlSetup(x, r)
            S == SetupsIn(ev)
<1>0. DrvOK(x, ev) /\ EvOK(ev) /\ Ordered(ev) BY DEF BothEnds
<1>1. ev.deq \in S /\ ev.slot[ev.deq].what.req = r /\ ev.deq \notin XfersIn(ev, "ctrl")
  BY DEF SetupsIn, XfersIn, NextEvent
<1>2. ~x.seq BY <1>1 DEF BothEnds
<1>3. ~Live(x) /\ RingOK(Ctrl(x), CtrlSlots) /\ Counts(Ctrl(x), XfersIn(ev, "ctrl"))
  BY <1>0, <1>2, CtrlFields
<1>4. /\ Y.seq <=> S = {ev.deq}
      /\ Y.out = (r = "coding")
      /\ "ctrl" \in Y.halted <=> r = "bad"
      /\ r # "bad" /\ CtrlIdle(x) => /\ Holds(Ctrl(Y)) /\ Running(Ctrl(Y)).kind = FirstStage(r)
                                     /\ Running(Ctrl(Y)).fresh = Y.seq /\ Y.wait = FirstWait(r)
      /\ r = "bad" \/ ~CtrlIdle(x) => Ctrl(Y) = Ctrl(x) /\ Y.wait = x.wait
  BY <1>0, <1>2, SetupStaged
<1>5. /\ SetupsIn(p) = S \ {ev.deq} /\ XfersIn(p, "ctrl") = XfersIn(ev, "ctrl")
      /\ \A i \in S \cup XfersIn(ev, "ctrl") : i # ev.deq =>
           /\ p.slot[i] = ev.slot[i]
           /\ \A j \in S \cup XfersIn(ev, "ctrl") : j # ev.deq =>
                (Later(p.deq, i, j) <=> Later(ev.deq, i, j))
  BY <1>0, <1>1, ConsumedTale
<1>6. \A i \in XfersIn(ev, "ctrl") : i # ev.deq /\ p.slot[i] = ev.slot[i] BY <1>1, <1>5
<1>7. OksIn(p) = OksIn(ev) /\ OksIn(ev) \subseteq XfersIn(ev, "ctrl")
  BY <1>5, <1>6 DEF OksIn
<1>8. \A j \in XfersIn(ev, "ctrl") : Later(ev.deq, ev.deq, j)
  BY <1>0, <1>6, LastAndFirst DEF XfersIn
<1>9. \A j \in XfersIn(ev, "ctrl") : ~Later(ev.deq, j, ev.deq)
  BY <1>0, FirstAndLast DEF XfersIn
<1>10. OksIn(ev) = {} BY <1>1, <1>7, <1>8 DEF Told
<1>11. \A s : NewestIs(ev, s) /\ S # {ev.deq} => NewestIs(p, s)
  <2>1. S # {ev.deq} => \E i \in S : i # ev.deq BY <1>1
  <2>. QED BY <1>0, <2>1, NewestStays
<1>12. S = {ev.deq} /\ h.req # NoReq => h.req = r /\ h.stage = FirstStage(r)
  <2>1. ~Later(ev.deq, ev.deq, ev.deq) BY <1>0, <1>1, FirstAndLast DEF SetupsIn
  <2>. QED BY <1>1, <1>2, <2>1 DEF Told, NewestIs
<1>. HIDE DEF p, Y
<1>13. Live(Y) => r # "bad" /\ CtrlIdle(x) BY <1>3, <1>4 DEF Live
<1>14. ASSUME Y.seq, h.req # NoReq PROVE Follows(Y, p, h)
  <2>1. h.req = r /\ h.stage = FirstStage(r) BY <1>4, <1>12, <1>14
  <2>2. ASSUME Live(Y)
        PROVE  /\ Running(Ctrl(Y)).kind = h.stage
               /\ IF h.stage = DataStage(Y) THEN Y.wait = "data"
                  ELSE Y.wait = "status" /\ h.stage \in {"status_in", "status_out"}
    <3>1. Running(Ctrl(Y)).kind = h.stage /\ Y.wait = FirstWait(r)
      BY <1>4, <1>13, <2>1, <2>2
    <3>2. h.stage = (IF r = "desc" THEN "data_in" ELSE IF r = "coding" THEN "data_out"
                                                 ELSE "status_in")
      BY <2>1 DEF FirstStage
    <3>3. DataStage(Y) = (IF r = "coding" THEN "data_out" ELSE "data_in")
      BY <1>4 DEF DataStage
    <3>. QED BY <3>1, <3>2, <3>3 DEF FirstWait
  <2>. QED BY <1>4, <1>7, <1>10, <2>1, <2>2 DEF Follows
<1>15. Told(Y, p, h)
  <2>1. \A i \in XfersIn(p, "ctrl") : p.slot[i].what.comp \in {"ok", "error"}
    BY <1>5, <1>6 DEF Told
  <2>2. \A i \in SetupsIn(p), j \in OksIn(p) : ~Later(p.deq, i, j) BY <1>7, <1>10
  <2>3. ~Y.seq => SetupsIn(p) # {} BY <1>1, <1>4, <1>5
  <2>4. ~Y.seq /\ h.req # NoReq => h.stage = FirstStage(h.req) /\ NewestIs(p, h.req)
    BY <1>2, <1>4, <1>11 DEF Told
  <2>. QED BY <1>14, <2>1, <2>2, <2>3, <2>4 DEF Told
<1>16. ASSUME Clean(x, ev, h) PROVE Clean(Y, p, h)
  <2>1. Ready(x, ev, h) BY <1>2, <1>16 DEF Clean
  <2>2. S = {ev.deq} /\ h.req # NoReq /\ Clear(Ctrl(x)) BY <1>1, <2>1 DEF Ready
  <2>3. XfersIn(ev, "ctrl") = {} BY <1>1, <1>9, <2>1 DEF Ready
  <2>4. CtrlIdle(x)
    <3>1. Ctrl(x).pending = 0 BY <1>3, <2>2, <2>3, CountsTell
    <3>. QED BY <1>0, <3>1, IdleIff DEF Ctrl
  <2>5. Y.seq BY <1>4, <2>2
  <2>6. Answered(Y, p)
    <3>1. CASE r = "bad" BY <1>4, <1>5, <2>2, <2>3, <3>1 DEF Answered
    <3>2. CASE r # "bad" BY <1>4, <2>4, <2>5, <3>2 DEF Answered, Live
    <3>. QED BY <3>1, <3>2
  <2>. QED BY <2>2, <2>5, <2>6 DEF Clean
<1>. QED BY <1>15, <1>16 DEF Retold, p, Y

(* Whatever the first event is, handled it leaves a story that goes on.    *)
LEMMA HandledStory ==
    ASSUME BothEnds, IsNew, NEW h, Told(x, ev, h)
    PROVE  Retold(HandleEvent(x, NextEvent.what), Consumed(ev), x, ev, h)
<1>. DEFINE e == NextEvent.what
            Y == HandleEvent(x, e)
<1>0. DrvOK(x, ev) /\ EvOK(ev) BY DEF BothEnds
<1>1. ev.deq # ev.enq /\ ev.deq \in WaitingIn(ev) BY <1>0, NewIffWaiting
<1>2. ev.deq \in Ends /\ ev.slot[ev.deq].what \in Whats BY <1>0, EventRingFields
<1>3. e \in Whats BY <1>2 DEF NextEvent
<1>. HIDE DEF e
<1>4. \/ e.t = "xfer" /\ e.ep \in Ep
      \/ e.t = "setup" /\ e.req \in AllRequests
      \/ e.t \in {"port", "none"}
  BY <1>3 DEF Whats, NoEvent, PortEvent, SetupEvent, Xfer
<1>5. CASE e.t = "xfer" /\ e.ep \in Ep
  <2>1. Y = TransferEvent(x, e.ep, e.comp) BY <1>5 DEF HandleEvent
  <2>. QED BY <1>0, <1>1, <1>5, <2>1, TransferStory DEF e, NextEvent
<1>6. CASE e.t = "setup" /\ e.req \in AllRequests
  <2>1. Y = CtrlSetup(x, e.req) BY <1>6 DEF HandleEvent
  <2>. QED BY <1>1, <1>6, <2>1, SetupStory DEF e
<1>7. CASE e.t \in {"port", "none"}
  <2>1. SameTale(Consumed(ev), ev) BY <1>0, <1>1, <1>7, ConsumedSame DEF SetupsIn, XfersIn, e, NextEvent
  <2>2. Y \in {x, [x EXCEPT !.lost = TRUE]} BY <1>7 DEF HandleEvent, PortChange
  <2>3. SameCtrl(Y, x) BY <1>0, <2>2 DEF SameCtrl, Ctrl, DrvOK, XType
  <2>. QED BY <2>1, <2>3, SameStory DEF SameCtrl, Retold, e
<1>. QED BY <1>4, <1>5, <1>6, <1>7

(* A read or a chunk queued is nothing to the control ring.                *)
LEMMA QueueSame ==
    ASSUME NEW X \in XType, NEW e \in BulkEp, NEW k
    PROVE  /\ SameCtrl(Queue(X, e, k), X)
           /\ Queue(X, e, k).rxq = X.rxq /\ Queue(X, e, k).halted = X.halted
  BY DEF Queue, SameCtrl, Ctrl, XType, BulkEp

(* So the port's turn tells the PC nothing new.                            *)
LEMMA TurnStory ==
    ASSUME NEW X, NEW q, NEW U, NEW p, DrvOK(X, q), OnX, PollPort(X, U, p),
           NEW h, Told(X, q, h)
    PROVE  Retold(x', q, X, q, h)
<1>0. X \in XType BY DEF DrvOK
<1>1. SameCtrl(x', X)
  <2>1. CASE ~Configured(X, U)
    <3>1. x' = X BY <2>1 DEF PollPort
    <3>. QED BY <3>1 DEF SameCtrl
  <2>2. CASE Configured(X, U)
    <3>. DEFINE b == X.rxq /\ ~XRxReady(X)
                V == [X EXCEPT !.rxq = @ /\ ~XRxReady(X)]
                Y == XRxQueued(V)
    <3>1. x' = IF Sends(X, U, p) THEN Queue(Y, "in", "normal") ELSE Y
      BY <2>2 DEF PollPort, BulkX
    <3>2. V = [X EXCEPT !.rxq = b] /\ b \in BOOLEAN OBVIOUS
    <3>. HIDE DEF b, V
    <3>3. V \in XType /\ SameCtrl(V, X) BY <1>0, <3>2 DEF XType, SameCtrl, Ctrl
    <3>4. SameCtrl(Y, V) /\ (Y = V \/ Y = [Queue(V, "out", "normal") EXCEPT !.rxq = TRUE])
      <4>1. CASE V.rxq BY <4>1 DEF XRxQueued, SameCtrl
      <4>2. CASE ~V.rxq
        <5>. DEFINE W == Queue(V, "out", "normal")
        <5>1. Y = [W EXCEPT !.rxq = TRUE] BY <4>2 DEF XRxQueued
        <5>2. SameCtrl(W, V) BY <3>3, QueueSame DEF BulkEp
        <5>3. /\ [W EXCEPT !.rxq = TRUE].ring = W.ring /\ [W EXCEPT !.rxq = TRUE].seq = W.seq
              /\ [W EXCEPT !.rxq = TRUE].wait = W.wait /\ [W EXCEPT !.rxq = TRUE].out = W.out
              /\ [W EXCEPT !.rxq = TRUE].halted = W.halted
          BY <3>3 DEF Queue, XType
        <5>. QED BY <5>1, <5>2, <5>3 DEF SameCtrl, Ctrl
      <4>. QED BY <4>1, <4>2
    <3>5. SameCtrl(Queue(Y, "in", "normal"), Y)
      <4>1. /\ Queue(Y, "in", "normal").ring["ctrl"] = Y.ring["ctrl"]
            /\ Queue(Y, "in", "normal").seq = Y.seq /\ Queue(Y, "in", "normal").wait = Y.wait
            /\ Queue(Y, "in", "normal").out = Y.out /\ Queue(Y, "in", "normal").halted = Y.halted
        BY <3>3, <3>4 DEF Queue, XType, Ep
      <4>. QED BY <4>1 DEF SameCtrl, Ctrl
    <3>. QED BY <3>1, <3>3, <3>4, <3>5 DEF SameCtrl
  <2>. QED BY <2>1, <2>2
<1>2. SameTale(q, q) BY DEF SameTale
<1>. QED BY <1>1, <1>2, SameStory DEF SameCtrl, Retold

\* The story as it is, and as it goes on.
ToldX == Told(x, ev, host)
CleanX == Clean(x, ev, host)

(* A step that leaves the control endpoint and the PC's request alone.     *)
LEMMA AsideX ==
    ASSUME ToldX, SameCtrl(x', x), SameTale(ev', ev),
           host'.req = host.req, host'.stage = host.stage
    PROVE  ToldX' /\ (CleanX => CleanX')
  BY SameStory DEF SameCtrl, ToldX, CleanX

(* One in which the PC drops its request, at the price of an upset.        *)
LEMMA DroppedX ==
    ASSUME ToldX, SameCtrl(x', x), SameTale(ev', ev), host'.req = NoReq
    PROVE  ToldX'
<1>1. Told(x', ev', host) BY SameStory DEF SameCtrl, ToldX
<1>. QED BY <1>1, DroppedStory DEF ToldX

(* A request begins.                                                       *)
LEMMA BeginStory ==
    ASSUME BothEnds, ToldX, NEW r \in AllRequests, XBegin(r), host \in HostType
    PROVE  ToldX' /\ (CleanX => CleanX')
<1>. DEFINE c == Ctrl(x)
            C == [c EXCEPT !.slot = [i \in DOMAIN @ |-> [@[i] EXCEPT !.fresh = FALSE]]]
            S == SetupsIn(ev)
            T == XfersIn(ev, "ctrl")
<1>0. DrvOK(x, ev) /\ EvOK(ev) /\ (ev.enq + 1) % EventSlots # ev.deq
  BY DEF BothEnds, XBegin, EventsFull
<1>1. x \in XType /\ RingOK(c, CtrlSlots) BY <1>0, CtrlFields
<1>2. x.ring \in [Ep -> Rings] BY <1>1, DriverFields
<1>3. /\ Ctrl(x') = C /\ x'.seq = FALSE /\ x'.wait = x.wait /\ x'.out = x.out
      /\ x'.halted = x.halted
  <2>1. x' = [x EXCEPT !.seq = FALSE, !.ring = [x.ring EXCEPT !["ctrl"] = C]]
    BY DEF XBegin, Ctrl
  <2>. HIDE DEF C
  <2>2. x'.ring = [x.ring EXCEPT !["ctrl"] = C] /\ x'.seq = FALSE /\ x'.wait = x.wait
        /\ x'.out = x.out /\ x'.halted = x.halted
    BY <1>1, <2>1 DEF XType
  <2>. QED BY <1>2, <2>2 DEF Ctrl, Ep
<1>4. Clear(C) <=> Clear(c)
  <2>1. CtrlSlots \in Nat \ {0} OBVIOUS
  <2>. QED BY <1>1, <2>1, StaleKeeps
<1>5. host.req = NoReq /\ host'.req = r /\ host'.stage = FirstStage(r) /\ r # NoReq
  BY DEF XBegin, CanBegin, Begun, HostType, AllRequests, NoReq
<1>6. ev' = Posted(ev, SetupEvent(r)) BY DEF XBegin
<1>7. SetupEvent(r) \in Whats /\ SetupEvent(r).t = "setup" /\ SetupEvent(r).req = r
  BY DEF Whats, SetupEvent
<1>8. /\ SetupsIn(ev') = S \cup {ev.enq} /\ XfersIn(ev', "ctrl") = T
  BY <1>0, <1>6, <1>7, PostedKinds
<1>9. /\ ev'.deq = ev.deq /\ ev.enq \notin WaitingIn(ev) /\ ev'.slot[ev.enq].what.req = r
      /\ \A i \in WaitingIn(ev) : ev'.slot[i] = ev.slot[i]
  BY <1>0, <1>6, <1>7, PostedWaits
<1>10. S \subseteq WaitingIn(ev) /\ T \subseteq WaitingIn(ev) BY DEF SetupsIn, XfersIn
<1>11. OksIn(ev') = OksIn(ev) /\ OksIn(ev) \subseteq T BY <1>8, <1>9, <1>10 DEF OksIn
<1>12. \A i \in WaitingIn(ev) : Later(ev.deq, i, ev.enq) BY <1>0, FirstAndLast
<1>13. \A i \in WaitingIn(ev) : ~Later(ev.deq, ev.enq, i) BY <1>0, LastAndFirst
<1>. HIDE DEF C, S, T
<1>14. ToldX'
  <2>1. \A i \in XfersIn(ev', "ctrl") : ev'.slot[i].what.comp \in {"ok", "error"}
    BY <1>8, <1>9, <1>10 DEF ToldX, Told, T
  <2>2. \A i \in SetupsIn(ev'), j \in OksIn(ev') : ~Later(ev'.deq, i, j)
    BY <1>8, <1>9, <1>10, <1>11, <1>13 DEF ToldX, Told, S
  <2>3. NewestIs(ev', r) BY <1>8, <1>9, <1>10, <1>12 DEF NewestIs
  <2>4. SetupsIn(ev') # {} BY <1>8
  <2>. QED BY <1>3, <1>5, <2>1, <2>2, <2>3, <2>4 DEF ToldX, Told
<1>15. ASSUME CleanX PROVE CleanX'
  <2>1. Ready(x, ev, host) BY <1>5, <1>15 DEF CleanX, Clean
  <2>2. S = {} /\ Clear(c) /\ (x.wait = "data" => OksIn(ev) = {})
    BY <1>5, <2>1 DEF Ready, S
  <2>3. Ready(x', ev', host')
    BY <1>3, <1>4, <1>5, <1>8, <1>9, <1>10, <1>11, <1>12, <2>2 DEF Ready
  <2>. QED BY <1>3, <2>3 DEF CleanX, Clean
<1>. QED BY <1>14, <1>15

(* What a run of the control ring leaves: its end on the way, no TRB.      *)
LEMMA RunTale ==
    ASSUME BothEnds, NEW c \in {"ok", "error"}, Runnable(Ctrl(x)), ~EventsFull,
           x' = [x EXCEPT !.ring["ctrl"] = Ran(@)], ev' = Posted(ev, Xfer("ctrl", c))
    PROVE  /\ Clear(Ctrl(x)') /\ ~(Live(x)') /\ Holds(Ctrl(x)) /\ ~Clear(Ctrl(x))
           /\ x'.seq = x.seq /\ x'.wait = x.wait /\ x'.out = x.out /\ x'.halted = x.halted
           /\ XfersIn(ev, "ctrl") = {} /\ XfersIn(ev', "ctrl") = {ev.enq}
           /\ ev'.slot[ev.enq].what.comp = c /\ SetupsIn(ev') = SetupsIn(ev)
           /\ ev'.deq = ev.deq /\ \A i \in SetupsIn(ev) : ev'.slot[i] = ev.slot[i]
<1>. DEFINE r == Ctrl(x)
<1>0. DrvOK(x, ev) /\ EvOK(ev) /\ (ev.enq + 1) % EventSlots # ev.deq
  BY DEF BothEnds, EventsFull
<1>1. x \in XType /\ RingOK(r, CtrlSlots) /\ Counts(r, XfersIn(ev, "ctrl")) BY <1>0, CtrlFields
<1>2. x.ring \in [Ep -> Rings] BY <1>1, DriverFields
<1>3. CtrlSlots \in Nat \ {0} OBVIOUS
<1>4. Holds(r) /\ ~Clear(r) BY <1>1, <1>3, RunnableIff
<1>5. RingOK(Ran(r), CtrlSlots) /\ Clear(Ran(r)) BY <1>1, <1>3, <1>4, RanClears
<1>6. /\ Ctrl(x') = Ran(r) /\ x'.seq = x.seq /\ x'.wait = x.wait /\ x'.out = x.out
      /\ x'.halted = x.halted
  <2>1. x' = [x EXCEPT !.ring = [x.ring EXCEPT !["ctrl"] = Ran(r)]] BY DEF Ctrl
  <2>2. x'.ring = [x.ring EXCEPT !["ctrl"] = Ran(r)] /\ x'.seq = x.seq /\ x'.wait = x.wait
        /\ x'.out = x.out /\ x'.halted = x.halted
    BY <1>1, <2>1 DEF XType
  <2>. QED BY <1>2, <2>2 DEF Ctrl, Ep
<1>7. ~Live(x') BY <1>5, <1>6, ClearIsNotLive
<1>8. XfersIn(ev, "ctrl") = {} BY <1>1, <1>4 DEF Counts
<1>9. Xfer("ctrl", c) \in Whats /\ Xfer("ctrl", c).t = "xfer" /\ Xfer("ctrl", c).ep = "ctrl"
      /\ Xfer("ctrl", c).comp = c
  BY DEF Whats, Xfer, Ep
<1>10. XfersIn(ev', "ctrl") = {ev.enq} /\ SetupsIn(ev') = SetupsIn(ev)
  BY <1>0, <1>8, <1>9, PostedKinds
<1>11. /\ ev'.deq = ev.deq /\ ev'.slot[ev.enq].what = Xfer("ctrl", c)
       /\ \A i \in WaitingIn(ev) : ev'.slot[i] = ev.slot[i]
  BY <1>0, <1>9, PostedWaits
<1>. QED BY <1>4, <1>5, <1>6, <1>7, <1>8, <1>9, <1>10, <1>11 DEF SetupsIn, Ctrl, Live

(* A stage the PC wants runs: the request goes on to the next one, or was  *)
(* served.                                                                 *)
LEMMA StageStory ==
    ASSUME BothEnds, ToldX, host \in HostType, XStage
    PROVE  ToldX' /\ (CleanX => CleanX')
<1>0. /\ Runnable(Ctrl(x)) /\ ~EventsFull /\ "ctrl" \notin x.halted
      /\ Running(Ctrl(x)).fresh /\ host.req # NoReq /\ host.stage = Running(Ctrl(x)).kind
      /\ host' = Advanced(host)
      /\ x' = [x EXCEPT !.ring["ctrl"] = Ran(@)] /\ ev' = Posted(ev, Xfer("ctrl", "ok"))
  BY DEF XStage, Ctrl
<1>1. /\ Clear(Ctrl(x')) /\ ~Live(x') /\ Holds(Ctrl(x))
      /\ x'.seq = x.seq /\ x'.wait = x.wait /\ x'.out = x.out /\ x'.halted = x.halted
      /\ XfersIn(ev', "ctrl") = {ev.enq}
      /\ ev'.slot[ev.enq].what.comp = "ok" /\ SetupsIn(ev') = SetupsIn(ev)
  <2>1. "ok" \in {"ok", "error"} OBVIOUS
  <2>. QED BY <1>0, <2>1, RunTale DEF Ctrl, Live
<1>2. Live(x) BY <1>0, <1>1 DEF Live
<1>3. x.seq BY <1>2, CtrlFields DEF BothEnds
<1>4. SetupsIn(ev') = {} BY <1>1, <1>3 DEF BothEnds
<1>5. OksIn(ev') = {ev.enq} BY <1>1 DEF OksIn
<1>6. Follows(x, ev, host) BY <1>0, <1>3 DEF ToldX, Told
<1>7. CASE NextStage(host.stage) = "over"
  <2>1. host'.req = NoReq BY <1>0, <1>7 DEF Advanced, Served, HostType
  <2>2. host.stage # DataStage(x) BY <1>7 DEF NextStage, DataStage
  <2>3. x.wait = "status" BY <1>2, <1>6, <2>2 DEF Follows
  <2>4. ToldX' BY <1>1, <1>3, <1>4, <1>5, <2>1 DEF ToldX, Told
  <2>5. CleanX' BY <1>1, <1>4, <2>1, <2>3 DEF CleanX, Clean, Ready
  <2>. QED BY <2>4, <2>5
<1>8. CASE NextStage(host.stage) # "over"
  <2>1. host'.req = host.req /\ host'.stage = NextStage(host.stage)
    BY <1>0, <1>8 DEF Advanced, HostType
  <2>2. host.stage \in {"data_in", "data_out"} BY <1>8 DEF NextStage
  <2>3. host.stage = DataStage(x) /\ x.wait = "data" BY <1>2, <1>6, <2>2 DEF Follows
  <2>4. host'.stage = AfterData(x') BY <1>1, <2>1, <2>3 DEF NextStage, DataStage, AfterData
  <2>5. Follows(x', ev', host') BY <1>0, <1>1, <2>4 DEF Follows
  <2>6. ToldX' BY <1>1, <1>3, <1>4, <1>5, <2>5 DEF ToldX, Told
  <2>7. CleanX'
    <3>1. Answered(x', ev') BY <1>0, <1>1, <1>5, <2>3 DEF Answered
    <3>. QED BY <1>0, <1>1, <1>3, <2>1, <3>1 DEF CleanX, Clean
  <2>. QED BY <2>6, <2>7
<1>. QED BY <1>7, <1>8

(* A stale one runs out: it was in the way of nothing but a request an     *)
(* upset had cost already.                                                 *)
LEMMA StaleStory ==
    ASSUME BothEnds, ToldX, XStale
    PROVE  ToldX' /\ ~CleanX
<1>0. /\ Runnable(Ctrl(x)) /\ ~EventsFull /\ ~Running(Ctrl(x)).fresh /\ host' = host
      /\ x' = [x EXCEPT !.ring["ctrl"] = Ran(@)] /\ ev' = Posted(ev, Xfer("ctrl", "error"))
  BY DEF XStale, Ctrl, hostVars
<1>1. /\ ~Live(x') /\ ~Clear(Ctrl(x))
      /\ x'.seq = x.seq /\ x'.wait = x.wait /\ x'.out = x.out /\ x'.halted = x.halted
      /\ XfersIn(ev, "ctrl") = {} /\ XfersIn(ev', "ctrl") = {ev.enq}
      /\ ev'.slot[ev.enq].what.comp = "error" /\ SetupsIn(ev') = SetupsIn(ev)
      /\ ev'.deq = ev.deq /\ \A i \in SetupsIn(ev) : ev'.slot[i] = ev.slot[i]
  <2>1. "error" \in {"ok", "error"} OBVIOUS
  <2>. QED BY <1>0, <2>1, RunTale DEF Ctrl, Live
<1>2. OksIn(ev') = {} /\ OksIn(ev) = {} BY <1>1 DEF OksIn
<1>3. ~Live(x) BY <1>0 DEF Live
<1>4. \A r : NewestIs(ev, r) => NewestIs(ev', r) BY <1>1 DEF NewestIs
<1>5. Follows(x, ev, host) => Follows(x', ev', host') BY <1>0, <1>1, <1>2 DEF Follows
<1>6. ToldX' BY <1>0, <1>1, <1>2, <1>4, <1>5 DEF ToldX, Told
<1>7. ~CleanX BY <1>1, <1>2, <1>3 DEF CleanX, Clean, Answered, Ready
<1>. QED BY <1>6, <1>7

(* Endpoint 0 is halted for a request that asks for it, and for no other.  *)
LEMMA StallsStory ==
    ASSUME BothEnds, ToldX, host \in HostType, XStalls
    PROVE  /\ ToldX' /\ (CleanX => CleanX') /\ failures' = failures /\ UNCHANGED <<x, ev>>
<1>0. /\ "ctrl" \in x.halted /\ x.seq /\ host.req # NoReq /\ host' = Dropped(host)
      /\ failures' = (IF host.req = "bad" THEN failures ELSE failures + 1) /\ x' = x /\ ev' = ev
  BY DEF XStalls, Stalled, xusbVars
<1>1. host.req = "bad" BY <1>0 DEF ToldX, Told, Follows
<1>2. host'.req = NoReq BY <1>0 DEF Dropped, HostType
<1>3. ToldX' BY <1>0, <1>2, DroppedStory DEF ToldX
<1>4. ASSUME CleanX PROVE CleanX'
  <2>1. Clear(Ctrl(x)) /\ XfersIn(ev, "ctrl") = {} BY <1>0, <1>4 DEF CleanX, Clean, Answered
  <2>2. SetupsIn(ev) = {} /\ OksIn(ev) = {} BY <1>0, <2>1 DEF BothEnds, OksIn
  <2>. QED BY <1>0, <1>2, <2>1, <2>2 DEF CleanX, Clean, Ready
<1>. QED BY <1>0, <1>1, <1>3, <1>4

(* A request that times out is one an upset had cost: after it nothing is  *)
(* left in the way of the next.                                            *)
LEMMA WaitsStory ==
    ASSUME BothEnds, ToldX, host \in HostType, host.req # NoReq, XNothingComes,
           host' = Dropped(host), UNCHANGED <<x, ev>>
    PROVE  ToldX' /\ ~CleanX /\ CleanX'
<1>1. WaitingIn(ev) = {}
  <2>1. ev.deq = ev.enq /\ ev.enq \in 0 .. EventSlots - 1
    BY EventRingFields DEF BothEnds, XNothingComes, Ends
  <2>2. WaitingIn(ev) = ev.enq .. ev.enq - 1 BY <2>1 DEF WaitingIn
  <2>. QED BY <2>1, <2>2
<1>2. SetupsIn(ev) = {} /\ XfersIn(ev, "ctrl") = {} /\ OksIn(ev) = {}
  BY <1>1 DEF SetupsIn, XfersIn, OksIn
<1>3. x.seq BY <1>2 DEF ToldX, Told
<1>4. "ctrl" \notin x.halted BY <1>3 DEF XNothingComes
<1>5. RingOK(Ctrl(x), CtrlSlots) /\ (Runnable(Ctrl(x)) <=> Holds(Ctrl(x)))
  BY CtrlFields DEF BothEnds
<1>6. Follows(x, ev, host) BY <1>3 DEF ToldX, Told
<1>7. ~(Runnable(Ctrl(x)) /\ (Running(Ctrl(x)).fresh => Running(Ctrl(x)).kind = host.stage))
  BY DEF XNothingComes, Ctrl
<1>8. ~Holds(Ctrl(x)) BY <1>5, <1>6, <1>7 DEF Follows, Live
<1>9. Clear(Ctrl(x)) BY <1>5, <1>8 DEF RingOK
<1>10. ~CleanX BY <1>2, <1>3, <1>4, <1>8 DEF CleanX, Clean, Answered, Live
<1>11. host'.req = NoReq BY DEF Dropped, HostType
<1>12. ToldX' BY <1>11, DroppedStory DEF ToldX
<1>13. CleanX' BY <1>2, <1>9, <1>11 DEF CleanX, Clean, Ready
<1>. QED BY <1>10, <1>12, <1>13

\* What was paid so far, and the story on Mariko: while every upset has had its
\* price nothing is left in a request's way.
Counted == failures \in Nat /\ upsets \in Nat /\ failures <= upsets
DebtX == ToldX /\ (failures = upsets => CleanX)

(* An upset that cost nothing yet.                                         *)
LEMMA UpsetCounts ==
    ASSUME Counted, Upset, failures' = failures
    PROVE  Counted' /\ failures' # upsets'
  BY DEF Counted, Upset

(* A port event posted, or none, leaves the story as it is.                *)
LEMMA PortTale ==
    ASSUME BothEnds, ev' = ev \/ (~EventsFull /\ ev' = Posted(ev, PortEvent))
    PROVE  SameTale(ev', ev)
<1>1. CASE ev' = ev BY <1>1 DEF SameTale
<1>2. CASE ~EventsFull /\ ev' = Posted(ev, PortEvent)
  <2>1. PortEvent \in Whats /\ PortEvent.t = "port" BY DEF Whats, PortEvent
  <2>. QED BY <1>2, <2>1, PostedTale DEF BothEnds, EventsFull
<1>. QED BY <1>1, <1>2

(* Neither does a bulk transfer of either kind.                            *)
LEMMA BulkTale ==
    ASSUME BothEnds, NEW e \in BulkEp, NEW c \in {"ok", "babble"}, ~EventsFull,
           x' = [x EXCEPT !.ring[e] = Ran(@)], ev' = Posted(ev, Xfer(e, c))
    PROVE  SameCtrl(x', x) /\ SameTale(ev', ev)
<1>1. /\ Xfer(e, c) \in Whats /\ Xfer(e, c).t = "xfer" /\ Xfer(e, c).ep = e /\ e # "ctrl"
  BY DEF Whats, Xfer, Ep, BulkEp
<1>2. SameTale(ev', ev) BY <1>1, PostedTale DEF BothEnds, EventsFull
<1>3. x \in XType /\ x.ring \in [Ep -> Rings] BY DriverFields DEF BothEnds, DrvOK
<1>4. SameCtrl(x', x) BY <1>1, <1>3 DEF SameCtrl, Ctrl, XType, Ep
<1>. QED BY <1>2, <1>4

(* Every step of controller and PC on Mariko keeps the books.              *)
LEMMA LineDebtX ==
    ASSUME Line, OnX, BothEnds, host \in HostType, pc \in Pcs, Counted, DebtX
    PROVE  Counted' /\ DebtX'
<1>0. ToldX BY DEF DebtX
<1>1. SameCtrl(x, x) /\ SameTale(ev, ev) BY DEF SameCtrl, SameTale
<1>2. ASSUME ToldX', CleanX => CleanX', UNCHANGED <<upsets, failures>>
      PROVE  Counted' /\ DebtX'
  BY <1>2 DEF Counted, DebtX
<1>3. ASSUME ToldX', Upset, failures' = failures
      PROVE  Counted' /\ DebtX'
  BY <1>3, UpsetCounts DEF DebtX
<1>4. \A b \in BOOLEAN : Fresh(b).req = NoReq BY DEF Fresh
<1>5. Dropped(host).req = NoReq BY DEF Dropped, HostType
<1>6. CASE XStage
  <2>1. UNCHANGED <<upsets, failures>> BY <1>6 DEF XStage
  <2>. QED BY <1>0, <1>2, <1>6, <2>1, StageStory
<1>7. CASE XStale
  <2>1. UNCHANGED <<upsets, failures>> BY <1>7 DEF XStale, hostVars
  <2>. QED BY <1>0, <1>2, <1>7, <2>1, StaleStory
<1>8. CASE XStalls
  <2>1. upsets' = upsets BY <1>8 DEF XStalls
  <2>. QED BY <1>0, <1>2, <1>8, <2>1, StallsStory
<1>9. CASE XPlug \/ XUnplug \/ XBusReset
  <2>1. ev' = ev \/ (~EventsFull /\ ev' = Posted(ev, PortEvent))
    BY <1>9 DEF XPlug, XUnplug, XBusReset, XPortChanged
  <2>2. x' = x /\ Upset /\ failures' = failures /\ host'.req = NoReq
    BY <1>4, <1>9 DEF XPlug, XUnplug, XBusReset, XPortChanged
  <2>3. ToldX' BY <1>0, <1>1, <2>1, <2>2, PortTale, DroppedX
  <2>. QED BY <1>3, <2>2, <2>3
<1>10. CASE GiveUp /\ UNCHANGED <<pc, xusbVars, usb2Vars>>
  <2>1. x' = x /\ ev' = ev /\ Upset /\ failures' = failures /\ host'.req = NoReq
    BY <1>5, <1>10 DEF GiveUp, xusbVars
  <2>2. ToldX' BY <1>0, <1>1, <2>1, DroppedX
  <2>. QED BY <1>3, <2>1, <2>2
<1>11. CASE XBabble
  <2>1. SameCtrl(x', x) /\ SameTale(ev', ev) /\ host' = host
    <3>1. "out" \in BulkEp /\ "babble" \in {"ok", "babble"} BY DEF BulkEp
    <3>2. ~EventsFull /\ x' = [x EXCEPT !.ring["out"] = Ran(@)]
          /\ ev' = Posted(ev, Xfer("out", "babble")) /\ host' = host
      BY <1>11 DEF XBabble
    <3>. QED BY <3>1, <3>2, BulkTale
  <2>2. ToldX' BY <1>0, <2>1, AsideX
  <2>. QED BY <1>3, <1>11, <2>2 DEF XBabble
<1>12. ASSUME NEW e \in BulkEp, XBulk(e) PROVE Counted' /\ DebtX'
  <2>1. SameCtrl(x', x) /\ SameTale(ev', ev) /\ UNCHANGED <<host, upsets, failures>>
    <3>1. ~EventsFull /\ x' = [x EXCEPT !.ring[e] = Ran(@)] /\ ev' = Posted(ev, Xfer(e, "ok"))
          /\ UNCHANGED <<host, upsets, failures>>
      BY <1>12 DEF XBulk, hostVars
    <3>2. "ok" \in {"ok", "babble"} OBVIOUS
    <3>. QED BY <3>1, <3>2, BulkTale
  <2>2. ToldX' /\ (CleanX => CleanX') BY <1>0, <2>1, AsideX
  <2>. QED BY <1>2, <2>1, <2>2
<1>13. ASSUME NEW r \in pc.asks, XBegin(r) PROVE Counted' /\ DebtX'
  <2>1. r \in AllRequests BY AskedIsKnown
  <2>2. UNCHANGED <<upsets, failures>> BY <1>13 DEF XBegin
  <2>. QED BY <1>0, <1>2, <1>13, <2>1, <2>2, BeginStory
<1>14. CASE Waits
  <2>1. host.req # NoReq /\ XNothingComes /\ host' = Dropped(host) /\ UNCHANGED <<x, ev>>
        /\ failures' = failures + 1 /\ upsets' = upsets
    BY <1>14 DEF Waits, TimedOut, xusbVars
  <2>2. ToldX' /\ ~CleanX /\ CleanX' BY <1>0, <2>1, WaitsStory
  <2>3. failures # upsets BY <2>2 DEF DebtX
  <2>. QED BY <2>1, <2>2, <2>3 DEF Counted, DebtX
<1>. QED BY <1>6, <1>7, <1>8, <1>9, <1>10, <1>11, <1>12, <1>13, <1>14
         DEF Line, Answers, Plugs, Upsets, Moves, Asks

(* The driver asking for events keeps them on Mariko.                      *)
LEMMA PollDebtX ==
    ASSUME BothEnds, DebtX, PollX
    PROVE  DebtX'
<1>1. SameTale(ev', ev)
  <2>1. ev' = [ev EXCEPT !.ip = FALSE] /\ ev \in EvType BY DEF PollX, BothEnds, EvOK
  <2>2. ev'.slot = ev.slot /\ ev'.deq = ev.deq /\ ev'.enq = ev.enq BY <2>1 DEF EvType
  <2>. QED BY <2>2 DEF SameTale, SetupsIn, XfersIn, WaitingIn
<1>2. Retold(x, ev', x, ev, host) BY <1>1, SameStory DEF Retold, DebtX, ToldX
<1>3. UNCHANGED <<host, failures, upsets>> /\ OnX BY DEF PollX, hostVars
<1>4. CASE ev.ip
  <2>1. x' = x BY <1>4 DEF PollX
  <2>. QED BY <1>2, <1>3, <2>1 DEF Retold, DebtX, ToldX, CleanX
<1>5. CASE ~ev.ip
  <2>1. PollPort(x, u, port) BY <1>5 DEF PollX
  <2>2. DrvOK(x, ev) BY DEF BothEnds
  <2>3. Retold(x', ev, x, ev, host) BY <1>3, <2>1, <2>2, TurnStory DEF DebtX, ToldX
  <2>4. Told(x', ev', host) /\ (Clean(x', ev, host) => Clean(x', ev', host))
    BY <1>1, <2>3, SameStory DEF Retold
  <2>. QED BY <1>3, <2>3, <2>4 DEF Retold, DebtX, ToldX, CleanX
<1>. QED BY <1>4, <1>5

(* So does an event handled, and the port's turn after it.                 *)
LEMMA EventDebtX ==
    ASSUME BothEnds, OnX, DebtX, Event
    PROVE  DebtX'
<1>. DEFINE e == NextEvent.what
            X == HandleEvent(x, e)
            p == IF e.t = "setup" THEN [port EXCEPT !.dtr = DtrOf(e.req, @)] ELSE port
<1>1. UNCHANGED <<host, failures, upsets>> BY DEF Event, hostVars
<1>2. Told(x, ev, host) BY DEF DebtX, ToldX
<1>3. CASE ~IsNew
  <2>1. PollPort(x, u, port) /\ ev' = ev BY <1>3 DEF Event
  <2>2. DrvOK(x, ev) BY DEF BothEnds
  <2>3. Retold(x', ev, x, ev, host) BY <1>2, <2>1, <2>2, TurnStory
  <2>. QED BY <1>1, <2>1, <2>3 DEF Retold, DebtX, ToldX, CleanX
<1>4. CASE IsNew
  <2>1. ev' = Consumed(ev) /\ (PollPort(X, u, p) \/ x' = X) BY <1>4 DEF Event
  <2>2. Retold(X, ev', x, ev, host) BY <1>2, <1>4, <2>1, HandledStory
  <2>3. DrvOK(X, ev') BY <1>4, <2>1, HandledSafe DEF BothEnds
  <2>. HIDE DEF X, p
  <2>4. Retold(x', ev', X, ev', host)
    <3>1. CASE x' = X BY <2>2, <3>1 DEF Retold
    <3>2. CASE PollPort(X, u, p) BY <2>2, <2>3, <3>2, TurnStory DEF Retold
    <3>. QED BY <2>1, <3>1, <3>2
  <2>. QED BY <1>1, <2>2, <2>4 DEF Retold, DebtX, ToldX, CleanX
<1>. QED BY <1>3, <1>4

(* A controller that has just come up owes nothing.                        *)
LEMMA FreshDebtX ==
    ASSUME x' = XInit, ev' = EventRingInit, host'.req = NoReq
    PROVE  DebtX'
<1>1. SetupsIn(ev') = {} /\ XfersIn(ev', "ctrl") = {} BY EmptyEvents
<1>2. OksIn(ev') = {} BY <1>1 DEF OksIn
<1>3. x'.seq = TRUE /\ Ctrl(x') = RingInit(CtrlSlots) BY DEF XInit, Ctrl, Ep
<1>4. Clear(Ctrl(x')) BY <1>3, EmptyRing
<1>. QED BY <1>1, <1>2, <1>3, <1>4 DEF DebtX, ToldX, CleanX, Told, Clean, Ready

\* On Erista: the stage a transfer of the driver's is, and the status stage
\* that comes after data on a half.
StageOf(o) == CASE o.qh = "cin" /\ ~o.last -> "data_in"
                [] o.qh = "cin" /\ o.last  -> "status_in"
                [] o.qh = "cout" /\ ~o.last -> "data_out"
                [] OTHER -> "status_out"
StatusOf(q) == IF q = "cin" THEN "status_out" ELSE "status_in"
Through(U, o) == o = NoOp \/ (o.last /\ ~U.active[o.qh])

\* Endpoint 0 is never off and never in error.  Only a SETUP packet that waits
\* outlives a bus reset, and endpoint 0 stalls for no request that came after.
Told2(U, o, h) ==
    /\ CtrlQh \subseteq U.enabled
    /\ \A q \in CtrlQh : ~U.error[q]
    /\ U.uri /\ h.req # NoReq => U.setupstat
    /\ CtrlQh \cap U.stall # {} => CtrlQh \subseteq U.stall /\ o = NoOp /\ ~U.setupstat

\* Nothing an upset left behind stands in the way of the PC's request: it waits
\* to be taken, or the driver waits for the very stage the PC is at.
Clean2(U, o, h) ==
    /\ ~U.uri
    /\ IF h.req = NoReq THEN ~U.setupstat /\ Through(U, o)
       ELSE IF U.setupstat THEN U.mail = h.req /\ h.stage = FirstStage(h.req) /\ Through(U, o)
       ELSE IF o = NoOp THEN h.req = "bad" /\ CtrlQh \subseteq U.stall
       ELSE U.primed[o.qh] /\ IF U.active[o.qh] THEN h.stage = StageOf(o)
                              ELSE ~o.last /\ h.stage = StatusOf(o.qh)

\* What a step of the bulk halves leaves of endpoint 0, and of its transfers.
SameSetup(V, U) ==
    /\ V.setupstat = U.setupstat /\ V.mail = U.mail /\ V.uri = U.uri
    /\ \A q \in CtrlQh : /\ q \in V.stall <=> q \in U.stall
                         /\ q \in V.enabled <=> q \in U.enabled
                         /\ V.error[q] = U.error[q]
SameRuns(V, U) == \A q \in CtrlQh : V.active[q] = U.active[q] /\ V.primed[q] = U.primed[q]

(* Nothing is told that is not told of endpoint 0.                         *)
LEMMA SameStory2 ==
    ASSUME NEW U, NEW V, NEW o, NEW h, SameSetup(V, U)
    PROVE  /\ Told2(U, o, h) => Told2(V, o, h)
           /\ o = NoOp \/ (o.qh \in CtrlQh /\ SameRuns(V, U)) => (Clean2(U, o, h) => Clean2(V, o, h))
<1>1. (CtrlQh \subseteq V.stall <=> CtrlQh \subseteq U.stall)
      /\ (CtrlQh \cap V.stall = {} <=> CtrlQh \cap U.stall = {})
      /\ (CtrlQh \subseteq V.enabled <=> CtrlQh \subseteq U.enabled)
  BY DEF SameSetup
<1>2. Told2(U, o, h) => Told2(V, o, h) BY <1>1 DEF Told2, SameSetup
<1>3. o = NoOp => (Clean2(U, o, h) => Clean2(V, o, h)) BY <1>1 DEF Clean2, SameSetup, Through
<1>4. o.qh \in CtrlQh /\ SameRuns(V, U) => (Clean2(U, o, h) => Clean2(V, o, h))
  BY <1>1 DEF Clean2, SameSetup, SameRuns, Through
<1>. QED BY <1>2, <1>3, <1>4

(* A transfer that is over for the driver leaves the story as it is.       *)
LEMMA DoneStory2 ==
    ASSUME NEW U, NEW o, NEW h, Told2(U, o, h), CtrlQh \cap U.stall = {}
    PROVE  Told2(U, NoOp, h)
  BY DEF Told2, CtrlQh

(* A bulk half primed or taken off is nothing to endpoint 0.               *)
LEMMA BulkPrimed ==
    ASSUME NEW U \in UType, NEW q \in BulkEp
    PROVE  SameSetup(Prime(U, q), U) /\ SameRuns(Prime(U, q), U)
<1>. DEFINE a == [U.active EXCEPT ![q] = FALSE]
            b == [U.primed EXCEPT ![q] = FALSE]
            c == [U.error EXCEPT ![q] = FALSE]
            V == MarkComplete(U, q)
            f == ~(q \in CtrlQh /\ U.setupstat)
            A == [a EXCEPT ![q] = f]
            B == [b EXCEPT ![q] = TRUE]
<1>1. q \in Qh /\ q \notin CtrlQh BY DEF BulkEp, Qh, CtrlQh
<1>2. V = [U EXCEPT !.primed = b, !.active = a, !.error = c, !.mail = U.mail]
  BY <1>1 DEF MarkComplete, CtrlQh
<1>3. \A d \in CtrlQh : A[d] = U.active[d] /\ B[d] = U.primed[d] /\ c[d] = U.error[d]
  BY <1>1, U2Fields DEF Qh, CtrlQh
<1>. HIDE DEF c
<1>4. Prime(U, q) = [V EXCEPT !.primed = [V.primed EXCEPT ![q] = TRUE],
                              !.active = [V.active EXCEPT ![q] = f]]
  BY DEF Prime
<1>. HIDE DEF f
<1>5. V.primed = b /\ V.active = a BY <1>2 DEF UType
<1>6. Prime(U, q) = [V EXCEPT !.primed = B, !.active = A] BY <1>4, <1>5
<1>. HIDE DEF V, a, b
<1>7. Prime(U, q) = [U EXCEPT !.primed = B, !.active = A, !.error = c, !.mail = U.mail]
  BY <1>2, <1>6 DEF UType
<1>. HIDE DEF A, B
<1>8. /\ Prime(U, q).primed = B /\ Prime(U, q).active = A /\ Prime(U, q).error = c
      /\ Prime(U, q).mail = U.mail /\ Prime(U, q).setupstat = U.setupstat
      /\ Prime(U, q).uri = U.uri /\ Prime(U, q).stall = U.stall
      /\ Prime(U, q).enabled = U.enabled
  BY <1>7 DEF UType
<1>. QED BY <1>3, <1>8 DEF SameSetup, SameRuns

(* So is the port's turn.                                                  *)
LEMMA BulkSame2 ==
    ASSUME NEW U \in UType, NEW s \in BOOLEAN
    PROVE  SameSetup(BulkU(U, s), U)
<1>. DEFINE b == U.rxq /\ ~URxReady(U)
            W == [U EXCEPT !.rxq = b]
            V == URxQueued(W)
            Z == Prime(W, "out")
<1>1. BulkU(U, s) = IF s THEN Prime(V, "in") ELSE V BY DEF BulkU
<1>2. b \in BOOLEAN BY U2Fields
<1>. HIDE DEF b
<1>3. W \in UType /\ SameSetup(W, U) BY <1>2 DEF UType, SameSetup
<1>. HIDE DEF W
<1>4. Z \in UType BY <1>3, PrimedType DEF Qh
<1>5. SameSetup(Z, W) BY <1>3, BulkPrimed DEF BulkEp
<1>6. V = IF W.rxq THEN W ELSE [Z EXCEPT !.rxq = TRUE] BY DEF URxQueued
<1>. HIDE DEF V, Z
<1>7. [Z EXCEPT !.rxq = TRUE] \in UType /\ SameSetup([Z EXCEPT !.rxq = TRUE], Z)
  BY <1>4 DEF UType, SameSetup
<1>8. V \in UType /\ SameSetup(V, W)
  <2>1. SameSetup(W, W) BY DEF SameSetup
  <2>2. SameSetup([Z EXCEPT !.rxq = TRUE], W) BY <1>5, <1>7 DEF SameSetup
  <2>. QED BY <1>3, <1>6, <1>7, <2>1, <2>2
<1>9. SameSetup(Prime(V, "in"), V) BY <1>8, BulkPrimed DEF BulkEp
<1>. QED BY <1>1, <1>3, <1>8, <1>9 DEF SameSetup

(* The rest of a poll on Erista.                                           *)
LEMMA Turn2 ==
    ASSUME NEW X, NEW U \in UType, NEW p, PollPort(X, U, p), ~OnX
    PROVE  SameSetup(u', U)
<1>1. CASE ~Configured(X, U)
  <2>1. u' = U BY <1>1 DEF PollPort
  <2>. QED BY <2>1 DEF SameSetup
<1>2. CASE Configured(X, U)
  <2>. DEFINE s == IF Sends(X, U, p) THEN TRUE ELSE FALSE
  <2>1. BulkU(U, Sends(X, U, p)) = BulkU(U, s) BY DEF BulkU
  <2>2. u' = BulkU(U, s) BY <1>2, <2>1 DEF PollPort
  <2>3. s \in BOOLEAN OBVIOUS
  <2>. HIDE DEF s
  <2>. QED BY <2>2, <2>3, BulkSame2
<1>. QED BY <1>1, <1>2

(* The bulk halves set up afresh or switched off leave endpoint 0 alone.   *)
LEMMA AfterSame ==
    ASSUME NEW U \in UType
    PROVE  SameSetup(After(U), U) /\ SameSetup(DisableEps2(U), U)
<1>1. SameSetup(DisableEps2(U), U)
  <2>. DEFINE a == [q \in Qh |-> FALSE]
              s == U.stall \ {"out", "in"}
              n == U.enabled \ {"out", "in"}
  <2>1. DisableEps2(U) = [U EXCEPT !.active = a, !.stall = s, !.enabled = n,
                                   !.configured = FALSE, !.rxq = FALSE]
    BY DEF DisableEps2
  <2>2. \A q \in CtrlQh : (q \in s <=> q \in U.stall) /\ (q \in n <=> q \in U.enabled)
    BY DEF CtrlQh
  <2>. HIDE DEF a, s, n
  <2>3. /\ DisableEps2(U).stall = s /\ DisableEps2(U).enabled = n
        /\ DisableEps2(U).error = U.error /\ DisableEps2(U).setupstat = U.setupstat
        /\ DisableEps2(U).mail = U.mail /\ DisableEps2(U).uri = U.uri
    BY <2>1 DEF UType
  <2>. QED BY <2>2, <2>3 DEF SameSetup
<1>2. ASSUME NEW V \in UType, NEW q \in BulkEp PROVE SameSetup(EpCtrlInit(V, q), V)
  <2>. DEFINE a == [V.active EXCEPT ![q] = FALSE]
              b == [V.primed EXCEPT ![q] = FALSE]
              c == [V.error EXCEPT ![q] = FALSE]
              s == V.stall \ {q}
              n == V.enabled \cup {q}
  <2>1. EpCtrlInit(V, q) = [V EXCEPT !.primed = b, !.active = a, !.error = c,
                                     !.stall = s, !.enabled = n]
    BY DEF EpCtrlInit
  <2>2. q \notin CtrlQh BY DEF BulkEp, CtrlQh
  <2>3. \A d \in CtrlQh : /\ d \in s <=> d \in V.stall
                          /\ d \in n <=> d \in V.enabled
                          /\ c[d] = V.error[d]
    BY <2>2, U2Fields DEF Qh, CtrlQh
  <2>. HIDE DEF a, b, c, s, n
  <2>4. /\ EpCtrlInit(V, q).stall = s /\ EpCtrlInit(V, q).enabled = n
        /\ EpCtrlInit(V, q).error = c /\ EpCtrlInit(V, q).setupstat = V.setupstat
        /\ EpCtrlInit(V, q).mail = V.mail /\ EpCtrlInit(V, q).uri = V.uri
    BY <2>1 DEF UType
  <2>. QED BY <2>3, <2>4 DEF SameSetup
<1>3. SameSetup(After(U), U)
  <2>1. CASE U.setup = "conf0" BY <1>1, <2>1 DEF After
  <2>2. CASE U.setup = "conf1"
    <3>. DEFINE D == EpCtrlInit(U, "out")
                E == EpCtrlInit(D, "in")
    <3>1. After(U) = [E EXCEPT !.rxq = FALSE, !.configured = TRUE] BY <2>2 DEF After
    <3>2. D \in UType /\ SameSetup(D, U) BY <1>2, EpCtrlType DEF Qh, BulkEp
    <3>. HIDE DEF D
    <3>3. E \in UType /\ SameSetup(E, D) BY <1>2, <3>2, EpCtrlType DEF Qh, BulkEp
    <3>. HIDE DEF E
    <3>4. SameSetup(After(U), E) BY <3>1, <3>3 DEF UType, SameSetup
    <3>. QED BY <3>2, <3>3, <3>4 DEF SameSetup
  <2>3. CASE U.setup \notin {"conf0", "conf1"} BY <2>3 DEF After, SameSetup
  <2>. QED BY <2>1, <2>2, <2>3
<1>. QED BY <1>1, <1>3

(* A stage primed on endpoint 0: it is out, unless a SETUP packet waits.   *)
LEMMA CtrlPrimed ==
    ASSUME NEW U \in UType, NEW q \in CtrlQh
    PROVE  LET V == Prime(U, q) IN
           /\ V.primed[q] /\ V.active[q] = ~U.setupstat
           /\ \A d \in CtrlQh : V.error[d] => U.error[d]
           /\ V.stall = U.stall /\ V.enabled = U.enabled
           /\ V.setupstat = U.setupstat /\ V.uri = U.uri
<1>. DEFINE a == [U.active EXCEPT ![q] = FALSE]
            b == [U.primed EXCEPT ![q] = FALSE]
            c == [U.error EXCEPT ![q] = FALSE]
            m == IF q = "cout" THEN Zeroed ELSE U.mail
            V == MarkComplete(U, q)
            f == ~(q \in CtrlQh /\ U.setupstat)
            A == [a EXCEPT ![q] = f]
            B == [b EXCEPT ![q] = TRUE]
            Z == Prime(U, q)
<1>1. q \in Qh BY DEF Qh, CtrlQh
<1>2. V = [U EXCEPT !.primed = b, !.active = a, !.error = c, !.mail = m] BY DEF MarkComplete
<1>3. A[q] = f /\ B[q] = TRUE BY <1>1, U2Fields
<1>4. \A d \in CtrlQh : c[d] => U.error[d] BY <1>1, U2Fields DEF Qh, CtrlQh
<1>5. f = ~U.setupstat OBVIOUS
<1>6. Z = [V EXCEPT !.primed = [V.primed EXCEPT ![q] = TRUE],
                    !.active = [V.active EXCEPT ![q] = f]]
  BY DEF Prime
<1>. HIDE DEF f, c, m
<1>7. V.primed = b /\ V.active = a BY <1>2 DEF UType
<1>8. Z = [V EXCEPT !.primed = B, !.active = A] BY <1>6, <1>7
<1>. HIDE DEF V, a, b
<1>9. Z = [U EXCEPT !.primed = B, !.active = A, !.error = c, !.mail = m]
  BY <1>2, <1>8 DEF UType
<1>. HIDE DEF A, B, Z
<1>10. /\ Z.primed = B /\ Z.active = A /\ Z.error = c /\ Z.setupstat = U.setupstat
       /\ Z.uri = U.uri /\ Z.stall = U.stall /\ Z.enabled = U.enabled
  BY <1>9 DEF UType
<1>. QED BY <1>3, <1>4, <1>5, <1>10 DEF Z

(* A transfer taken off endpoint 0.                                        *)
LEMMA CtrlMarked ==
    ASSUME NEW U \in UType, NEW q \in CtrlQh
    PROVE  LET V == MarkComplete(U, q) IN
           /\ \A d \in CtrlQh : V.error[d] => U.error[d]
           /\ V.stall = U.stall /\ V.enabled = U.enabled
           /\ V.setupstat = U.setupstat /\ V.uri = U.uri
<1>. DEFINE a == [U.active EXCEPT ![q] = FALSE]
            b == [U.primed EXCEPT ![q] = FALSE]
            c == [U.error EXCEPT ![q] = FALSE]
            m == IF q = "cout" THEN Zeroed ELSE U.mail
            V == MarkComplete(U, q)
<1>1. q \in Qh BY DEF Qh, CtrlQh
<1>2. V = [U EXCEPT !.primed = b, !.active = a, !.error = c, !.mail = m] BY DEF MarkComplete
<1>3. \A d \in CtrlQh : c[d] => U.error[d] BY <1>1, U2Fields DEF Qh, CtrlQh
<1>. HIDE DEF a, b, c, m, V
<1>4. /\ V.error = c /\ V.setupstat = U.setupstat /\ V.uri = U.uri /\ V.stall = U.stall
      /\ V.enabled = U.enabled
  BY <1>2 DEF UType
<1>. QED BY <1>3, <1>4 DEF V

(* What is done before the first stage: endpoint 0 is stalled for what the *)
(* device does not know, and left alone for anything else.                 *)
LEMMA BeforeSame ==
    ASSUME NEW U \in UType
    PROVE  LET V == Before(U) IN
           /\ FirstQh(U.setup) # "none" => SameSetup(V, U)
           /\ FirstQh(U.setup) = "none" =>
                /\ V.setupstat = U.setupstat /\ V.uri = U.uri /\ V.enabled = U.enabled
                /\ V.error = U.error /\ CtrlQh \subseteq V.stall
<1>1. ASSUME NEW S
      PROVE  LET V == [U EXCEPT !.stall = S] IN
             /\ V.setupstat = U.setupstat /\ V.uri = U.uri /\ V.enabled = U.enabled
             /\ V.error = U.error /\ V.stall = S /\ V.mail = U.mail
  BY DEF UType
<1>2. CASE U.setup \in {"halt_in", "clear_in", "clear_out"}
  <2>1. FirstQh(U.setup) # "none" BY <1>2 DEF FirstQh, Zeroed
  <2>2. \E S : Before(U) = [U EXCEPT !.stall = S] /\ \A q \in CtrlQh : q \in S <=> q \in U.stall
    <3>1. \A q \in CtrlQh : q # "in" /\ q # "out" BY DEF CtrlQh
    <3>2. Before(U) \in {[U EXCEPT !.stall = U.stall \cup {"in"}],
                         [U EXCEPT !.stall = U.stall \ {"in"}],
                         [U EXCEPT !.stall = U.stall \ {"out"}]}
      BY <1>2, <2>1 DEF Before, SetStall
    <3>. QED BY <3>1, <3>2
  <2>. QED BY <1>1, <2>1, <2>2 DEF SameSetup
<1>3. CASE U.setup \notin {"halt_in", "clear_in", "clear_out"} /\ FirstQh(U.setup) = "none"
  <2>1. Before(U) = [U EXCEPT !.stall = U.stall \cup CtrlQh] BY <1>3 DEF Before, Ep0Stall
  <2>. QED BY <1>1, <1>3, <2>1
<1>4. CASE U.setup \notin {"halt_in", "clear_in", "clear_out"} /\ FirstQh(U.setup) # "none"
  <2>1. Before(U) = U BY <1>4 DEF Before
  <2>. QED BY <1>4, <2>1 DEF SameSetup
<1>. QED BY <1>2, <1>3, <1>4

\* A SETUP packet taken, of a request that begins on half f.
Begins(V, U, f) ==
    /\ ~V.setupstat /\ V.uri = U.uri
    /\ CtrlQh \subseteq U.enabled => CtrlQh \subseteq V.enabled
    /\ \A d \in CtrlQh : V.error[d] => U.error[d]
    /\ IF f = "none" THEN CtrlQh \subseteq V.stall
       ELSE /\ f \in CtrlQh /\ V.primed[f] /\ V.active[f]
            /\ CtrlQh \cap U.stall = {} => CtrlQh \cap V.stall = {}

(* Its first stage is out, or endpoint 0 is stalled.                       *)
LEMMA TakenBegins ==
    ASSUME NEW U \in UType, U.setupstat
    PROVE  Begins(Taken(U), U, FirstQh(U.mail))
<1>. DEFINE W == [U EXCEPT !.setupstat = FALSE, !.setup = U.mail]
            B == Before(W)
            f == FirstQh(U.mail)
            V == Taken(U)
<1>1. V = IF FirstQh(B.setup) = "none" THEN B ELSE Prime(B, FirstQh(B.setup)) BY DEF Taken
<1>2. U.mail \in AllRequests \cup {NoReq, Zeroed} BY U2Fields
<1>3. /\ W \in UType /\ W.setup = U.mail /\ W.setupstat = FALSE /\ W.uri = U.uri
      /\ W.stall = U.stall /\ W.enabled = U.enabled /\ W.error = U.error
  BY <1>2 DEF UType
<1>. HIDE DEF W
<1>4. B \in UType /\ B.setup = U.mail BY <1>3, BeforeType
<1>5. /\ f # "none" => SameSetup(B, W)
      /\ f = "none" => /\ B.setupstat = W.setupstat /\ B.uri = W.uri /\ B.enabled = W.enabled
                       /\ B.error = W.error /\ CtrlQh \subseteq B.stall
  BY <1>3, BeforeSame
<1>6. V = IF f = "none" THEN B ELSE Prime(B, f) BY <1>1, <1>4
<1>7. f \in CtrlQh \cup {"none"} BY DEF FirstQh, CtrlQh
<1>. HIDE DEF B, V, f
<1>8. CASE f = "none" BY <1>3, <1>5, <1>6, <1>8 DEF Begins, V, f
<1>9. CASE f # "none"
  <2>1. f \in CtrlQh /\ V = Prime(B, f) BY <1>6, <1>7, <1>9
  <2>2. /\ V.primed[f] /\ V.active[f] = ~B.setupstat
        /\ \A d \in CtrlQh : V.error[d] => B.error[d]
        /\ V.stall = B.stall /\ V.enabled = B.enabled
        /\ V.setupstat = B.setupstat /\ V.uri = B.uri
    BY <1>4, <2>1, CtrlPrimed
  <2>3. B.setupstat = FALSE /\ B.uri = U.uri BY <1>3, <1>5, <1>9 DEF SameSetup
  <2>4. \A d \in CtrlQh : /\ d \in B.stall <=> d \in U.stall
                          /\ d \in B.enabled <=> d \in U.enabled
                          /\ B.error[d] = U.error[d]
    BY <1>3, <1>5, <1>9 DEF SameSetup
  <2>5. Begins(V, U, f) BY <1>9, <2>1, <2>2, <2>3, <2>4 DEF Begins
  <2>. QED BY <2>5 DEF V, f
<1>. QED BY <1>8, <1>9

\* The story on Erista, and a driver that waits only while it is polled.
ToldU == Told2(u, op, host)
CleanU == Clean2(u, op, host)
DebtU == ToldU /\ (failures = upsets => CleanU)
OpOK == poll.at # "op" => op = NoOp

(* A bus reset handled leaves nothing waiting.                             *)
LEMMA ResetTold ==
    ASSUME NEW U \in UType, NEW o, NEW h, Told2(U, o, h), U.uri
    PROVE  /\ ~BusResetHandled(U).setupstat /\ ~BusResetHandled(U).uri
           /\ Told2(BusResetHandled(U), o, h)
<1>. DEFINE W == [U EXCEPT !.setupstat = FALSE]
            D == DisableEps2(W)
            V == BusResetHandled(U)
<1>1. /\ W \in UType /\ W.setupstat = FALSE /\ W.uri = U.uri /\ W.stall = U.stall
      /\ W.enabled = U.enabled /\ W.error = U.error
  BY DEF UType
<1>2. V = [D EXCEPT !.uri = FALSE] BY DEF BusResetHandled
<1>. HIDE DEF W, V
<1>3. D \in UType /\ SameSetup(D, W) BY <1>1, Disabled2, AfterSame
<1>. HIDE DEF D
<1>4. /\ V.uri = FALSE /\ V.setupstat = D.setupstat /\ V.stall = D.stall
      /\ V.enabled = D.enabled /\ V.error = D.error
  BY <1>2, <1>3 DEF UType
<1>5. V.setupstat = FALSE BY <1>1, <1>3, <1>4 DEF SameSetup
<1>6. \A q \in CtrlQh : /\ q \in V.stall <=> q \in U.stall
                        /\ q \in V.enabled <=> q \in U.enabled
                        /\ V.error[q] = U.error[q]
  BY <1>1, <1>3, <1>4 DEF SameSetup
<1>7. Told2(V, o, h) BY <1>4, <1>5, <1>6 DEF Told2
<1>. QED BY <1>4, <1>5, <1>7 DEF V

(* The driver takes a SETUP packet, and the story goes on.                 *)
LEMMA TakenStory ==
    ASSUME NEW U \in UType, NEW h \in HostType, Told2(U, NoOp, h), ~U.uri
    PROVE  LET o == FirstOp(U) IN
           Told2(Taken(U), o, h) /\ (Clean2(U, NoOp, h) => Clean2(Taken(U), o, h))
<1>. DEFINE o == FirstOp(U)
            V == Taken(U)
            f == FirstQh(U.mail)
<1>1. CASE ~U.setupstat
  <2>1. V = U /\ o = NoOp BY <1>1 DEF Taken, FirstOp
  <2>. HIDE DEF V, o
  <2>. QED BY <2>1 DEF V, o
<1>2. CASE U.setupstat
  <2>1. Begins(V, U, f) BY <1>2, TakenBegins
  <2>2. CtrlQh \subseteq U.enabled /\ (\A q \in CtrlQh : ~U.error[q])
        /\ CtrlQh \cap U.stall = {}
    BY <1>2 DEF Told2
  <2>3. o = IF f # "none" THEN [qh |-> f, last |-> FirstStage(U.mail) = "status_in"] ELSE NoOp
    BY <1>2 DEF FirstOp
  <2>4. f \in CtrlQh \cup {"none"} BY DEF FirstQh, CtrlQh
  <2>5. ASSUME Clean2(U, NoOp, h)
        PROVE  /\ h.req # NoReq /\ U.mail = h.req /\ h.stage = FirstStage(h.req)
               /\ h.req \in AllRequests
    BY <1>2, <2>5 DEF Clean2, HostType
  <2>. HIDE DEF V
  <2>6. CASE f = "none"
    <3>1. o = NoOp BY <2>3, <2>6
    <3>. HIDE DEF o
    <3>2. Told2(V, o, h) BY <2>1, <2>2, <2>6, <3>1 DEF Begins, Told2
    <3>3. Clean2(U, NoOp, h) => h.req = "bad"
      BY <2>5, <2>6 DEF FirstQh, AllRequests, Zeroed
    <3>4. Clean2(U, NoOp, h) => Clean2(V, o, h)
      BY <2>1, <2>5, <2>6, <3>1, <3>3 DEF Begins, Clean2
    <3>. QED BY <3>2, <3>4 DEF V, o
  <2>7. CASE f # "none"
    <3>1. f \in CtrlQh BY <2>4, <2>7
    <3>2. o.qh = f /\ o.last = (FirstStage(U.mail) = "status_in") /\ o # NoOp
      BY <2>3, <2>7 DEF NoOp
    <3>3. Clean2(U, NoOp, h) => h.stage = StageOf(o)
      <4>1. U.mail = "coding" <=> f = "cout" BY DEF FirstQh, Zeroed
      <4>2. U.mail = h.req /\ h.req \in AllRequests /\ f # "none"
              => FirstStage(U.mail) = StageOf(o)
        <5>. HIDE DEF o, f
        <5>. QED BY <3>1, <3>2, <4>1 DEF FirstStage, StageOf, CtrlQh
      <4>. QED BY <2>5, <2>7, <4>2
    <3>. HIDE DEF o, f
    <3>4. Told2(V, o, h) BY <2>1, <2>2, <2>7 DEF Begins, Told2
    <3>5. Clean2(U, NoOp, h) => Clean2(V, o, h)
      BY <2>1, <2>5, <2>7, <3>2, <3>3 DEF Begins, Clean2
    <3>. QED BY <3>4, <3>5 DEF V, o
  <2>. QED BY <2>6, <2>7
<1>. QED BY <1>1, <1>2

(* The driver asks for what happened.                                      *)
LEMMA PollDebtU ==
    ASSUME u \in UType, host \in HostType, OpOK, DebtU, Poll2
    PROVE  DebtU' /\ OpOK'
<1>. DEFINE U == BusResetHandled(u)
            p == IF U.setupstat THEN [port EXCEPT !.dtr = DtrOf(U.mail, @)] ELSE port
<1>1. ~OnX /\ poll = Idle /\ UNCHANGED <<hostVars, soc>> /\ op' = FirstOp(U)
  BY DEF Poll2
<1>2. op = NoOp BY <1>1 DEF OpOK, Idle
<1>3. U \in UType BY ResetType
<1>4. IF FirstOp(U) = NoOp THEN PollPort(x, Taken(U), p)
      ELSE u' = Taken(U) /\ poll' = [at |-> "op", limit |-> 0]
  BY DEF Poll2
<1>5. Told2(u, NoOp, host) /\ (failures = upsets => Clean2(u, NoOp, host))
  BY <1>2 DEF DebtU, ToldU, CleanU
<1>6. Told2(U, NoOp, host) /\ ~U.uri /\ (failures = upsets => Clean2(U, NoOp, host))
  <2>1. CASE u.uri
    <3>1. ~Clean2(u, NoOp, host) BY <2>1 DEF Clean2
    <3>. QED BY <1>5, <2>1, <3>1, ResetTold
  <2>2. CASE ~u.uri
    <3>1. U = u BY <2>2 DEF BusResetHandled
    <3>. QED BY <1>5, <2>2, <3>1
  <2>. QED BY <2>1, <2>2
<1>. HIDE DEF U, p
<1>. DEFINE V == Taken(U)
<1>7. V \in UType BY <1>3, TakenType
<1>8. Told2(V, op', host) /\ (failures = upsets => Clean2(V, op', host))
  BY <1>1, <1>3, <1>6, TakenStory
<1>. HIDE DEF V
<1>9. Told2(u', op', host) /\ (Clean2(V, op', host) => Clean2(u', op', host)) /\ OpOK'
  <2>1. CASE FirstOp(U) = NoOp
    <3>1. PollPort(x, V, p) BY <1>4, <2>1 DEF V
    <3>2. SameSetup(u', V) BY <1>1, <1>7, <3>1, Turn2
    <3>3. op' = NoOp BY <1>1, <2>1
    <3>. QED BY <1>8, <3>2, <3>3, SameStory2 DEF OpOK
  <2>2. CASE FirstOp(U) # NoOp
    <3>1. u' = V /\ poll'.at = "op" BY <1>4, <2>2 DEF V
    <3>. QED BY <1>8, <3>1 DEF OpOK
  <2>. QED BY <2>1, <2>2
<1>. QED BY <1>1, <1>8, <1>9 DEF DebtU, ToldU, CleanU, hostVars

(* A stage that is waited for ends.                                        *)
LEMMA OpDebtU ==
    ASSUME u \in UType, ~OnX, OpQh, DebtU, Op2
    PROVE  DebtU' /\ OpOK'
<1>1. poll.at = "op" /\ UNCHANGED <<hostVars, soc>> BY DEF Op2
<1>2. PICK end \in {OpDone, OpTimesOut} :
        /\ end.happens
        /\ op' = end.op
        /\ IF end.op = NoOp THEN PollPort(x, end.u, port)
           ELSE u' = end.u /\ UNCHANGED <<x, port, poll>>
  BY DEF Op2
<1>3. op # NoOp /\ op.qh \in CtrlQh /\ op.qh \in Qh BY DEF OpQh, NoOp, CtrlQh, Qh
<1>4. /\ CtrlQh \subseteq u.enabled /\ (\A q \in CtrlQh : ~u.error[q]) /\ CtrlQh \cap u.stall = {}
      /\ u.uri /\ host.req # NoReq => u.setupstat
  BY <1>3 DEF DebtU, ToldU, Told2
<1>5. EpStatus(u, op.qh) = IF u.active[op.qh] THEN "active"
                           ELSE IF u.primed[op.qh] THEN "idle" ELSE "no_config"
  BY <1>3, <1>4 DEF EpStatus
<1>6. u.active[op.qh] \in BOOLEAN BY <1>3, U2Fields
<1>7. ASSUME end.op = NoOp, Told2(end.u, NoOp, host), failures = upsets => Clean2(end.u, NoOp, host)
      PROVE  DebtU' /\ OpOK'
  <2>1. PollPort(x, end.u, port) /\ op' = NoOp BY <1>2, <1>7
  <2>2. end.u \in UType BY <1>2, StageEnds
  <2>3. SameSetup(u', end.u) BY <2>1, <2>2, Turn2
  <2>4. /\ Told2(u', op', host) /\ (failures = upsets => Clean2(u', op', host))
    BY <1>7, <2>1, <2>3, SameStory2
  <2>. QED BY <1>1, <2>1, <2>4 DEF DebtU, ToldU, CleanU, OpOK, hostVars
<1>8. CASE end = OpDone
  <2>. DEFINE q == IF op.qh = "cin" THEN "cout" ELSE "cin"
  <2>1. ~u.active[op.qh]
    <3>1. EpStatus(u, op.qh) # "active" BY <1>2, <1>8 DEF OpDone
    <3>. QED BY <1>5, <3>1
  <2>2. CASE EpStatus(u, op.qh) # "idle"
    <3>1. end.u = u /\ end.op = NoOp BY <1>8, <2>2 DEF OpDone
    <3>2. ~u.primed[op.qh] BY <1>5, <2>1, <2>2
    <3>3. Told2(u, NoOp, host) BY <1>4 DEF Told2
    <3>4. CleanU => Clean2(u, NoOp, host) BY <1>3, <2>1, <3>2 DEF CleanU, Clean2, Through
    <3>. QED BY <1>7, <3>1, <3>3, <3>4 DEF DebtU
  <2>3. CASE EpStatus(u, op.qh) = "idle" /\ op.last
    <3>1. end.u = After(u) /\ end.op = NoOp BY <1>8, <2>3 DEF OpDone
    <3>2. SameSetup(After(u), u) BY AfterSame
    <3>3. Told2(u, NoOp, host) BY <1>4 DEF Told2
    <3>4. CleanU => Clean2(u, NoOp, host) BY <1>3, <2>1, <2>3 DEF CleanU, Clean2, Through
    <3>5. Told2(end.u, NoOp, host) /\ (CleanU => Clean2(end.u, NoOp, host))
      BY <3>1, <3>2, <3>3, <3>4, SameStory2
    <3>. QED BY <1>7, <3>1, <3>5 DEF DebtU
  <2>4. CASE EpStatus(u, op.qh) = "idle" /\ ~op.last
    <3>1. end.u = Prime(u, q) /\ end.op = [qh |-> q, last |-> TRUE] BY <1>8, <2>4 DEF OpDone
    <3>2. q \in CtrlQh BY DEF CtrlQh
    <3>3. end.op # NoOp
      <4>1. q # "none" OBVIOUS
      <4>. HIDE DEF q
      <4>. QED BY <3>1, <4>1 DEF NoOp
    <3>4. u' = Prime(u, q) /\ op' = [qh |-> q, last |-> TRUE] /\ poll' = poll
      BY <1>2, <3>1, <3>3
    <3>5. q = "cin" <=> op.qh # "cin" BY <1>3 DEF CtrlQh
    <3>. HIDE DEF q
    <3>6. /\ u'.primed[q] /\ u'.active[q] = ~u.setupstat
          /\ \A d \in CtrlQh : u'.error[d] => u.error[d]
          /\ u'.stall = u.stall /\ u'.enabled = u.enabled
          /\ u'.setupstat = u.setupstat /\ u'.uri = u.uri
      BY <3>2, <3>4, CtrlPrimed
    <3>7. op'.qh = q /\ op'.last = TRUE /\ op' # NoOp BY <1>2, <3>3, <3>4
    <3>8. Told2(u', op', host) BY <1>4, <3>6 DEF Told2
    <3>9. CleanU => Clean2(u', op', host)
      <4>1. ASSUME CleanU PROVE host.req # NoReq /\ ~u.setupstat /\ ~u.uri
                                /\ host.stage = StatusOf(op.qh)
        BY <1>3, <2>1, <2>4, <4>1 DEF CleanU, Clean2, Through
      <4>2. StageOf(op') = StatusOf(op.qh)
        BY <3>2, <3>5, <3>7 DEF StageOf, StatusOf, CtrlQh
      <4>. QED BY <3>6, <3>7, <4>1, <4>2 DEF Clean2
    <3>10. OpOK' BY <1>1, <3>4 DEF OpOK
    <3>. QED BY <1>1, <3>8, <3>9, <3>10 DEF DebtU, ToldU, CleanU, hostVars
  <2>. QED BY <2>2, <2>3, <2>4
<1>9. CASE end = OpTimesOut
  <2>1. end.u = MarkComplete(u, op.qh) /\ end.op = NoOp /\ ~PcIsAtIt
        /\ EpStatus(u, op.qh) = "active"
    BY <1>2, <1>9 DEF OpTimesOut
  <2>2. u.active[op.qh] BY <1>5, <2>1
  <2>3. ~CleanU
    <3>1. host.req # NoReq => host.stage # StageOf(op)
      BY <1>3, <2>1 DEF PcIsAtIt, StageOf, CtrlQh
    <3>. QED BY <1>3, <2>2, <3>1 DEF CleanU, Clean2, Through
  <2>4. /\ \A d \in CtrlQh : end.u.error[d] => u.error[d]
        /\ end.u.stall = u.stall /\ end.u.enabled = u.enabled
        /\ end.u.setupstat = u.setupstat /\ end.u.uri = u.uri
    BY <1>3, <2>1, CtrlMarked
  <2>5. Told2(end.u, NoOp, host) BY <1>4, <2>4 DEF Told2
  <2>. QED BY <1>7, <2>1, <2>3, <2>5 DEF DebtU
<1>. QED BY <1>2, <1>8, <1>9

(* A request begins: its SETUP packet is in the queue head, whatever the   *)
(* driver does, and no stage of endpoint 0 is out any more.                *)
LEMMA BeginDebtU ==
    ASSUME u \in UType, host \in HostType, op = NoOp \/ OpQh, ToldU, NEW r \in AllRequests, UBegin(r)
    PROVE  ToldU' /\ (CleanU => CleanU')
<1>. DEFINE a == [q \in Qh |-> q \notin CtrlQh /\ u.active[q]]
            s == u.stall \ CtrlQh
<1>1. u' = [u EXCEPT !.mail = r, !.setupstat = TRUE, !.stall = s, !.active = a]
  BY DEF UBegin
<1>2. host.req = NoReq /\ host'.req = r /\ host'.stage = FirstStage(r) /\ r # NoReq /\ op' = op
  BY DEF UBegin, CanBegin, Begun, HostType, AllRequests, NoReq
<1>3. CtrlQh \cap s = {} /\ \A q \in CtrlQh : ~a[q] BY DEF CtrlQh, Qh
<1>. HIDE DEF a, s
<1>4. /\ u'.mail = r /\ u'.setupstat = TRUE /\ u'.stall = s /\ u'.active = a
      /\ u'.uri = u.uri /\ u'.enabled = u.enabled /\ u'.error = u.error
  BY <1>1 DEF UType
<1>5. ToldU' BY <1>2, <1>3, <1>4 DEF ToldU, Told2
<1>6. CleanU => CleanU' BY <1>2, <1>3, <1>4 DEF CleanU, Clean2, Through, OpQh
<1>. QED BY <1>5, <1>6

(* A stage the PC wants runs.                                              *)
LEMMA StageDebtU ==
    ASSUME u \in UType, host \in HostType, OpQh, ToldU, UStage
    PROVE  ToldU' /\ (CleanU => CleanU')
<1>. DEFINE a == [u.active EXCEPT ![op.qh] = FALSE]
<1>1. /\ op # NoOp /\ u.active[op.qh] /\ PcIsAtIt /\ host' = Advanced(host) /\ op' = op
      /\ u' = [u EXCEPT !.active = a]
  BY DEF UStage
<1>2. op.qh \in Qh /\ op.qh \in CtrlQh BY DEF OpQh, Qh, CtrlQh
<1>3. ~a[op.qh] BY <1>2, U2Fields
<1>. HIDE DEF a
<1>4. /\ u'.active = a /\ u'.primed = u.primed /\ u'.setupstat = u.setupstat
      /\ u'.stall = u.stall /\ u'.uri = u.uri /\ u'.enabled = u.enabled /\ u'.error = u.error
  BY <1>1 DEF UType
<1>5. host.req # NoReq /\ host.stage = StageOf(op)
  BY <1>1, <1>2 DEF PcIsAtIt, StageOf, CtrlQh
<1>6. ToldU' BY <1>1, <1>4, <1>5 DEF ToldU, Told2
<1>7. ASSUME CleanU PROVE CleanU'
  <2>1. ~u.uri /\ ~u.setupstat /\ u.primed[op.qh] BY <1>1, <1>5, <1>7 DEF CleanU, Clean2, Through
  <2>2. CASE op.last
    <3>1. NextStage(host.stage) = "over" BY <1>2, <1>5, <2>2 DEF StageOf, NextStage, CtrlQh
    <3>2. host'.req = NoReq BY <1>1, <3>1 DEF Advanced, Served, HostType
    <3>. QED BY <1>1, <1>3, <1>4, <2>1, <2>2, <3>2 DEF CleanU, Clean2, Through
  <2>3. CASE ~op.last
    <3>1. NextStage(host.stage) = StatusOf(op.qh)
      BY <1>2, <1>5, <2>3 DEF StageOf, NextStage, StatusOf, CtrlQh
    <3>2. StatusOf(op.qh) # "over" BY DEF StatusOf
    <3>3. host'.req = host.req /\ host'.stage = StatusOf(op.qh)
      BY <1>1, <3>1, <3>2 DEF Advanced, HostType
    <3>. QED BY <1>1, <1>3, <1>4, <1>5, <2>1, <2>3, <3>3 DEF CleanU, Clean2
  <2>. QED BY <2>2, <2>3
<1>. QED BY <1>6, <1>7

(* Bulk transfers tell nothing of endpoint 0.                              *)
LEMMA MovedSame ==
    ASSUME u \in UType, NEW q \in BulkEp,
           \/ u' = [u EXCEPT !.active[q] = FALSE]
           \/ u' = [u EXCEPT !.active[q] = FALSE, !.error[q] = TRUE]
    PROVE  SameSetup(u', u) /\ SameRuns(u', u)
<1>. DEFINE a == [u.active EXCEPT ![q] = FALSE]
            c == [u.error EXCEPT ![q] = TRUE]
<1>1. q \notin CtrlQh /\ q \in Qh BY DEF BulkEp, CtrlQh, Qh
<1>2. \A d \in CtrlQh : a[d] = u.active[d] /\ c[d] = u.error[d]
  BY <1>1, U2Fields DEF CtrlQh, Qh
<1>3. u' = [u EXCEPT !.active = a] \/ u' = [u EXCEPT !.active = a, !.error = c] OBVIOUS
<1>. HIDE DEF a, c
<1>4. /\ u'.active = a /\ u'.primed = u.primed /\ u'.setupstat = u.setupstat
      /\ u'.stall = u.stall /\ u'.uri = u.uri /\ u'.enabled = u.enabled
      /\ u'.mail = u.mail /\ u'.error \in {u.error, c}
  BY <1>3 DEF UType
<1>. QED BY <1>2, <1>4 DEF SameSetup, SameRuns

(* Every step of controller and PC on Erista keeps the books.              *)
LEMMA LineDebtU ==
    ASSUME Line, ~OnX, u \in UType, host \in HostType, pc \in Pcs,
           op = NoOp \/ OpQh, Counted, DebtU
    PROVE  Counted' /\ DebtU'
<1>0. ToldU BY DEF DebtU
<1>1. ASSUME ToldU', CleanU => CleanU', UNCHANGED <<upsets, failures>>
      PROVE  Counted' /\ DebtU'
  BY <1>1 DEF Counted, DebtU
<1>2. ASSUME ToldU', Upset, failures' = failures
      PROVE  Counted' /\ DebtU'
  BY <1>2, UpsetCounts DEF DebtU
<1>3. \A b \in BOOLEAN : Fresh(b).req = NoReq BY DEF Fresh
<1>4. Dropped(host).req = NoReq BY DEF Dropped, HostType
<1>5. CASE UStage
  <2>1. UNCHANGED <<upsets, failures>> /\ op # NoOp BY <1>5 DEF UStage
  <2>. QED BY <1>0, <1>1, <1>5, <2>1, StageDebtU
<1>6. CASE UStalls
  <2>1. /\ CtrlQh \subseteq u.stall /\ host.req # NoReq /\ host' = Dropped(host)
        /\ failures' = (IF host.req = "bad" THEN failures ELSE failures + 1)
        /\ UNCHANGED <<upsets, u, op>>
    BY <1>6 DEF UStalls, Stalled, usb2Vars
  <2>2. op = NoOp /\ ~u.setupstat /\ ~u.uri BY <1>0, <2>1 DEF ToldU, Told2, CtrlQh
  <2>3. ToldU' /\ CleanU' BY <1>0, <1>4, <2>1, <2>2 DEF ToldU, Told2, CleanU, Clean2, Through
  <2>4. CleanU => host.req = "bad" BY <2>1, <2>2 DEF CleanU, Clean2
  <2>5. failures' <= upsets' /\ failures' \in Nat BY <2>1, <2>4 DEF DebtU, Counted
  <2>. QED BY <2>1, <2>3, <2>5 DEF Counted, DebtU
<1>7. CASE UReset /\ Upset
  <2>1. host'.req = NoReq /\ u' = [u EXCEPT !.uri = TRUE] /\ op' = op /\ failures' = failures
    BY <1>3, <1>7 DEF UReset
  <2>2. /\ u'.stall = u.stall /\ u'.enabled = u.enabled /\ u'.error = u.error
        /\ u'.setupstat = u.setupstat
    BY <2>1 DEF UType
  <2>3. ToldU' BY <1>0, <2>1, <2>2 DEF ToldU, Told2
  <2>. QED BY <1>2, <1>7, <2>1, <2>3
<1>8. CASE \/ UUnplug
           \/ GiveUp /\ UNCHANGED usb2Vars
  <2>1. host'.req = NoReq /\ UNCHANGED <<u, op>> /\ failures' = failures /\ Upset
    BY <1>3, <1>4, <1>8 DEF UUnplug, GiveUp, usb2Vars
  <2>2. ToldU' BY <1>0, <2>1 DEF ToldU, Told2
  <2>. QED BY <1>2, <2>1, <2>2
<1>9. CASE Waits
  <2>1. /\ host.req # NoReq /\ ~u.setupstat /\ op = NoOp /\ ~(CtrlQh \subseteq u.stall)
        /\ host' = Dropped(host) /\ failures' = failures + 1
        /\ UNCHANGED <<upsets, u, op>>
    BY <1>9 DEF Waits, UNothingComes, TimedOut, usb2Vars
  <2>2. ~CleanU BY <2>1 DEF CleanU, Clean2
  <2>3. ~u.uri BY <1>0, <2>1 DEF ToldU, Told2
  <2>4. ToldU' /\ CleanU' BY <1>0, <1>4, <2>1, <2>3 DEF ToldU, Told2, CleanU, Clean2, Through
  <2>. QED BY <2>1, <2>2, <2>4 DEF Counted, DebtU
<1>10. ASSUME NEW q \in BulkEp, UBulk(q) \/ UBulkError(q) PROVE Counted' /\ DebtU'
  <2>1. UNCHANGED <<host, op, failures>> BY <1>10 DEF UBulk, UBulkError, hostVars
  <2>2. SameSetup(u', u) /\ SameRuns(u', u) BY <1>10, MovedSame DEF UBulk, UBulkError
  <2>3. ToldU' /\ (CleanU => CleanU')
    BY <1>0, <2>1, <2>2, SameStory2 DEF ToldU, CleanU, OpQh
  <2>4. Upset \/ upsets' = upsets BY <1>10 DEF UBulk, UBulkError, hostVars
  <2>. QED BY <1>1, <1>2, <2>1, <2>3, <2>4
<1>11. ASSUME NEW r \in pc.asks, UBegin(r) PROVE Counted' /\ DebtU'
  <2>1. r \in AllRequests BY AskedIsKnown
  <2>2. UNCHANGED <<upsets, failures>> BY <1>11 DEF UBegin
  <2>. QED BY <1>0, <1>1, <1>11, <2>1, <2>2, BeginDebtU
<1>. QED BY <1>5, <1>6, <1>7, <1>8, <1>9, <1>10, <1>11
         DEF Line, Answers, Plugs, Upsets, Moves, Asks, UPlug, UBusReset, BulkEp

\* The books of a port that is on.
DebtInv ==
    /\ Counted /\ OpOK
    /\ port.state \notin Off => IF OnX THEN DebtX ELSE DebtU

(* Nothing was upset at the start.                                         *)
LEMMA InitDebt == Init => DebtInv
  BY DEF Init, HostInit, Port, Off, DebtInv, Counted, OpOK, Idle

(* A controller that has just come up owes nothing on Erista either.       *)
LEMMA FreshDebtU ==
    ASSUME u' = UInit, op' = NoOp, host'.req = NoReq
    PROVE  DebtU'
  BY DEF DebtU, ToldU, CleanU, Told2, Clean2, Through, UInit, CtrlQh, Qh

(* A port brought up.                                                      *)
LEMMA UpDebt ==
    ASSUME DebtInv, NEW ok \in BOOLEAN, BroughtUp(ok)
    PROVE  DebtInv'
<1>1. /\ x' = XInit /\ ev' = EventRingInit /\ u' = UInit /\ op' = NoOp
      /\ host' = Fresh(FALSE) /\ UNCHANGED <<upsets, failures, soc>>
  BY DEF BroughtUp
<1>2. host'.req = NoReq BY <1>1 DEF Fresh
<1>3. DebtX' /\ DebtU' BY <1>1, <1>2, FreshDebtX, FreshDebtU
<1>. QED BY <1>1, <1>3 DEF DebtInv, Counted, OpOK, OnX

(* Every step keeps the books: a failure has an upset of its own to pay    *)
(* for it.                                                                 *)
LEMMA StepDebt == DebtInv /\ RingInv /\ [Next]_vars => DebtInv'
<1>. SUFFICES ASSUME DebtInv, RingInv, [Next]_vars PROVE DebtInv'
  OBVIOUS
<1>0. host \in HostType /\ u \in UType /\ pc \in Pcs
      /\ (OnX /\ port.state \notin Off => BothEnds)
  BY DEF RingInv
<1>1. ASSUME NEW ok \in BOOLEAN, Start(ok) PROVE DebtInv' BY <1>1, UpDebt DEF Start
<1>2. CASE PollLost BY <1>2, UpDebt DEF PollLost
<1>3. CASE Stop
  <2>1. port' = [port EXCEPT !.state = "OFF"] /\ UNCHANGED <<op, poll, upsets, failures>>
    BY <1>3 DEF Stop
  <2>. QED BY <1>3, <2>1 DEF DebtInv, Counted, OpOK, Off, Stop
<1>4. CASE PollX \/ Event
  <2>1. /\ port.state \notin Off /\ OnX /\ UNCHANGED <<hostVars, op, soc>> /\ op = NoOp
    BY <1>4 DEF PollX, Event, RingInv, PollOK, DebtInv, OpOK, Idle
  <2>2. DebtX /\ BothEnds BY <1>0, <2>1 DEF DebtInv
  <2>3. DebtX' BY <1>4, <2>1, <2>2, PollDebtX, EventDebtX
  <2>. QED BY <2>1, <2>3 DEF DebtInv, Counted, OpOK, OnX, hostVars
<1>5. CASE Poll2
  <2>1. port.state \notin Off /\ ~OnX /\ UNCHANGED <<hostVars, soc>> BY <1>5 DEF Poll2
  <2>2. DebtU' /\ OpOK' BY <1>0, <1>5, <2>1, PollDebtU DEF DebtInv
  <2>. QED BY <2>1, <2>2 DEF DebtInv, Counted, OnX, hostVars
<1>6. CASE Op2
  <2>1. port.state \notin Off /\ ~OnX /\ UNCHANGED <<hostVars, soc>> /\ OpQh
    BY <1>6 DEF Op2, RingInv, PollOK, OpQh
  <2>2. DebtU' /\ OpOK' BY <1>0, <1>6, <2>1, OpDebtU DEF DebtInv
  <2>. QED BY <2>1, <2>2 DEF DebtInv, Counted, OnX, hostVars
<1>7. CASE Send \/ UNCHANGED vars
  <2>1. UNCHANGED <<hostVars, xusbVars, usb2Vars, soc, poll>>
        /\ (port'.state \notin Off => port.state \notin Off)
    BY <1>7 DEF Send, vars, Off
  <2>2. UNCHANGED <<host, upsets, failures, x, ev, u, op, soc, poll>>
    BY <2>1 DEF hostVars, xusbVars, usb2Vars
  <2>3. (DebtX => DebtX') /\ (DebtU => DebtU')
    BY <2>2 DEF DebtX, ToldX, CleanX, DebtU, ToldU, CleanU
  <2>. QED BY <2>1, <2>2, <2>3 DEF DebtInv, Counted, OpOK, OnX
<1>8. CASE Line
  <2>1. port.state \notin Off /\ UNCHANGED <<soc, port, poll>> BY <1>8 DEF Line
  <2>2. CASE OnX
    <3>1. op' = op BY <1>0, <1>8, <2>2, LineOnX
    <3>2. Counted' /\ DebtX' BY <1>0, <1>8, <2>1, <2>2, LineDebtX DEF DebtInv
    <3>. QED BY <2>1, <2>2, <3>1, <3>2 DEF DebtInv, OpOK, OnX
  <2>3. CASE ~OnX
    <3>1. op' = op BY <1>0, <1>8, <2>3, LineOnU
    <3>2. op = NoOp \/ OpQh BY DEF RingInv, PollOK, DebtInv, OpOK, OpQh
    <3>3. Counted' /\ DebtU' BY <1>0, <1>8, <2>1, <2>3, <3>2, LineDebtU DEF DebtInv
    <3>. QED BY <2>1, <2>3, <3>1, <3>3 DEF DebtInv, OpOK, OnX
  <2>. QED BY <2>2, <2>3
<1>. QED BY <1>1, <1>2, <1>3, <1>4, <1>5, <1>6, <1>7, <1>8 DEF Next, Bpmp, Console

(* Whatever a PC asks for and whatever is upset, in any number and order:  *)
(* a request that is not served, or is stalled, is one that a transfer     *)
(* given up, a bus reset, an unplugging or a transfer in error has cost,   *)
(* and none of these costs two.                                            *)
THEOREM FailuresHaveCauses == Spec => []FailuresAreCaused
<1>1. Init => RingInv /\ IInv /\ DebtInv BY InitRing, InitInv, InitDebt
<1>2. RingInv /\ IInv /\ DebtInv /\ [Next]_vars => (RingInv /\ IInv /\ DebtInv)'
  BY StepRing, StepInv, StepDebt
<1>3. RingInv /\ IInv /\ DebtInv => FailuresAreCaused
  BY DEF DebtInv, Counted, FailuresAreCaused
<1>. QED BY <1>1, <1>2, <1>3, PTL DEF Spec
=============================================================================
