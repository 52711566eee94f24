-------------------------------- MODULE Usb2 --------------------------------
(***************************************************************************)
(* gui/usbser_usb2.c: Erista's device controller under the USB serial      *)
(* port, with the controller itself and the PC.                            *)
(*                                                                         *)
(* Every endpoint half has one transfer descriptor, primed and, on the     *)
(* control endpoint, waited for: while it waits the driver does nothing    *)
(* else, and the PC goes on.  A SETUP packet lands in the queue head of    *)
(* the control OUT half whatever the driver is doing, and takes what was   *)
(* primed on endpoint 0 off again.                                         *)
(*                                                                         *)
(* The wait (SYNC_TRIES, a second) outlasts a PC that is working on the    *)
(* stage, which takes microseconds: it runs out only when the PC is not.   *)
(***************************************************************************)
EXTENDS UsbHost, Sequences

VARIABLES u,    \* the driver's struct u, the queue heads and the registers
          op    \* the synchronous transfer that is being waited for

usb2Vars == <<u, op>>

Qh == {"cout", "cin", "out", "in"}
CtrlQh == {"cout", "cin"}
NoOp == [qh |-> "none", last |-> TRUE]

\* mail is the SETUP packet in queue head 0, zeroed with it.
Zeroed == "zeroed"

UInit == [setup |-> NoReq, configured |-> FALSE, rxq |-> FALSE,
          primed |-> [q \in Qh |-> FALSE],
          active |-> [q \in Qh |-> FALSE],
          error  |-> [q \in Qh |-> FALSE],
          stall |-> {}, enabled |-> CtrlQh,
          mail |-> Zeroed, setupstat |-> FALSE, uri |-> FALSE]

\* _ep_status: what the registers and the queue head say of a half.
EpStatus(U, q) ==
    IF q \in U.stall THEN "stalled"
    ELSE IF q \notin U.enabled THEN "disabled"
    ELSE IF U.error[q] THEN "error"
    ELSE IF U.active[q] THEN "active"
    ELSE IF U.primed[q] THEN "idle" ELSE "no_config"

\* Flush, then the descriptor and the queue head zeroed, the SETUP packet
\* in queue head 0 with them.
MarkComplete(U, q) ==
    [U EXCEPT !.primed[q] = FALSE, !.active[q] = FALSE, !.error[q] = FALSE,
              !.mail = IF q = "cout" THEN Zeroed ELSE @]

\* One transfer primed.  The controller takes none on endpoint 0 while a
\* SETUP packet waits there.
Prime(U, q) ==
    [MarkComplete(U, q) EXCEPT
        !.primed[q] = TRUE,
        !.active[q] = ~(q \in CtrlQh /\ U.setupstat)]

\* A bulk half set up: its stall cleared, nothing primed.
EpCtrlInit(U, q) ==
    [U EXCEPT !.primed[q] = FALSE, !.active[q] = FALSE, !.error[q] = FALSE,
              !.stall = @ \ {q}, !.enabled = @ \cup {q}]

DisableEps2(U) ==
    [U EXCEPT !.active = [q \in Qh |-> FALSE],
              !.stall = @ \ {"out", "in"},
              !.enabled = @ \ {"out", "in"},
              !.configured = FALSE, !.rxq = FALSE]

\* Both halves of endpoint 0 together.
Ep0Stall(U) == [U EXCEPT !.stall = @ \cup CtrlQh]

SetStall(U, q, stall) ==
    [U EXCEPT !.stall = IF stall THEN @ \cup {q} ELSE @ \ {q}]

\* Where a request begins: the half it primes and what it does before that.
FirstQh(r) == CASE r = "coding"         -> "cout"
                [] r \in {"bad", Zeroed} -> "none"
                [] OTHER                 -> "cin"
Before(U) ==
    CASE U.setup = "halt_in"   -> SetStall(U, "in", TRUE)
      [] U.setup = "clear_in"  -> SetStall(U, "in", FALSE)
      [] U.setup = "clear_out" -> SetStall(U, "out", FALSE)
      [] FirstQh(U.setup) = "none" -> Ep0Stall(U)
      [] OTHER -> U

\* What a request does once its status stage is over.
After(U) ==
    CASE U.setup = "conf0" -> DisableEps2(U)
      [] U.setup = "conf1" ->
           [EpCtrlInit(EpCtrlInit(U, "out"), "in") EXCEPT
               !.rxq = FALSE, !.configured = TRUE]
      [] OTHER -> U

(* ---- the driver ---- *)

\* A bus reset seen by _poll: what waits is cleared, endpoints go off.
BusResetHandled(U) ==
    IF U.uri
    THEN [DisableEps2([U EXCEPT !.setupstat = FALSE]) EXCEPT !.uri = FALSE]
    ELSE U

\* The SETUP packet taken, if one waits, and its first stage primed.
Taken(U) ==
    IF ~U.setupstat THEN U
    ELSE LET V == Before([U EXCEPT !.setupstat = FALSE, !.setup = U.mail])
         IN  IF FirstQh(V.setup) = "none" THEN V ELSE Prime(V, FirstQh(V.setup))
FirstOp(U) ==
    IF U.setupstat /\ FirstQh(U.mail) # "none"
    THEN [qh |-> FirstQh(U.mail), last |-> FirstStage(U.mail) = "status_in"]
    ELSE NoOp

\* The PC works on the stage that is primed.
PcIsAtIt ==
    /\ host.req # NoReq
    /\ host.stage = CASE op.qh = "cin" /\ ~op.last -> "data_in"
                      [] op.qh = "cin" /\ op.last  -> "status_in"
                      [] op.qh = "cout" /\ ~op.last -> "data_out"
                      [] OTHER -> "status_out"

\* The transfer waited for is off the endpoint: done, or taken off by a new
\* SETUP packet, which looks the same.  After data comes the status stage.
OpDone ==
    LET ok == EpStatus(u, op.qh) = "idle"
        q  == IF op.qh = "cin" THEN "cout" ELSE "cin"
    IN  [happens |-> EpStatus(u, op.qh) # "active",
         u  |-> IF ~ok THEN u ELSE IF op.last THEN After(u) ELSE Prime(u, q),
         op |-> IF ok /\ ~op.last THEN [qh |-> q, last |-> TRUE] ELSE NoOp]

\* It never comes: the transfer is taken off and the request forgotten.
OpTimesOut ==
    [happens |-> EpStatus(u, op.qh) = "active" /\ ~PcIsAtIt,
     u |-> MarkComplete(u, op.qh), op |-> NoOp]

(* ---- what usbser.c asks of the driver ---- *)

UTxIdle(U) == EpStatus(U, "in") # "active"
URxReady(U) == U.rxq /\ EpStatus(U, "out") = "idle"
URxQueued(U) == IF U.rxq THEN U ELSE [Prime(U, "out") EXCEPT !.rxq = TRUE]

(* ---- the controller, with the PC at its other end ---- *)

\* A SETUP packet: endpoint 0's stalls and whatever was primed there go.
UBegin(r) ==
    /\ CanBegin(r)
    /\ host' = Begun(r)
    /\ u' = [u EXCEPT !.mail = r, !.setupstat = TRUE,
                      !.stall = @ \ CtrlQh,
                      !.active = [q \in Qh |-> q \notin CtrlQh /\ @[q]]]
    /\ UNCHANGED <<pc, upsets, failures, op>>

\* A primed stage the PC wants runs.
UStage ==
    /\ op # NoOp /\ u.active[op.qh] /\ PcIsAtIt
    /\ op.qh \notin u.stall
    /\ host' = Advanced(host)
    /\ u' = [u EXCEPT !.active[op.qh] = FALSE]
    /\ UNCHANGED <<pc, upsets, failures, op>>

\* Endpoint 0 stalled: the PC's request ends in a STALL.
UStalls ==
    /\ CtrlQh \subseteq u.stall /\ host.req # NoReq
    /\ Stalled
    /\ UNCHANGED <<pc, upsets, usb2Vars>>

UBulk(q) ==
    /\ EpStatus(u, q) = "active"
    /\ host.here /\ host.configured /\ host.dtr /\ host.req = NoReq
    /\ u' = [u EXCEPT !.active[q] = FALSE]
    /\ UNCHANGED <<hostVars, op>>

\* A transfer that ends in an error.
UBulkError(q) ==
    /\ EpStatus(u, q) = "active"
    /\ host.here /\ host.configured /\ host.dtr /\ host.req = NoReq
    /\ u' = [u EXCEPT !.active[q] = FALSE, !.error[q] = TRUE]
    /\ Upset
    /\ UNCHANGED <<pc, host, failures, op>>

\* Off the cable nothing reaches the controller; a PC that finds the device
\* resets the bus.
UUnplug == /\ host.here
           /\ host' = Fresh(FALSE)
           /\ Upset
           /\ UNCHANGED <<pc, failures, usb2Vars>>
UReset ==
    /\ host' = Fresh(TRUE)
    /\ u' = [u EXCEPT !.uri = TRUE]
    /\ UNCHANGED <<pc, failures, op>>
UPlug == ~host.here /\ UReset /\ Upset
UBusReset == host.here /\ UReset /\ Upset

\* Nothing on its way answers the PC's request any more: it times out.
UNothingComes == ~u.setupstat /\ op = NoOp /\ ~(CtrlQh \subseteq u.stall)
=============================================================================
