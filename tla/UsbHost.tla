------------------------------ MODULE UsbHost ------------------------------
(***************************************************************************)
(* The other end of the USB serial port: the PC, as far as gui/usbser.c    *)
(* and its two device controller drivers can tell.  External: its rules    *)
(* are read off the requests the drivers answer.  It runs one control      *)
(* transfer at a time, gives one up when it loses patience, resets the     *)
(* bus, and may be pulled off the cable at any moment.                     *)
(*                                                                         *)
(* Wording of requests is left out; a request is its name:                 *)
(*   addr, conf1, conf0   SET_ADDRESS, SET_CONFIGURATION 1 and 0           *)
(*   dtr1, dtr0           SET_CONTROL_LINE_STATE with and without DTR      *)
(*   desc                 any request with a data stage to the PC          *)
(*   coding               SET_LINE_CODING, a data stage from the PC        *)
(*   halt_in, clear_in, clear_out                                          *)
(*                        ENDPOINT_HALT set or cleared on a bulk endpoint  *)
(*   bad                  whatever the device does not know                *)
(***************************************************************************)
EXTENDS Integers, FiniteSets

CONSTANT Pcs   \* the PCs there may be: asks, the requests one makes, and
               \* upsets, how often all that happens which upsets a session

AllRequests == {"addr", "conf1", "conf0", "dtr1", "dtr0", "desc", "coding",
                "halt_in", "clear_in", "clear_out", "bad"}
ASSUME PcsAssumption ==
    \A p \in Pcs : p.asks \subseteq AllRequests /\ p.upsets \in Nat

VARIABLES pc,        \* which of them it is; never changes
          host,      \* what it knows of the device, and its request
          upsets,    \* plugs and unplugs, bus resets, transfers given up and
                     \* transfers in error, so far
          failures   \* requests of ours the device did not serve

hostVars == <<pc, host, upsets, failures>>

NoReq == "none"

\* The stages a request goes through after its SETUP packet.
FirstStage(r) == CASE r = "desc"   -> "data_in"
                   [] r = "coding" -> "data_out"
                   [] OTHER        -> "status_in"
NextStage(s) == CASE s = "data_in"  -> "status_out"
                  [] s = "data_out" -> "status_in"
                  [] OTHER          -> "over"

\* The PC as it begins with a device it has just found.
Fresh(here) == [here |-> here, addressed |-> FALSE, configured |-> FALSE,
                dtr |-> FALSE, req |-> NoReq, stage |-> "over"]

HostInit == /\ pc \in Pcs
            /\ host = Fresh(FALSE)
            /\ upsets = 0 /\ failures = 0

\* Requests in the order any PC makes them: an address, a configuration,
\* then the serial port's.
Allowed(r) ==
    CASE r = "addr"             -> ~host.addressed
      [] r = "conf1"            -> host.addressed /\ ~host.configured
      [] r \in {"conf0", "dtr1", "dtr0", "coding",
                "halt_in", "clear_in", "clear_out"} -> host.configured
      [] OTHER                  -> TRUE

CanBegin(r) == r \in pc.asks /\ host.here /\ host.req = NoReq /\ Allowed(r)
Begun(r) == [host EXCEPT !.req = r, !.stage = FirstStage(r)]

\* What a request that ran to its end means to the PC.
Served(h) ==
    LET done == [h EXCEPT !.req = NoReq, !.stage = "over"] IN
    CASE h.req = "addr"  -> [done EXCEPT !.addressed = TRUE]
      [] h.req = "conf1" -> [done EXCEPT !.configured = TRUE]
      [] h.req = "conf0" -> [done EXCEPT !.configured = FALSE, !.dtr = FALSE]
      [] h.req = "dtr1"  -> [done EXCEPT !.dtr = TRUE]
      [] h.req = "dtr0"  -> [done EXCEPT !.dtr = FALSE]
      [] OTHER           -> done

\* One stage done; the last one ends the request.
Advanced(h) ==
    IF NextStage(h.stage) = "over" THEN Served(h)
    ELSE [h EXCEPT !.stage = NextStage(@)]

\* The request is over without an answer, or with a STALL.
Dropped(h) == [h EXCEPT !.req = NoReq, !.stage = "over"]

\* A STALL: what a bad request asks for, a failure for any other.
Stalled ==
    /\ host' = Dropped(host)
    /\ failures' = IF host.req = "bad" THEN failures ELSE failures + 1

\* Nothing answered: the PC times out.
TimedOut ==
    /\ host' = Dropped(host)
    /\ failures' = failures + 1
    /\ UNCHANGED upsets

\* Something that upsets the session, bounded.
Upset == upsets < pc.upsets /\ upsets' = upsets + 1

\* The PC gives a transfer up before the device had its chance.
GiveUp ==
    /\ host.req # NoReq /\ Upset
    /\ host' = Dropped(host)
    /\ UNCHANGED failures
=============================================================================
