------------------------------- MODULE JcWire -------------------------------
(***************************************************************************)
(* gui/gui_jcwire.c: the GUI's exchanges with a Joy-Con over its rail, and *)
(* the Joy-Con at the other end, with the camera's controller in the right *)
(* one.                                                                    *)
(*                                                                         *)
(* What is on a rail's receive side is a sequence of pieces: a report is a *)
(* head, which says how long it is, and one piece (two for the reports of  *)
(* the camera's controller).  A piece can be lost, and the receiver then   *)
(* takes what follows for the rest of the report.  Requests go out in      *)
(* order; the Joy-Con answers them in order, in its own time.              *)
(***************************************************************************)
EXTENDS Integers, Sequences, FiniteSets, FiniteSetsExt, SequencesExt

CONSTANTS Frags,     \* the fragments of a frame, for each image size
          MaxInbox   \* requests on their way to the Joy-Con (bound)

ASSUME JcWireAssumption ==
    /\ Frags \in Seq(Nat \ {0, 1}) /\ Len(Frags) > 0
    /\ MaxInbox \in Nat \ {0, 1}

VARIABLES pads,   \* each side's Joy-Con
          wire,   \* each side's rail: whose it is, and what is on it
          losses  \* requests and pieces that may yet be lost (bound)

wireVars == <<pads, wire, losses>>

Sides == {"L", "R"}
NoFrag == -1

\* A Joy-Con with its sensors off; doubt: a request to it, or its answer, was
\* lost since it was put on the rail.
Pad(on) == [on |-> on, imu |-> FALSE, buzz |-> FALSE, reports |-> "std",
            mcu |-> "off", size |-> 0, regs |-> FALSE, lights |-> FALSE, sent |-> NoFrag]
Rail == [owned |-> FALSE, rx |-> <<>>, inbox |-> <<>>, doubt |-> FALSE]

(* ---- the Joy-Con ---- *)

\* Requests and replies are a name and a number; the number is 0 where the
\* name says all.
Msg(name) == <<name, 0>>
Nothing == Msg("nothing")

Streams(p) == p.mcu = "ir" /\ p.size > 0
\* The fragment an acknowledgement asks for: the next one, or the same again.
NextFrag(p, n) == IF p.sent = NoFrag THEN 0
                  ELSE IF n = p.sent THEN (n + 1) % Frags[p.size] ELSE p.sent

\* What a request does to the Joy-Con.
Handled(p, q) ==
    CASE q[1] = "std_reports"                  -> [p EXCEPT !.reports = "std"]
      [] q[1] = "mcu_reports"                  -> [p EXCEPT !.reports = "mcu"]
      [] q[1] = "wake" /\ p.mcu = "off"        -> [p EXCEPT !.mcu = "booting"]
      [] q[1] = "sleep" -> [Pad(p.on) EXCEPT !.imu = p.imu, !.buzz = p.buzz, !.reports = p.reports]
      [] q[1] = "status" /\ p.mcu = "booting"  -> [p EXCEPT !.mcu = "standby"]
      [] q[1] = "status" /\ p.mcu = "entering" -> [p EXCEPT !.mcu = "ir"]
      [] q[1] = "ir_mode" /\ p.mcu = "standby" -> [p EXCEPT !.mcu = "entering"]
      [] q[1] = "size" /\ p.mcu = "ir"         -> [p EXCEPT !.size = q[2], !.sent = NoFrag]
      [] q[1] = "regs" /\ p.mcu = "ir"         -> [p EXCEPT !.regs = TRUE]
      [] q[1] = "lights" /\ p.mcu = "ir"       -> [p EXCEPT !.lights = TRUE]
      [] q[1] = "ack" /\ Streams(p)            -> [p EXCEPT !.sent = NextFrag(p, q[2])]
      [] q[1] = "imu"                          -> [p EXCEPT !.imu = (q[2] = 1)]
      [] q[1] = "buzz"                         -> [p EXCEPT !.buzz = (q[2] = 1)]
      [] OTHER                                 -> p

\* Its answer; the controller's own reports come only while asked for.
Answer(p, q) ==
    CASE q[1] \in {"std_reports", "mcu_reports"} -> Msg("ack03")
      [] q[1] \in {"wake", "sleep"}              -> Msg("ack22")
      [] q[1] = "imu"                            -> Msg("ack40")
      [] q[1] = "status" /\ p.reports = "mcu"    ->
           Msg(IF p.mcu \in {"standby", "ir"} THEN p.mcu ELSE "busy")
      [] q[1] = "ir_mode" /\ p.mcu = "standby"   -> Msg("mode")
      [] q[1] = "size" /\ p.mcu = "ir"           -> Msg("size")
      [] q[1] = "query" /\ p.regs                -> Msg("regs")
      [] q[1] = "lights" /\ p.mcu = "ir"         -> Msg("lights")
      [] q[1] = "ack" /\ Streams(p) /\ p.reports = "mcu" -> <<"frag", NextFrag(p, q[2])>>
      [] q[1] \in {"ack", "status", "buzz"}      -> Nothing
      [] OTHER                                   -> Msg("other")

\* A Joy-Con that has worked through a sequence of requests.
HandledAll(p, reqs) ==
    LET after[i \in 0..Len(reqs)] == IF i = 0 THEN p ELSE Handled(after[i - 1], reqs[i])
    IN  IF p.on THEN after[Len(reqs)] ELSE p

(* ---- the receiver ---- *)

Long(k) == k[1] \in {"standby", "ir", "busy", "frag"}
Size(k) == IF Long(k) THEN 2 ELSE 1
Piece(part, k) == [part |-> part, kind |-> k]
Report(k) == IF k = Nothing THEN <<>>
             ELSE <<Piece("head", k)>> \o [i \in 1..Size(k) |-> Piece("body", k)]
None == Msg("none")
Junk == Msg("junk")

\* Whatever precedes a head is noise.
Synced(rx) == LET heads == {i \in 1..Len(rx) : rx[i].part = "head"}
              IN  IF heads = {} THEN <<>> ELSE SubSeq(rx, Min(heads), Len(rx))

\* What the pieces after a head make: a report if they are one's, of that length.
Made(k, body) == IF body.part = "body" /\ Size(body.kind) = Size(k) THEN body.kind ELSE Junk

\* gui_jc_recv: the next report, if one is complete, and what it leaves.
Recv(rx) ==
    LET l == Synced(rx)
        n == IF l = <<>> THEN 0 ELSE Size(l[1].kind)
        body == {l[i] : i \in 2..(n + 1)}
    IN  IF l = <<>> \/ Len(l) < n + 1 THEN [got |-> None, rx |-> l]
        ELSE [got |-> IF Cardinality(body) = 1 THEN Made(l[1].kind, l[2]) ELSE Junk,
              rx |-> SubSeq(l, n + 2, Len(l))]

\* gui_jc_own: what was received is forgotten; noise is the tail of a report
\* the driver was waiting for.
Owned(rail, noise) ==
    [rail EXCEPT !.owned = TRUE, !.inbox = <<>>,
                 !.rx = IF noise THEN <<Piece("body", Msg("other"))>> ELSE <<>>]

\* gui_jc_release: the receiver is drained and the rail is the driver's again.
\* What is on its way reaches the Joy-Con all the same.
Released(rail) == [rail EXCEPT !.owned = FALSE, !.rx = <<>>, !.inbox = <<>>]

Send(rail, reqs) == [rail EXCEPT !.inbox = @ \o reqs]
AckOf(q) == Answer(Pad(TRUE), q)

\* What is left of rx once the first report that acknowledges q is read, if one
\* is there.
PastAck(rx, q) ==
    LET left[i \in 0..Len(rx)] == IF i = 0 THEN rx ELSE Recv(left[i - 1]).rx
        acks == {i \in 0..Len(rx) : Recv(left[i]).got = AckOf(q)}
    IN  IF acks = {} THEN {} ELSE {Recv(left[Min(acks)]).rx}

\* What comes back of a request, when it is the n-th.
Reply(p, reqs, n) == Report(Answer(HandledAll(p, SubSeq(reqs, 1, n - 1)), reqs[n]))

\* What has come back once the first n requests are answered.
Received(p, rx, reqs) ==
    LET back[n \in 0..Len(reqs)] == IF n = 0 THEN rx ELSE back[n - 1] \o Reply(p, reqs, n)
    IN  back

\* gui_jc_subcmd: reports are read and dropped until one acknowledges a request
\* of that name, sent up to four times.  An acknowledgement that was already on
\* its way, to an earlier request of the name, is taken for this one's.
Subcmds(p, rail, q) ==
    LET reqs == Append(rail.inbox, q)
        back == Received(p, rail.rx, rail.inbox)
        early == {n \in 0..Len(rail.inbox) : PastAck(back[n], q) # {}}
        n == Min(early)
        done == HandledAll(p, reqs)
        Out(pad, rest, inbox, ok) ==
            [pad |-> pad, ok |-> ok,
             rail |-> [rail EXCEPT !.rx = rest, !.inbox = inbox, !.doubt = @ \/ ~ok]]
    IN  IF ~p.on THEN {Out(p, <<>>, <<>>, FALSE)}
        ELSE IF early # {}
        THEN {Out(HandledAll(p, SubSeq(reqs, 1, n)), rest, SubSeq(reqs, n + 1, Len(reqs)), TRUE) :
                rest \in PastAck(back[n], q)}
        ELSE {Out(done, <<>>, <<>>, TRUE),             \* answered
              Out(done, Report(AckOf(q)), <<>>, TRUE), \* late: asked twice
              Out(done, <<>>, <<>>, FALSE),            \* its answers lost
              Out(HandledAll(p, rail.inbox), <<>>, <<>>, FALSE)} \* never heard

(* ---- between the GUI's steps ---- *)

WireInit(seated, spare) ==
    /\ pads = [s \in Sides |-> Pad(s \in seated)]
    /\ wire = [s \in Sides |-> Rail]
    /\ losses = spare

\* The Joy-Con takes its next request, and answers.
PadAnswers(s) ==
    /\ wire[s].inbox # <<>>
    /\ LET q == Head(wire[s].inbox) IN
         /\ pads' = [pads EXCEPT ![s] = IF @.on THEN Handled(@, q) ELSE @]
         /\ wire' = [wire EXCEPT ![s].inbox = Tail(@),
                                 ![s].rx = IF pads[s].on THEN @ \o Report(Answer(pads[s], q)) ELSE @]
    /\ UNCHANGED losses

\* A request is lost, or a piece of what is on its way back.
Lose(s) ==
    /\ losses > 0
    /\ losses' = losses - 1
    /\ \/ /\ wire[s].inbox # <<>>
          /\ wire' = [wire EXCEPT ![s].inbox = Tail(@), ![s].doubt = TRUE]
       \/ \E i \in 1..Len(wire[s].rx) :
            wire' = [wire EXCEPT ![s].rx = RemoveAt(@, i), ![s].doubt = TRUE]
    /\ UNCHANGED pads
=============================================================================
