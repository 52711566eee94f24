------------------------------- MODULE Motion -------------------------------
(***************************************************************************)
(* gui/gui_jcmotion.c: the motion sensors of both Joy-Cons, switched on,   *)
(* polled and judged, and switched off again.  A sample is all zero, that  *)
(* of a Joy-Con at rest, or any other.                                     *)
(***************************************************************************)
EXTENDS JcWire

VARIABLE mo   \* each side's readings and verdict

\* data: a sample that was not all zero came.  rest: how long it has been still.
MoOff == [last |-> "zero", data |-> FALSE, rest |-> "no", ok |-> FALSE, said |-> "none"]

\* What a report may hold; a sensor that was not switched on reads all zero.
Samples(p) == IF ~p.on THEN {} ELSE IF p.imu THEN {"still", "moving"} ELSE {"zero"}

\* _mo_judge.  late: nothing but zeros for 1.5 s.  long: still for 0.6 s.
Judged(m, late, long) ==
    LET data == m.data \/ m.last # "zero"
        rest == IF m.last # "still" THEN "no" ELSE IF m.rest = "no" THEN "since" ELSE m.rest
        ok == m.ok \/ (m.last = "still" /\ m.rest = "since" /\ long)
    IN  IF ~data THEN [m EXCEPT !.said = IF late THEN "silent" ELSE @]
        ELSE [m EXCEPT !.data = TRUE, !.rest = rest, !.ok = ok,
                       !.said = IF ok THEN "ok"
                                ELSE IF m.last = "zero" /\ late THEN "stopped" ELSE "reading"]

\* Mutant: a side is not switched off.
LeaveOne(s) == s = "L"

\* _mo_tick, one side of those it owns: what came is read to the last, and the
\* newest sample judged; the last one again if none came.
MoTick(s) ==
    /\ wire[s].owned
    /\ \E new \in Samples(pads[s]) \cup {mo[s].last} : \E late, long \in BOOLEAN :
         mo' = [mo EXCEPT ![s] = Judged([@ EXCEPT !.last = new], late, long)]
    /\ wire' = [wire EXCEPT ![s].rx = <<>>]
    /\ UNCHANGED <<pads, losses>>

\* The request to the sensor of one side, and what it leaves.
Imu(s, on, rail) == Subcmds(pads[s], rail, <<"imu", IF on THEN 1 ELSE 0>>)

\* _mo_side_build, for those the driver has.
MoOpen(conn) ==
    LET Opened(s) == IF conn[s] THEN UNION {Imu(s, TRUE, Owned(wire[s], noise)) : noise \in BOOLEAN}
                     ELSE {[pad |-> pads[s], rail |-> wire[s], ok |-> FALSE]}
    IN  /\ \E l \in Opened("L"), r \in Opened("R") :
             /\ pads' = [L |-> l.pad, R |-> r.pad]
             /\ wire' = [L |-> l.rail, R |-> r.rail]
        /\ mo' = [s \in Sides |-> MoOff]
        /\ UNCHANGED losses

\* _mo_leave, for those it owns.
MoOwns(s) == wire[s].owned
MoLeave ==
    LET Left(s) == IF MoOwns(s)
                   THEN {[pad |-> HandledAll(o.pad, o.rail.inbox), rail |-> Released(o.rail)] :
                          o \in Imu(s, FALSE, wire[s])}
                   ELSE {[pad |-> pads[s], rail |-> Released(wire[s])]}
    IN  /\ \E l \in Left("L"), r \in Left("R") :
             /\ pads' = [L |-> l.pad, R |-> r.pad]
             /\ wire' = [L |-> l.rail, R |-> r.rail]
        /\ mo' = [s \in Sides |-> MoOff]
        /\ UNCHANGED losses
=============================================================================
