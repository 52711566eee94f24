------------------------------ MODULE DebugPort ------------------------------
(***************************************************************************)
(* gui/gui_dbg.c: which port the debug console is on, and which rails'     *)
(* ports Joy-Cons have taken from it.  UART-B is the right rail's, UART-C  *)
(* the left one's.                                                         *)
(***************************************************************************)
EXTENDS JcWire

VARIABLES port,   \* s_port
          taken   \* s_taken, by the rail's side

Ports == {"UART-B", "UART-C", "UART-A", "USB"}
RailPort == [L |-> "UART-C", R |-> "UART-B"]

\* gui_dbg_taken
Taken(p) == \E s \in Sides : RailPort[s] = p /\ taken[s]

\* gui_dbg_init: with nothing on the right rail, UART-B is the console's.
DbgInit == port = "UART-B" /\ taken = [s \in Sides |-> s = "R" /\ pads[s].on]

\* gui_dbg_rails, before each poll of the Joy-Cons: UART-B is looked at always,
\* UART-C while it is the console.
Rails == [s \in Sides |-> taken[s] \/ (pads[s].on /\ (s = "R" \/ port = RailPort[s]))]

\* Mutant: the left rail is not looked at when the console moves to it.
SetsBlindly(p) ==
    /\ p # port
    /\ port' = p
    /\ UNCHANGED taken

\* gui_dbg_set.  A left Joy-Con the driver already drives keeps its port; USB
\* may not start.
Sets(p) ==
    /\ p # port
    /\ port' = p
    /\ taken' = [taken EXCEPT !["L"] = @ \/ (p = "UART-C" /\ pads["L"].on)]

\* Whether the console sends on a rail or reads from it (dbg_send, dbg_recv).
ConsoleOn(s) == ~taken[s] /\ (port = RailPort[s] \/ RailPort[s] = "UART-B")
=============================================================================
