--------------------------- MODULE MCLinkTraining ---------------------------
(* LinkTraining with short loops and a sink that asks for more than a lane *)
(* can drive; a failed read stands for one that asks for nothing.          *)
EXTENDS LinkTraining

\* Two lanes, and one, for which the lowest rate is too slow.
Docks == {[rate |-> 10, max |-> 2, canAssr |-> TRUE],
          [rate |-> 20, max |-> 1, canAssr |-> FALSE],
          [rate |-> 6, max |-> 1, canAssr |-> FALSE]}
Asks == {[i \in Lane |-> IF i = 0 THEN <<1, 3>> ELSE <<0, 1>>]}
=============================================================================
