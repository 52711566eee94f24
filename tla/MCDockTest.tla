----------------------------- MODULE MCDockTest -----------------------------
(* DockTest with units of about 1 s: a step timeout of two of them, the    *)
(* shorter waits of one, or none.                                          *)
EXTENDS DockTest
=============================================================================
