----------------------------- MODULE MCByteRing -----------------------------
(* Three slots and indices that wrap at 6: every fill level is met at     *)
(* every position of the wrap.                                            *)
EXTENDS ByteRing
=============================================================================
