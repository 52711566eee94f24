----------------------------- MODULE MCUsbSerial -----------------------------
(***************************************************************************)
(* Rings as short as they can be and still have a Link and a wrap, and     *)
(* three kinds of PC: one that only enumerates, with every kind of stage,  *)
(* and upsets it twice; one that opens the port and halts an endpoint; and *)
(* one that opens the port, is reset or replugged, and comes back.         *)
(***************************************************************************)
EXTENDS UsbSerial

Enumerates == [asks |-> {"addr", "conf1", "conf0", "desc", "coding", "bad"},
               upsets |-> 2]
Halts == [asks |-> {"addr", "conf1", "dtr1", "dtr0", "halt_in", "clear_in", "clear_out"},
          upsets |-> 1]
Returns == [asks |-> {"addr", "conf1", "dtr1"}, upsets |-> 2]
MCPcs == {Enumerates, Halts, Returns}
=============================================================================
