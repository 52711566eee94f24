----------------------------- MODULE MCLauncher -----------------------------
(***************************************************************************)
(* Words of four bits; regions of eight words, of which two are looked at, *)
(* the first and the one with the bit the upper address lands on; one      *)
(* protected region, one more below and two above the low word's reach.    *)
(* One pattern of the address, two fixed ones and PRBS.                    *)
(***************************************************************************)
EXTENDS Launcher

MCRegions == <<{}, {3}, {4}, {3, 4}>>
MCOffsets == <<{}, {2}>>
MCSalt == [addr |-> {0, 3}, addr_inv |-> {2}, prbs |-> {1}]
MCHiHash == [h \in SUBSET {0} |-> IF h = {} THEN {} ELSE {0, 3}]
Fault(kind, phys, n, bit, as) ==
    [kind |-> kind, at |-> <<phys, n>>, bit |-> bit, as |-> as]
MCFaults == {NoFault,
             Fault("stuck0", {4}, 2, 1, {}), Fault("stuck1", {3, 4}, 1, 0, {}),
             Fault("line0", {3}, 1, 2, {}), Fault("fades", {4}, 1, 0, {}),
             Fault("alias", {3, 4}, 0, 0, {3}), Fault("alias", {3}, 0, 0, {4})}
MCOrder == <<"addr", "zero", "ones", "prbs">>
MCGroups == <<"audio", "sound", "storage">>
MCKeySets == {{}, {"vol-"}, {"vol+"}, {"power"}, {"vol-", "power"}}
=============================================================================
