------------------------------ MODULE MCFirmware ------------------------------
(***************************************************************************)
(* A small instance of Firmware: a file asked for twice, with a name of    *)
(* the same base name that the grammar rejects in between, and a file the  *)
(* knowledge base does not know.                                           *)
(***************************************************************************)
EXTENDS Firmware

CONSTANTS mtk, p7601, mt7601u, MT7601U, fwA, fwB, nameA, nameB, hostileA

MCVid      == {mtk}
MCPid      == {p7601}
MCModule   == {mt7601u}
MCChipset  == {MT7601U}
MCFirmware == {fwA, fwB}

MCKb ==
    << [ chipset |-> MT7601U, usb_ids |-> {<<mtk, p7601>>}, modules |-> <<mt7601u>>,
         preferred_module |-> None, new_id_modules |-> <<mt7601u>>,
         new_id_feasible |-> "true", confidence |-> "CONFIRMED",
         firmware |-> <<fwA>>, packaged |-> TRUE ] >>

MCIface == {}

MCNames    == {nameA, nameB, hostileA}
MCValid    == {nameA, nameB}
MCFileOf   == [n \in MCNames |-> IF n = nameB THEN fwB ELSE fwA]
MCRequests == {<<nameA, hostileA, nameA>>, <<nameA, nameB>>}
MCLog      == <<hostileA, nameB>>
=============================================================================
