------------------------------- MODULE MCRepair -------------------------------
(***************************************************************************)
(* Two dongles whose entry is feasible, diagnosed without a driver, with   *)
(* one, and with one whose name no plan may contain: two transactions for  *)
(* each modprobe.d file.  A third dongle is claimed by two entries, of     *)
(* which the first refuses dynamic ids and the second takes them: no two   *)
(* entries of data/chipsets.json that share an id disagree so today, but   *)
(* nothing in the program prevents it.                                     *)
(***************************************************************************)
EXTENDS Repair

CONSTANTS v, p, q, r, rtw88, rtl8821cu, oddName, RTL8811CU, MT7601U, MT7610U

MCVid     == {v}
MCPid     == {p, q, r}
MCModule  == {rtw88, rtl8821cu, oddName}
MCValidName == {rtw88, rtl8821cu}
MCPlugged == {<<v, p>>, <<v, q>>, <<v, r>>}
MCBinding == {None, rtl8821cu, oddName}
MCChipset == {RTL8811CU, MT7601U, MT7610U}
MCKb ==
    << [ chipset |-> RTL8811CU, usb_ids |-> {<<v, p>>, <<v, q>>}, modules |-> <<rtw88>>,
         preferred_module |-> rtw88, new_id_modules |-> <<rtw88>>,
         new_id_feasible |-> "true", confidence |-> "HIGH_CONFIDENCE",
         firmware |-> <<>>, packaged |-> FALSE ],
       [ chipset |-> MT7601U, usb_ids |-> {<<v, r>>}, modules |-> <<rtl8821cu>>,
         preferred_module |-> None, new_id_modules |-> <<>>,
         new_id_feasible |-> "false", confidence |-> "CONFIRMED",
         firmware |-> <<>>, packaged |-> FALSE ],
       [ chipset |-> MT7610U, usb_ids |-> {<<v, r>>, <<v, q>>}, modules |-> <<rtl8821cu>>,
         preferred_module |-> None, new_id_modules |-> <<rtl8821cu>>,
         new_id_feasible |-> "true", confidence |-> "PROBABLE",
         firmware |-> <<>>, packaged |-> FALSE ] >>
=============================================================================
