------------------------------- MODULE MCTriage -------------------------------
(***************************************************************************)
(* One id per shape of evidence: a kernel claim and an entry, an entry     *)
(* that refuses, a feasible entry without a claim, an entry that says      *)
(* nothing about binding, a claim without an entry, and nothing at all.    *)
(***************************************************************************)
EXTENDS Triage

CONSTANTS v, pClaimed, pRefused, pFeasible, pSilent, pForeign, pUnknown,
          mt7601u, rtl8xxxu, rtw88, MT7601U, RTL8188EU, RTL8811CU, RTL8192EU,
          fwMt, fwRtl, fwOther, wifi, storage

MCVid      == {v}
MCPid      == {pClaimed, pRefused, pFeasible, pSilent, pForeign, pUnknown}
MCModule   == {mt7601u, rtl8xxxu, rtw88}
MCChipset  == {MT7601U, RTL8188EU, RTL8811CU, RTL8192EU}
MCFirmware == {fwMt, fwRtl, fwOther}

Chip(name, pid, modules, preferred, newId, feasible, firmware, packaged) ==
    [ chipset |-> name, usb_ids |-> {<<v, pid>>}, modules |-> modules,
      preferred_module |-> preferred, new_id_modules |-> newId,
      new_id_feasible |-> feasible, confidence |-> "HIGH_CONFIDENCE",
      firmware |-> firmware, packaged |-> packaged ]

MCKb ==
    << Chip(RTL8188EU, pRefused, <<rtl8xxxu>>, None, <<>>, "false", <<fwRtl>>, FALSE),
       Chip(RTL8811CU, pFeasible, <<rtl8xxxu, rtw88>>, rtw88, <<rtw88>>, "true",
            <<fwRtl, fwMt>>, TRUE),
       Chip(MT7601U, pClaimed, <<mt7601u>>, None, <<mt7601u>>, "true", <<fwMt>>, TRUE),
       Chip(RTL8192EU, pSilent, <<rtl8xxxu>>, None, <<>>, "unset", <<>>, FALSE) >>

\* Rows for one kind of interface, for any, without interface fields, and
\* one that breaks the grammar.
MCIface == {wifi, storage}
MCAlias == << [module |-> rtw88,    pattern |-> [v |-> v, p |-> pUnknown, ic |-> wifi]],
              [module |-> rtw88,    pattern |-> None],
              [module |-> rtw88,    pattern |-> [v |-> v, p |-> pFeasible, ic |-> wifi]],
              [module |-> mt7601u,  pattern |-> [v |-> v, p |-> pClaimed, ic |-> Any]],
              [module |-> rtl8xxxu, pattern |-> [v |-> v, p |-> pForeign]],
              [module |-> rtl8xxxu, pattern |-> [v |-> v, p |-> pClaimed]] >>
=============================================================================
