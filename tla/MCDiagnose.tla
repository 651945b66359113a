------------------------------ MODULE MCDiagnose ------------------------------
(***************************************************************************)
(* A small instance of Diagnose.  The knowledge base keeps the shapes that *)
(* matter of data/chipsets.json: two entries that share an id (MT7601U and *)
(* MT7610U at 148f:760a), an entry whose driver refuses dynamic ids, and a *)
(* feasible entry whose module list includes the refusing driver.          *)
(***************************************************************************)
EXTENDS Diagnose

CONSTANTS mtk, rtk, p760a, p8811, p8179,
          mt7601u, mt76x0u, rtl8xxxu, rtw88, usbGeneric, oddName, driverWord,
          MT7601U, MT7610U, RTL8188EU, RTL8811CU, Unlisted, fwA, fwB,
          spelled760a, spelled8811, running, later, older, custom, wifi

MCVid      == {mtk, rtk}
MCPid      == {p760a, p8811, p8179}
MCModule   == {mt7601u, mt76x0u, rtl8xxxu, rtw88, usbGeneric, oddName, driverWord}
MCChipset  == {MT7601U, MT7610U, RTL8188EU, RTL8811CU, Unlisted}
MCFirmware == {fwA, fwB}

Chip(name, ids, modules, preferred, newId, feasible, confidence, firmware) ==
    [ chipset |-> name, usb_ids |-> ids, modules |-> modules,
      preferred_module |-> preferred, new_id_modules |-> newId,
      new_id_feasible |-> feasible, confidence |-> confidence,
      firmware |-> firmware, packaged |-> TRUE ]

MCKb ==
    << Chip(RTL8188EU, {<<rtk, p8179>>}, <<rtl8xxxu>>, None, <<>>,
            "false", "HIGH_CONFIDENCE", <<fwB>>),
       Chip(RTL8811CU, {<<rtk, p8811>>}, <<rtl8xxxu, rtw88>>, rtw88, <<rtw88>>,
            "true", "HIGH_CONFIDENCE", <<fwB>>),
       Chip(MT7601U, {<<mtk, p760a>>}, <<mt7601u>>, None, <<mt7601u>>,
            "true", "CONFIRMED", <<fwA>>),
       Chip(MT7610U, {<<mtk, p760a>>}, <<mt76x0u>>, None, <<mt76x0u>>,
            "true", "CONFIRMED", <<>>) >>

MCIface == {wifi}
MCAlias == << [module |-> rtw88,    pattern |-> [v |-> rtk, p |-> p8811, ic |-> wifi]],
              [module |-> rtl8xxxu, pattern |-> [v |-> rtk]],
              [module |-> rtl8xxxu, pattern |-> [v |-> mtk, p |-> p8179, ic |-> Any]] >>
MCAliasOf == [r \in {running} |-> MCAlias]

MCValidName == MCModule \ {oddName}

MCNodes       == 1..3
MCDeviceNodes == 1..2
Sane(v, p)    == [vid |-> v, pid |-> p, class |-> "number"]
MCDongles     == { Sane(mtk, p760a), Sane(rtk, p8811), Sane(rtk, p8179), Sane(mtk, None) }
MCHub         == Sane(mtk, p8179)

MCText == { "diagnose", "report", "repair", "verify", "doctor", "history", "rollback",
            "identify", spelled760a, spelled8811, later, Unlisted } \cup (MCChipset \ {Unlisted})

MCSpelledId == [t \in MCText |-> CASE t = spelled760a -> <<mtk, p760a>>
                                  [] t = spelled8811 -> <<rtk, p8811>>
                                  [] OTHER           -> None]

Word(t)      == [kind |-> "word", key |-> None, text |-> t]
Flag(k)      == [kind |-> "open", key |-> k, text |-> None]
Joined(k, t) == [kind |-> "closed", key |-> k, text |-> t]

MCLines == { <<Word("diagnose")>>,
             <<Word("diagnose"), Flag("--device"), Word(spelled8811)>>,
             <<Word("repair"), Joined("--chip", RTL8188EU)>>,
             <<Word("repair"), Flag("--chip"), Word(MT7610U)>>,
             <<Word("repair"), Flag("--chip"), Word(Unlisted)>> }

\* The diagnosing runs: one kernel, no network device, no marker.
MCReleases == {running}
MCVersion  == [r \in MCReleases |-> [head |-> <<6, 17, 0>>, abi |-> 18]]
MCNetdevs  == {}

MCDrivers     == {mt7601u, oddName}
MCNodeDrivers == {usbGeneric, None}

(***************************************************************************)
(* All commands on a smaller host: one port, a dongle that is complete and *)
(* one that is not, two network devices, a later, an older and an odd      *)
(* kernel beside the running one; and every shape of an argument list: a   *)
(* value joined or not, missing, empty, swallowed, or out of place.        *)
(***************************************************************************)
\* One entry; the modules of the later kernel claim its id by another driver.
AllKb          == SubSeq(MCKb, 4, 4)
AllNodes       == 1..2
AllDeviceNodes == {1}
AllDongles     == { Sane(mtk, p760a), Sane(mtk, None),
                    [vid |-> mtk, pid |-> p760a, class |-> "junk"] }
AllDrivers     == {mt7601u}
AllNodeDrivers == {None}
AllNetdevs     == 1..2
AllReleases    == {running, later, older, custom}
AllAliasOf     == [r \in AllReleases |->
                     IF r = later
                     THEN << [module |-> mt7601u, pattern |-> [v |-> mtk, p |-> p760a]] >>
                     ELSE <<>>]
AllVersion     == [r \in AllReleases |->
                     CASE r = running -> [head |-> <<6, 17, 0>>, abi |-> 18]
                       [] r = later   -> [head |-> <<6, 17, 0>>, abi |-> 20]
                       [] r = older   -> [head |-> <<6, 16, 9>>, abi |-> 30]
                       [] r = custom  -> [head |-> <<NoNumber>>, abi |-> NoNumber]]

AllLines == { <<>>,
              <<Word("report"), Flag("--json")>>,
              <<Flag("--json"), Word("diagnose")>>,
              <<Word("diagnose"), Flag("--device"), Flag("--json")>>,
              <<Flag("--kernel-release"), Word(later), Word("diagnose")>>,
              <<Word("diagnose"), Joined("--kernel-release", later), Joined("--device", spelled760a)>>,
              <<Word("repair"), Flag("--execute"), Flag("--device"), Word(spelled8811)>>,
              <<Word("repair"), Flag("--execute"), Joined("--chip", MT7610U)>>,
              <<Word("repair"), Flag("--chip"), Word(Unlisted), Joined("--chip", MT7610U)>>,
              <<Word("repair"), Joined("--chip", None), Flag("--execute")>>,
              <<Word("verify")>>,
              <<Word("verify"), Flag("--device"), Word(spelled760a)>>,
              <<Word("doctor")>>,
              <<Word("rollback"), Word(Unlisted)>>,
              <<Word("identify"), Flag("--chip"), Word(MT7601U)>> }
=============================================================================
