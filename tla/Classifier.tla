------------------------------ MODULE Classifier ------------------------------
(***************************************************************************)
(* The five-state classifier: facts about one device in, one diagnosis     *)
(* out.  The log, the modprobe.d files and the disk enter as sets of       *)
(* modules and firmware files; wording and evidence are left out.          *)
(***************************************************************************)
EXTENDS Identification

States == {"A", "B", "C", "D", "E", "UNKNOWN"}

Actions ==
    { "no_action", "bind_new_id", "diagnose_only", "unblock_module", "manual_chip_id",
      "out_of_tree_pointer", "install_firmware_package", "manual_package_lookup" }

Diagnosis ==
    [ state      : States,
      action     : Actions,
      confidence : Confidences,
      hint       : Module \cup {None},       \* the module the advice names
      firmware   : Firmware \cup {None} ]    \* the file state C is about

\* The arguments of classify besides the identification and the bound driver.
Evidence ==
    [ failed  : Seq(Firmware),     \* "Direct firmware load" failures, in log order
      blocked : SUBSET Module,     \* modules a modprobe.d file blacklists
      absent  : SUBSET Firmware ]  \* files found missing on disk; {} without a host

NoEvidence == [failed |-> <<>>, blocked |-> {}, absent |-> {}]

Verdict(state, action, confidence, hint, firmware) ==
    [ state |-> state, action |-> action, confidence |-> confidence,
      hint |-> hint, firmware |-> firmware ]

\* A fault, to test the properties with: the candidate outranks the bound driver.
Primary_candidateFirst(res, bound) ==
    IF NoCandidates(res) THEN bound ELSE FirstCandidate(res)

\* primary: the bound driver, else the first candidate.
Primary(res, bound) == IF bound # None THEN bound ELSE FirstCandidate(res)

\* A fault, to test the properties with: new_id_modules is forgotten.
HasCapabilityDetail_preferredOnly(entry) ==
    /\ entry # None
    /\ \/ entry.preferred_module # None
       \/ entry.new_id_feasible = "false"

HasCapabilityDetail(entry) ==
    /\ entry # None
    /\ \/ entry.new_id_modules # <<>>
       \/ entry.preferred_module # None
       \/ entry.new_id_feasible = "false"

\* A fault, to test the properties with: the second source of a name is forgotten.
ModuleHint_preferredOnly(entry) == entry.preferred_module

\* entry.get("preferred_module") or entry.get("new_id_modules")[0]
ModuleHint(entry) ==
    IF entry.preferred_module # None THEN entry.preferred_module
    ELSE IF entry.new_id_modules # <<>> THEN entry.new_id_modules[1] ELSE None

\* The entry declares the file; both are compared by base name.
Declares(entry, file) == \E i \in DOMAIN entry.firmware : entry.firmware[i] = file

Blamed(entry, ev) == {i \in DOMAIN ev.failed : Declares(entry, ev.failed[i])}

\* A fault, to test the properties with: only the last line of the log is looked at.
MissingFirmware_lastFailure(entry, ev) ==
    IF entry # None /\ ev.failed # <<>> /\ Len(ev.failed) \in Blamed(entry, ev)
    THEN ev.failed[Len(ev.failed)] ELSE None

\* A fault, to test the properties with: the failure itself is returned.
MissingFirmware_failure(entry, ev) ==
    IF entry = None THEN None
    ELSE IF Blamed(entry, ev) # {} THEN Min(Blamed(entry, ev))
    ELSE IF entry.firmware # <<>> /\ entry.firmware[1] \in ev.absent
         THEN entry.firmware[1] ELSE None

(***************************************************************************)
(* The declared firmware file the evidence shows missing, or None: the     *)
(* first failure in the log that is about a declared file, else the first  *)
(* declared file when the disk lacks it.                                   *)
(***************************************************************************)
MissingFirmware(entry, ev) ==
    IF entry = None THEN None
    ELSE IF Blamed(entry, ev) # {} THEN ev.failed[Min(Blamed(entry, ev))]
    ELSE IF entry.firmware # <<>> /\ entry.firmware[1] \in ev.absent
         THEN entry.firmware[1] ELSE None

\* map_firmware_to_packages: the first entry that declares the file owns it.
Owner(file) == FirstOf({i \in DOMAIN Kb : Declares(Kb[i], file)})

FirmwareAction(file) ==
    IF Owner(file) # None /\ Owner(file).packaged
    THEN "install_firmware_package" ELSE "manual_package_lookup"

\* A fault, to test the properties with: a kernel claim is taken for consent.
Unbound_claimSuffices(res, entry) ==
    IF Nothing(res.claims) /\ ~HasCapabilityDetail(entry)
    THEN Verdict("E", "out_of_tree_pointer", res.confidence, None, None)
    ELSE IF ~Nothing(res.claims) \/ Feasible(entry)
    THEN Verdict("B", "bind_new_id", "HIGH_CONFIDENCE", First(res.claims), None)
    ELSE Verdict("B", "diagnose_only", "HIGH_CONFIDENCE", None, None)

(***************************************************************************)
(* No driver is bound: state B when the kernel or the knowledge base knows *)
(* what a driver could do with the device, else state E.                   *)
(***************************************************************************)
Unbound(res, entry) ==
    LET module == IF Nothing(res.claims) THEN ModuleHint(entry) ELSE First(res.claims)
    IN  IF Nothing(res.claims) /\ ~HasCapabilityDetail(entry)
        THEN Verdict("E", "out_of_tree_pointer", res.confidence, None, None)
        ELSE IF Feasible(entry)
        THEN Verdict("B", "bind_new_id", "HIGH_CONFIDENCE", module, None)
        ELSE Verdict("B", "diagnose_only", "HIGH_CONFIDENCE", None, None)

Classify(res, bound, ev) ==
    LET entry   == EntryNamed(res.chipset)
        primary == Primary(res, bound)
        file    == MissingFirmware(entry, ev)
    IN  IF res.chipset = UnknownChip /\ NoCandidates(res)
        THEN Verdict("UNKNOWN", "manual_chip_id", "UNKNOWN", None, None)
        ELSE IF primary \in ev.blocked
        THEN Verdict("D", "unblock_module", "CONFIRMED", primary, None)
        ELSE IF file # None
        THEN Verdict("C", FirmwareAction(file), "CONFIRMED", None, file)
        ELSE IF bound = None
        THEN Unbound(res, entry)
        ELSE IF ev.failed # <<>>
        THEN Verdict("C", "install_firmware_package", "PROBABLE", None, None)
        ELSE Verdict("A", "no_action", "CONFIRMED", bound, None)
=============================================================================
