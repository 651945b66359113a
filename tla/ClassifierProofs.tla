---------------------------- MODULE ClassifierProofs ----------------------------
(***************************************************************************)
(* What identification, classification and planning return, for any        *)
(* knowledge base and alias file of the right shape.                       *)
(***************************************************************************)
EXTENDS Classifier, Planner, MinLemmas, TLAPS

-----------------------------------------------------------------------------
(***************************************************************************)
(* Lookups in the knowledge base.                                          *)
(***************************************************************************)
LEMMA EntriesTyped == \A i \in DOMAIN Kb : Kb[i] \in Entry
BY KbTyped

\* A lookup that hits returns an entry the predicate holds of.
LEMMA FirstOfProps ==
    ASSUME NEW hits, hits \subseteq DOMAIN Kb
    PROVE  /\ hits = {} => FirstOf(hits) = None
           /\ hits # {} => /\ FirstOf(hits) \in Entry
                           /\ FirstOf(hits) # None
                           /\ \E i \in hits : FirstOf(hits) = Kb[i]
<1>1. hits = {} => FirstOf(hits) = None
  BY DEF FirstOf
<1>2. ASSUME hits # {}
      PROVE  FirstOf(hits) \in Entry /\ \E i \in hits : FirstOf(hits) = Kb[i]
  <2>1. hits \subseteq Nat
    BY KbTyped
  <2>2. Min(hits) \in hits
    BY <1>2, <2>1, MinProps
  <2>3. FirstOf(hits) = Kb[Min(hits)]
    BY <1>2 DEF FirstOf
  <2>4. QED
    BY <2>2, <2>3, KbTyped
<1>3. QED
  BY <1>1, <1>2, NullsAreDistinct

LEMMA EntryOfIdProps ==
    ASSUME NEW id
    PROVE  /\ EntryOfId(id) \in Entry \cup {None}
           /\ EntryOfId(id) # None =>
                 \E i \in DOMAIN Kb : id \in Kb[i].usb_ids /\ EntryOfId(id) = Kb[i]
<1> DEFINE hits == {i \in DOMAIN Kb : id \in Kb[i].usb_ids}
<1>1. hits \subseteq DOMAIN Kb
  OBVIOUS
<1>2. EntryOfId(id) = FirstOf(hits)
  BY DEF EntryOfId
<1>3. QED
  BY <1>1, <1>2, FirstOfProps

LEMMA EntryNamedProps ==
    ASSUME NEW chip
    PROVE  /\ EntryNamed(chip) \in Entry \cup {None}
           /\ EntryNamed(chip) # None =>
                 \E i \in DOMAIN Kb : Kb[i].chipset = chip /\ EntryNamed(chip) = Kb[i]
           /\ EntryNamed(chip) = None => \A i \in DOMAIN Kb : Kb[i].chipset # chip
<1> DEFINE hits == {i \in DOMAIN Kb : Kb[i].chipset = chip}
<1>1. hits \subseteq DOMAIN Kb
  OBVIOUS
<1>2. EntryNamed(chip) = FirstOf(hits)
  BY DEF EntryNamed
<1>3. hits = {} => FirstOf(hits) = None
  BY <1>1, FirstOfProps
<1>4. hits # {} => /\ FirstOf(hits) \in Entry /\ FirstOf(hits) # None
                   /\ \E i \in hits : FirstOf(hits) = Kb[i]
  BY <1>1, FirstOfProps
<1>5. CASE hits = {}
  <2>1. \A i \in DOMAIN Kb : Kb[i].chipset # chip
    BY <1>5
  <2>2. QED
    BY <1>2, <1>3, <1>5, <2>1
<1>6. CASE hits # {}
  BY <1>2, <1>4, <1>6
<1>7. QED
  BY <1>5, <1>6

\* The entry found by id is the one its chipset's name leads back to: the
\* classifier and the planner speak of the same entry.
LEMMA NameLeadsBack ==
    ASSUME NEW id, EntryOfId(id) # None
    PROVE  EntryNamed(EntryOfId(id).chipset) = EntryOfId(id)
<1>1. PICK i \in DOMAIN Kb : EntryOfId(id) = Kb[i]
  BY EntryOfIdProps
<1>2. EntryNamed(Kb[i].chipset) # None
  BY EntryNamedProps
<1>3. PICK j \in DOMAIN Kb : Kb[j].chipset = Kb[i].chipset /\ EntryNamed(Kb[i].chipset) = Kb[j]
  BY <1>2, EntryNamedProps
<1>4. j = i
  BY <1>3, KbNamesUnique
<1>5. QED
  BY <1>1, <1>3, <1>4

LEMMA UnknownHasNoEntry == EntryNamed(UnknownChip) = None
<1>1. \A i \in DOMAIN Kb : Kb[i].chipset \in Chipset
  BY EntriesTyped DEF Entry
<1>2. QED
  BY <1>1, EntryNamedProps, NullsAreDistinct

\* A feasible entry names a module.
LEMMA FeasibleNamesModule ==
    ASSUME NEW i \in DOMAIN Kb, Feasible(Kb[i])
    PROVE  HasCapabilityDetail(Kb[i])
BY KbFeasibleHasModule DEF Feasible, HasModule, HasCapabilityDetail

-----------------------------------------------------------------------------
(***************************************************************************)
(* Identification.                                                         *)
(***************************************************************************)
LEMMA FirstTyped ==
    ASSUME NEW list, Listed(list)
    PROVE  First(list) \in Module \cup {None}
<1>1. CASE Nothing(list)
  BY <1>1 DEF First
<1>2. CASE ~Nothing(list)
  <2>1. Min(DOMAIN list) \in DOMAIN list
    BY <1>2, MinProps DEF Nothing, Listed
  <2>2. QED
    BY <1>2, <2>1 DEF First, Listed
<1>3. QED
  BY <1>1, <1>2

LEMMA ResolveTyped ==
    ASSUME NEW id, NEW lines \in AliasFile
    PROVE  LET res == ResolveDevice(id, lines)
           IN  /\ res.confidence \in Confidences
               /\ Listed(res.claims) /\ Listed(res.extras)
               /\ res.chipset = IF EntryOfId(id) # None THEN EntryOfId(id).chipset ELSE UnknownChip
<1> DEFINE claims == MatchWithLines(id, lines)
<1>1. Listed(claims)
  <2>1. \A i \in DOMAIN lines : lines[i] \in Row /\ i \in Nat
    BY DEF AliasFile
  <2>2. \A i \in DOMAIN lines : lines[i].module \in Module
    BY <2>1 DEF Row
  <2>3. QED
    BY <2>1, <2>2 DEF MatchWithLines, Listed
<1>2. CASE EntryOfId(id) # None
  <2>1. EntryOfId(id) \in Entry
    BY <1>2, EntryOfIdProps
  <2>2. EntryOfId(id).confidence \in Confidences /\ EntryOfId(id).modules \in Seq(Module)
    BY <2>1 DEF Entry
  <2>3. Listed(KbCandidates(EntryOfId(id), claims))
    BY <2>2 DEF KbCandidates, Listed
  <2>4. QED
    BY <1>1, <1>2, <2>2, <2>3 DEF ResolveDevice, Confidences
<1>3. CASE EntryOfId(id) = None
  <2>1. Listed(<<>>)
    BY DEF Listed
  <2>2. QED
    BY <1>1, <1>3, <2>1 DEF ResolveDevice, Confidences
<1>4. QED
  BY <1>2, <1>3

-----------------------------------------------------------------------------
(***************************************************************************)
(* Classification.                                                         *)
(***************************************************************************)
\* What classify is given: a resolution, a bound driver, and evidence.
Facts(res, bound, ev) ==
    /\ res.confidence \in Confidences
    /\ Listed(res.claims) /\ Listed(res.extras)
    /\ bound \in Module \cup {None}
    /\ ev \in Evidence

LEMMA MissingTyped ==
    ASSUME NEW entry \in Entry \cup {None}, NEW ev \in Evidence
    PROVE  MissingFirmware(entry, ev) \in Firmware \cup {None}
<1>1. ev.failed \in Seq(Firmware) /\ ev.absent \subseteq Firmware
  BY DEF Evidence
<1>2. CASE entry = None
  BY <1>2 DEF MissingFirmware
<1>3. CASE entry # None /\ Blamed(entry, ev) # {}
  <2>1. Blamed(entry, ev) \subseteq DOMAIN ev.failed
    BY DEF Blamed
  <2>2. Min(Blamed(entry, ev)) \in DOMAIN ev.failed
    BY <1>1, <1>3, <2>1, MinProps
  <2>3. ev.failed[Min(Blamed(entry, ev))] \in Firmware
    BY <1>1, <2>2
  <2>4. QED
    BY <1>3, <2>3 DEF MissingFirmware
<1>4. CASE entry # None /\ Blamed(entry, ev) = {}
  BY <1>1, <1>4 DEF MissingFirmware
<1>5. QED
  BY <1>2, <1>3, <1>4

LEMMA HintTyped ==
    ASSUME NEW entry \in Entry
    PROVE  ModuleHint(entry) \in Module \cup {None}
BY DEF ModuleHint, Entry

\* Whatever the facts, classify returns a diagnosis and nothing else.
LEMMA ClassifyTyped ==
    ASSUME NEW res, NEW bound, NEW ev, Facts(res, bound, ev)
    PROVE  Classify(res, bound, ev) \in Diagnosis
<1> DEFINE entry   == EntryNamed(res.chipset)
           file    == MissingFirmware(entry, ev)
           primary == Primary(res, bound)
<1>1. entry \in Entry \cup {None}
  BY EntryNamedProps
<1>2. file \in Firmware \cup {None}
  BY <1>1, MissingTyped DEF Facts
<1>3. First(res.claims) \in Module \cup {None} /\ primary \in Module \cup {None}
  BY FirstTyped DEF Facts, Primary, FirstCandidate
<1>4. Unbound(res, entry) \in Diagnosis
  <2>1. CASE Feasible(entry)
    <3>1. ModuleHint(entry) \in Module \cup {None}
      BY <1>1, <2>1, HintTyped DEF Feasible
    <3>2. QED
      BY <1>3, <2>1, <3>1
         DEF Unbound, Verdict, Diagnosis, States, Actions, Confidences, Facts
  <2>2. CASE ~Feasible(entry)
    BY <2>2 DEF Unbound, Verdict, Diagnosis, States, Actions, Confidences, Facts
  <2>3. QED
    BY <2>1, <2>2
<1>5. Classify(res, bound, ev) \in
        { Verdict("UNKNOWN", "manual_chip_id", "UNKNOWN", None, None),
          Verdict("D", "unblock_module", "CONFIRMED", primary, None),
          Verdict("C", FirmwareAction(file), "CONFIRMED", None, file),
          Unbound(res, entry),
          Verdict("C", "install_firmware_package", "PROBABLE", None, None),
          Verdict("A", "no_action", "CONFIRMED", bound, None) }
  BY Zenon DEF Classify
<1>6. FirmwareAction(file) \in Actions
  BY DEF FirmwareAction, Actions
<1> HIDE DEF entry, file, primary
<1>7. QED
  BY <1>2, <1>3, <1>4, <1>5, <1>6 DEF Verdict, Diagnosis, States, Actions, Confidences, Facts

\* Without log, blacklists and disk, as the command line calls it, classify
\* advises a dynamic bind exactly for an unbound device with a feasible entry,
\* and names the first module that claims the device, or else the entry's own.
LEMMA BindAdvice ==
    ASSUME NEW id, NEW bound, NEW lines \in AliasFile
    PROVE  LET d      == Classify(ResolveDevice(id, lines), bound, NoEvidence)
               claims == MatchWithLines(id, lines)
           IN  /\ d.action = "bind_new_id" <=> bound = None /\ Feasible(EntryOfId(id))
               /\ d.action = "bind_new_id" =>
                     d.hint = IF Nothing(claims) THEN ModuleHint(EntryOfId(id)) ELSE First(claims)
<1> DEFINE res    == ResolveDevice(id, lines)
           entry  == EntryNamed(res.chipset)
           claims == MatchWithLines(id, lines)
           module == IF Nothing(claims) THEN ModuleHint(EntryOfId(id)) ELSE First(claims)
<1>1. entry = EntryOfId(id)
  <2>1. CASE EntryOfId(id) # None
    BY <2>1, ResolveTyped, NameLeadsBack
  <2>2. CASE EntryOfId(id) = None
    BY <2>2, ResolveTyped, UnknownHasNoEntry
  <2>3. QED
    BY <2>1, <2>2
<1>2. MissingFirmware(entry, NoEvidence) = None
  BY DEF MissingFirmware, NoEvidence, Blamed
<1>3. Primary(res, bound) \notin NoEvidence.blocked /\ NoEvidence.failed = <<>>
  BY DEF NoEvidence
<1>4. res.claims = claims
  BY DEF ResolveDevice
<1>5. /\ Unbound(res, entry).action = "bind_new_id" <=> Feasible(EntryOfId(id))
      /\ Feasible(EntryOfId(id)) => Unbound(res, entry).hint = module
  <2>1. CASE Feasible(EntryOfId(id))
    <3>1. HasCapabilityDetail(entry)
      BY <1>1, <2>1, EntryOfIdProps, FeasibleNamesModule DEF Feasible
    <3>2. Unbound(res, entry) = Verdict("B", "bind_new_id", "HIGH_CONFIDENCE", module, None)
      BY <1>1, <1>4, <2>1, <3>1 DEF Unbound
    <3>3. QED
      BY <2>1, <3>2 DEF Verdict
  <2>2. CASE ~Feasible(EntryOfId(id))
    BY <1>1, <2>2 DEF Unbound, Verdict
  <2>3. QED
    BY <2>1, <2>2
<1>6. res.chipset = UnknownChip => EntryOfId(id) = None
  BY <1>1, UnknownHasNoEntry
<1> HIDE DEF res, module
<1>7. CASE res.chipset = UnknownChip /\ NoCandidates(res)
  BY <1>6, <1>7 DEF Classify, Verdict, Feasible, res
<1>8. CASE ~(res.chipset = UnknownChip /\ NoCandidates(res))
  <2>1. Classify(res, bound, NoEvidence) =
          IF bound = None THEN Unbound(res, entry)
          ELSE Verdict("A", "no_action", "CONFIRMED", bound, None)
    BY <1>2, <1>3, <1>8, Zenon DEF Classify
  <2>2. QED
    BY <1>5, <2>1 DEF Verdict, res, module
<1>9. QED
  BY <1>7, <1>8

-----------------------------------------------------------------------------
(***************************************************************************)
(* Planning.                                                               *)
(***************************************************************************)
\* plan_state_b raises or returns a plan; a bind plan is for the id asked
\* about, needs a feasible entry, and names a valid module.
LEMMA PlanTyped ==
    ASSUME NEW id \in Id, NEW bound, NEW loaded
    PROVE  LET plan == PlanStateB(id, bound, loaded)
           IN  /\ plan \in Plan
               /\ plan.kind = "bind" => Feasible(EntryOfId(id)) /\ plan.tx.id = id
               /\ Feasible(EntryOfId(id)) => plan.kind \in {"bind", "raises"}
               /\ plan.kind = "bind" => plan.tx.module = PlanModule(EntryOfId(id), bound, loaded)
BY DEF PlanStateB, Plan, PlanKinds, NoBind, Transaction, Feasible
=============================================================================
