------------------------------ MODULE TriageProofs ------------------------------
(***************************************************************************)
(* The classifier's chain of early returns yields the documented verdict,  *)
(* for any knowledge base, alias file, log, blacklist and disk.            *)
(***************************************************************************)
EXTENDS Triage, ClassifierProofs

\* What is known of the device, without its diagnosis.
FactsOK ==
    /\ id \in Id
    /\ kind \in Iface
    /\ bound \in Module \cup {None}
    /\ failed \in Seq(Firmware)
    /\ blocked \subseteq Module
    /\ absent \subseteq Firmware

-----------------------------------------------------------------------------
(***************************************************************************)
(* The documented facts and the program's own.                             *)
(***************************************************************************)
\* A pattern constrains the fields of a device, then those of an interface.
LEMMA PatternFields ==
    ASSUME NEW pattern \in Pattern
    PROVE  DOMAIN pattern \subseteq {"v", "p", "ic"}
BY DEF Pattern

\* The rows the program sees: those the kernel claims the device by whatever
\* its interface is.
Seen == Claiming \ Scoped

LEMMA MatchIsClaim ==
    ASSUME NEW i \in DOMAIN Alias
    PROVE  PatternMatches(Alias[i].pattern, Modalias(id)) <=> i \in Seen
<1> DEFINE pattern == Alias[i].pattern
           full    == [v |-> id[1], p |-> id[2], ic |-> kind]
<1>1. pattern \in Pattern \cup {None}
  <2>1. Alias[i] \in Row
    BY AliasTyped DEF AliasFile
  <2>2. QED
    BY <2>1 DEF Row
<1>2. i \in Seen <=> /\ pattern # None
                     /\ \A f \in DOMAIN pattern : pattern[f] \in {Any, full[f]}
                     /\ "ic" \in DOMAIN pattern => pattern.ic = Any
  BY DEF Seen, Claiming, Scoped, KernelClaims
<1>3. CASE pattern = None
  BY <1>2, <1>3 DEF PatternMatches
<1>4. CASE pattern # None
  <2>1. DOMAIN pattern \subseteq {"v", "p", "ic"}
    BY <1>1, <1>4, PatternFields
  <2>2. DOMAIN Modalias(id) = {"v", "p"}
        /\ Modalias(id).v = full.v /\ Modalias(id).p = full.p
    BY DEF Modalias
  <2> HIDE DEF pattern, full
  <2>3. ASSUME PatternMatches(pattern, Modalias(id)) PROVE i \in Seen
    BY <1>2, <1>4, <2>1, <2>2, <2>3 DEF PatternMatches
  <2>4. ASSUME i \in Seen PROVE PatternMatches(pattern, Modalias(id))
    <3>1. ASSUME NEW f \in DOMAIN pattern
          PROVE  pattern[f] = Any
                   \/ (f \in DOMAIN Modalias(id) /\ Modalias(id)[f] = pattern[f])
      <4>1. CASE f = "ic"
        BY <1>2, <2>4, <4>1
      <4>2. CASE f = "v"
        BY <1>2, <2>2, <2>4, <4>2
      <4>3. CASE f = "p"
        BY <1>2, <2>2, <2>4, <4>3
      <4>4. QED
        BY <2>1, <4>1, <4>2, <4>3
    <3>2. QED
      BY <1>4, <3>1 DEF PatternMatches
  <2>5. QED
    BY <2>3, <2>4 DEF pattern
<1>5. QED
  BY <1>3, <1>4

LEMMA ClaimsAreRows ==
    MatchWithLines(id, Alias) = [i \in Seen |-> Alias[i].module]
<1>1. Seen = {j \in DOMAIN Alias : PatternMatches(Alias[j].pattern, Modalias(id))}
  BY MatchIsClaim DEF Seen, Claiming
<1>2. QED
  BY <1>1 DEF MatchWithLines

LEMMA SeenProps ==
    /\ Seen \subseteq DOMAIN Alias /\ Seen \subseteq Nat
    /\ \A i \in Seen : Alias[i].module \in Module
    /\ Seen # {} => Min(Seen) \in Seen
<1>1. Seen \subseteq DOMAIN Alias
  BY DEF Seen, Claiming
<1>2. \A i \in DOMAIN Alias : i \in Nat /\ Alias[i] \in Row
  BY AliasTyped DEF AliasFile
<1>3. Seen # {} => Min(Seen) \in Seen
  BY <1>1, <1>2, MinProps
<1>4. QED
  BY <1>1, <1>2, <1>3 DEF Row

\* The entry found by name is the one found by id, and UNKNOWN means there is none.
LEMMA LookupsAgree ==
    LET res == ResolveDevice(id, Alias)
    IN  /\ EntryNamed(res.chipset) = Known
        /\ res.chipset = UnknownChip <=> Known = None
        /\ Known \in Entry \cup {None}
        /\ res.claims = MatchWithLines(id, Alias)
<1>1. EntryOfId(id) \in Entry \cup {None}
  BY EntryOfIdProps
<1>2. CASE EntryOfId(id) # None
  <2>1. EntryOfId(id).chipset # UnknownChip
    BY <1>1, <1>2, NullsAreDistinct DEF Entry
  <2>2. QED
    BY <1>1, <1>2, <2>1, NameLeadsBack DEF Known, ResolveDevice
<1>3. CASE EntryOfId(id) = None
  BY <1>3, UnknownHasNoEntry DEF Known, ResolveDevice
<1>4. QED
  BY <1>2, <1>3

LEMMA NothingMeansNoClaim ==
    LET res == ResolveDevice(id, Alias)
    IN  /\ Nothing(res.claims) <=> Seen = {}
        /\ Seen # {} => First(res.claims) = Alias[Min(Seen)].module
<1>1. ResolveDevice(id, Alias).claims = [i \in Seen |-> Alias[i].module]
  BY LookupsAgree, ClaimsAreRows
<1>2. Seen # {} => Min(Seen) \in Seen
  BY SeenProps
<1>3. QED
  BY <1>1, <1>2 DEF Nothing, First

\* Without any candidate there is no entry either.
LEMMA UnknownIsUnclaimed ==
    LET res == ResolveDevice(id, Alias)
    IN  (res.chipset = UnknownChip /\ NoCandidates(res)) <=> (Known = None /\ Seen = {})
<1>1. Known = None => Nothing(ResolveDevice(id, Alias).extras)
  BY DEF Known, ResolveDevice, Nothing
<1>2. QED
  BY <1>1, LookupsAgree, NothingMeansNoClaim DEF NoCandidates

\* The module classify looks up in the blacklist is the one that would serve.
LEMMA PrimaryServes ==
    ASSUME FactsOK, NEW list \in SUBSET Module
    PROVE  Primary(ResolveDevice(id, Alias), bound) \in list <=> Serving(Seen) \cap list # {}
<1> DEFINE res == ResolveDevice(id, Alias)
<1>1. CASE bound # None
  BY <1>1 DEF Primary, Serving
<1>2. CASE bound = None /\ Seen # {}
  <2>1. Primary(res, bound) = Alias[Min(Seen)].module
    BY <1>2, NothingMeansNoClaim DEF Primary, FirstCandidate
  <2>2. Serving(Seen) = {Alias[Min(Seen)].module}
    BY <1>2 DEF Serving
  <2>3. QED
    BY <2>1, <2>2
<1>3. CASE bound = None /\ Seen = {}
  <2>1. Primary(res, bound) = First(res.extras)
    BY <1>3, NothingMeansNoClaim DEF Primary, FirstCandidate
  <2>2. CASE Known = None
    <3>1. res.extras = <<>>
      BY <2>2 DEF Known, ResolveDevice
    <3>2. Primary(res, bound) = None
      BY <2>1, <3>1 DEF First, Nothing
    <3>3. Serving(Seen) = {}
      BY <1>3, <2>2 DEF Serving
    <3>4. QED
      BY <3>2, <3>3, NullsAreDistinct
  <2>3. CASE Known # None
    <3>1. Known.modules \in Seq(Module)
      BY <2>3, LookupsAgree DEF Entry
    <3>2. DOMAIN MatchWithLines(id, Alias) = {}
      BY <1>3, ClaimsAreRows
    <3>3. DOMAIN res.extras = DOMAIN Known.modules
          /\ \A i \in DOMAIN Known.modules : res.extras[i] = Known.modules[i]
      BY <2>3, <3>2 DEF Known, ResolveDevice, KbCandidates
    <3>4. CASE Known.modules = <<>>
      <4>1. DOMAIN Known.modules = {}
        BY <3>4
      <4>2. Primary(res, bound) = None
        BY <2>1, <3>3, <4>1 DEF First, Nothing
      <4>3. Serving(Seen) = {}
        BY <1>3, <3>4 DEF Serving
      <4>4. QED
        BY <4>2, <4>3, NullsAreDistinct
    <3>5. CASE Known.modules # <<>>
      <4>1. 1 \in DOMAIN Known.modules /\ DOMAIN Known.modules = 1..Len(Known.modules)
            /\ Len(Known.modules) \in Nat
        BY <3>1, <3>5
      <4> DEFINE places == DOMAIN Known.modules
      <4>2. Min(places) \in places /\ Min(places) <= 1
        <5>1. places \subseteq Nat /\ places # {} /\ 1 \in places
          BY <4>1
        <5> HIDE DEF places
        <5>2. Min(places) \in places /\ \A y \in places : Min(places) <= y
          BY <5>1, MinProps
        <5>3. QED
          BY <5>1, <5>2
      <4>3. Min(DOMAIN res.extras) = 1
        BY <3>3, <4>1, <4>2
      <4>4. Primary(res, bound) = Known.modules[1]
        BY <2>1, <3>3, <4>1, <4>3 DEF First, Nothing
      <4>5. Serving(Seen) = {Known.modules[1]}
        BY <1>3, <2>3, <3>5 DEF Serving
      <4>6. QED
        BY <4>4, <4>5
    <3>6. QED
      BY <3>4, <3>5
  <2>4. QED
    BY <2>2, <2>3
<1>4. QED
  BY <1>1, <1>2, <1>3

\* The file classify finds missing is one the documented reading calls lost.
LEMMA MissingIsLost ==
    ASSUME NEW log \in Seq(Firmware), NEW list, NEW gone \in SUBSET Firmware
    PROVE  LET ev == [failed |-> log, blocked |-> list, absent |-> gone]
           IN  (MissingFirmware(Known, ev) # None \/ (bound # None /\ log # <<>>))
                 <=> FirmwareLost(log, gone)
<1> DEFINE ev   == [failed |-> log, blocked |-> list, absent |-> gone]
           file == MissingFirmware(Known, ev)
           hit  == Known # None /\ \E i \in DOMAIN Known.firmware :
                      \/ \E j \in DOMAIN log : log[j] = Known.firmware[i]
                      \/ i = 1 /\ Known.firmware[i] \in gone
<1>1. file # None <=> hit
  <2>1. CASE Known = None
    BY <2>1 DEF MissingFirmware
  <2>2. CASE Known # None
    <3>1. Known.firmware \in Seq(Firmware)
      BY <2>2, LookupsAgree DEF Entry
    <3>2. Blamed(Known, ev) =
            {j \in DOMAIN log : \E i \in DOMAIN Known.firmware : Known.firmware[i] = log[j]}
      BY DEF Blamed, Declares
    <3>3. CASE Blamed(Known, ev) # {}
      <4>1. hit
        BY <2>2, <3>2, <3>3
      <4>2. Min(Blamed(Known, ev)) \in DOMAIN log
        BY <3>2, <3>3, MinProps
      <4>3. file = log[Min(Blamed(Known, ev))]
        BY <2>2, <3>3 DEF MissingFirmware
      <4>4. file \in Firmware
        BY <4>2, <4>3
      <4>5. QED
        BY <4>1, <4>4, NullsAreDistinct
    <3>4. CASE Blamed(Known, ev) = {}
      <4>1. hit <=> Known.firmware # <<>> /\ Known.firmware[1] \in gone
        <5>1. \A i \in DOMAIN Known.firmware : \A j \in DOMAIN log : log[j] # Known.firmware[i]
          BY <3>2, <3>4
        <5>2. Known.firmware # <<>> <=> 1 \in DOMAIN Known.firmware
          BY <3>1
        <5>3. QED
          BY <2>2, <5>1, <5>2
      <4>2. file = IF Known.firmware # <<>> /\ Known.firmware[1] \in gone
                   THEN Known.firmware[1] ELSE None
        BY <2>2, <3>4 DEF MissingFirmware
      <4>3. QED
        BY <4>1, <4>2, NullsAreDistinct
    <3>5. QED
      BY <3>3, <3>4
  <2>3. QED
    BY <2>1, <2>2
<1>2. QED
  BY <1>1 DEF FirmwareLost

-----------------------------------------------------------------------------
(***************************************************************************)
(* The verdict.                                                            *)
(***************************************************************************)
\* What DocumentedPriority and AdviceIsPossible say, of any evidence.
Ranked(d, log, list, gone) ==
    /\ d.state \in States
    /\ Applies(d.state, Seen, log, list, gone)
    /\ \A s \in States : Applies(s, Seen, log, list, gone) => Rank[s] <= Rank[d.state]

Followable(d, log, list, gone) ==
    /\ d.action = "bind_new_id" =>
          /\ bound = None /\ Known # None /\ Known.new_id_feasible = "true"
          /\ ~FirmwareLost(log, gone)
          /\ d.hint # None
          /\ d.hint \in list =>
                /\ Seen = {}
                /\ d.hint = ModuleHint(Known)
                /\ Known.modules # <<>> => Known.modules[1] \notin list
    /\ d.action = "install_firmware_package" => FirmwareLost(log, gone)

\* The state applies, and those that rank higher do not.
LEMMA RankedBy ==
    ASSUME NEW d, NEW log, NEW list, NEW gone,
           \/ d.state = "UNKNOWN" /\ Known = None /\ Seen = {}
           \/ /\ ~(Known = None /\ Seen = {})
              /\ \/ d.state = "D" /\ Serving(Seen) \cap list # {}
                 \/ /\ Serving(Seen) \cap list = {}
                    /\ \/ d.state = "C" /\ FirmwareLost(log, gone)
                       \/ /\ ~FirmwareLost(log, gone)
                          /\ \/ d.state = "B" /\ bound = None /\ Bindable(Seen)
                             \/ d.state = "E" /\ bound = None /\ ~Bindable(Seen)
                             \/ d.state = "A" /\ bound # None
    PROVE  Ranked(d, log, list, gone)
<1>1. /\ Applies("UNKNOWN", Seen, log, list, gone) <=> Known = None /\ Seen = {}
      /\ Applies("D", Seen, log, list, gone) <=> Serving(Seen) \cap list # {}
      /\ Applies("C", Seen, log, list, gone) <=> FirmwareLost(log, gone)
      /\ Applies("B", Seen, log, list, gone) <=> bound = None /\ Bindable(Seen)
      /\ Applies("E", Seen, log, list, gone) <=> bound = None /\ ~Bindable(Seen)
      /\ Applies("A", Seen, log, list, gone) <=> bound # None
  BY DEF Applies
<1>2. /\ Rank["UNKNOWN"] = 5 /\ Rank["D"] = 4 /\ Rank["C"] = 3
      /\ Rank["B"] = 2 /\ Rank["E"] = 2 /\ Rank["A"] = 1
  BY DEF Rank
<1>3. d.state \in States /\ Applies(d.state, Seen, log, list, gone)
  BY <1>1 DEF States
<1>4. ASSUME NEW s \in States, Applies(s, Seen, log, list, gone)
      PROVE  Rank[s] <= Rank[d.state]
  BY <1>1, <1>2, <1>4 DEF States
<1>5. QED
  BY <1>3, <1>4 DEF Ranked

\* Without a driver: what Unbound advises, and when.
LEMMA UnboundVerdict ==
    ASSUME FactsOK
    PROVE  LET res == ResolveDevice(id, Alias)
               d   == Unbound(res, Known)
           IN  /\ IF Bindable(Seen) THEN d.state = "B" ELSE d.state = "E"
               /\ d.action # "install_firmware_package"
               /\ d.action = "bind_new_id" =>
                     /\ Known # None /\ Known.new_id_feasible = "true"
                     /\ d.hint # None
                     /\ d.hint = IF Seen = {} THEN ModuleHint(Known)
                                ELSE Alias[Min(Seen)].module
<1> DEFINE res    == ResolveDevice(id, Alias)
           module == IF Nothing(res.claims) THEN ModuleHint(Known) ELSE First(res.claims)
<1>1. Nothing(res.claims) <=> Seen = {}
  BY NothingMeansNoClaim
<1>2. CASE ~Bindable(Seen)
  BY <1>1, <1>2 DEF Unbound, Bindable, Verdict
<1>3. CASE Bindable(Seen) /\ Feasible(Known)
  <2>1. Unbound(res, Known) = Verdict("B", "bind_new_id", "HIGH_CONFIDENCE", module, None)
    BY <1>1, <1>3 DEF Unbound, Bindable
  <2>2. module # None
    <3>1. CASE Seen # {}
      <4>1. module \in Module
        BY <1>1, <3>1, NothingMeansNoClaim, SeenProps
      <4>2. QED
        BY <4>1, NullsAreDistinct
    <3>2. CASE Seen = {}
      <4>1. PICK i \in DOMAIN Kb : Known = Kb[i]
        BY <1>3, EntryOfIdProps DEF Feasible, Known
      <4>2. HasModule(Known) /\ Known \in Entry
        BY <1>3, <4>1, KbFeasibleHasModule, EntriesTyped
      <4>3. Known.new_id_modules \in Seq(Module)
        BY <4>2 DEF Entry
      <4>4. Known.new_id_modules # <<>> => Known.new_id_modules[1] \in Module
        BY <4>3
      <4>5. ModuleHint(Known) # None
        BY <4>2, <4>4, NullsAreDistinct DEF ModuleHint, HasModule
      <4>6. QED
        BY <1>1, <3>2, <4>5
    <3>3. QED
      BY <3>1, <3>2
  <2>3. module = IF Seen = {} THEN ModuleHint(Known) ELSE Alias[Min(Seen)].module
    BY NothingMeansNoClaim
  <2> HIDE DEF module
  <2>4. QED
    BY <1>3, <2>1, <2>2, <2>3 DEF Verdict, Feasible
<1>4. CASE Bindable(Seen) /\ ~Feasible(Known)
  BY <1>1, <1>4 DEF Unbound, Bindable, Verdict
<1>5. QED
  BY <1>2, <1>3, <1>4

LEMMA ChainIsDocumented ==
    ASSUME FactsOK, NEW log \in Seq(Firmware), NEW list \in SUBSET Module,
           NEW gone \in SUBSET Firmware
    PROVE  /\ Ranked(DiagnosedWith(log, list, gone), log, list, gone)
           /\ Followable(DiagnosedWith(log, list, gone), log, list, gone)
<1> DEFINE res     == ResolveDevice(id, Alias)
           ev      == [failed |-> log, blocked |-> list, absent |-> gone]
           file    == MissingFirmware(Known, ev)
           primary == Primary(res, bound)
           d       == DiagnosedWith(log, list, gone)
<1>1. d = IF Known = None /\ Seen = {}
          THEN Verdict("UNKNOWN", "manual_chip_id", "UNKNOWN", None, None)
          ELSE IF Serving(Seen) \cap list # {}
          THEN Verdict("D", "unblock_module", "CONFIRMED", primary, None)
          ELSE IF file # None
          THEN Verdict("C", FirmwareAction(file), "CONFIRMED", None, file)
          ELSE IF bound = None
          THEN Unbound(res, Known)
          ELSE IF log # <<>>
          THEN Verdict("C", "install_firmware_package", "PROBABLE", None, None)
          ELSE Verdict("A", "no_action", "CONFIRMED", bound, None)
  BY LookupsAgree, UnknownIsUnclaimed, PrimaryServes, Zenon DEF DiagnosedWith, Classify
<1>2. (file # None \/ (bound # None /\ log # <<>>)) <=> FirmwareLost(log, gone)
  BY MissingIsLost
<1>3. FirmwareAction(file) # "bind_new_id"
  BY DEF FirmwareAction
<1> DEFINE lost == FirmwareLost(log, gone)
           free == Serving(Seen) \cap list = {}
           none == Known = None /\ Seen = {}
<1> HIDE DEF res, file, primary, d
<1>4. CASE none
  <2>1. d.state = "UNKNOWN" /\ d.action = "manual_chip_id"
    BY <1>1, <1>4 DEF Verdict
  <2>2. QED
    BY <1>4, <2>1, RankedBy DEF Followable, d
<1>5. CASE ~none /\ ~free
  <2>1. d.state = "D" /\ d.action = "unblock_module"
    BY <1>1, <1>5 DEF Verdict
  <2>2. QED
    BY <1>5, <2>1, RankedBy DEF Followable, d
<1>6. CASE ~none /\ free /\ lost
  <2>1. d.state = "C" /\ d.action # "bind_new_id"
    BY <1>1, <1>2, <1>3, <1>6 DEF Verdict
  <2>2. QED
    BY <1>6, <2>1, RankedBy DEF Followable, d
<1>7. CASE ~none /\ free /\ ~lost /\ bound = None
  <2>1. d = Unbound(res, Known)
    BY <1>1, <1>2, <1>7
  <2>2. IF Bindable(Seen) THEN d.state = "B" ELSE d.state = "E"
    BY <2>1, UnboundVerdict DEF res
  <2>3. Ranked(d, log, list, gone)
    BY <1>7, <2>2, RankedBy
  <2>4. /\ d.action # "install_firmware_package"
        /\ d.action = "bind_new_id" =>
              /\ Known # None /\ Known.new_id_feasible = "true"
              /\ d.hint # None
              /\ d.hint = IF Seen = {} THEN ModuleHint(Known) ELSE Alias[Min(Seen)].module
    BY <2>1, UnboundVerdict DEF res
  <2>5. Seen # {} => Alias[Min(Seen)].module \notin list
    BY <1>7 DEF Serving
  <2>6. Seen = {} /\ Known # None /\ Known.modules # <<>> => Known.modules[1] \notin list
    BY <1>7 DEF Serving
  <2>7. Followable(d, log, list, gone)
    BY <1>7, <2>4, <2>5, <2>6 DEF Followable
  <2>8. QED
    BY <2>3, <2>7 DEF d
<1>8. CASE ~none /\ free /\ ~lost /\ bound # None
  <2>1. d.state = "A" /\ d.action = "no_action"
    BY <1>1, <1>2, <1>8 DEF Verdict
  <2>2. QED
    BY <1>8, <2>1, RankedBy DEF Followable, d
<1>9. QED
  BY <1>4, <1>5, <1>6, <1>7, <1>8

-----------------------------------------------------------------------------
(***************************************************************************)
(* The theorems.                                                           *)
(***************************************************************************)
LEMMA FactsKept == FactsOK /\ [Next]_vars => FactsOK'
<1> SUFFICES ASSUME FactsOK, [Next]_vars PROVE FactsOK'
  OBVIOUS
<1> USE DEF FactsOK, device
<1>1. CASE Unbind
  BY <1>1 DEF Unbind
<1>2. CASE ClearLog
  BY <1>2 DEF ClearLog
<1>3. ASSUME NEW m \in Module, Bind(m) \/ Block(m) \/ Unblock(m)
      PROVE  FactsOK'
  BY <1>3 DEF Bind, Block, Unblock
<1>4. ASSUME NEW f \in Firmware, LogFailure(f) \/ RemoveFile(f) \/ InstallFile(f)
      PROVE  FactsOK'
  BY <1>4 DEF LogFailure, RemoveFile, InstallFile
<1>5. CASE UNCHANGED vars
  BY <1>5 DEF vars
<1>6. QED
  BY <1>1, <1>2, <1>3, <1>4, <1>5 DEF Next

LEMMA FactsInvariant == Spec => []FactsOK
<1>1. Init => FactsOK
  BY DEF Init, FactsOK
<1>2. QED
  BY <1>1, FactsKept, PTL DEF Spec

\* Whatever the evidence, the classifier returns a well-formed diagnosis.
THEOREM TypeCorrect == Spec => []TypeOK
<1>1. FactsOK => TypeOK
  <2>1. SUFFICES ASSUME FactsOK PROVE Diagnosed \in Diagnosis
    BY DEF FactsOK, TypeOK
  <2> DEFINE res == ResolveDevice(id, Alias)
             ev  == [failed |-> failed, blocked |-> blocked, absent |-> absent]
  <2>2. ev \in Evidence
    BY <2>1 DEF FactsOK, Evidence
  <2>3. Facts(res, bound, ev)
    BY <2>1, <2>2, AliasTyped, ResolveTyped DEF Facts, FactsOK
  <2>4. QED
    BY <2>3, <2>2, ClassifyTyped DEF Diagnosed, DiagnosedWith
<1>2. QED
  BY <1>1, FactsInvariant, PTL

(***************************************************************************)
(* For a device that no row for one kind of interface claims, the early    *)
(* returns of classify yield the applicable state that ranks highest in    *)
(* the documented order.                                                   *)
(***************************************************************************)
THEOREM DocumentedPriorityHolds == Spec => []DocumentedPriority
<1>1. FactsOK => DocumentedPriority
  <2>1. SUFFICES ASSUME FactsOK, Scoped = {}
                 PROVE  Ranked(Diagnosed, failed, blocked, absent) /\ Seen = Claiming
    BY DEF DocumentedPriority, Ranked
  <2>2. Seen = Claiming
    BY <2>1 DEF Seen
  <2>3. QED
    BY <2>1, <2>2, ChainIsDocumented DEF FactsOK, Diagnosed
<1>2. QED
  BY <1>1, FactsInvariant, PTL

(***************************************************************************)
(* Advice to bind needs an unbound device, an entry that allows it and     *)
(* firmware that is not missing; the module it names is not blacklisted,   *)
(* unless no row is seen to claim the device and the entry prefers a       *)
(* module other than its first.                                            *)
(***************************************************************************)
THEOREM AdviceIsPossibleHolds == Spec => []AdviceIsPossible
<1>1. FactsOK => AdviceIsPossible
  BY ChainIsDocumented DEF FactsOK, AdviceIsPossible, Followable, Diagnosed, Seen
<1>2. QED
  BY <1>1, FactsInvariant, PTL

(***************************************************************************)
(* With more evidence of trouble every state that applied and ranks above  *)
(* the harmless ones still applies, and the highest one is reported.       *)
(***************************************************************************)
LEMMA MoreIsNoBetter ==
    ASSUME FactsOK,
           NEW log \in Seq(Firmware), NEW list \in SUBSET Module, NEW gone \in SUBSET Firmware,
           blocked \subseteq list, absent \subseteq gone,
           \A i \in DOMAIN failed : i \in DOMAIN log /\ log[i] = failed[i]
    PROVE  NoBetter(DiagnosedWith(log, list, gone))
<1> DEFINE d == DiagnosedWith(log, list, gone)
<1>1. Ranked(Diagnosed, failed, blocked, absent)
  BY ChainIsDocumented DEF FactsOK, Diagnosed
<1>2. Ranked(d, log, list, gone)
  BY ChainIsDocumented
<1>3. FirmwareLost(failed, absent) => FirmwareLost(log, gone)
  <2>1. failed # <<>> => log # <<>>
    <3>1. failed # <<>> => 1 \in DOMAIN failed
      BY DEF FactsOK
    <3>2. QED
      BY <3>1
  <2>2. QED
    BY <2>1 DEF FirmwareLost
<1>4. Applies(Diagnosed.state, Seen, log, list, gone)
  BY <1>1, <1>3 DEF Ranked, Applies, States
<1>5. QED
  BY <1>1, <1>2, <1>4 DEF Ranked, NoBetter

\* A further failure, a further blacklisted module, or a file gone never looks better.
THEOREM TroubleNeverImprovesHolds == Spec => []TroubleNeverImproves
<1>1. FactsOK => TroubleNeverImproves
  <2>1. SUFFICES ASSUME FactsOK PROVE TroubleNeverImproves
    OBVIOUS
  <2>2. ASSUME NEW f \in Firmware
        PROVE  NoBetter(DiagnosedWith(Append(failed, f), blocked, absent))
    <3>1. /\ Append(failed, f) \in Seq(Firmware)
          /\ \A i \in DOMAIN failed : i \in DOMAIN Append(failed, f)
                                       /\ Append(failed, f)[i] = failed[i]
      BY <2>1 DEF FactsOK
    <3>2. QED
      BY <2>1, <3>1, MoreIsNoBetter DEF FactsOK
  <2>3. ASSUME NEW m \in Module
        PROVE  NoBetter(DiagnosedWith(failed, blocked \cup {m}, absent))
    BY <2>1, MoreIsNoBetter DEF FactsOK
  <2>4. ASSUME NEW f \in Firmware
        PROVE  NoBetter(DiagnosedWith(failed, blocked, absent \cup {f}))
    BY <2>1, MoreIsNoBetter DEF FactsOK
  <2>5. QED
    BY <2>2, <2>3, <2>4 DEF TroubleNeverImproves
<1>2. QED
  BY <1>1, FactsInvariant, PTL
=============================================================================
