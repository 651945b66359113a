----------------------------- MODULE DiagnoseProofs -----------------------------
(***************************************************************************)
(* The commands that look at the machine, for any argument lists, any      *)
(* knowledge base, any number of ports, any dongles and any amount of      *)
(* churn.                                                                  *)
(***************************************************************************)
EXTENDS Diagnose, ClassifierProofs, FiniteSetTheorems

AliasPath == { "alias", "iface_link", "iface_check", "node_link", "node_check", "conclude" }

VerifyPath == { "netdevs", "phy", "driver_file" }

\* What the program counter says about the locals.
ControlOK ==
    /\ pc \in {"product", "rest"} => todo # {}
    /\ pc \in AliasPath \cup VerifyPath \cup {"chip_plan"} => device # None
    /\ pc \in AliasPath => ~ByChip(task)
    /\ pc \in AliasPath \ {"alias"} => Release \in Releases

\* The two promises about the plan in a report hold by the way one report is
\* made; ControlOK is needed for its device and chip.
IInv ==
    /\ TypeOK
    /\ ControlOK
    /\ BindAdviceHasPlan
    /\ BindPlanIsSanctioned

-----------------------------------------------------------------------------
(***************************************************************************)
(* Pieces of the state.                                                    *)
(***************************************************************************)
LEMMA NextNodeTyped ==
    ASSUME TypeOK, todo # {}
    PROVE  NextNode \in todo /\ NextNode \in DeviceNodes /\ NextNode \in Nodes
<1>1. todo \subseteq Nat
  BY HostTyped DEF TypeOK
<1>2. QED
  BY <1>1, MinProps, HostTyped DEF NextNode, TypeOK

LEMMA NextNameTyped ==
    ASSUME TypeOK, names # {}
    PROVE  NextName \in names /\ NextName \in Netdevs
<1>1. names \subseteq Nat
  BY HostTyped DEF TypeOK
<1>2. QED
  BY <1>1, MinProps DEF NextName, TypeOK

\* What may sit at a node can be read there.
LEMMA AttributeTyped ==
    ASSUME TypeOK, NEW n \in Nodes
    PROVE  Attribute(n) \in Dongle
BY HostTyped DEF Attribute, NothingRead, Dongle, TypeOK, HostOK

LEMMA DriverFileTyped ==
    ASSUME TypeOK, NEW n \in Nodes
    PROVE  DriverFile(n) \in Module \cup {None}
BY HostTyped DEF DriverFile, TypeOK, HostOK

LEMMA LinkTargetTyped ==
    ASSUME TypeOK, NEW at
    PROVE  LinkTarget(at) \subseteq Module \cup {None}
BY LinkNameIsNoDriver DEF LinkTarget, TypeOK, Unresolved

LEMMA DeviceTyped ==
    ASSUME TypeOK, device # None
    PROVE  device \in Device /\ device.id \in Id /\ device.node \in Nodes
BY DEF TypeOK, Device

(***************************************************************************)
(* The parser makes a task of every argument list.                         *)
(***************************************************************************)
LEMMA TokenTyped ==
    ASSUME NEW l \in Seq(Token), NEW i \in DOMAIN l
    PROVE  l[i].text \in Text \cup {None}
<1>1. l[i] \in Token
  OBVIOUS
<1>2. QED
  BY <1>1 DEF Token

LEMMA OptValueTyped ==
    ASSUME NEW l \in Seq(Token), NEW key
    PROVE  OptValue(l, key) \in Text \cup {None}
<1>1. CASE Has(l, key)
  <2>1. FlagsNamed(l, key) \subseteq Nat /\ FlagsNamed(l, key) # {}
    BY <1>1 DEF FlagsNamed, Has
  <2>2. Min(FlagsNamed(l, key)) \in DOMAIN l
    BY <2>1, MinProps DEF FlagsNamed
  <2>3. \A i \in DOMAIN l : l[i].text \in Text \cup {None}
    BY TokenTyped
  <2>4. ValueAt(l, Min(FlagsNamed(l, key))) \in Text \cup {None}
    BY <2>2, <2>3 DEF ValueAt, Takes
  <2>5. QED
    BY <1>1, <2>4 DEF OptValue
<1>2. CASE ~Has(l, key)
  BY <1>2 DEF OptValue
<1>3. QED
  BY <1>1, <1>2

LEMMA ParsedTyped ==
    ASSUME NEW l \in Seq(Token)
    PROVE  Parsed(l) \in Task
<1>1. Command(l) \in Text \cup {None}
  <2>1. CASE Positional(l) = {}
    BY <2>1 DEF Command
  <2>2. CASE Positional(l) # {}
    <3>1. Positional(l) \subseteq Nat
      BY DEF Positional
    <3>2. Min(Positional(l)) \in DOMAIN l
      BY <2>2, <3>1, MinProps DEF Positional
    <3>3. QED
      BY <2>2, <3>2, TokenTyped DEF Command
  <2>3. QED
    BY <2>1, <2>2
<1>2. \A key : OptValue(l, key) \in Text \cup {None}
  BY OptValueTyped
<1>3. Has(l, "--execute") \in BOOLEAN
  BY DEF Has
<1>4. QED
  BY <1>1, <1>2, <1>3 DEF Parsed, Task

-----------------------------------------------------------------------------
(***************************************************************************)
(* Reports.                                                                *)
(***************************************************************************)
\* A report without a plan and a diagnosis.
Bare(r) ==
    /\ r \in Report
    /\ r.diagnosis = None
    /\ r.plan = None

LEMMA BlankBare ==
    ASSUME NEW t \in Task
    PROVE  Bare(Blank(t))
<1>1. t.chip \in Text \cup {None}
  BY DEF Task
<1>2. QED
  BY <1>1 DEF Blank, Report, Bare

LEMMA BareReports ==
    ASSUME TypeOK
    PROVE  /\ Fresh \in Report
           /\ Bare([Fresh EXCEPT !.exit = "unknown"])
           /\ Bare([Fresh EXCEPT !.exit = "raised", !.device = device])
           /\ \A m \in Module \cup {None}, v \in Verdicts :
                 Bare([Fresh EXCEPT !.device = device, !.netdev = found.netdev,
                                    !.driver = m, !.verdict = v])
           /\ \A p \in Answers :
                 Bare([Fresh EXCEPT !.readable = found.readable, !.pending = p])
<1>1. Bare(Fresh)
  BY BlankBare DEF TypeOK, Fresh
<1>2. device \in Device \cup {None}
  BY DEF TypeOK
<1>3. found.netdev \in Netdevs \cup {None} /\ found.readable \in BOOLEAN
  BY DEF TypeOK, Findings
<1>4. Bare([Fresh EXCEPT !.exit = "unknown"])
  BY <1>1 DEF Report, Bare
<1>5. Bare([Fresh EXCEPT !.exit = "raised", !.device = device])
  BY <1>1, <1>2 DEF Report, Bare
<1>6. ASSUME NEW m \in Module \cup {None}, NEW v \in Verdicts
      PROVE  Bare([Fresh EXCEPT !.device = device, !.netdev = found.netdev,
                                !.driver = m, !.verdict = v])
  <2> HIDE DEF Fresh
  <2>1. Fresh \in Report /\ Fresh.diagnosis = None /\ Fresh.plan = None
    BY <1>1 DEF Bare
  <2>2. QED
    BY <1>2, <1>3, <1>6, <2>1 DEF Report, Bare
<1>7. ASSUME NEW p \in Answers
      PROVE  Bare([Fresh EXCEPT !.readable = found.readable, !.pending = p])
  BY <1>1, <1>3 DEF Report, Bare
<1>8. Fresh \in Report
  BY <1>1 DEF Bare
<1>9. QED
  BY <1>4, <1>5, <1>6, <1>7, <1>8, Zenon

\* What the two promises say of one report.
Promised(r) ==
    /\ r.diagnosis # None =>
          /\ r.diagnosis.action = "bind_new_id" <=> r.plan.kind = "bind" /\ r.driver = None
          /\ r.diagnosis.action = "bind_new_id" /\ Nothing(Claims(r.device.id)) =>
                r.diagnosis.hint = r.plan.tx.module
    /\ r.plan # None /\ r.plan.kind = "bind" =>
          /\ Feasible(EntryOfId(r.device.id))
          /\ r.plan.tx.id = r.device.id
          /\ r.chip # None => Feasible(EntryNamed(r.chip))

LEMMA ConcludedReport ==
    ASSUME TypeOK, device # None, ~ByChip(task), Release \in Releases,
           PlanStateB(device.id, drv, None).kind # "raises"
    PROVE  LET r == [Fresh EXCEPT !.exit = PlanExit, !.device = device,
                                  !.driver = drv,
                                  !.plan = PlanStateB(device.id, drv, None),
                                  !.diagnosis = DiagnosisOf(device.id, drv)]
           IN  r \in Report /\ Promised(r)
<1> DEFINE plan == PlanStateB(device.id, drv, None)
           diag == DiagnosisOf(device.id, drv)
<1>1. device \in Device /\ device.id \in Id /\ drv \in Module \cup {None}
  BY DeviceTyped DEF TypeOK
<1>2. /\ plan \in Plan
      /\ plan.kind = "bind" => Feasible(EntryOfId(device.id)) /\ plan.tx.id = device.id
      /\ Feasible(EntryOfId(device.id)) => plan.kind = "bind"
      /\ plan.kind = "bind" => plan.tx.module = PlanModule(EntryOfId(device.id), drv, None)
  BY <1>1, PlanTyped
<1>3. NoEvidence \in Evidence
  BY DEF NoEvidence, Evidence
<1>10. AliasOf[Release] \in AliasFile
  BY LinesTyped
<1>4. diag \in Diagnosis
  <2>1. Facts(ResolveDevice(device.id, AliasOf[Release]), drv, NoEvidence)
    BY <1>1, <1>10, <1>3, ResolveTyped DEF Facts
  <2>2. QED
    BY <2>1, ClassifyTyped DEF DiagnosisOf, DiagnosisBy
<1>5. /\ diag.action = "bind_new_id" <=> drv = None /\ Feasible(EntryOfId(device.id))
      /\ diag.action = "bind_new_id" /\ Nothing(Claims(device.id)) =>
            diag.hint = ModuleHint(EntryOfId(device.id))
  BY <1>10, BindAdvice DEF DiagnosisOf, DiagnosisBy, Claims
<1>11. drv = None =>
          PlanModule(EntryOfId(device.id), drv, None) = ModuleHint(EntryOfId(device.id))
  BY DEF PlanModule, ModuleHint
<1> HIDE DEF plan, diag
<1> DEFINE r == [Fresh EXCEPT !.exit = PlanExit, !.device = device, !.driver = drv,
                              !.plan = plan, !.diagnosis = diag]
<1>6. r \in Report
  <2>1. Fresh \in Report /\ PlanExit \in {"ok", "refused"}
    BY BareReports DEF PlanExit
  <2>2. QED
    BY <1>1, <1>2, <1>4, <2>1 DEF Report
<1>7. /\ r.device = device /\ r.driver = drv /\ r.plan = plan /\ r.diagnosis = diag
      /\ r.chip = None
  BY DEF Fresh, Blank
<1>8. Promised(r)
  BY <1>2, <1>5, <1>11, <1>7 DEF Promised
<1>9. QED
  BY <1>6, <1>8 DEF plan, diag

LEMMA ChipReport ==
    ASSUME TypeOK, device # None,
           ChipPlanOf(device.id, task.chip).kind # "raises"
    PROVE  LET r == [Fresh EXCEPT !.exit = PlanExit, !.device = device,
                                  !.plan = ChipPlanOf(device.id, task.chip)]
           IN  r \in Report /\ Promised(r)
<1> DEFINE plan == ChipPlanOf(device.id, task.chip)
<1>1. device \in Device /\ device.id \in Id
  BY DeviceTyped
<1>2. /\ plan \in Plan
      /\ plan.kind = "bind" =>
            /\ Feasible(EntryOfId(device.id)) /\ plan.tx.id = device.id
            /\ Feasible(EntryNamed(task.chip))
  BY <1>1, PlanTyped DEF ChipPlanOf, NoBind, Plan, PlanKinds
<1> HIDE DEF plan
<1> DEFINE r == [Fresh EXCEPT !.exit = PlanExit, !.device = device, !.plan = plan]
<1>3. r \in Report
  <2>1. Fresh \in Report /\ PlanExit \in {"ok", "refused"}
    BY BareReports DEF PlanExit
  <2>2. QED
    BY <1>1, <1>2, <2>1 DEF Report
<1>4. /\ r.device = device /\ r.plan = plan /\ r.diagnosis = None
      /\ r.chip # None => r.chip = task.chip
  BY DEF Fresh, Blank
<1>5. Promised(r)
  BY <1>2, <1>4 DEF Promised
<1>6. QED
  BY <1>3, <1>5 DEF plan

-----------------------------------------------------------------------------
(***************************************************************************)
(* One step.                                                               *)
(***************************************************************************)
LEMMA PromisesSplit ==
    (report # None => Promised(report)) <=> BindAdviceHasPlan /\ BindPlanIsSanctioned
BY DEF Promised, BindAdviceHasPlan, BindPlanIsSanctioned

\* A command that finishes with a good report leaves the invariant behind.
LEMMA FinishKeeps ==
    ASSUME IInv, NEW r \in Report, Promised(r), Finish(r)
    PROVE  IInv'
<1>1. HostOK'
  BY DEF IInv, TypeOK, HostOK, Finish, hostVars
<1>2. TypeOK'
  BY <1>1 DEF IInv, TypeOK, Finish, Steps, NothingRead, Dongle, Unresolved, Findings,
              NothingFound
<1>3. ControlOK'
  BY DEF ControlOK, Finish, AliasPath, VerifyPath
<1>4. (report # None => Promised(report))'
  BY DEF Finish, Promised, Claims, Release
<1>5. QED
  BY <1>2, <1>3, <1>4, PromisesSplit DEF IInv, BindAdviceHasPlan, BindPlanIsSanctioned, Promised

LEMMA BareFinish ==
    ASSUME IInv, NEW r, Bare(r), Finish(r)
    PROVE  IInv'
<1>1. r \in Report /\ Promised(r)
  BY DEF Bare, Promised
<1>2. QED
  BY <1>1, FinishKeeps

(***************************************************************************)
(* A step that neither prints nor touches the host keeps the promises; it  *)
(* keeps the types when it keeps those of the locals.                      *)
(***************************************************************************)
LocalsOK ==
    /\ todo    \subseteq DeviceNodes
    /\ part    \in Dongle
    /\ devs    \in Seq(Device)
    /\ device  \in Device \cup {None}
    /\ link    \in Module \cup {Unresolved}
    /\ drv     \in Module \cup {None}
    /\ names   \subseteq Netdevs
    /\ found   \in Findings

LEMMA LocalStep ==
    ASSUME IInv, pc' \in Steps, UNCHANGED <<hostVars, task, line, report>>,
           LocalsOK', ControlOK'
    PROVE  IInv'
<1>1. HostOK'
  BY DEF IInv, TypeOK, HostOK, hostVars
<1>2. TypeOK'
  BY <1>1 DEF IInv, TypeOK, LocalsOK
<1>3. QED
  BY <1>2 DEF IInv, BindAdviceHasPlan, BindPlanIsSanctioned, Claims, Release

LEMMA HostKeepsTypes ==
    ASSUME HostOK, Host
    PROVE  HostOK'
<1> USE DEF ChangeNode, Change, Flip
<1>1. churn' \in 0..MaxChurn
  BY HostTyped DEF Host, HostOK, Plug, Unplug, BindDriver, UnbindDriver, MoveNetdev,
                   MoveTree, SetMarker
<1>2. /\ moved' \subseteq Nodes /\ netMoved' \subseteq Netdevs
      /\ treesMoved' \subseteq Releases /\ markerMoved' \in BOOLEAN
      /\ net' \subseteq Netdevs /\ trees' \subseteq Releases /\ marker' \in BOOLEAN
  BY HostTyped DEF Host, HostOK, Plug, Unplug, BindDriver, UnbindDriver, MoveNetdev,
                   MoveTree, SetMarker
<1>3. /\ usb' \in [Nodes -> Dongles \cup {Hub, None}]
      /\ iface' \in [Nodes -> Drivers \cup {None}]
      /\ nodeDrv' \in [Nodes -> NodeDrivers \cup {None}]
  <2>1. ASSUME NEW n \in DeviceNodes, Plug(n) PROVE <1>3!:
    BY <2>1 DEF HostOK, Plug
  <2>2. ASSUME NEW n \in DeviceNodes, Unplug(n) PROVE <1>3!:
    BY <2>2 DEF HostOK, Unplug
  <2>3. ASSUME NEW n \in DeviceNodes, BindDriver(n) PROVE <1>3!:
    BY <2>3 DEF HostOK, BindDriver
  <2>4. ASSUME NEW n \in DeviceNodes, UnbindDriver(n) PROVE <1>3!:
    BY <2>4 DEF HostOK, UnbindDriver
  <2>5. ASSUME SetMarker \/ (\E k \in Netdevs : MoveNetdev(k)) \/ (\E r \in Releases : MoveTree(r))
        PROVE  <1>3!:
    BY <2>5 DEF HostOK, SetMarker, MoveNetdev, MoveTree
  <2>6. QED
    BY <2>1, <2>2, <2>3, <2>4, <2>5 DEF Host
<1>4. QED
  BY <1>1, <1>2, <1>3 DEF HostOK

LEMMA HostStep ==
    ASSUME IInv, Host, UNCHANGED toolVars
    PROVE  IInv'
<1>1. TypeOK'
  BY HostKeepsTypes DEF IInv, TypeOK, toolVars
<1>2. QED
  BY <1>1 DEF IInv, ControlOK, ByChip, BindAdviceHasPlan, BindPlanIsSanctioned, Claims, Release,
              toolVars

LEMMA StartStep ==
    ASSUME IInv, NEW l \in Lines, Start(l)
    PROVE  IInv'
<1> DEFINE t == Parsed(l)
           r == [Blank(t) EXCEPT !.exit = Ended(t)]
<1>1. t \in Task
  BY ParsedTyped, LinesTyped
<1>2. Ended(t) # None => r \in Report /\ r.diagnosis = None /\ r.plan = None
  <2> SUFFICES ASSUME Ended(t) # None
               PROVE  r \in Report /\ r.diagnosis = None /\ r.plan = None
    OBVIOUS
  <2>1. Ended(t) \in {"ok", "not_found"}
    BY DEF Ended
  <2>2. Bare(Blank(t))
    BY <1>1, BlankBare
  <2>3. r \in Report /\ r.diagnosis = None /\ r.plan = None
    BY <2>1, <2>2 DEF Bare, Report
  <2>4. QED
    BY <2>3
<1>3. report' = None \/ (Ended(t) # None /\ report' = r)
  BY DEF Start
<1>4. pc' \in {"idle", "list", "own_alias"} /\ pc' \in Steps /\ task' = t /\ line' = l
  BY DEF Start, Steps
<1>5. HostOK'
  BY DEF IInv, TypeOK, HostOK, Start, Watch, hostNow
<1> HIDE DEF t, r
<1>6. TypeOK'
  BY <1>1, <1>2, <1>3, <1>4, <1>5 DEF IInv, TypeOK, Start, walkVars, checkVars
<1>7. ControlOK'
  BY <1>4 DEF ControlOK, AliasPath, VerifyPath
<1>8. (report # None => Promised(report))'
  BY <1>2, <1>3 DEF Promised
<1>9. QED
  BY <1>6, <1>7, <1>8 DEF IInv, BindAdviceHasPlan, BindPlanIsSanctioned, Promised, Claims, Release

\* The walk over the bus.
LEMMA ReadStep ==
    ASSUME IInv, ListNodes \/ ReadVendor \/ ReadProduct \/ ReadRest
    PROVE  IInv'
<1> USE DEF Step, checkVars
<1>1. UNCHANGED <<hostVars, task, line, report, device, link, drv, names, found>>
  BY DEF ListNodes, ReadVendor, ReadProduct, ReadRest
<1>2. pc' \in {"vendor", "product", "rest"} /\ pc' \in Steps
  BY DEF ListNodes, ReadVendor, ReadProduct, ReadRest, Steps
<1>3. /\ todo' \subseteq DeviceNodes /\ part' \in Dongle /\ devs' \in Seq(Device)
      /\ pc' # "vendor" => todo' # {}
  <2>1. CASE ListNodes
    BY <2>1 DEF ListNodes, Listing, IInv, TypeOK
  <2>2. ASSUME ReadVendor \/ ReadProduct PROVE <1>3!:
    <3>1. todo # {}
      BY <2>2 DEF IInv, ControlOK, ReadVendor, ReadProduct
    <3>2. Attribute(NextNode) \in Dongle
      BY <3>1, NextNodeTyped, AttributeTyped DEF IInv
    <3>3. part' \in Dongle
      BY <2>2, <3>2 DEF IInv, TypeOK, ReadVendor, ReadProduct, Dongle
    <3>4. QED
      BY <2>2, <3>1, <3>3 DEF IInv, TypeOK, ReadVendor, ReadProduct
  <2>3. CASE ReadRest
    <3>1. todo # {} /\ NextNode \in Nodes
      BY <2>3, NextNodeTyped DEF IInv, ControlOK, ReadRest
    <3>2. Complete => <<part.vid, part.pid>> \in Id
      BY DEF Complete, IInv, TypeOK, Dongle, Id
    <3>3. Complete => [node |-> NextNode, id |-> <<part.vid, part.pid>>] \in Device
      BY <3>1, <3>2 DEF Device
    <3>4. devs \in Seq(Device)
      BY DEF IInv, TypeOK
    <3>5. CASE Complete
      BY <2>3, <3>3, <3>4, <3>5 DEF ReadRest, DevsWithNext, IInv, TypeOK, NothingRead, Dongle
    <3>6. CASE ~Complete
      BY <2>3, <3>4, <3>6 DEF ReadRest, DevsWithNext, IInv, TypeOK, NothingRead, Dongle
    <3>7. QED
      BY <3>5, <3>6
  <2>4. QED
    BY <2>1, <2>2, <2>3
<1>4. LocalsOK'
  BY <1>1, <1>3 DEF LocalsOK, IInv, TypeOK
<1>5. ControlOK'
  BY <1>2, <1>3 DEF ControlOK, AliasPath, VerifyPath
<1>6. QED
  BY <1>1, <1>2, <1>4, <1>5, LocalStep

LEMMA RaiseStep ==
    ASSUME IInv, Raise
    PROVE  IInv'
BY BareReports, BareFinish DEF Raise, IInv

LEMMA PickStep ==
    ASSUME IInv, PickNothing \/ PickDevice \/ RestRaises
    PROVE  IInv'
<1>1. CASE PickNothing
  BY <1>1, BareReports, BareFinish DEF PickNothing, IInv
<1>2. CASE PickDevice
  <2>1. devs \in Seq(Device) /\ Wanted # {}
    BY <1>2 DEF IInv, TypeOK, PickDevice
  <2>2. Wanted \subseteq DOMAIN devs /\ Wanted \subseteq Nat
    BY <2>1 DEF Wanted
  <2>3. Min(Wanted) \in DOMAIN devs
    BY <2>1, <2>2, MinProps
  <2>4. device' \in Device /\ device' # None
    BY <1>2, <2>1, <2>3, AttributesDistinct DEF PickDevice
  <2>5. /\ UNCHANGED <<hostVars, task, line, report, todo, part, devs, link, drv, names, found>>
        /\ pc' = NextAfterPick
    BY <1>2 DEF PickDevice, Step, checkVars
  <2>6. LocalsOK'
    BY <2>4, <2>5 DEF LocalsOK, IInv, TypeOK
  <2>7. pc' \in {"netdevs", "chip_plan", "alias"} /\ (pc' = "alias" => ~ByChip(task))
    BY <2>5 DEF NextAfterPick
  <2>8. ControlOK' /\ pc' \in Steps
    BY <2>4, <2>5, <2>7 DEF ControlOK, AliasPath, VerifyPath, Steps, ByChip
  <2>9. QED
    BY <2>5, <2>6, <2>8, LocalStep
<1>3. CASE RestRaises
  BY <1>3, RaiseStep DEF RestRaises
<1>4. QED
  BY <1>1, <1>2, <1>3

\* Steps along the alias path that do not end the command.
LEMMA PathStep ==
    ASSUME IInv, pc \in AliasPath, pc' \in AliasPath,
           UNCHANGED <<hostVars, task, line, report, todo, part, devs, device, names, found>>,
           link' \in Module \cup {Unresolved}, drv' \in Module \cup {None},
           pc = "alias" => Release \in Releases, pc' # "alias"
    PROVE  IInv'
<1>1. LocalsOK' /\ pc' \in Steps
  BY DEF LocalsOK, IInv, TypeOK, AliasPath, Steps
<1>2. ControlOK'
  <2>1. Release \in Releases /\ Release' = Release
    BY DEF IInv, ControlOK, Release
  <2>2. QED
    BY <2>1 DEF IInv, ControlOK, AliasPath, VerifyPath, ByChip
<1>3. QED
  BY <1>1, <1>2, LocalStep

LEMMA DriverStep ==
    ASSUME IInv,
           ReadAlias \/ NoAlias \/ ResolveIface \/ CheckIface \/ ResolveNode \/ CheckNode
    PROVE  IInv'
<1> USE DEF Step, checkVars
<1>1. CASE ReadAlias
  <2>1. pc = "alias" /\ pc' = "iface_link"
        /\ UNCHANGED <<hostVars, task, line, report, todo, part, devs, device, link, drv, names, found>>
    BY <1>1 DEF ReadAlias, walkVars
  <2>2. Release \in Releases
    BY <1>1 DEF ReadAlias, IInv, TypeOK, HostOK
  <2>3. QED
    BY <2>1, <2>2, PathStep DEF AliasPath, IInv, TypeOK
<1>2. CASE NoAlias
  BY <1>2, RaiseStep DEF NoAlias
<1>3. ASSUME NEW from \in AliasPath \ {"alias"}, NEW to \in AliasPath \ {"alias"}, NEW at,
             \A n \in Nodes : at[n] \in Module \cup {None},
             ResolveLink(from, to, at)
      PROVE  IInv'
  <2>1. pc = from /\ pc' = to
        /\ UNCHANGED <<hostVars, task, line, report, todo, part, devs, device, drv, names, found>>
        /\ link' = IF at[device.node] = None THEN Unresolved ELSE at[device.node]
    BY <1>3 DEF ResolveLink
  <2>2. device.node \in Nodes
    BY <1>3, <2>1, DeviceTyped DEF IInv, ControlOK
  <2>3. link' \in Module \cup {Unresolved}
    BY <1>3, <2>1, <2>2
  <2>4. QED
    BY <1>3, <2>1, <2>3, PathStep DEF IInv, TypeOK
<1>4. ASSUME NEW from \in AliasPath \ {"alias"}, NEW otherwise \in AliasPath \ {"alias"}, NEW at,
             CheckLink(from, otherwise, at)
      PROVE  IInv'
  <2>1. pc = from /\ pc' \in {otherwise, "conclude"} /\ drv' \in LinkTarget(at)
        /\ UNCHANGED <<hostVars, task, line, report, todo, part, devs, device, link, names, found>>
    BY <1>4 DEF CheckLink
  <2>2. drv' \in Module \cup {None}
    BY <2>1, LinkTargetTyped DEF IInv
  <2>3. QED
    BY <1>4, <2>1, <2>2, PathStep DEF IInv, TypeOK, AliasPath
<1>5. /\ \A n \in Nodes : iface[n] \in Module \cup {None}
      /\ \A n \in Nodes : nodeDrv[n] \in Module \cup {None}
  BY HostTyped DEF IInv, TypeOK, HostOK
<1>6. QED
  BY <1>1, <1>2, <1>3, <1>4, <1>5
     DEF ResolveIface, CheckIface, ResolveNode, CheckNode, AliasPath

LEMMA EndStep ==
    ASSUME IInv, Conclude \/ ChipPlan
    PROVE  IInv'
<1>1. CASE Conclude
  <2>1. device # None /\ ~ByChip(task) /\ Release \in Releases
    BY <1>1 DEF Conclude, IInv, ControlOK, AliasPath
  <2>2. CASE PlanStateB(device.id, drv, None).kind = "raises"
    BY <1>1, <2>2, RaiseStep DEF Conclude
  <2>3. CASE PlanStateB(device.id, drv, None).kind # "raises"
    BY <1>1, <2>1, <2>3, ConcludedReport, FinishKeeps DEF Conclude, IInv
  <2>4. QED
    BY <2>2, <2>3
<1>2. CASE ChipPlan
  <2>1. device # None
    BY <1>2 DEF ChipPlan, IInv, ControlOK
  <2>2. CASE ChipPlanOf(device.id, task.chip).kind = "raises"
    BY <1>2, <2>2, RaiseStep DEF ChipPlan
  <2>3. CASE ChipPlanOf(device.id, task.chip).kind # "raises"
    BY <1>2, <2>1, <2>3, ChipReport, FinishKeeps DEF ChipPlan, IInv
  <2>4. QED
    BY <2>2, <2>3
<1>3. QED
  BY <1>1, <1>2

LEMMA VerifyStep ==
    ASSUME IInv, ListNetdevs \/ ReadPhy \/ SkipName \/ NoPhy \/ ReadDriverFile
    PROVE  IInv'
<1>1. pc \in VerifyPath
  BY DEF ListNetdevs, ReadPhy, SkipName, NoPhy, ReadDriverFile, Step, VerifyPath
<1>2. device # None
  BY <1>1 DEF IInv, ControlOK
<1>3. ASSUME ListNetdevs \/ ReadPhy \/ SkipName \/ NoPhy PROVE IInv'
  <2>1. /\ UNCHANGED <<hostVars, task, line, report, todo, part, devs, device, link, drv>>
        /\ pc' \in VerifyPath
    BY <1>3 DEF ListNetdevs, ReadPhy, SkipName, NoPhy, Step, VerifyPath, walkVars
  <2>2. names' \subseteq Netdevs /\ found' \in Findings
    <3>1. CASE ListNetdevs
      BY <3>1 DEF ListNetdevs, IInv, TypeOK, HostOK
    <3>2. CASE ReadPhy
      BY <3>2, NextNameTyped DEF ReadPhy, IInv, TypeOK, Findings
    <3>3. ASSUME SkipName \/ NoPhy PROVE <2>2!:
      BY <3>3 DEF SkipName, NoPhy, IInv, TypeOK, checkVars
    <3>4. QED
      BY <1>3, <3>1, <3>2, <3>3
  <2>3. LocalsOK' /\ pc' \in Steps
    BY <2>1, <2>2 DEF LocalsOK, IInv, TypeOK, VerifyPath, Steps
  <2>4. ControlOK'
    BY <1>2, <2>1 DEF ControlOK, VerifyPath, AliasPath
  <2>5. QED
    BY <2>1, <2>3, <2>4, LocalStep
<1>4. CASE ReadDriverFile
  <2>1. DriverFile(device.node) \in Module \cup {None}
    BY <1>2, DeviceTyped, DriverFileTyped DEF IInv
  <2>2. VerdictOf(Checks(found.netdev, DriverFile(device.node), NoLog)) \in Verdicts
    BY DEF VerdictOf, Verdicts
  <2>3. QED
    BY <1>4, <2>1, <2>2, BareReports, BareFinish DEF ReadDriverFile, IInv
<1>5. QED
  BY <1>3, <1>4

LEMMA DoctorStep ==
    ASSUME IInv, ReadOwnAlias \/ LookForMarker \/ ListTrees
    PROVE  IInv'
<1>1. ASSUME ReadOwnAlias \/ LookForMarker PROVE IInv'
  <2>1. /\ UNCHANGED <<hostVars, task, line, report, todo, part, devs, device, link, drv, names>>
        /\ pc' \in {"marker", "trees"}
    BY <1>1 DEF ReadOwnAlias, LookForMarker, Step, walkVars
  <2>2. found' \in Findings
    <3>1. found \in Findings /\ marker \in BOOLEAN
      BY DEF IInv, TypeOK, HostOK
    <3>2. \A b \in BOOLEAN : [found EXCEPT !.readable = b] \in Findings
                            /\ [found EXCEPT !.marker = b] \in Findings
      BY <3>1 DEF Findings
    <3>3. (Running \in trees) \in BOOLEAN
      OBVIOUS
    <3>4. QED
      BY <1>1, <3>1, <3>2, <3>3 DEF ReadOwnAlias, LookForMarker
  <2>3. LocalsOK' /\ pc' \in Steps
    BY <2>1, <2>2 DEF LocalsOK, IInv, TypeOK, Steps
  <2>4. ControlOK'
    BY <2>1 DEF ControlOK, VerifyPath, AliasPath
  <2>5. QED
    BY <2>1, <2>3, <2>4, LocalStep
<1>2. CASE ListTrees
  <2>1. Pending(trees, found.marker) \in Answers
    BY DEF Pending, Answers
  <2>2. QED
    BY <1>2, <2>1, BareReports, BareFinish DEF ListTrees, IInv
<1>3. QED
  BY <1>1, <1>2

LEMMA InductiveStep == IInv /\ [Next]_vars => IInv'
<1> SUFFICES ASSUME IInv, [Next]_vars PROVE IInv'
  OBVIOUS
<1>1. CASE UNCHANGED vars
  BY <1>1 DEF vars, hostVars, toolVars, IInv, TypeOK, HostOK, ControlOK, ByChip,
              BindAdviceHasPlan, BindPlanIsSanctioned, Claims, Release
<1>2. CASE Next
  BY <1>2, HostStep, StartStep, ReadStep, PickStep, DriverStep, EndStep, VerifyStep,
     DoctorStep DEF Next, Tool
<1>3. QED
  BY <1>1, <1>2

LEMMA Inductive == Spec => []IInv
<1>1. Init => IInv
  <2> SUFFICES ASSUME Init PROVE IInv
    OBVIOUS
  <2>1. task \in Task /\ part \in Dongle /\ devs \in Seq(Device) /\ found \in Findings
    BY DEF Init, Task, NoTask, NothingRead, Dongle, NothingFound, Findings
  <2>2. HostOK
    <3>1. 0 \in 0..MaxChurn /\ {Running} \subseteq Releases
      BY HostTyped, ReleasesTyped
    <3>2. QED
      BY <3>1 DEF Init, HostInit, HostOK
  <2>3. TypeOK
    BY <2>1, <2>2 DEF Init, TypeOK, Steps, Unresolved
  <2>4. QED
    BY <2>3 DEF Init, IInv, ControlOK, AliasPath, VerifyPath, BindAdviceHasPlan,
                BindPlanIsSanctioned
<1>2. QED
  BY <1>1, InductiveStep, PTL DEF Spec

-----------------------------------------------------------------------------
(***************************************************************************)
(* Theorems.                                                               *)
(***************************************************************************)
(***************************************************************************)
(* Every variable keeps its type: classify returns one of its diagnoses    *)
(* and the planner a plan in its grammar or a ValueError, whatever was     *)
(* read and whatever changed between two reads.                            *)
(***************************************************************************)
THEOREM TypeCorrect == Spec => []TypeOK
<1>1. IInv => TypeOK
  BY DEF IInv
<1>2. QED
  BY <1>1, Inductive, PTL

(***************************************************************************)
(* For every knowledge base with unique names whose feasible entries name  *)
(* a module: the advice to bind by new_id and the bind plan printed below  *)
(* it come together or not at all, though two lookups produce them, and    *)
(* they name one module for a dongle that no alias row claims.             *)
(***************************************************************************)
THEOREM BindAdviceHasPlanHolds == Spec => []BindAdviceHasPlan
<1>1. IInv => BindAdviceHasPlan
  BY DEF IInv
<1>2. QED
  BY <1>1, Inductive, PTL

(***************************************************************************)
(* No bind plan is printed for an id whose entry, or for a named chip      *)
(* whose entry, does not say that the id can be bound.                     *)
(***************************************************************************)
THEOREM BindPlanIsSanctionedHolds == Spec => []BindPlanIsSanctioned
<1>1. IInv => BindPlanIsSanctioned
  BY DEF IInv
<1>2. QED
  BY <1>1, Inductive, PTL
-----------------------------------------------------------------------------
(***************************************************************************)
(* How long a command lasts.                                               *)
(***************************************************************************)
LEMMA Sizes ==
    ASSUME TypeOK
    PROVE  /\ IsFiniteSet(todo) /\ IsFiniteSet(names)
           /\ Cardinality(todo) \in Nat /\ Cardinality(names) \in Nat
           /\ Cardinality(Netdevs) \in Nat /\ Cardinality(DeviceNodes) \in Nat
           /\ Cardinality(todo) <= Cardinality(DeviceNodes)
           /\ Cardinality(names) <= Cardinality(Netdevs)
<1>1. IsFiniteSet(DeviceNodes) /\ IsFiniteSet(Netdevs)
  BY HostTyped, HostFinite, FS_Subset
<1>2. todo \subseteq DeviceNodes /\ names \subseteq Netdevs
  BY DEF TypeOK
<1>3. IsFiniteSet(todo) /\ IsFiniteSet(names)
  BY <1>1, <1>2, FS_Subset
<1>4. /\ Cardinality(todo) <= Cardinality(DeviceNodes)
      /\ Cardinality(names) <= Cardinality(Netdevs)
  BY <1>1, <1>2, FS_Subset
<1>5. QED
  BY <1>1, <1>3, <1>4, FS_CardinalityType

\* The reads that are left count down to none.
LEMMA ReadsLeftTyped ==
    ASSUME TypeOK, pc # "idle"
    PROVE  ReadsLeft \in Nat \ {0}
<1>1. /\ Cardinality(todo) \in Nat /\ Cardinality(names) \in Nat
      /\ Cardinality(Netdevs) \in Nat /\ Cardinality(DeviceNodes) \in Nat
  BY Sizes
<1>2. pc \in Steps
  BY DEF TypeOK
<1>3. QED
  BY <1>1, <1>2 DEF ReadsLeft, Steps

\* A step along the bus: each node takes three reads and is then done with.
LEMMA WalkDescends ==
    ASSUME IInv, IInv', ListNodes \/ ReadVendor \/ ReadProduct \/ ReadRest \/ PickDevice
    PROVE  ReadsLeft' \in 0 .. ReadsLeft - 1
<1> DEFINE a == Cardinality(todo)
           b == Cardinality(todo')
           nets == Cardinality(Netdevs)
           ports == Cardinality(DeviceNodes)
<1>0. TypeOK /\ TypeOK'
  BY DEF IInv
<1>1. /\ a \in Nat /\ nets \in Nat /\ ports \in Nat /\ IsFiniteSet(todo)
  BY <1>0, Sizes
<1>2. IsFiniteSet(DeviceNodes) /\ todo' \subseteq DeviceNodes
  BY <1>0, HostTyped, HostFinite, FS_Subset DEF TypeOK
<1>3. b \in Nat /\ b <= ports
  BY <1>2, FS_Subset, FS_CardinalityType
<1>4. CASE ListNodes
  <2>1. ReadsLeft = 3 * ports + nets + 8 /\ ReadsLeft' = 3 * b + nets + 7
    BY <1>4 DEF ListNodes, Step, ReadsLeft
  <2> HIDE DEF a, b, nets, ports
  <2>2. QED
    BY <1>1, <1>3, <2>1
<1>5. CASE ReadVendor
  <2>1. /\ ReadsLeft = 3 * a + nets + 7 /\ ReadsLeft' = 3 * a + nets + 7 - 1
    BY <1>5, <1>1, <1>3 DEF ReadVendor, Step, ReadsLeft
  <2> HIDE DEF a, b, nets, ports
  <2>2. QED
    BY <1>1, <2>1
<1>6. CASE ReadProduct
  <2>1. /\ ReadsLeft = 3 * a + nets + 7 - 1 /\ ReadsLeft' = 3 * a + nets + 7 - 2
    BY <1>6, <1>1, <1>3 DEF ReadProduct, Step, ReadsLeft
  <2> HIDE DEF a, b, nets, ports
  <2>2. QED
    BY <1>1, <2>1
<1>7. CASE ReadRest
  <2>1. ReadsLeft = 3 * a + nets + 7 - 2 /\ ReadsLeft' = 3 * b + nets + 7
    BY <1>7, <1>1, <1>3 DEF ReadRest, Step, ReadsLeft
  <2>2. todo # {} /\ todo' = todo \ {NextNode}
    BY <1>7 DEF ReadRest, Step, IInv, ControlOK
  <2>3. NextNode \in todo
    BY <1>0, <2>2, NextNodeTyped
  <2>4. b = a - 1
    BY <1>1, <2>2, <2>3, FS_RemoveElement
  <2> HIDE DEF a, b, nets, ports
  <2>5. QED
    BY <1>1, <1>3, <2>1, <2>4
<1>8. CASE PickDevice
  <2>1. ReadsLeft = 3 * a + nets + 7
    BY <1>8 DEF PickDevice, Step, ReadsLeft
  <2>2. pc' \in {"netdevs", "chip_plan", "alias"}
    BY <1>8 DEF PickDevice, Step, NextAfterPick
  <2>3. ReadsLeft' \in {nets + 3, 1, 6}
    BY <2>2 DEF ReadsLeft
  <2> HIDE DEF a, b, nets, ports
  <2>4. QED
    BY <1>1, <2>1, <2>3
<1>9. QED
  BY <1>4, <1>5, <1>6, <1>7, <1>8

\* A step among the network devices.
LEMMA NetsDescend ==
    ASSUME IInv, IInv', ListNetdevs \/ ReadPhy \/ SkipName \/ NoPhy
    PROVE  ReadsLeft' \in 0 .. ReadsLeft - 1
<1> DEFINE a == Cardinality(names)
           b == Cardinality(names')
           nets == Cardinality(Netdevs)
<1>0. TypeOK /\ TypeOK'
  BY DEF IInv
<1>1. a \in Nat /\ nets \in Nat /\ IsFiniteSet(names)
  BY <1>0, Sizes
<1>2. names' \subseteq Netdevs
  BY <1>0 DEF TypeOK
<1>3. b \in Nat /\ b <= nets
  BY <1>2, HostFinite, FS_Subset, FS_CardinalityType
<1>4. CASE ListNetdevs
  <2>1. ReadsLeft = nets + 3 /\ ReadsLeft' = b + 2
    BY <1>4 DEF ListNetdevs, Step, ReadsLeft
  <2> HIDE DEF a, b, nets
  <2>2. QED
    BY <1>1, <1>3, <2>1
<1>5. CASE ReadPhy \/ NoPhy
  <2>1. ReadsLeft = a + 2 /\ ReadsLeft' = 1
    BY <1>5 DEF ReadPhy, NoPhy, Step, ReadsLeft
  <2> HIDE DEF a, b, nets
  <2>2. QED
    BY <1>1, <2>1
<1>6. CASE SkipName
  <2>1. ReadsLeft = a + 2 /\ ReadsLeft' = b + 2
    BY <1>6 DEF SkipName, Step, ReadsLeft
  <2>2. NextName \in names /\ names' = names \ {NextName}
    BY <1>0, <1>6, NextNameTyped DEF SkipName
  <2>3. b = a - 1
    BY <1>1, <2>2, FS_RemoveElement
  <2> HIDE DEF a, b, nets
  <2>4. QED
    BY <1>1, <1>3, <2>1, <2>3
<1>7. QED
  BY <1>4, <1>5, <1>6

\* The straight stretches: the look at the driver links, and `doctor`.
LEMMA StraightDescends ==
    ASSUME \/ ReadAlias \/ ResolveIface \/ CheckIface \/ ResolveNode \/ CheckNode
           \/ ReadOwnAlias \/ LookForMarker
    PROVE  ReadsLeft' \in 0 .. ReadsLeft - 1
<1>1. \/ pc = "alias" /\ pc' = "iface_link"
      \/ pc = "iface_link" /\ pc' = "iface_check"
      \/ pc = "iface_check" /\ pc' \in {"node_link", "conclude"}
      \/ pc = "node_link" /\ pc' = "node_check"
      \/ pc = "node_check" /\ pc' = "conclude"
      \/ pc = "own_alias" /\ pc' = "marker"
      \/ pc = "marker" /\ pc' = "trees"
  BY DEF ReadAlias, ResolveIface, CheckIface, ResolveNode, CheckNode, ResolveLink, CheckLink,
         ReadOwnAlias, LookForMarker, Step
<1>2. QED
  BY <1>1 DEF ReadsLeft

\* The steps that print the answer.
LEMMA EndDescends ==
    ASSUME IInv, \/ RestRaises \/ PickNothing \/ NoAlias \/ Conclude \/ ChipPlan
                 \/ ReadDriverFile \/ ListTrees
    PROVE  ReadsLeft' \in 0 .. ReadsLeft - 1
<1>1. pc # "idle" /\ pc' = "idle"
  BY DEF RestRaises, PickNothing, NoAlias, Conclude, ChipPlan, ReadDriverFile, ListTrees,
         Raise, Finish
<1>2. ReadsLeft' = 0
  BY <1>1 DEF ReadsLeft
<1>3. ReadsLeft \in Nat \ {0}
  BY <1>1, ReadsLeftTyped DEF IInv
<1>4. QED
  BY <1>2, <1>3

(***************************************************************************)
(* However many ports and network devices there are and whatever happens   *)
(* on them, a running command gets nearer to its end with every step: it   *)
(* ends after at most three reads a port, one a network device and eight   *)
(* more, if only it is scheduled.                                          *)
(***************************************************************************)
THEOREM EveryStepIsProgressHolds == Spec => EveryStepIsProgress
<1> DEFINE Nearer == pc # "idle" => UNCHANGED toolVars \/ ReadsLeft' \in 0 .. ReadsLeft - 1
<1>1. IInv /\ [Next]_vars => [Nearer]_vars
  <2> SUFFICES ASSUME IInv, Next, pc # "idle"
               PROVE  UNCHANGED toolVars \/ ReadsLeft' \in 0 .. ReadsLeft - 1
    OBVIOUS
  <2>1. IInv'
    BY InductiveStep
  <2>2. CASE Tool
    BY <2>1, <2>2, WalkDescends, NetsDescend, StraightDescends, EndDescends DEF Tool
  <2>3. ASSUME NEW l \in Lines, Start(l) PROVE FALSE
    BY <2>3 DEF Start
  <2>4. QED
    BY <2>2, <2>3 DEF Next
<1>2. QED
  BY <1>1, Inductive, PTL DEF Spec, EveryStepIsProgress
-----------------------------------------------------------------------------
(***************************************************************************)
(* What the loop of _parse collects is what Parsed says of the line.       *)
(***************************************************************************)
Keys == ValueKeys \cup SwitchKeys

Before(S, n) == {i \in S : i < n}

\* The options collected stand for the flags before argument n ...
OptsOK(l, opts, n) ==
    \A key \in Keys :
        LET flags == Before(FlagsNamed(l, key), n)
        IN  /\ OptsNamed(opts, key) = {} <=> flags = {}
            /\ flags # {} => FirstValue(opts, key) = ValueAt(l, Min(flags))

\* ... and the first of the arguments left for the first that is none's value.
ArgsOK(l, args, n) ==
    LET left == Before(Positional(l), n)
    IN  /\ args = <<>> <=> left = {}
        /\ left # {} => args[1] = l[Min(left)].text

\* The walk is between two arguments, of which the second is nobody's value.
WalkInv(l, w) ==
    /\ w \in Walk /\ w.at <= Len(l) + 1
    /\ ~Takes(l, w.at - 1)
    /\ OptsOK(l, w.opts, w.at)
    /\ ArgsOK(l, w.positional, w.at)

\* The least element of what lies before n + 1.
LEMMA BeforeNext ==
    ASSUME NEW S, S \subseteq Nat, NEW n \in Nat
    PROVE  /\ Before(S, n + 1) = {} <=> Before(S, n) = {} /\ n \notin S
           /\ Before(S, n) # {} => Min(Before(S, n + 1)) = Min(Before(S, n))
           /\ Before(S, n) = {} /\ n \in S => Min(Before(S, n + 1)) = n
<1>0. \A i \in S : i < n + 1 <=> i < n \/ i = n
  OBVIOUS
<1>1. n \in S => Before(S, n + 1) = Before(S, n) \cup {n}
  <2>1. \A i, k : i \in Before(S, k) <=> i \in S /\ i < k
    BY DEF Before
  <2>2. \A i \in S : i \in Before(S, n + 1) <=> i \in Before(S, n) \/ i = n
    BY <1>0, <2>1
  <2>3. Before(S, n + 1) \subseteq S /\ Before(S, n) \subseteq S
    BY <2>1
  <2>4. QED
    BY <2>2, <2>3, Zenon
<1>2. n \notin S => Before(S, n + 1) = Before(S, n)
  <2>1. \A i, k : i \in Before(S, k) <=> i \in S /\ i < k
    BY DEF Before
  <2>2. \A i \in S : n \notin S => (i \in Before(S, n + 1) <=> i \in Before(S, n))
    BY <1>0, <2>1
  <2>3. Before(S, n + 1) \subseteq S /\ Before(S, n) \subseteq S
    BY <2>1
  <2>4. QED
    BY <2>2, <2>3, Zenon
<1>3. Before(S, n) \subseteq Nat /\ \A x \in Before(S, n) : x <= n
  <2>1. \A i : i \in Before(S, n) <=> i \in S /\ i < n
    BY DEF Before
  <2>2. \A i \in S : i \in Nat /\ (i < n => i <= n)
    OBVIOUS
  <2>3. QED
    BY <2>1, <2>2
<1>4. Before(S, n) # {} /\ n \in S => Min(Before(S, n) \cup {n}) = Min(Before(S, n))
  BY <1>3, MinKept
<1>5. ASSUME Before(S, n) = {}, n \in S PROVE Min(Before(S, n + 1)) = n
  <2>1. Before(S, n + 1) = {n}
    BY <1>1, <1>5
  <2>2. {n} \subseteq Nat /\ {n} # {}
    OBVIOUS
  <2>3. Min({n}) \in {n}
    BY <2>2, MinProps
  <2>4. QED
    BY <2>1, <2>3
<1>6. QED
  BY <1>1, <1>2, <1>4, <1>5

\* One more option is found only when there was none of its name before.
LEMMA OptAppended ==
    ASSUME NEW opts \in Seq(Opt), NEW o \in Opt, NEW key
    PROVE  /\ OptsNamed(Append(opts, o), key) = {} <=> OptsNamed(opts, key) = {} /\ o[1] # key
           /\ OptsNamed(opts, key) # {} =>
                 FirstValue(Append(opts, o), key) = FirstValue(opts, key)
           /\ OptsNamed(opts, key) = {} /\ o[1] = key => FirstValue(Append(opts, o), key) = o[2]
<1> DEFINE more == Append(opts, o)
           n == Len(opts)
           old == OptsNamed(opts, key)
           new == OptsNamed(more, key)
<1>1. /\ n \in Nat /\ DOMAIN opts = 1..n /\ DOMAIN more = 1..(n + 1)
      /\ \A i \in 1..n : more[i] = opts[i]
      /\ more[n + 1] = o
  OBVIOUS
<1>2. old \subseteq Nat /\ \A x \in old : x <= n + 1 /\ x \in 1..n
  BY <1>1 DEF OptsNamed
<1> HIDE DEF n
<1>3. o[1] = key => new = old \cup {n + 1}
  BY <1>1 DEF OptsNamed
<1>4. o[1] # key => new = old
  BY <1>1 DEF OptsNamed
<1> HIDE DEF more, old, new
<1>5. new = {} <=> old = {} /\ o[1] # key
  BY <1>3, <1>4
<1>6. ASSUME old # {} PROVE Min(new) = Min(old) /\ Min(old) \in 1..n
  <2>1. Min(old) \in old
    BY <1>2, <1>6, MinProps
  <2>2. n + 1 \in Nat
    BY <1>1
  <2>3. Min(old \cup {n + 1}) = Min(old)
    BY <1>2, <1>6, <2>2, MinKept
  <2>4. QED
    BY <1>2, <1>3, <1>4, <2>1, <2>3
<1>7. ASSUME old # {} PROVE FirstValue(more, key) = FirstValue(opts, key)
  <2>1. FirstValue(more, key) = more[Min(new)][2] /\ FirstValue(opts, key) = opts[Min(old)][2]
    BY <1>5, <1>7 DEF FirstValue, new, old
  <2>2. QED
    BY <1>1, <1>6, <1>7, <2>1
<1>8. ASSUME old = {}, o[1] = key PROVE FirstValue(more, key) = o[2]
  <2>1. new = {n + 1}
    BY <1>3, <1>8
  <2>2. {n + 1} \subseteq Nat /\ {n + 1} # {}
    BY <1>1
  <2>3. Min({n + 1}) \in {n + 1}
    BY <2>2, MinProps
  <2>4. FirstValue(more, key) = more[Min(new)][2]
    BY <1>5, <1>8 DEF FirstValue, new
  <2>5. QED
    BY <1>1, <2>1, <2>3, <2>4
<1>9. QED
  BY <1>5, <1>7, <1>8 DEF more, old, new

LEMMA OptsKept ==
    ASSUME NEW l \in Seq(Token), NEW n \in Nat, NEW opts, OptsOK(l, opts, n),
           n \in DOMAIN l => l[n].kind = "word"
    PROVE  OptsOK(l, opts, n + 1)
<1>1. ASSUME NEW key \in Keys
      PROVE  LET flags == Before(FlagsNamed(l, key), n + 1)
             IN  /\ OptsNamed(opts, key) = {} <=> flags = {}
                 /\ flags # {} => FirstValue(opts, key) = ValueAt(l, Min(flags))
  <2> DEFINE S == FlagsNamed(l, key)
  <2>1. S \subseteq Nat /\ n \notin S
    BY DEF FlagsNamed
  <2> HIDE DEF S
  <2>2. /\ Before(S, n + 1) = {} <=> Before(S, n) = {}
        /\ Before(S, n) # {} => Min(Before(S, n + 1)) = Min(Before(S, n))
    BY <2>1, BeforeNext
  <2>3. /\ OptsNamed(opts, key) = {} <=> Before(S, n) = {}
        /\ Before(S, n) # {} => FirstValue(opts, key) = ValueAt(l, Min(Before(S, n)))
    BY DEF OptsOK, S
  <2>4. QED
    BY <2>2, <2>3 DEF S
<1>2. QED
  BY <1>1 DEF OptsOK

LEMMA OptsAdded ==
    ASSUME NEW l \in Seq(Token), NEW n \in DOMAIN l, l[n].kind # "word",
           NEW opts \in Seq(Opt), OptsOK(l, opts, n), <<l[n].key, ValueAt(l, n)>> \in Opt
    PROVE  OptsOK(l, Append(opts, <<l[n].key, ValueAt(l, n)>>), n + 1)
<1> DEFINE o == <<l[n].key, ValueAt(l, n)>>
           more == Append(opts, o)
<1>0. o[1] = l[n].key /\ o[2] = ValueAt(l, n) /\ o \in Opt /\ n \in Nat
  OBVIOUS
<1> HIDE DEF o
<1>1. ASSUME NEW key \in Keys
      PROVE  LET flags == Before(FlagsNamed(l, key), n + 1)
             IN  /\ OptsNamed(more, key) = {} <=> flags = {}
                 /\ flags # {} => FirstValue(more, key) = ValueAt(l, Min(flags))
  <2> DEFINE S == FlagsNamed(l, key)
  <2>1. S \subseteq Nat /\ (n \in S <=> o[1] = key)
    BY <1>0 DEF FlagsNamed
  <2> HIDE DEF S
  <2>2. /\ Before(S, n + 1) = {} <=> Before(S, n) = {} /\ n \notin S
        /\ Before(S, n) # {} => Min(Before(S, n + 1)) = Min(Before(S, n))
        /\ Before(S, n) = {} /\ n \in S => Min(Before(S, n + 1)) = n
    BY <1>0, <2>1, BeforeNext
  <2>3. /\ OptsNamed(opts, key) = {} <=> Before(S, n) = {}
        /\ Before(S, n) # {} => FirstValue(opts, key) = ValueAt(l, Min(Before(S, n)))
    BY DEF OptsOK, S
  <2>4. /\ OptsNamed(more, key) = {} <=> OptsNamed(opts, key) = {} /\ o[1] # key
        /\ OptsNamed(opts, key) # {} => FirstValue(more, key) = FirstValue(opts, key)
        /\ OptsNamed(opts, key) = {} /\ o[1] = key => FirstValue(more, key) = o[2]
    BY <1>0, OptAppended
  <2> HIDE DEF more
  <2>5. QED
    BY <1>0, <2>1, <2>2, <2>3, <2>4 DEF S
<1>2. QED
  BY <1>1 DEF OptsOK, o

LEMMA ArgsKept ==
    ASSUME NEW l \in Seq(Token), NEW n \in Nat, NEW args, ArgsOK(l, args, n),
           n \notin Positional(l)
    PROVE  ArgsOK(l, args, n + 1)
<1>1. Positional(l) \subseteq Nat
  BY DEF Positional
<1>2. QED
  BY <1>1, BeforeNext DEF ArgsOK

LEMMA ArgsAdded ==
    ASSUME NEW l \in Seq(Token), NEW n \in Nat, NEW args \in Seq(Text), ArgsOK(l, args, n),
           n \in Positional(l), l[n].text \in Text
    PROVE  ArgsOK(l, Append(args, l[n].text), n + 1)
<1> DEFINE S == Positional(l)
           more == Append(args, l[n].text)
<1>1. S \subseteq Nat
  BY DEF Positional
<1>2. /\ more # <<>>
      /\ args # <<>> => more[1] = args[1]
      /\ args = <<>> => more[1] = l[n].text
  OBVIOUS
<1>3. /\ args = <<>> <=> Before(S, n) = {}
      /\ Before(S, n) # {} => args[1] = l[Min(Before(S, n))].text
  BY DEF ArgsOK
<1> HIDE DEF S, more
<1>4. /\ Before(S, n + 1) # {}
      /\ Before(S, n) # {} => Min(Before(S, n + 1)) = Min(Before(S, n))
      /\ Before(S, n) = {} => Min(Before(S, n + 1)) = n
  BY <1>1, BeforeNext DEF S
<1>5. QED
  BY <1>2, <1>3, <1>4 DEF ArgsOK, S, more
\* An argument of a well-formed line, and what a flag takes.
LEMMA ArgumentTyped ==
    ASSUME NEW l \in Lines, NEW n \in DOMAIN l
    PROVE  /\ l \in Seq(Token) /\ l[n] \in Token
           /\ l[n].kind \in {"word", "open", "closed"}
           /\ l[n].kind = "word" => l[n].text \in Text
           /\ l[n].kind # "word" => <<l[n].key, ValueAt(l, n)>> \in Opt
<1>1. l \in Seq(Token) /\ WellFormed(l)
  BY LinesTyped
<1>2. l[n] \in Token /\ l[n].kind \in {"word", "open", "closed"}
  <2>1. l[n] \in Token
    BY <1>1
  <2>2. QED
    BY <2>1 DEF Token
<1>3. l[n].kind = "word" => l[n].text \in Text
  BY <1>1, <1>2 DEF WellFormed, Token
<1>4. l[n].kind # "word" => l[n].key \in ValueKeys \cup SwitchKeys
  BY <1>1, <1>2 DEF WellFormed, Token
<1>5. ValueAt(l, n) \in Text \cup {None}
  <2>1. CASE Takes(l, n)
    <3>1. l[n + 1] \in Token
      BY <1>1, <2>1 DEF Takes
    <3>2. QED
      BY <2>1, <3>1 DEF ValueAt, Token
  <2>2. CASE ~Takes(l, n)
    BY <1>2, <2>2 DEF ValueAt, Token
  <2>3. QED
    BY <2>1, <2>2
<1>6. QED
  BY <1>1, <1>2, <1>3, <1>4, <1>5 DEF Opt

\* One turn of the loop, by the kind of the argument it stands at.
LEMMA TurnKeeps ==
    ASSUME NEW l \in Lines, NEW w, WalkInv(l, w), w.at <= Len(l)
    PROVE  WalkInv(l, Turn(l, w)) /\ Turn(l, w).at \in w.at + 1 .. Len(l) + 1
<1> DEFINE n == w.at
           v == Turn(l, w)
           o == <<l[n].key, ValueAt(l, n)>>
<1>1. l \in Seq(Token) /\ Len(l) \in Nat /\ DOMAIN l = 1..Len(l)
  BY LinesTyped
<1>2. /\ w \in Walk /\ w.opts \in Seq(Opt) /\ w.positional \in Seq(Text)
      /\ n \in Nat \ {0} /\ n \in DOMAIN l
  BY <1>1 DEF WalkInv, Walk
<1>3. w = [at |-> n, opts |-> w.opts, positional |-> w.positional]
  BY <1>2 DEF Walk
<1>4. /\ l[n].kind \in {"word", "open", "closed"}
      /\ l[n].kind = "word" => l[n].text \in Text
      /\ l[n].kind # "word" => o \in Opt
  BY <1>2, ArgumentTyped
<1>5. /\ ~Takes(l, n - 1) /\ OptsOK(l, w.opts, n) /\ ArgsOK(l, w.positional, n)
  BY DEF WalkInv
<1>6. Takes(l, n) <=> l[n].kind = "open" /\ n < Len(l) /\ l[n + 1].kind = "word"
  BY <1>1, <1>2 DEF Takes
<1>7. CASE l[n].kind = "word"
  <2>1. v = [at |-> n + 1, opts |-> w.opts, positional |-> Append(w.positional, l[n].text)]
    BY <1>3, <1>7 DEF Turn
  <2>2. n \in Positional(l) /\ ~Takes(l, n)
    BY <1>2, <1>5, <1>6, <1>7 DEF Positional
  <2>3. OptsOK(l, w.opts, n + 1)
    BY <1>1, <1>2, <1>5, <1>7, OptsKept
  <2>4. ArgsOK(l, Append(w.positional, l[n].text), n + 1)
    BY <1>1, <1>2, <1>4, <1>5, <1>7, <2>2, ArgsAdded
  <2>5. Append(w.positional, l[n].text) \in Seq(Text)
    BY <1>2, <1>4, <1>7
  <2> HIDE DEF v
  <2>6. v \in Walk /\ v.at = n + 1
    BY <1>2, <2>1, <2>5 DEF Walk
  <2>7. v.at - 1 = n /\ v.at <= Len(l) + 1 /\ v.at \in n + 1 .. Len(l) + 1
    BY <1>1, <1>2, <2>6
  <2>8. ~Takes(l, v.at - 1)
    BY <2>2, <2>7
  <2>9. OptsOK(l, v.opts, v.at) /\ ArgsOK(l, v.positional, v.at)
    BY <2>1, <2>3, <2>4
  <2>10. QED
    BY <2>6, <2>7, <2>8, <2>9 DEF WalkInv, v
<1>8. CASE l[n].kind # "word" /\ ~Takes(l, n)
  <2>1. ValueAt(l, n) = l[n].text
    BY <1>8 DEF ValueAt
  <2>2. l[n].kind = "open" => l[n].text = None
    BY <1>2, LinesTyped DEF WellFormed
  <2>3. v = [at |-> n + 1, opts |-> Append(w.opts, o), positional |-> w.positional]
    BY <1>3, <1>4, <1>6, <1>8, <2>1, <2>2 DEF Turn
  <2>4. n \notin Positional(l)
    BY <1>8 DEF Positional
  <2>5. OptsOK(l, Append(w.opts, o), n + 1)
    BY <1>1, <1>2, <1>4, <1>5, <1>8, OptsAdded
  <2>6. ArgsOK(l, w.positional, n + 1)
    BY <1>1, <1>2, <1>5, <2>4, ArgsKept
  <2>7. Append(w.opts, o) \in Seq(Opt)
    BY <1>2, <1>4, <1>8
  <2> HIDE DEF v, o
  <2>8. v \in Walk /\ v.at = n + 1
    BY <1>2, <2>3, <2>7 DEF Walk
  <2>9. v.at - 1 = n /\ v.at <= Len(l) + 1 /\ v.at \in n + 1 .. Len(l) + 1
    BY <1>1, <1>2, <2>8
  <2>10. ~Takes(l, v.at - 1)
    BY <1>8, <2>9
  <2>11. OptsOK(l, v.opts, v.at) /\ ArgsOK(l, v.positional, v.at)
    BY <2>3, <2>5, <2>6
  <2>12. QED
    BY <2>8, <2>9, <2>10, <2>11 DEF WalkInv, v
<1>9. CASE Takes(l, n)
  <2>1. ValueAt(l, n) = l[n + 1].text /\ l[n].kind = "open" /\ l[n + 1].kind = "word" /\ n < Len(l)
    BY <1>6, <1>9 DEF ValueAt
  <2>2. v = [at |-> n + 2, opts |-> Append(w.opts, o), positional |-> w.positional]
    BY <1>3, <2>1 DEF Turn
  <2>3. /\ n \notin Positional(l) /\ n + 1 \notin Positional(l) /\ ~Takes(l, n + 1)
    <3>1. n + 1 - 1 = n
      BY <1>2
    <3>2. QED
      BY <1>9, <2>1, <3>1 DEF Positional, Takes
  <2>4. n + 1 \in Nat /\ n + 2 = n + 1 + 1 /\ n + 2 - 1 = n + 1
    BY <1>2
  <2>5. OptsOK(l, Append(w.opts, o), n + 1)
    BY <1>1, <1>2, <1>4, <1>5, <2>1, OptsAdded
  <2>6. ArgsOK(l, w.positional, n + 1)
    BY <1>1, <1>2, <1>5, <2>3, ArgsKept
  <2>7. Append(w.opts, o) \in Seq(Opt)
    BY <1>2, <1>4, <2>1
  <2> HIDE DEF v, o
  <2>8. OptsOK(l, Append(w.opts, o), n + 2)
    BY <1>1, <2>1, <2>4, <2>5, OptsKept
  <2>9. ArgsOK(l, w.positional, n + 2)
    BY <1>1, <2>3, <2>4, <2>6, ArgsKept
  <2>10. v \in Walk /\ v.at = n + 2
    BY <1>2, <2>2, <2>7 DEF Walk
  <2>11. n + 2 <= Len(l) + 1 /\ n + 2 \in n + 1 .. Len(l) + 1
    BY <1>1, <1>2, <2>1
  <2>12. QED
    BY <2>2, <2>3, <2>4, <2>8, <2>9, <2>10, <2>11 DEF WalkInv, v
<1>10. QED
  BY <1>7, <1>8, <1>9

\* What run makes of the two lists _parse returns.
TaskIn(w) ==
    [ command |-> FirstArg(w.positional),
      want    |-> FirstValue(w.opts, "--device"),
      chip    |-> FirstValue(w.opts, "--chip"),
      release |-> FirstValue(w.opts, "--kernel-release"),
      execute |-> OptsNamed(w.opts, "--execute") # {} ]

\* The beginning, a turn, and the end of the loop.
LEMMA WalkParts ==
    ASSUME NEW l \in Lines
    PROVE  /\ WalkInv(l, Beginning)
           /\ \A w : WalkInv(l, w) /\ w.at <= Len(l) =>
                 WalkInv(l, Turn(l, w)) /\ Turn(l, w).at \in w.at + 1 .. Len(l) + 1
           /\ \A w : WalkInv(l, w) /\ w.at > Len(l) => Parsed(l) = TaskIn(w)
<1>1. l \in Seq(Token) /\ Len(l) \in Nat /\ DOMAIN l = 1..Len(l)
  BY LinesTyped
<1>2. WalkInv(l, Beginning)
  <2>1. \A S : S \subseteq DOMAIN l => Before(S, 1) = {}
    BY <1>1 DEF Before
  <2>2. \A key : FlagsNamed(l, key) \subseteq DOMAIN l /\ OptsNamed(<<>>, key) = {}
    BY DEF FlagsNamed, OptsNamed
  <2>3. OptsOK(l, <<>>, 1)
    BY <2>1, <2>2 DEF OptsOK
  <2>4. Positional(l) \subseteq DOMAIN l
    BY DEF Positional
  <2>5. ArgsOK(l, <<>>, 1)
    BY <2>1, <2>4 DEF ArgsOK
  <2>6. ~Takes(l, 1 - 1)
    BY <1>1 DEF Takes
  <2>7. QED
    BY <1>1, <2>3, <2>5, <2>6 DEF WalkInv, Walk, Beginning
<1>3. ASSUME NEW w, WalkInv(l, w), w.at > Len(l)
      PROVE  /\ Command(l) = FirstArg(w.positional)
             /\ \A key \in Keys : /\ OptValue(l, key) = FirstValue(w.opts, key)
                                  /\ Has(l, key) <=> OptsNamed(w.opts, key) # {}
  <2>1. w.at \in Nat
    BY <1>3 DEF WalkInv, Walk
  <2>2. \A S : S \subseteq DOMAIN l => Before(S, w.at) = S
    BY <1>1, <1>3, <2>1 DEF Before
  <2>3. Before(Positional(l), w.at) = Positional(l)
    BY <2>2 DEF Positional
  <2>4. Command(l) = FirstArg(w.positional)
    BY <1>3, <2>3 DEF WalkInv, ArgsOK, Command, FirstArg
  <2>5. ASSUME NEW key \in Keys
        PROVE  /\ OptValue(l, key) = FirstValue(w.opts, key)
               /\ Has(l, key) <=> OptsNamed(w.opts, key) # {}
    <3>1. Before(FlagsNamed(l, key), w.at) = FlagsNamed(l, key)
      BY <2>2 DEF FlagsNamed
    <3>2. /\ OptsNamed(w.opts, key) = {} <=> FlagsNamed(l, key) = {}
          /\ FlagsNamed(l, key) # {} =>
                FirstValue(w.opts, key) = ValueAt(l, Min(FlagsNamed(l, key)))
      BY <1>3, <3>1 DEF WalkInv, OptsOK
    <3>3. OptsNamed(w.opts, key) = {} => FirstValue(w.opts, key) = None
      BY DEF FirstValue
    <3>4. QED
      BY <3>2, <3>3 DEF OptValue, Has
  <2>6. QED
    BY <2>4, <2>5
<1>4. {"--device", "--chip", "--kernel-release", "--execute"} \subseteq Keys
  BY DEF Keys, ValueKeys, SwitchKeys
<1>5. ASSUME NEW w, WalkInv(l, w), w.at > Len(l)
      PROVE  Parsed(l) = TaskIn(w)
  <2>1. /\ Command(l) = FirstArg(w.positional)
        /\ OptValue(l, "--device") = FirstValue(w.opts, "--device")
        /\ OptValue(l, "--chip") = FirstValue(w.opts, "--chip")
        /\ OptValue(l, "--kernel-release") = FirstValue(w.opts, "--kernel-release")
    BY <1>3, <1>4, <1>5
  <2>2. Has(l, "--execute") <=> OptsNamed(w.opts, "--execute") # {}
    BY <1>3, <1>4, <1>5
  <2>3. Has(l, "--execute") = (OptsNamed(w.opts, "--execute") # {})
    BY <2>2 DEF Has
  <2>4. QED
    BY <2>1, <2>3 DEF Parsed, TaskIn
<1>6. QED
  BY <1>2, <1>5, TurnKeeps

(***************************************************************************)
(* The loop of _parse, run on any line, has when it ends two lists in      *)
(* which the commands find exactly what Parsed says, and every turn of it  *)
(* moves on without leaving the line: the closed form is the loop.         *)
(***************************************************************************)
THEOREM ParsedIsWalked ==
    ASSUME NEW CONSTANT l \in Lines, NEW VARIABLE w
    PROVE  w = Beginning /\ [][w.at <= Len(l) /\ w' = Turn(l, w)]_w =>
              /\ [](w.at > Len(l) => Parsed(l) = TaskIn(w))
              /\ [][w'.at \in w.at + 1 .. Len(l) + 1]_w
<1>1. w = Beginning => WalkInv(l, w)
  BY WalkParts
<1>2. ASSUME WalkInv(l, w), [w.at <= Len(l) /\ w' = Turn(l, w)]_w
      PROVE  WalkInv(l, w)'
  <2>1. CASE w.at <= Len(l) /\ w' = Turn(l, w)
    <3>1. WalkInv(l, Turn(l, w))
      BY <1>2, <2>1, WalkParts
    <3>2. WalkInv(l, w')
      BY <2>1, <3>1
    <3>3. QED
      BY <3>2
  <2>2. CASE w' = w
    BY <1>2, <2>2
  <2>3. QED
    BY <1>2, <2>1, <2>2
<1>3. WalkInv(l, w) => (w.at > Len(l) => Parsed(l) = TaskIn(w))
  BY WalkParts
<1>4. ASSUME WalkInv(l, w), [w.at <= Len(l) /\ w' = Turn(l, w)]_w
      PROVE  [w'.at \in w.at + 1 .. Len(l) + 1]_w
  BY <1>4, WalkParts
<1>5. QED
  BY <1>1, <1>2, <1>3, <1>4, PTL
=============================================================================
