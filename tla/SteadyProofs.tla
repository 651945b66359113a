------------------------------ MODULE SteadyProofs ------------------------------
(***************************************************************************)
(* What a command reports, for any number of ports, network devices and    *)
(* kernels and any amount of churn around them: it is right about what     *)
(* nobody touched while it ran, and it answers the line that was typed.    *)
(***************************************************************************)
EXTENDS DiagnoseProofs

Walking    == {"vendor", "product", "rest"}
Picked     == AliasPath \cup VerifyPath \cup {"chip_plan"}
DoctorPath == {"own_alias", "marker", "trees"}

Readable(n) == usb[n] # None /\ usb[n].vid # None /\ usb[n].pid # None

\* A device read without a disturbance is what is there.
Exact(d) == d.node \notin moved => d.id = IdAt(d.node)

\* The program counter, the command it belongs to, and the report to come.
TaskOK ==
    /\ pc \in VerifyPath => task.command = "verify"
    /\ pc = "chip_plan" => ByChip(task)
    /\ pc \in DoctorPath => task.command = "doctor"
    /\ pc # "idle" => report = None
    /\ pc \in {"idle", "list"} => devs = <<>>
    /\ pc \in {"idle", "list"} \cup Walking => device = None

(***************************************************************************)
(* The walk.  An undisturbed readable dongle is still to be read or has    *)
(* been read; what was read sorts before what is to be read.               *)
(***************************************************************************)
WalkOK ==
    /\ pc \in Walking =>
          \A n \in DeviceNodes \ moved : Readable(n) =>
              n \in todo \/ \E i \in DOMAIN devs : devs[i].node = n
    /\ \A i, j \in DOMAIN devs : i < j => devs[i].node < devs[j].node
    /\ pc \in Walking => \A i \in DOMAIN devs : \A m \in todo : devs[i].node < m
    /\ \A i \in DOMAIN devs : Exact(devs[i])
    /\ pc \in {"product", "rest"} /\ NextNode \notin moved =>
          part.vid = Attribute(NextNode).vid
    /\ pc = "rest" /\ NextNode \notin moved =>
          part.pid = Attribute(NextNode).pid

\* No undisturbed match sorts before d.
First1(d) == \A n \in DeviceNodes \ moved : Matches(n, task.want) => d.node <= n

PickOK == pc \in Picked => First1(device) /\ Exact(device)

LinkIs(at) == link = IF at[device.node] = None THEN Unresolved ELSE at[device.node]

\* The two halves of bound_driver, looked at together.
LinkOK ==
    /\ pc \in AliasPath \ {"alias"} => Release \in trees \cup treesMoved
    /\ pc \in AliasPath /\ device.node \notin moved =>
          /\ pc = "iface_check" => LinkIs(iface)
          /\ pc \in {"node_link", "node_check"} => iface[device.node] = None
          /\ pc = "node_check" => LinkIs(nodeDrv)
          /\ pc = "conclude" => drv = Bound(device.node)

\* What the two properties say of one report.
FirstFor(r) ==
    Walks(task) /\ ~(r.exit = "raised" /\ r.device = None) =>
        \A n \in DeviceNodes \ moved : Matches(n, task.want) =>
            r.device # None /\ r.device.node <= n

ExactFor(r) ==
    r.device # None /\ Release \notin treesMoved =>
        LET n    == r.device.node
            plan == PlanStateB(IdAt(n), Bound(n), None)
        IN  n \notin moved =>
              /\ r.device.id = IdAt(n)
              /\ Diagnoses(task) =>
                    IF Release \notin trees \/ plan.kind = "raises"
                    THEN r.exit = "raised"
                    ELSE /\ r.exit # "raised"
                         /\ r.driver = Bound(n)
                         /\ r.diagnosis = DiagnosisOf(IdAt(n), Bound(n))
                         /\ r.plan = plan

ReportOK == report # None => FirstFor(report) /\ ExactFor(report)

SInv == TaskOK /\ WalkOK /\ PickOK /\ LinkOK /\ ReportOK

LEMMA ReportSplit == ReportOK <=> FirstSteadyDongleWins /\ SteadyReportIsExact
BY DEF ReportOK, FirstFor, ExactFor, FirstSteadyDongleWins, SteadyReportIsExact, CutShort

-----------------------------------------------------------------------------
(***************************************************************************)
(* The host.                                                               *)
(***************************************************************************)
\* What nobody touched is as it was.
LEMMA Undisturbed ==
    ASSUME IInv, Host
    PROVE  /\ moved \subseteq moved' /\ treesMoved \subseteq treesMoved'
           /\ \A n \in Nodes \ moved' :
                 usb'[n] = usb[n] /\ iface'[n] = iface[n] /\ nodeDrv'[n] = nodeDrv[n]
           /\ \A r : r \notin treesMoved' => (r \in trees' <=> r \in trees)
<1>1. /\ usb     \in [Nodes -> Dongles \cup {Hub, None}]
      /\ iface   \in [Nodes -> Drivers \cup {None}]
      /\ nodeDrv \in [Nodes -> NodeDrivers \cup {None}]
  BY DEF IInv, TypeOK, HostOK
<1> DEFINE Goal ==
           /\ moved \subseteq moved' /\ treesMoved \subseteq treesMoved'
           /\ \A n \in Nodes \ moved' :
                 usb'[n] = usb[n] /\ iface'[n] = iface[n] /\ nodeDrv'[n] = nodeDrv[n]
           /\ \A r : r \notin treesMoved' => (r \in trees' <=> r \in trees)
<1>2. ASSUME NEW n \in DeviceNodes, Plug(n) PROVE Goal
  BY <1>1, <1>2 DEF Plug, ChangeNode
<1>3. ASSUME NEW n \in DeviceNodes, Unplug(n) PROVE Goal
  BY <1>1, <1>3 DEF Unplug, ChangeNode
<1>4. ASSUME NEW n \in DeviceNodes, BindDriver(n) PROVE Goal
  BY <1>1, <1>4 DEF BindDriver, ChangeNode
<1>5. ASSUME NEW n \in DeviceNodes, UnbindDriver(n) PROVE Goal
  BY <1>1, <1>5 DEF UnbindDriver, ChangeNode
<1>6. ASSUME NEW k \in Netdevs, MoveNetdev(k) PROVE Goal
  BY <1>6 DEF MoveNetdev
<1>7. ASSUME NEW r \in Releases, MoveTree(r) PROVE Goal
  BY <1>7 DEF MoveTree, Flip
<1>8. CASE SetMarker
  BY <1>8 DEF SetMarker
<1>9. QED
  BY <1>2, <1>3, <1>4, <1>5, <1>6, <1>7, <1>8 DEF Host

LEMMA DevsTyped ==
    ASSUME TypeOK, NEW i \in DOMAIN devs
    PROVE  devs[i] \in Device /\ devs[i].node \in Nodes
<1>1. devs \in Seq(Device)
  BY DEF TypeOK
<1>2. devs[i] \in Device
  BY <1>1
<1>3. QED
  BY <1>2 DEF Device

LEMMA HostKeepsSteady ==
    ASSUME IInv, SInv, Host, UNCHANGED toolVars
    PROVE  SInv'
<1> USE DEF toolVars
<1>1. /\ moved \subseteq moved' /\ treesMoved \subseteq treesMoved'
      /\ \A n \in Nodes \ moved' :
            usb'[n] = usb[n] /\ iface'[n] = iface[n] /\ nodeDrv'[n] = nodeDrv[n]
      /\ \A r : r \notin treesMoved' => (r \in trees' <=> r \in trees)
  BY Undisturbed
<1>2. DeviceNodes \subseteq Nodes
  BY HostTyped
<1>3. \A n \in Nodes \ moved' :
         /\ Readable(n)' = Readable(n) /\ IdAt(n)' = IdAt(n) /\ Bound(n)' = Bound(n)
         /\ Attribute(n)' = Attribute(n)
         /\ \A want : Matches(n, want)' = Matches(n, want)
  BY <1>1 DEF Readable, IdAt, Bound, Attribute, NothingRead, Matches
<1>4. TaskOK'
  BY DEF SInv, TaskOK, ByChip
<1>5. WalkOK'
  <2>1. \A i \in DOMAIN devs : devs[i].node \in Nodes
    BY DevsTyped DEF IInv
  <2>2. \A i \in DOMAIN devs : Exact(devs[i])'
    BY <1>1, <1>3, <2>1 DEF SInv, WalkOK, Exact
  <2>3. pc \in {"product", "rest"} => NextNode \in Nodes
    BY NextNodeTyped DEF IInv, ControlOK
  <2>4. NextNode' = NextNode
    BY DEF NextNode
  <2>5. pc \in {"product", "rest"} /\ NextNode \notin moved' =>
          Attribute(NextNode)' = Attribute(NextNode)
    BY <1>3, <2>3, <2>4 DEF Attribute, NothingRead
  <2>6. /\ pc \in {"product", "rest"} /\ NextNode \notin moved' =>
              part.vid = Attribute(NextNode)'.vid
        /\ pc = "rest" /\ NextNode \notin moved' => part.pid = Attribute(NextNode)'.pid
    BY <1>1, <2>5 DEF SInv, WalkOK
  <2>7. pc \in Walking =>
          \A n \in DeviceNodes \ moved' : Readable(n)' =>
              n \in todo \/ \E i \in DOMAIN devs : devs[i].node = n
    BY <1>1, <1>2, <1>3 DEF SInv, WalkOK
  <2>8. QED
    BY <2>2, <2>4, <2>6, <2>7 DEF SInv, WalkOK
<1>6. PickOK'
  <2>1. pc \in Picked => device.node \in Nodes
    BY DeviceTyped DEF IInv, ControlOK, Picked
  <2>2. pc \in Picked => First1(device)'
    BY <1>1, <1>2, <1>3 DEF SInv, PickOK, First1
  <2>3. pc \in Picked => Exact(device)'
    BY <1>1, <1>3, <2>1 DEF SInv, PickOK, Exact
  <2>4. QED
    BY <2>2, <2>3 DEF PickOK
<1>7. LinkOK'
  <2>1. pc \in AliasPath => device.node \in Nodes
    BY DeviceTyped DEF IInv, ControlOK
  <2>2. Release' = Release
    BY DEF Release
  <2>3. pc \in AliasPath \ {"alias"} => Release \in trees' \cup treesMoved'
    BY <1>1 DEF SInv, LinkOK
  <2>4. pc \in AliasPath /\ device.node \notin moved' =>
          /\ device.node \notin moved
          /\ iface'[device.node] = iface[device.node]
          /\ nodeDrv'[device.node] = nodeDrv[device.node]
          /\ Bound(device.node)' = Bound(device.node)
    BY <1>1, <1>3, <2>1 DEF Bound
  <2>5. QED
    BY <2>2, <2>3, <2>4 DEF SInv, LinkOK, LinkIs
<1>8. ReportOK'
  <2> SUFFICES ASSUME report # None PROVE FirstFor(report)' /\ ExactFor(report)'
    BY DEF ReportOK
  <2>1. FirstFor(report) /\ ExactFor(report)
    BY DEF SInv, ReportOK
  <2>2. Walks(task)' = Walks(task) /\ Diagnoses(task)' = Diagnoses(task) /\ Release' = Release
    BY DEF Walks, Diagnoses, Release, Ended, ByChip
  <2>3. FirstFor(report)'
    BY <1>1, <1>2, <1>3, <2>1, <2>2 DEF FirstFor
  <2>4. report.device # None => report.device.node \in Nodes
    BY DEF IInv, TypeOK, Report, Device
  <2>5. report.device # None /\ report.device.node \notin moved' =>
          /\ report.device.node \notin moved
          /\ IdAt(report.device.node)' = IdAt(report.device.node)
          /\ Bound(report.device.node)' = Bound(report.device.node)
    BY <1>1, <1>3, <2>4 DEF IdAt, Bound
  <2>6. Release \notin treesMoved' => Release \notin treesMoved /\ (Release \in trees' <=> Release \in trees)
    BY <1>1
  <2>7. ExactFor(report)'
    BY <2>1, <2>2, <2>5, <2>6 DEF ExactFor, DiagnosisOf, DiagnosisBy
  <2>8. QED
    BY <2>3, <2>7
<1>9. QED
  BY <1>4, <1>5, <1>6, <1>7, <1>8 DEF SInv

-----------------------------------------------------------------------------
(***************************************************************************)
(* The life of a command.                                                  *)
(***************************************************************************)
LEMMA StartKeepsSteady ==
    ASSUME IInv, SInv, NEW l \in Lines, Start(l)
    PROVE  SInv'
<1> DEFINE t == Parsed(l)
<1>1. pc = "idle" /\ devs = <<>> /\ devs' = <<>> /\ task' = t /\ device' = None
  BY DEF Start, SInv, TaskOK, walkVars
<1>2. pc' \in {"idle", "list", "own_alias"}
  BY <1>1 DEF Start
<1>3. CASE Ended(t) # None
  <2> DEFINE r == [Blank(t) EXCEPT !.exit = Ended(t)]
  <2>1. report' = r /\ pc' = "idle"
    BY <1>1, <1>3 DEF Start
  <2>2. r.device = None
    BY DEF Blank
  <2>3. ~Walks(task)'
    BY <1>1, <1>3 DEF Walks, Ended, ByChip
  <2> HIDE DEF r, t
  <2>4. ReportOK'
    BY <2>1, <2>2, <2>3 DEF ReportOK, FirstFor, ExactFor
  <2>5. QED
    BY <1>1, <2>1, <2>4
       DEF SInv, TaskOK, WalkOK, PickOK, LinkOK, Walking, Picked, AliasPath, VerifyPath, DoctorPath
<1>4. CASE Ended(t) = None
  <2>1. report' = None /\ pc' = IF t.command = "doctor" THEN "own_alias" ELSE "list"
    BY <1>4 DEF Start
  <2> HIDE DEF t
  <2>2. QED
    BY <1>1, <2>1
       DEF SInv, TaskOK, WalkOK, PickOK, LinkOK, ReportOK, Walking, Picked, AliasPath,
           VerifyPath, DoctorPath
<1>5. QED
  BY <1>3, <1>4

\* A command that finishes with a report of which the two properties hold.
LEMMA FinishKeepsSteady ==
    ASSUME NEW r, FirstFor(r), ExactFor(r), Finish(r)
    PROVE  SInv'
<1>1. /\ report' = r /\ pc' = "idle" /\ devs' = <<>> /\ device' = None
      /\ UNCHANGED <<usb, iface, nodeDrv, trees, moved, treesMoved, task>>
  BY DEF Finish, hostVars
<1>2. FirstFor(r)' /\ ExactFor(r)'
  BY <1>1 DEF FirstFor, ExactFor, Walks, Ended, ByChip, Diagnoses, Matches, IdAt, Bound,
              Release, DiagnosisOf, DiagnosisBy
<1>3. ReportOK'
  BY <1>1, <1>2 DEF ReportOK, FirstFor, ExactFor
<1>4. QED
  BY <1>1, <1>3
     DEF SInv, TaskOK, WalkOK, PickOK, LinkOK, Walking, Picked, AliasPath, VerifyPath, DoctorPath

-----------------------------------------------------------------------------
(***************************************************************************)
(* The walk over the bus.                                                  *)
(***************************************************************************)
\* Steps of the walk leave the host and the task alone, and print nothing.
WalkStep ==
    /\ pc \in {"list"} \cup Walking /\ pc' \in Walking
    /\ UNCHANGED <<hostVars, task, report, device>>

LEMMA WalkKeeps ==
    ASSUME SInv, WalkStep, WalkOK'
    PROVE  SInv'
<1>1. report = None
  BY DEF SInv, TaskOK, WalkStep, Walking
<1>2. QED
  BY <1>1 DEF WalkStep, SInv, TaskOK, PickOK, LinkOK, ReportOK, Walking, Picked, AliasPath,
              VerifyPath, DoctorPath

LEMMA ListKeepsSteady ==
    ASSUME IInv, SInv, ListNodes
    PROVE  SInv'
<1>1. /\ WalkStep /\ pc' = "vendor" /\ todo' = Listing
      /\ devs = <<>> /\ devs' = devs /\ UNCHANGED <<usb, moved>>
  BY DEF ListNodes, Step, WalkStep, Walking, SInv, TaskOK, hostVars
<1>2. \A n \in DeviceNodes \ moved : Readable(n) => n \in Listing
  BY DEF Readable, Listing
<1>3. WalkOK'
  BY <1>1, <1>2 DEF WalkOK, Readable
<1>4. QED
  BY <1>1, <1>3, WalkKeeps

LEMMA ReadKeepsSteady ==
    ASSUME IInv, SInv, ReadVendor \/ ReadProduct
    PROVE  SInv'
<1>1. /\ pc \in Walking /\ pc' \in Walking
      /\ UNCHANGED <<hostVars, task, report, todo, devs, device>>
  BY DEF ReadVendor, ReadProduct, Step, Walking
<1>2. WalkStep
  BY <1>1 DEF WalkStep
<1>3. UNCHANGED <<usb, moved>>
  BY <1>1 DEF hostVars
<1>4. part \in Dongle
  BY DEF IInv, TypeOK
<1>5. NextNode' = NextNode /\ Attribute(NextNode)' = Attribute(NextNode)
  BY <1>1, <1>3 DEF NextNode, Attribute, NothingRead
<1>6. /\ pc' \in {"product", "rest"} /\ NextNode \notin moved =>
            part'.vid = Attribute(NextNode).vid
      /\ pc' = "rest" /\ NextNode \notin moved => part'.pid = Attribute(NextNode).pid
  <2>1. CASE ReadVendor
    BY <1>4, <2>1 DEF ReadVendor, Step, Dongle
  <2>2. CASE ReadProduct
    <3>1. pc = "product" /\ part' = [part EXCEPT !.pid = Attribute(NextNode).pid]
      BY <2>2 DEF ReadProduct, Step
    <3>2. NextNode \notin moved => part.vid = Attribute(NextNode).vid
      BY <3>1 DEF SInv, WalkOK
    <3>3. QED
      BY <1>4, <3>1, <3>2 DEF Dongle
  <2>3. QED
    BY <2>1, <2>2
<1>7. WalkOK'
  BY <1>1, <1>3, <1>5, <1>6 DEF SInv, WalkOK, Readable, Exact, IdAt
<1>8. QED
  BY <1>2, <1>7, WalkKeeps

\* An undisturbed readable node becomes a device, and an exact one.
LEMMA RestKeepsSteady ==
    ASSUME IInv, SInv, ReadRest
    PROVE  SInv'
<1> DEFINE n == NextNode
           new == [node |-> n, id |-> <<part.vid, part.pid>>]
<1>1. /\ WalkStep /\ pc = "rest" /\ pc' = "vendor" /\ UNCHANGED <<usb, moved>>
      /\ devs' = DevsWithNext /\ todo' = todo \ {n}
  BY DEF ReadRest, Step, WalkStep, Walking, hostVars
<1>2. n \in todo /\ \A m \in todo : n <= m
  <2>1. todo \subseteq Nat /\ todo # {}
    BY <1>1, HostTyped DEF IInv, TypeOK, ControlOK
  <2>2. QED
    BY <2>1, MinProps DEF NextNode
<1>3. devs \in Seq(Device) /\ todo \subseteq Nat /\ \A i \in DOMAIN devs : devs[i].node \in Nat
  BY HostTyped, DevsTyped DEF IInv, TypeOK
<1>4. n \notin moved => part.vid = Attribute(n).vid /\ part.pid = Attribute(n).pid
  BY <1>1 DEF SInv, WalkOK
<1>5. n \notin moved /\ Readable(n) => Complete
  BY <1>4 DEF Readable, Complete, Attribute
<1>6. Complete => Exact(new)
  BY <1>4 DEF Exact, Complete, Attribute, IdAt
<1>7. /\ \A k \in DeviceNodes \ moved : Readable(k) =>
            k \in todo \/ \E i \in DOMAIN devs : devs[i].node = k
      /\ \A i, j \in DOMAIN devs : i < j => devs[i].node < devs[j].node
      /\ \A i \in DOMAIN devs : \A m \in todo : devs[i].node < m
      /\ \A i \in DOMAIN devs : Exact(devs[i])
  BY <1>1 DEF SInv, WalkOK, Walking
<1> HIDE DEF n
<1>8. CASE Complete
  <2>1. devs' = Append(devs, new)
    BY <1>1, <1>8 DEF DevsWithNext, n
  <2>2. /\ DOMAIN devs' = 1..(Len(devs) + 1) /\ DOMAIN devs = 1..Len(devs) /\ Len(devs) \in Nat
        /\ \A i \in DOMAIN devs : devs'[i] = devs[i]
        /\ devs'[Len(devs) + 1] = new
    BY <1>3, <2>1
  <2>3. new.node = n
    OBVIOUS
  <2> HIDE DEF new
  <2>4. \A k \in DeviceNodes \ moved : Readable(k) =>
            k \in todo' \/ \E i \in DOMAIN devs' : devs'[i].node = k
    BY <1>1, <1>7, <2>2, <2>3
  <2>5. \A i, j \in DOMAIN devs' : i < j => devs'[i].node < devs'[j].node
    <3>1. TAKE i, j \in DOMAIN devs'
    <3>2. HAVE i < j
    <3>3. CASE j = Len(devs) + 1
      BY <1>2, <1>7, <2>2, <2>3, <3>2, <3>3
    <3>4. CASE j # Len(devs) + 1
      BY <1>7, <2>2, <3>2, <3>4
    <3>5. QED
      BY <3>3, <3>4
  <2>6. \A i \in DOMAIN devs' : \A m \in todo' : devs'[i].node < m
    <3>1. TAKE i \in DOMAIN devs'
    <3>2. TAKE m \in todo'
    <3>3. m \in todo /\ m # n /\ m \in Nat /\ n \in Nat /\ n <= m
      BY <1>1, <1>2, <1>3
    <3>4. CASE i = Len(devs) + 1
      BY <2>2, <2>3, <3>3, <3>4
    <3>5. CASE i # Len(devs) + 1
      BY <1>7, <2>2, <3>3, <3>5
    <3>6. QED
      BY <3>4, <3>5
  <2>7. \A i \in DOMAIN devs' : Exact(devs'[i])
    BY <1>6, <1>7, <1>8, <2>2 DEF new
  <2>8. WalkOK'
    BY <1>1, <2>4, <2>5, <2>6, <2>7 DEF WalkOK, Readable, Exact, IdAt
  <2>9. QED
    BY <1>1, <2>8, WalkKeeps
<1>9. CASE ~Complete
  <2>1. devs' = devs
    BY <1>1, <1>9 DEF DevsWithNext
  <2>2. \A k \in DeviceNodes \ moved : Readable(k) =>
            k \in todo' \/ \E i \in DOMAIN devs' : devs'[i].node = k
    BY <1>1, <1>5, <1>7, <1>9, <2>1
  <2>3. WalkOK'
    BY <1>1, <1>7, <2>1, <2>2 DEF WalkOK, Readable, Exact, IdAt
  <2>4. QED
    BY <1>1, <2>3, WalkKeeps
<1>10. QED
  BY <1>8, <1>9

\* A walk cut short has nothing to show.
LEMMA CutKeepsSteady ==
    ASSUME SInv, RestRaises
    PROVE  SInv'
<1> DEFINE r == [Fresh EXCEPT !.exit = "raised", !.device = device]
<1>1. device = None
  BY DEF RestRaises, SInv, TaskOK, Walking
<1>2. Finish(r) /\ r.exit = "raised" /\ r.device = None
  BY <1>1 DEF RestRaises, Raise, Fresh, Blank
<1> HIDE DEF r
<1>3. QED
  BY <1>2, FinishKeepsSteady DEF FirstFor, ExactFor

-----------------------------------------------------------------------------
(***************************************************************************)
(* The pick.                                                               *)
(***************************************************************************)
\* When the walk is over, an undisturbed match is among the wanted devices.
LEMMA WalkFinds ==
    ASSUME SInv, pc = "vendor", todo = {},
           NEW n \in DeviceNodes \ moved, Matches(n, task.want)
    PROVE  \E i \in Wanted : devs[i].node = n
<1>1. Readable(n)
  BY DEF Matches, Readable
<1>2. PICK i \in DOMAIN devs : devs[i].node = n
  BY <1>1 DEF SInv, WalkOK, Walking
<1>3. devs[i].id = IdAt(n)
  BY <1>2 DEF SInv, WalkOK, Exact
<1>4. QED
  BY <1>2, <1>3 DEF Wanted, Matches

(***************************************************************************)
(* A step of a command that is past its walk and goes on.                  *)
(***************************************************************************)
LEMMA LaterStep ==
    ASSUME SInv, pc # "idle", pc' \in Picked \cup DoctorPath,
           UNCHANGED <<hostVars, task, report, devs>>,
           TaskOK', PickOK', LinkOK'
    PROVE  SInv'
<1>1. UNCHANGED <<usb, moved>>
  BY DEF hostVars
<1>2. pc' \notin Walking
  BY DEF Picked, DoctorPath, AliasPath, VerifyPath, Walking
<1>3. WalkOK'
  BY <1>1, <1>2 DEF SInv, WalkOK, Exact, IdAt, Walking
<1>4. ReportOK'
  BY DEF SInv, TaskOK, ReportOK
<1>5. QED
  BY <1>3, <1>4 DEF SInv

LEMMA PickKeepsSteady ==
    ASSUME IInv, SInv, PickNothing \/ PickDevice
    PROVE  SInv'
<1>1. pc = "vendor" /\ todo = {}
  BY DEF PickNothing, PickDevice, Step
<1>2. CASE PickNothing
  <2> DEFINE r == [Fresh EXCEPT !.exit = "unknown"]
  <2>1. Finish(r) /\ Wanted = {}
    BY <1>2 DEF PickNothing
  <2>2. r.device = None
    BY DEF Fresh, Blank
  <2> HIDE DEF r
  <2>3. FirstFor(r)
    BY <1>1, <2>1, WalkFinds DEF FirstFor
  <2>4. ExactFor(r)
    BY <2>2 DEF ExactFor
  <2>5. QED
    BY <2>1, <2>3, <2>4, FinishKeepsSteady
<1>3. CASE PickDevice
  <2> DEFINE k == Min(Wanted)
  <2>1. /\ UNCHANGED <<hostVars, task, report, devs>> /\ pc' = NextAfterPick
        /\ Wanted # {} /\ device' = devs[k]
    BY <1>3 DEF PickDevice, Step
  <2>2. devs \in Seq(Device)
    BY DEF IInv, TypeOK
  <2>3. Wanted \subseteq DOMAIN devs /\ Wanted \subseteq Nat
    BY <2>2 DEF Wanted
  <2>4. k \in Wanted /\ \A j \in Wanted : k <= j
    BY <2>1, <2>3, MinProps
  <2> HIDE DEF k
  <2>5. \A i \in DOMAIN devs : devs[i].node \in Nat
    BY DevsTyped, HostTyped DEF IInv
  <2>6. \A i, j \in DOMAIN devs : i < j => devs[i].node < devs[j].node
    BY DEF SInv, WalkOK
  <2>7. \A j \in Wanted : devs[k].node <= devs[j].node
    <3>1. TAKE j \in Wanted
    <3>2. k \in DOMAIN devs /\ j \in DOMAIN devs /\ k \in Nat /\ j \in Nat /\ k <= j
      BY <2>3, <2>4
    <3>3. CASE k = j
      BY <2>5, <3>2, <3>3
    <3>4. CASE k < j
      BY <2>5, <2>6, <3>2, <3>4
    <3>5. QED
      BY <3>2, <3>3, <3>4
  <2>8. First1(devs[k])
    BY <1>1, <2>7, WalkFinds DEF First1
  <2>9. Exact(devs[k])
    BY <2>3, <2>4 DEF SInv, WalkOK
  <2>10. PickOK'
    BY <2>1, <2>8, <2>9 DEF PickOK, First1, Exact, Matches, IdAt, hostVars
  <2>11. /\ pc' \in {"netdevs", "chip_plan", "alias"}
         /\ pc' = "netdevs" => task.command = "verify"
         /\ pc' = "chip_plan" => ByChip(task)
    BY <2>1 DEF NextAfterPick
  <2>12. report = None
    BY <1>1 DEF SInv, TaskOK
  <2>13. TaskOK'
    BY <2>1, <2>11, <2>12 DEF TaskOK, Walking, VerifyPath, DoctorPath, ByChip
  <2>14. LinkOK'
    BY <2>11 DEF LinkOK, AliasPath
  <2>15. pc' \in Picked
    BY <2>11 DEF Picked, AliasPath, VerifyPath
  <2>16. QED
    BY <1>1, <2>1, <2>10, <2>13, <2>14, <2>15, LaterStep
<1>4. QED
  BY <1>2, <1>3

-----------------------------------------------------------------------------
(***************************************************************************)
(* bound_driver.                                                           *)
(***************************************************************************)
\* What every step along the alias path that goes on leaves alone.
PathOnly ==
    /\ pc \in AliasPath /\ pc' \in AliasPath
    /\ UNCHANGED <<hostVars, task, report, devs, device>>

LEMMA PathKeeps ==
    ASSUME SInv, PathOnly, LinkOK'
    PROVE  SInv'
<1>1. pc # "idle" /\ pc \in Picked /\ pc' \in Picked
  BY DEF PathOnly, AliasPath, Picked
<1>2. TaskOK'
  BY DEF PathOnly, SInv, TaskOK, Walking, AliasPath, VerifyPath, DoctorPath
<1>3. PickOK'
  BY <1>1 DEF PathOnly, SInv, PickOK, First1, Exact, Matches, IdAt, hostVars
<1>4. QED
  BY <1>1, <1>2, <1>3, LaterStep DEF PathOnly

\* A link that was there and still is leads to a driver in use.
LEMMA SteadyTarget ==
    ASSUME IInv, device.node \in Nodes,
           NEW at, at \in {iface, nodeDrv}, LinkIs(at)
    PROVE  LinkTarget(at) = {at[device.node]}
<1>1. at[device.node] \in Module \cup {None}
  BY HostTyped DEF IInv, TypeOK, HostOK
<1>2. CASE at[device.node] = None
  BY <1>2 DEF LinkIs, LinkTarget
<1>3. CASE at[device.node] # None
  <2>1. link = at[device.node] /\ link # Unresolved
    BY <1>1, <1>3, UnresolvedIsNoDriver DEF LinkIs
  <2>2. InUse(link)
    BY <2>1 DEF InUse
  <2>3. QED
    BY <2>1, <2>2 DEF LinkTarget
<1>4. QED
  BY <1>2, <1>3

LEMMA DriverKeepsSteady ==
    ASSUME IInv, SInv,
           ReadAlias \/ ResolveIface \/ CheckIface \/ ResolveNode \/ CheckNode
    PROVE  SInv'
<1> USE DEF Step
<1>1. PathOnly
  BY DEF ReadAlias, ResolveIface, CheckIface, ResolveNode, CheckNode, ResolveLink,
         CheckLink, PathOnly, AliasPath, walkVars
<1>2. device.node \in Nodes
  BY <1>1, DeviceTyped DEF PathOnly, IInv, ControlOK
<1>3. UNCHANGED <<device, iface, nodeDrv, trees, moved, treesMoved, task>>
  BY <1>1 DEF PathOnly, hostVars
<1>4. Release' = Release /\ Bound(device.node)' = Bound(device.node)
  BY <1>3 DEF Release, Bound
<1>5. pc # "alias" => Release \in trees \cup treesMoved
  BY <1>1 DEF PathOnly, SInv, LinkOK
<1>6. Release' \in trees' \cup treesMoved'
  BY <1>3, <1>4, <1>5 DEF ReadAlias, ResolveIface, CheckIface, ResolveNode, CheckNode,
                          ResolveLink, CheckLink
<1>7. CASE ReadAlias
  <2>1. pc' = "iface_link"
    BY <1>7 DEF ReadAlias
  <2>2. LinkOK'
    BY <1>6, <2>1 DEF LinkOK
  <2>3. QED
    BY <1>1, <2>2, PathKeeps
<1>8. CASE ResolveIface
  <2>1. pc' = "iface_check"
        /\ link' = IF iface[device.node] = None THEN Unresolved ELSE iface[device.node]
    BY <1>8 DEF ResolveIface, ResolveLink
  <2>2. LinkOK'
    BY <1>3, <1>6, <2>1 DEF LinkOK, LinkIs
  <2>3. QED
    BY <1>1, <2>2, PathKeeps
<1>9. CASE CheckIface
  <2>1. PICK m \in LinkTarget(iface) :
            pc' = (IF m = None THEN "node_link" ELSE "conclude") /\ drv' = m
    BY <1>9 DEF CheckIface, CheckLink
  <2>2. device.node \notin moved => m = iface[device.node]
    <3>1. pc = "iface_check"
      BY <1>9 DEF CheckIface, CheckLink
    <3>2. device.node \notin moved => LinkIs(iface)
      BY <3>1 DEF SInv, LinkOK, AliasPath
    <3>3. QED
      BY <1>2, <2>1, <3>2, SteadyTarget
  <2>3. LinkOK'
    BY <1>3, <1>4, <1>6, <2>1, <2>2 DEF LinkOK, Bound
  <2>4. QED
    BY <1>1, <2>3, PathKeeps
<1>10. CASE ResolveNode
  <2>1. pc = "node_link" /\ pc' = "node_check"
        /\ link' = IF nodeDrv[device.node] = None THEN Unresolved ELSE nodeDrv[device.node]
    BY <1>10 DEF ResolveNode, ResolveLink
  <2>2. device.node \notin moved => iface[device.node] = None
    BY <2>1 DEF SInv, LinkOK, AliasPath
  <2>3. LinkOK'
    BY <1>3, <1>6, <2>1, <2>2 DEF LinkOK, LinkIs
  <2>4. QED
    BY <1>1, <2>3, PathKeeps
<1>11. CASE CheckNode
  <2>1. PICK m \in LinkTarget(nodeDrv) : drv' = m
    BY <1>11 DEF CheckNode, CheckLink
  <2>2. pc = "node_check" /\ pc' = "conclude"
    BY <1>11 DEF CheckNode, CheckLink
  <2>3. device.node \notin moved => iface[device.node] = None /\ LinkIs(nodeDrv)
    BY <2>2 DEF SInv, LinkOK, AliasPath
  <2>4. device.node \notin moved => m = nodeDrv[device.node]
    BY <1>2, <2>1, <2>3, SteadyTarget
  <2>5. device.node \notin moved => drv' = Bound(device.node)
    BY <2>1, <2>3, <2>4 DEF Bound
  <2>6. LinkOK'
    BY <1>3, <1>4, <1>6, <2>2, <2>5 DEF LinkOK
  <2>7. QED
    BY <1>1, <2>6, PathKeeps
<1>12. QED
  BY <1>7, <1>8, <1>9, <1>10, <1>11

-----------------------------------------------------------------------------
(***************************************************************************)
(* The ends of the commands.                                               *)
(***************************************************************************)
\* A report about the picked device shows the first match, and its id.
LEMMA PickedReport ==
    ASSUME SInv, pc \in Picked, device # None, NEW r, r.device = device
    PROVE  /\ FirstFor(r)
           /\ device.node \notin moved => r.device.id = IdAt(device.node)
BY DEF SInv, PickOK, First1, Exact, FirstFor

\* A report of a command that does not diagnose has nothing more to show.
LEMMA PlainReport ==
    ASSUME SInv, pc \in Picked, device # None, NEW r, r.device = device, ~Diagnoses(task)
    PROVE  FirstFor(r) /\ ExactFor(r)
BY PickedReport DEF ExactFor

LEMMA RaisedReport ==
    ASSUME SInv, pc \in Picked, device # None, Raise,
           \/ Release \notin trees
           \/ device.node \notin moved /\ Release \notin treesMoved =>
                PlanStateB(IdAt(device.node), Bound(device.node), None).kind = "raises"
           \/ ~Diagnoses(task)
    PROVE  SInv'
<1> DEFINE r == [Fresh EXCEPT !.exit = "raised", !.device = device]
<1>1. Finish(r)
  BY DEF Raise
<1>2. r.device = device /\ r.exit = "raised"
  BY DEF Fresh, Blank
<1> HIDE DEF r
<1>3. FirstFor(r) /\ (device.node \notin moved => r.device.id = IdAt(device.node))
  BY <1>2, PickedReport
<1>4. ExactFor(r)
  BY <1>2, <1>3 DEF ExactFor
<1>5. QED
  BY <1>1, <1>3, <1>4, FinishKeepsSteady

LEMMA NoAliasKeepsSteady ==
    ASSUME IInv, SInv, NoAlias
    PROVE  SInv'
<1>1. pc \in Picked /\ device # None /\ Raise /\ Release \notin trees
  BY DEF NoAlias, IInv, ControlOK, Picked, AliasPath
<1>2. QED
  BY <1>1, RaisedReport

LEMMA ConcludeKeepsSteady ==
    ASSUME IInv, SInv, Conclude
    PROVE  SInv'
<1> DEFINE n    == device.node
           plan == PlanStateB(device.id, drv, None)
           r    == [Fresh EXCEPT !.exit = PlanExit, !.device = device, !.driver = drv,
                                 !.plan = plan, !.diagnosis = DiagnosisOf(device.id, drv)]
<1>1. pc = "conclude" /\ pc \in Picked /\ pc \in AliasPath /\ device # None
  BY DEF Conclude, IInv, ControlOK, Picked, AliasPath
<1>2. n \notin moved => device.id = IdAt(n) /\ drv = Bound(n)
  BY <1>1 DEF SInv, PickOK, Exact, LinkOK
<1>3. Release \notin treesMoved => Release \in trees
  BY <1>1 DEF SInv, LinkOK
<1>4. CASE plan.kind = "raises"
  <2>1. Raise
    BY <1>4 DEF Conclude
  <2>2. QED
    BY <1>1, <1>2, <1>4, <2>1, RaisedReport
<1>5. CASE plan.kind # "raises"
  <2>1. Finish(r)
    BY <1>5 DEF Conclude
  <2>2. /\ r.device = device /\ r.driver = drv /\ r.plan = plan
        /\ r.diagnosis = DiagnosisOf(device.id, drv) /\ r.exit = PlanExit
    BY DEF Fresh, Blank
  <2>3. r.exit # "raised"
    BY <2>2 DEF PlanExit
  <2> HIDE DEF r
  <2>4. FirstFor(r)
    BY <1>1, <2>2, PickedReport
  <2>5. ExactFor(r)
    BY <1>2, <1>3, <1>5, <2>2, <2>3 DEF ExactFor
  <2>6. QED
    BY <2>1, <2>4, <2>5, FinishKeepsSteady
<1>6. QED
  BY <1>4, <1>5

LEMMA ChipKeepsSteady ==
    ASSUME IInv, SInv, ChipPlan
    PROVE  SInv'
<1> DEFINE plan == ChipPlanOf(device.id, task.chip)
           r    == [Fresh EXCEPT !.exit = PlanExit, !.device = device, !.plan = plan]
<1>1. pc \in Picked /\ device # None
  BY DEF ChipPlan, IInv, ControlOK, Picked
<1>2. ~Diagnoses(task)
  BY DEF ChipPlan, SInv, TaskOK, Diagnoses
<1>3. CASE plan.kind = "raises"
  BY <1>1, <1>2, <1>3, RaisedReport DEF ChipPlan
<1>4. CASE plan.kind # "raises"
  <2>1. Finish(r) /\ r.device = device
    BY <1>4 DEF ChipPlan, Fresh, Blank
  <2> HIDE DEF r
  <2>2. QED
    BY <1>1, <1>2, <2>1, PlainReport, FinishKeepsSteady
<1>5. QED
  BY <1>3, <1>4

LEMMA VerifyKeepsSteady ==
    ASSUME IInv, SInv, ListNetdevs \/ ReadPhy \/ SkipName \/ NoPhy \/ ReadDriverFile
    PROVE  SInv'
<1>1. pc \in VerifyPath
  BY DEF ListNetdevs, ReadPhy, SkipName, NoPhy, ReadDriverFile, Step, VerifyPath
<1>2. pc \in Picked /\ device # None /\ task.command = "verify" /\ ~Diagnoses(task)
  BY <1>1 DEF IInv, ControlOK, Picked, SInv, TaskOK, Diagnoses
<1>3. CASE ReadDriverFile
  <2> DEFINE r == [Fresh EXCEPT !.device = device, !.netdev = found.netdev,
                       !.driver = DriverFile(device.node),
                       !.verdict = VerdictOf(Checks(found.netdev, DriverFile(device.node), NoLog))]
  <2>1. Finish(r) /\ r.device = device
    BY <1>3 DEF ReadDriverFile, Fresh, Blank
  <2> HIDE DEF r
  <2>2. QED
    BY <1>2, <2>1, PlainReport, FinishKeepsSteady
<1>4. ASSUME ListNetdevs \/ ReadPhy \/ SkipName \/ NoPhy PROVE SInv'
  <2>1. pc' \in VerifyPath /\ UNCHANGED <<hostVars, task, report, devs, device>>
    BY <1>4 DEF ListNetdevs, ReadPhy, SkipName, NoPhy, Step, VerifyPath, walkVars
  <2>2. pc' \in Picked /\ pc' \notin AliasPath /\ pc # "idle"
    BY <1>1, <2>1 DEF Picked, AliasPath, VerifyPath
  <2>3. TaskOK'
    BY <1>1, <1>2, <2>1 DEF SInv, TaskOK, Walking, VerifyPath, DoctorPath
  <2>4. PickOK'
    BY <1>2, <2>1 DEF SInv, PickOK, First1, Exact, Matches, IdAt, hostVars
  <2>5. LinkOK'
    BY <2>2 DEF LinkOK
  <2>6. QED
    BY <2>1, <2>2, <2>3, <2>4, <2>5, LaterStep
<1>5. QED
  BY <1>3, <1>4

LEMMA DoctorKeepsSteady ==
    ASSUME IInv, SInv, ReadOwnAlias \/ LookForMarker \/ ListTrees
    PROVE  SInv'
<1>1. pc \in DoctorPath
  BY DEF ReadOwnAlias, LookForMarker, ListTrees, Step, DoctorPath
<1>2. task.command = "doctor"
  BY <1>1 DEF SInv, TaskOK
<1>3. CASE ListTrees
  <2> DEFINE r == [Fresh EXCEPT !.readable = found.readable,
                                !.pending = Pending(trees, found.marker)]
  <2>1. Finish(r) /\ r.device = None
    BY <1>3 DEF ListTrees, Fresh, Blank
  <2>2. ~Walks(task)
    BY <1>2 DEF Walks
  <2> HIDE DEF r
  <2>3. QED
    BY <2>1, <2>2, FinishKeepsSteady DEF FirstFor, ExactFor
<1>4. ASSUME ReadOwnAlias \/ LookForMarker PROVE SInv'
  <2>1. pc' \in {"marker", "trees"} /\ UNCHANGED <<hostVars, task, report, devs>>
    BY <1>4 DEF ReadOwnAlias, LookForMarker, Step, walkVars
  <2>2. pc # "idle" /\ pc' \in DoctorPath /\ pc' \notin Picked /\ pc' \notin AliasPath
    BY <1>1, <2>1 DEF DoctorPath, Picked, AliasPath, VerifyPath
  <2>3. TaskOK'
    BY <1>1, <1>2, <2>1 DEF SInv, TaskOK, Walking, VerifyPath, DoctorPath
  <2>4. QED
    BY <2>1, <2>2, <2>3, LaterStep DEF PickOK, LinkOK
<1>5. QED
  BY <1>3, <1>4

-----------------------------------------------------------------------------
(***************************************************************************)
(* Theorems.                                                               *)
(***************************************************************************)
LEMMA SteadyStep == IInv /\ SInv /\ [Next]_vars => SInv'
<1> SUFFICES ASSUME IInv, SInv, [Next]_vars PROVE SInv'
  OBVIOUS
<1>1. CASE UNCHANGED vars
  <2> USE <1>1 DEF vars, hostVars, toolVars
  <2>1. TaskOK'
    BY DEF SInv, TaskOK, ByChip
  <2>2. WalkOK'
    BY DEF SInv, WalkOK, Readable, Exact, IdAt, NextNode, Attribute, NothingRead
  <2>3. PickOK'
    BY DEF SInv, PickOK, Exact, IdAt, First1, Matches
  <2>4. LinkOK'
    BY DEF SInv, LinkOK, LinkIs, Bound, Release
  <2>5. report # None => FirstFor(report)'
    <3>1. /\ Walks(task)' = Walks(task) /\ moved' = moved /\ report' = report /\ task' = task
          /\ \A n : Matches(n, task.want)' = Matches(n, task.want)
      BY DEF Walks, Ended, ByChip, Diagnoses, Matches, IdAt
    <3>2. report # None => FirstFor(report)
      BY DEF SInv, ReportOK
    <3>3. QED
      BY ONLY <3>1, <3>2 DEF FirstFor
  <2>6. report # None => ExactFor(report)'
    <3>1. /\ Release' = Release /\ Diagnoses(task)' = Diagnoses(task)
          /\ \A n : IdAt(n)' = IdAt(n) /\ Bound(n)' = Bound(n)
          /\ \A id, bound : DiagnosisOf(id, bound)' = DiagnosisOf(id, bound)
      BY DEF Release, DiagnosisOf, DiagnosisBy, IdAt, Bound, Walks, Ended, Diagnoses, ByChip
    <3>2. report' = report /\ moved' = moved /\ trees' = trees /\ treesMoved' = treesMoved
      OBVIOUS
    <3>3. report # None => ExactFor(report)
      BY DEF SInv, ReportOK
    <3>4. QED
      BY ONLY <3>1, <3>2, <3>3 DEF ExactFor
  <2>7. QED
    BY <2>1, <2>2, <2>3, <2>4, <2>5, <2>6 DEF SInv, ReportOK
<1>2. CASE Next
  BY <1>2, HostKeepsSteady, StartKeepsSteady, ListKeepsSteady, ReadKeepsSteady, RestKeepsSteady,
     CutKeepsSteady, PickKeepsSteady, DriverKeepsSteady, NoAliasKeepsSteady, ConcludeKeepsSteady,
     ChipKeepsSteady, VerifyKeepsSteady, DoctorKeepsSteady DEF Next, Tool
<1>3. QED
  BY <1>1, <1>2

LEMMA SteadyInductive == Spec => []SInv
<1>1. Init => SInv
  BY DEF Init, SInv, TaskOK, WalkOK, PickOK, LinkOK, ReportOK, Walking, Picked, AliasPath,
         VerifyPath, DoctorPath
<1>2. QED
  BY <1>1, SteadyStep, Inductive, PTL DEF Spec

(***************************************************************************)
(* However many dongles come and go while the bus is walked, a matching    *)
(* dongle that stays put is reported, or one that sorts before it.         *)
(***************************************************************************)
THEOREM FirstSteadyDongleWinsHolds == Spec => []FirstSteadyDongleWins
<1>1. SInv => FirstSteadyDongleWins
  BY ReportSplit DEF SInv
<1>2. QED
  BY <1>1, SteadyInductive, PTL

(***************************************************************************)
(* For a node and an alias file that did not change while the command ran, *)
(* the id, the driver, the diagnosis, the plan and the exception it raises *)
(* are those of a single look at the host.                                 *)
(***************************************************************************)
THEOREM SteadyReportIsExactHolds == Spec => []SteadyReportIsExact
<1>1. SInv => SteadyReportIsExact
  BY ReportSplit DEF SInv
<1>2. QED
  BY <1>1, SteadyInductive, PTL
-----------------------------------------------------------------------------
(***************************************************************************)
(* The order of release names.                                             *)
(***************************************************************************)
LEMMA Digit ==
    ASSUME NEW B \in Nat, NEW a \in Nat, NEW b \in Nat,
           NEW c \in 0..(B - 1), NEW d \in 0..(B - 1)
    PROVE  a * B + c > b * B + d <=> a > b \/ (a = b /\ c > d)
<1>1. \A x, y \in Nat : x > y => x * B >= y * B + B
  <2>1. TAKE x, y \in Nat
  <2>2. HAVE x > y
  <2>3. x * B = (x - y - 1) * B + y * B + B
    OBVIOUS
  <2>4. x - y - 1 \in Nat
    BY <2>2
  <2>5. (x - y - 1) * B \in Nat /\ y * B \in Nat /\ x * B \in Nat
    BY <2>4
  <2>6. QED
    BY <2>3, <2>5
<1>2. a * B \in Nat /\ b * B \in Nat
  OBVIOUS
<1>3. CASE a > b
  BY <1>1, <1>2, <1>3
<1>4. CASE a < b
  BY <1>1, <1>2, <1>4
<1>5. CASE a = b
  BY <1>2, <1>5
<1>6. QED
  BY <1>3, <1>4, <1>5

\* What the shape of a release name says of the numbers compared.
LEMMA KeyShape ==
    ASSUME NEW r \in Releases, Shaped(r)
    PROVE  DOMAIN Key(r) = 1..4 /\ \A i \in 1..4 : Key(r)[i] \in 0..(Base - 1)
<1> DEFINE h == Version[r].head
           a == Version[r].abi
<1>1. h \in Seq(Nat \cup {NoNumber}) /\ a \in Nat \cup {NoNumber}
  BY ReleasesTyped DEF Numbers
<1>2. Len(h) = 3
  BY DEF Shaped
<1> HIDE DEF h, a
<1>3. DOMAIN Append(h, a) = 1..(Len(h) + 1)
  BY <1>1
<1>4. DOMAIN Key(r) = 1..4
  BY <1>2, <1>3 DEF Key, h, a
<1>5. QED
  BY <1>4 DEF Shaped

\* Python's order of tuples is that of the numbers they are the digits of.
LEMMA WeightOrder ==
    ASSUME NEW r \in Releases, NEW b \in Releases, Shaped(r), Shaped(b)
    PROVE  VersionGt(r, b) <=> Weight(r) > Weight(b)
<1> DEFINE c == Key(r)
           d == Key(b)
           c2 == c[1] * Base + c[2]
           d2 == d[1] * Base + d[2]
           c3 == c2 * Base + c[3]
           d3 == d2 * Base + d[3]
<1>0. \A x, y \in Nat, m, n \in 0..(Base - 1) :
          x * Base + m > y * Base + n <=> x > y \/ (x = y /\ m > n)
  BY BaseTyped, Digit
<1>1. /\ DOMAIN c = 1..4 /\ DOMAIN d = 1..4
      /\ \A i \in 1..4 : c[i] \in 0..(Base - 1) /\ d[i] \in 0..(Base - 1)
  BY KeyShape
<1>2. Weight(r) = c3 * Base + c[4] /\ Weight(b) = d3 * Base + d[4]
  BY DEF Weight
<1>3. VersionGt(r, b) <=>
          \E i \in 1..4 : (\A j \in 1..(i - 1) : j \in 1..4 /\ c[j] = d[j]) /\ c[i] > d[i]
  BY <1>1 DEF VersionGt
<1> HIDE DEF c, d
<1>4. VersionGt(r, b) <=>
          \/ c[1] > d[1]
          \/ c[1] = d[1] /\ c[2] > d[2]
          \/ c[1] = d[1] /\ c[2] = d[2] /\ c[3] > d[3]
          \/ c[1] = d[1] /\ c[2] = d[2] /\ c[3] = d[3] /\ c[4] > d[4]
  BY <1>3
<1>5. /\ c[1] \in 0..(Base - 1) /\ c[2] \in 0..(Base - 1)
      /\ c[3] \in 0..(Base - 1) /\ c[4] \in 0..(Base - 1)
      /\ d[1] \in 0..(Base - 1) /\ d[2] \in 0..(Base - 1)
      /\ d[3] \in 0..(Base - 1) /\ d[4] \in 0..(Base - 1)
  BY <1>1
<1>6. c2 \in Nat /\ d2 \in Nat /\ c[1] \in Nat /\ d[1] \in Nat
  BY <1>5, BaseTyped
<1>7. c2 > d2 <=> c[1] > d[1] \/ (c[1] = d[1] /\ c[2] > d[2])
  BY <1>0, <1>5, <1>6, SMTT(30)
<1>8. d2 > c2 <=> d[1] > c[1] \/ (d[1] = c[1] /\ d[2] > c[2])
  BY <1>0, <1>5, <1>6, SMTT(30)
<1> HIDE DEF c2, d2
<1>9. c3 \in Nat /\ d3 \in Nat
  BY <1>5, <1>6, BaseTyped
<1>10. c3 > d3 <=> c2 > d2 \/ (c2 = d2 /\ c[3] > d[3])
  BY <1>5, <1>6, BaseTyped, Digit
<1>11. d3 > c3 <=> d2 > c2 \/ (d2 = c2 /\ d[3] > c[3])
  BY <1>5, <1>6, BaseTyped, Digit
<1> HIDE DEF c3, d3
<1>12. Weight(r) > Weight(b) <=> c3 > d3 \/ (c3 = d3 /\ c[4] > d[4])
  BY <1>2, <1>5, <1>9, BaseTyped, Digit
<1>13. c2 = d2 <=> c[1] = d[1] /\ c[2] = d[2]
  BY <1>5, <1>6, <1>7, <1>8
<1>14. c3 = d3 <=> c2 = d2 /\ c[3] = d[3]
  BY <1>5, <1>6, <1>9, <1>10, <1>11
<1>15. QED
  BY <1>4, <1>7, <1>10, <1>12, <1>13, <1>14

\* A name without numbers is never newer than one with them.
LEMMA OddIsNotNewer ==
    ASSUME NEW r \in Releases, NEW b \in Releases, Shaped(b), Version[r].head[1] = NoNumber
    PROVE  ~VersionGt(r, b)
<1>1. DOMAIN Key(b) = 1..4 /\ Key(b)[1] \in 0..(Base - 1)
  BY KeyShape
<1>2. Version[r].head \in Seq(Nat \cup {NoNumber}) \ {<<>>} /\ Version[r].abi \in Nat \cup {NoNumber}
  BY ReleasesTyped DEF Numbers
<1>3. 1 \in DOMAIN Key(r) /\ Key(r)[1] = -1 /\ DOMAIN Key(r) \subseteq Nat \ {0}
  BY <1>2 DEF Key, NoNumber
<1>4. QED
  BY <1>1, <1>3, BaseTyped DEF VersionGt

LEMMA NewerIsLater ==
    ASSUME TypeOK, Comparable
    PROVE  \A r \in Releases \ {Running} : r \in Newer(trees) <=> r \in Later \cap trees
<1>1. TAKE r \in Releases \ {Running}
<1>2. Running \in Releases /\ Shaped(Running)
  BY ReleasesTyped DEF Comparable
<1>3. CASE Shaped(r)
  BY <1>2, <1>3, WeightOrder DEF Newer, Later
<1>4. CASE ~Shaped(r)
  BY <1>2, <1>4, OddIsNotNewer DEF Newer, Later, Comparable
<1>5. QED
  BY <1>3, <1>4
-----------------------------------------------------------------------------
(***************************************************************************)
(* `verify` and `doctor`: what they found so far, of what stayed put.      *)
(***************************************************************************)
\* k is the first of the network devices that stayed, or came before it and went.
NetFor(k) ==
    /\ \A j \in net \ netMoved : k # None /\ k <= j
    /\ k # None => k \in net \cup netMoved

ReadableFor(b) == Running \notin treesMoved => (b <=> Running \in trees)

FoundOK ==
    /\ pc \notin {"driver_file", "marker", "trees"} => found = NothingFound
    /\ pc = "phy" => net \ netMoved \subseteq names
    /\ pc = "driver_file" => NetFor(found.netdev)
    /\ pc \in {"marker", "trees"} => ReadableFor(found.readable)
    /\ pc = "trees" => (found.marker => marker) /\ (marker /\ ~found.marker => markerMoved)

\* What the two properties say of one report.
VerdictFor(r) ==
    r.verdict # None =>
        /\ r.device # None
        /\ NetFor(r.netdev)
        /\ DriverIsFile /\ r.device.node \notin moved =>
              (r.verdict = "functional" <=> r.netdev # None /\ iface[r.device.node] # None)

PendingFor(r) ==
    Comparable /\ r.pending # None =>
        /\ r.pending # "yes" =>
              Later \cap (trees \ treesMoved) = {} /\ (marker => markerMoved)
        /\ r.pending = "yes" => Later \cap (trees \cup treesMoved) # {} \/ marker
        /\ r.pending = "unknown" => trees \subseteq treesMoved
        /\ ReadableFor(r.readable)

FinderOK == report # None => VerdictFor(report) /\ PendingFor(report)

FInv == FoundOK /\ FinderOK

LEMMA FinderSplit == FinderOK => VerdictIsExact /\ PendingIsJustified
BY DEF FinderOK, VerdictFor, PendingFor, NetFor, ReadableFor, VerdictIsExact, PendingIsJustified

\* What nobody touched is as it was.
LEMMA UndisturbedNames ==
    ASSUME Host
    PROVE  /\ net' \ netMoved' \subseteq net \ netMoved
           /\ net \cup netMoved \subseteq net' \cup netMoved'
           /\ trees' \ treesMoved' \subseteq trees \ treesMoved
           /\ trees \cup treesMoved \subseteq trees' \cup treesMoved'
           /\ marker => marker'
           /\ marker' => marker \/ markerMoved'
           /\ markerMoved => markerMoved'
<1> DEFINE Goal == /\ net' \ netMoved' \subseteq net \ netMoved
                   /\ net \cup netMoved \subseteq net' \cup netMoved'
                   /\ trees' \ treesMoved' \subseteq trees \ treesMoved
                   /\ trees \cup treesMoved \subseteq trees' \cup treesMoved'
                   /\ marker => marker'
                   /\ marker' => marker \/ markerMoved'
                   /\ markerMoved => markerMoved'
<1>1. ASSUME NEW n \in DeviceNodes, Plug(n) \/ Unplug(n) \/ BindDriver(n) \/ UnbindDriver(n)
      PROVE  Goal
  BY <1>1 DEF Plug, Unplug, BindDriver, UnbindDriver, ChangeNode
<1>2. ASSUME NEW k \in Netdevs, MoveNetdev(k) PROVE Goal
  BY <1>2 DEF MoveNetdev, Flip
<1>3. ASSUME NEW r \in Releases, MoveTree(r) PROVE Goal
  BY <1>3 DEF MoveTree, Flip
<1>4. CASE SetMarker
  BY <1>4 DEF SetMarker
<1>5. QED
  BY <1>1, <1>2, <1>3, <1>4 DEF Host

LEMMA HostKeepsFound ==
    ASSUME IInv, FInv, Host, UNCHANGED toolVars
    PROVE  FInv'
<1> USE DEF toolVars
<1>1. /\ net' \ netMoved' \subseteq net \ netMoved
      /\ net \cup netMoved \subseteq net' \cup netMoved'
      /\ trees' \ treesMoved' \subseteq trees \ treesMoved
      /\ trees \cup treesMoved \subseteq trees' \cup treesMoved'
      /\ marker => marker'
      /\ marker' => marker \/ markerMoved'
      /\ markerMoved => markerMoved'
  BY UndisturbedNames
<1>2. ASSUME NEW k, NetFor(k) PROVE NetFor(k)'
  BY <1>1, <1>2 DEF NetFor
<1>3. Running \notin treesMoved' =>
          Running \notin treesMoved /\ (Running \in trees' <=> Running \in trees)
  BY Undisturbed
<1>4. FoundOK'
  BY <1>1, <1>2, <1>3 DEF FInv, FoundOK, ReadableFor
<1>5. ASSUME report # None PROVE VerdictFor(report)' /\ PendingFor(report)'
  <2>1. VerdictFor(report) /\ PendingFor(report)
    BY <1>5 DEF FInv, FinderOK
  <2>2. Later' = Later /\ Comparable' = Comparable
    BY DEF Later, Comparable
  <2>3. PendingFor(report)'
    BY <1>1, <1>3, <2>1, <2>2 DEF PendingFor, ReadableFor
  <2>4. ASSUME report.verdict # None, report.device.node \notin moved'
        PROVE  report.device.node \notin moved
               /\ iface'[report.device.node] = iface[report.device.node]
    <3>1. report.device \in Device
      BY <1>5, <2>1, <2>4 DEF VerdictFor, IInv, TypeOK, Report
    <3>2. report.device.node \in Nodes
      BY <3>1 DEF Device
    <3>3. QED
      BY <2>4, <3>2, Undisturbed
  <2>5. VerdictFor(report)'
    BY <1>2, <2>1, <2>4 DEF VerdictFor
  <2>6. QED
    BY <2>3, <2>5
<1>6. QED
  BY <1>4, <1>5 DEF FInv, FinderOK

\* A command that ends and is neither of the two.
LEMMA OtherFinish ==
    ASSUME NEW r, r.verdict = None, r.pending = None, Finish(r)
    PROVE  FInv'
BY DEF Finish, FInv, FoundOK, FinderOK, VerdictFor, PendingFor

\* A step outside the two commands.
LEMMA OtherStep ==
    ASSUME SInv, FInv, pc \notin {"idle", "driver_file", "marker", "trees"},
           pc' \notin {"phy", "driver_file", "marker", "trees"},
           UNCHANGED <<report, found>>
    PROVE  FInv'
BY DEF SInv, TaskOK, FInv, FoundOK, FinderOK

LEMMA FoundElsewhere ==
    ASSUME IInv, SInv, FInv,
           \/ \E l \in Lines : Start(l)
           \/ ListNodes \/ ReadVendor \/ ReadProduct \/ ReadRest \/ RestRaises
           \/ PickNothing \/ PickDevice
           \/ ReadAlias \/ NoAlias \/ ResolveIface \/ CheckIface \/ ResolveNode \/ CheckNode
           \/ Conclude \/ ChipPlan
    PROVE  FInv'
<1>1. /\ Fresh.verdict = None /\ Fresh.pending = None
      /\ DOMAIN Fresh = {"exit", "device", "driver", "diagnosis", "chip", "plan", "netdev",
                         "verdict", "readable", "pending"}
  BY DEF Fresh, Blank
<1>2. ASSUME Raise PROVE FInv'
  BY <1>2, OtherFinish DEF Raise, Fresh, Blank
<1>3. ASSUME NEW l \in Lines, Start(l) PROVE FInv'
  <2>1. pc = "idle" /\ pc' \in {"idle", "list", "own_alias"} /\ found' = found
    BY <1>3 DEF Start, checkVars
  <2>2. FoundOK'
    BY <2>1 DEF FInv, FoundOK
  <2>3. report' = None \/ report' = [Blank(Parsed(l)) EXCEPT !.exit = Ended(Parsed(l))]
    BY <1>3 DEF Start
  <2>4. report' # None => report'.verdict = None /\ report'.pending = None
    BY <2>3 DEF Blank
  <2>5. QED
    BY <2>2, <2>4 DEF FInv, FinderOK, VerdictFor, PendingFor
<1>4. CASE ListNodes \/ ReadVendor \/ ReadProduct \/ ReadRest
  BY <1>4, OtherStep DEF ListNodes, ReadVendor, ReadProduct, ReadRest, Step, checkVars
<1>5. CASE PickNothing
  BY <1>5, OtherFinish DEF PickNothing, Fresh, Blank
<1>6. CASE PickDevice
  BY <1>6, OtherStep DEF PickDevice, NextAfterPick, Step, checkVars
<1>7. CASE ReadAlias \/ ResolveIface \/ ResolveNode
  BY <1>7, OtherStep DEF ReadAlias, ResolveIface, ResolveNode, ResolveLink, Step, checkVars
<1>8. CASE NoAlias \/ RestRaises
  BY <1>2, <1>8 DEF NoAlias, RestRaises
<1>9. CASE CheckIface \/ CheckNode
  BY <1>9, OtherStep DEF CheckIface, CheckNode, CheckLink, Step, checkVars
<1>10. CASE Conclude
  <2> DEFINE r == [Fresh EXCEPT !.exit = PlanExit, !.device = device, !.driver = drv,
                       !.plan = PlanStateB(device.id, drv, None),
                       !.diagnosis = DiagnosisOf(device.id, drv)]
  <2>1. r.verdict = None /\ r.pending = None
    BY DEF Fresh, Blank
  <2>2. Raise \/ Finish(r)
    BY <1>10 DEF Conclude
  <2> HIDE DEF r
  <2>3. QED
    BY <1>2, <2>1, <2>2, OtherFinish
<1>11. CASE ChipPlan
  <2> DEFINE r == [Fresh EXCEPT !.exit = PlanExit, !.device = device,
                       !.plan = ChipPlanOf(device.id, task.chip)]
  <2>1. r.verdict = None /\ r.pending = None
    BY DEF Fresh, Blank
  <2>2. Raise \/ Finish(r)
    BY <1>11 DEF ChipPlan
  <2> HIDE DEF r
  <2>3. QED
    BY <1>2, <2>1, <2>2, OtherFinish
<1>12. QED
  BY <1>3, <1>4, <1>5, <1>6, <1>7, <1>8, <1>9, <1>10, <1>11
\* A command that ends with a report of which the two properties hold.
LEMMA FinderFinish ==
    ASSUME NEW r, VerdictFor(r), PendingFor(r), Finish(r)
    PROVE  FInv'
<1>1. /\ report' = r /\ pc' = "idle" /\ found' = NothingFound
      /\ UNCHANGED <<iface, net, netMoved, moved, trees, treesMoved, marker, markerMoved>>
  BY DEF Finish, hostVars
<1>2. VerdictFor(r)'
  BY <1>1 DEF VerdictFor, NetFor
<1>3. PendingFor(r)'
  BY <1>1 DEF PendingFor, ReadableFor, Later, Comparable
<1>4. (VerdictFor(report) /\ PendingFor(report))'
  BY <1>1, <1>2, <1>3 DEF VerdictFor, NetFor, PendingFor, ReadableFor, Later, Comparable
<1>5. QED
  BY <1>1, <1>4 DEF FInv, FoundOK, FinderOK

LEMMA FoundByVerify ==
    ASSUME IInv, SInv, FInv, ListNetdevs \/ ReadPhy \/ SkipName \/ NoPhy \/ ReadDriverFile
    PROVE  FInv'
<1> USE DEF Step, FInv, FinderOK
<1>1. pc \in VerifyPath /\ report = None
  BY DEF ListNetdevs, ReadPhy, SkipName, NoPhy, ReadDriverFile, VerifyPath, SInv, TaskOK
<1>2. CASE ListNetdevs
  BY <1>1, <1>2 DEF ListNetdevs, FoundOK, hostVars
<1>3. CASE ReadPhy
  <2>1. /\ NextName \in names /\ NextName \in Netdevs /\ \A k \in names : NextName <= k
    <3>1. names # {} /\ names \subseteq Nat
      BY <1>3, HostTyped DEF ReadPhy, IInv, TypeOK
    <3>2. QED
      BY <3>1, MinProps DEF NextName, IInv, TypeOK
  <2>2. found \in Findings /\ NextName # None
    BY <2>1, AttributesDistinct DEF IInv, TypeOK
  <2>3. found'.netdev = NextName
    BY <1>3, <2>2 DEF ReadPhy, Findings
  <2>4. pc = "phy" /\ pc' = "driver_file" /\ NextName \in net
        /\ UNCHANGED <<net, netMoved, report>>
    BY <1>3 DEF ReadPhy, hostVars
  <2>5. net \ netMoved \subseteq names
    BY <2>4 DEF FoundOK
  <2>6. PICK k : k = NextName
    OBVIOUS
  <2>7. NetFor(k)
    BY <2>1, <2>2, <2>4, <2>5, <2>6 DEF NetFor
  <2>8. found'.netdev = k /\ NetFor(k)'
    BY <2>3, <2>4, <2>6, <2>7 DEF NetFor
  <2>9. NetFor(found.netdev)'
    BY <2>8 DEF NetFor
  <2>10. QED
    BY <1>1, <2>4, <2>9 DEF FoundOK
<1>4. CASE SkipName
  BY <1>1, <1>4 DEF SkipName, FoundOK, hostVars
<1>5. CASE NoPhy
  <2>1. pc' = "driver_file" /\ found' = NothingFound /\ net \ netMoved = {}
        /\ UNCHANGED <<net, netMoved, report>>
    BY <1>5 DEF NoPhy, checkVars, hostVars, FoundOK
  <2>2. QED
    BY <1>1, <2>1 DEF FoundOK, NetFor, NothingFound
<1>6. CASE ReadDriverFile
  <2> DEFINE checks == Checks(found.netdev, DriverFile(device.node), NoLog)
             r == [Fresh EXCEPT !.device = device, !.netdev = found.netdev,
                       !.driver = DriverFile(device.node), !.verdict = VerdictOf(checks)]
  <2>1. Finish(r) /\ pc = "driver_file" /\ device # None /\ NetFor(found.netdev)
    BY <1>1, <1>6 DEF ReadDriverFile, IInv, ControlOK, FoundOK
  <2>2. /\ r.device = device /\ r.netdev = found.netdev /\ r.verdict = VerdictOf(checks)
        /\ r.pending = None
    BY DEF Fresh, Blank
  <2>3. VerdictOf(checks) = "functional"
          <=> found.netdev # None /\ DriverFile(device.node) # None
    <3>1. /\ DOMAIN checks = {"interface_present", "driver_bound", "firmware_loaded",
                              "no_critical_errors"}
          /\ checks.interface_present = (found.netdev # None)
          /\ checks.driver_bound = (DriverFile(device.node) # None)
          /\ checks.firmware_loaded = (found.netdev # None /\ DriverFile(device.node) # None)
          /\ checks.no_critical_errors = TRUE
      BY DEF Checks, NoLog
    <3> HIDE DEF checks
    <3>2. /\ checks["interface_present"] \in BOOLEAN /\ checks["driver_bound"] \in BOOLEAN
          /\ checks["firmware_loaded"] \in BOOLEAN /\ checks["no_critical_errors"] \in BOOLEAN
      BY <3>1
    <3>3. \A c \in DOMAIN checks : checks[c] # None
      BY <3>1, <3>2, NullIsNoCheck
    <3>4. VerdictOf(checks) = "functional" <=> \A c \in DOMAIN checks : checks[c]
      BY <3>3 DEF VerdictOf
    <3>5. QED
      BY <3>1, <3>4
  <2> HIDE DEF r, checks
  <2>4. DriverIsFile => DriverFile(device.node) = iface[device.node]
    BY DEF DriverFile
  <2>5. VerdictFor(r) /\ PendingFor(r)
    BY <2>1, <2>2, <2>3, <2>4 DEF VerdictFor, PendingFor
  <2>6. QED
    BY <2>1, <2>5, FinderFinish
<1>7. QED
  BY <1>2, <1>3, <1>4, <1>5, <1>6

LEMMA FoundByDoctor ==
    ASSUME IInv, SInv, FInv, ReadOwnAlias \/ LookForMarker \/ ListTrees
    PROVE  FInv'
<1> USE DEF Step, FInv, FinderOK
<1>1. report = None /\ found \in Findings /\ marker \in BOOLEAN
  BY DEF ReadOwnAlias, LookForMarker, ListTrees, SInv, TaskOK, IInv, TypeOK, HostOK
<1>2. CASE ReadOwnAlias
  <2>1. /\ pc' = "marker" /\ report' = None /\ UNCHANGED <<trees, treesMoved>>
        /\ found' = [found EXCEPT !.readable = Running \in trees]
    BY <1>1, <1>2 DEF ReadOwnAlias, hostVars
  <2>2. found'.readable <=> Running \in trees
    BY <1>1, <2>1 DEF Findings
  <2>3. QED
    BY <2>1, <2>2 DEF FoundOK, ReadableFor
<1>3. CASE LookForMarker
  <2>1. /\ pc = "marker" /\ pc' = "trees" /\ report' = None
        /\ UNCHANGED <<trees, treesMoved, marker, markerMoved>>
        /\ found' = [found EXCEPT !.marker = marker]
    BY <1>1, <1>3 DEF LookForMarker, hostVars
  <2>2. found'.marker = marker /\ found'.readable = found.readable
    BY <1>1, <2>1 DEF Findings
  <2>3. ReadableFor(found.readable)
    BY <2>1 DEF FoundOK
  <2>4. QED
    BY <2>1, <2>2, <2>3 DEF FoundOK, ReadableFor
<1>4. CASE ListTrees
  <2> DEFINE p == Pending(trees, found.marker)
             r == [Fresh EXCEPT !.readable = found.readable, !.pending = p]
  <2>1. Finish(r) /\ pc = "trees"
    BY <1>4 DEF ListTrees
  <2>2. r.verdict = None /\ r.readable = found.readable /\ r.pending = p
    BY DEF Fresh, Blank
  <2>3. /\ ReadableFor(found.readable)
        /\ found.marker => marker
        /\ marker /\ ~found.marker => markerMoved
    BY <2>1 DEF FoundOK
  <2>4. trees \subseteq Releases /\ Newer(trees) \subseteq Releases \ {Running}
    BY DEF IInv, TypeOK, HostOK, Newer
  <2>5. /\ p = "yes" <=> Newer(trees) # {} \/ found.marker
        /\ p = "unknown" => trees = {}
    BY DEF Pending
  <2> HIDE DEF p, r
  <2>6. Comparable => (Newer(trees) # {} <=> Later \cap trees # {})
    <3>1. Running \notin Later
      <4>1. ASSUME Running \in Later PROVE FALSE
        <5>1. Shaped(Running) /\ Weight(Running) > Weight(Running)
          BY <4>1 DEF Later
        <5>2. VersionGt(Running, Running)
          BY <5>1, ReleasesTyped, WeightOrder
        <5>3. PICK i \in DOMAIN Key(Running) : i \in DOMAIN Key(Running) =>
                  Key(Running)[i] > Key(Running)[i]
          BY <5>2 DEF VersionGt
        <5>4. Key(Running)[i] \in Int
          BY <5>1, <5>3, ReleasesTyped, KeyShape, BaseTyped
        <5>5. QED
          BY <5>3, <5>4
      <4>2. QED
        BY <4>1
    <3>2. QED
      BY <2>4, <3>1, NewerIsLater DEF IInv, Later
  <2>7. PendingFor(r)
    BY <2>2, <2>3, <2>5, <2>6 DEF PendingFor
  <2>8. VerdictFor(r)
    BY <2>2 DEF VerdictFor
  <2>9. QED
    BY <2>1, <2>7, <2>8, FinderFinish
<1>5. QED
  BY <1>2, <1>3, <1>4

LEMMA FoundStep == IInv /\ SInv /\ FInv /\ [Next]_vars => FInv'
<1> SUFFICES ASSUME IInv, SInv, FInv, [Next]_vars PROVE FInv'
  OBVIOUS
<1>1. CASE UNCHANGED vars
  BY <1>1 DEF vars, hostVars, toolVars, FInv, FoundOK, FinderOK, VerdictFor, PendingFor, NetFor,
              ReadableFor, Later, Comparable
<1>2. CASE Next
  BY <1>2, HostKeepsFound, FoundElsewhere, FoundByVerify, FoundByDoctor DEF Next, Tool
<1>3. QED
  BY <1>1, <1>2

LEMMA FoundInductive == Spec => []FInv
<1>1. Init => FInv
  BY DEF Init, FInv, FoundOK, FinderOK
<1>2. QED
  BY <1>1, FoundStep, SteadyInductive, Inductive, PTL DEF Spec

(***************************************************************************)
(* `verify`, for any network devices that come and go while it looks at    *)
(* them, where the driver attribute can be read: what stayed is not        *)
(* missed, and the verdict on an undisturbed device is right.              *)
(***************************************************************************)
THEOREM VerdictIsExactHolds == Spec => []VerdictIsExact
<1>1. FInv => VerdictIsExact
  BY FinderSplit DEF FInv
<1>2. QED
  BY <1>1, FoundInductive, PTL

(***************************************************************************)
(* `doctor`, for any kernels that come and go while it looks at them: the  *)
(* answer is justified by the kernels and the marker that stayed, and the  *)
(* comparison of names as tuples is the order of the versions.             *)
(***************************************************************************)
THEOREM PendingIsJustifiedHolds == Spec => []PendingIsJustified
<1>1. FInv => PendingIsJustified
  BY FinderSplit DEF FInv
<1>2. QED
  BY <1>1, FoundInductive, PTL

-----------------------------------------------------------------------------
(***************************************************************************)
(* The parser, on lines of the documented form.                            *)
(***************************************************************************)
LEMMA DocumentedCommand ==
    ASSUME NEW l \in Seq(Token), Documented(l)
    PROVE  Command(l) = Asked(l)
<1>1. DOMAIN l = 1..Len(l) /\ Len(l) \in Nat
  OBVIOUS
<1>2. ASSUME NEW i \in DOMAIN l, l[i].kind = "word"
      PROVE  Takes(l, i - 1) <=> i > 1 /\ l[i - 1].kind = "open" /\ l[i - 1].key \in ValueKeys
  <2>1. CASE i = 1
    BY <1>1, <2>1 DEF Takes
  <2>2. CASE i > 1
    <3>1. i - 1 \in DOMAIN l /\ (i - 1) + 1 = i
      BY <1>1, <1>2, <2>2
    <3>2. Takes(l, i - 1) <=> l[i - 1].kind = "open"
      BY <1>2, <3>1 DEF Takes
    <3>3. l[i - 1].kind = "open" /\ l[i - 1].key \notin ValueKeys => ~Takes(l, i - 1)
      BY <3>1 DEF Documented
    <3>4. QED
      BY <2>2, <3>2, <3>3
  <2>3. QED
    BY <1>1, <1>2, <2>1, <2>2
<1>3. Positional(l) = Spoken(l)
  BY <1>2 DEF Positional, Spoken
<1>4. Spoken(l) # {}
  BY DEF Documented
<1>5. QED
  BY <1>3, <1>4 DEF Command, Asked

LEMMA DocumentedValue ==
    ASSUME NEW l \in Seq(Token), WellFormed(l), Documented(l),
           NEW key \in ValueKeys, NEW t \in Text, Gives(l, key, t)
    PROVE  OptValue(l, key) = t
<1>1. PICK i \in DOMAIN l :
          /\ l[i].key = key
          /\ \/ l[i].text = t
             \/ l[i].kind = "open" /\ i < Len(l) /\ l[i + 1].text = t
  BY DEF Gives
<1>2. l[i].kind # "word"
  BY <1>1, NullIsNoKey DEF WellFormed
<1>3. /\ ValueAt(l, i) # None
      /\ \A j \in DOMAIN l : l[j].key = key => i = j
  BY <1>1, <1>2 DEF Documented
<1>4. FlagsNamed(l, key) = {i}
  BY <1>1, <1>2, <1>3 DEF FlagsNamed
<1>5. Min(FlagsNamed(l, key)) = i
  <2>1. FlagsNamed(l, key) \subseteq Nat /\ FlagsNamed(l, key) # {}
    BY <1>4 DEF FlagsNamed
  <2>2. QED
    BY <1>4, <2>1, MinProps
<1>6. ValueAt(l, i) = t
  <2>1. t # None /\ key # None
    BY TextTyped, NullIsNoKey
  <2>2. CASE l[i].text = t
    <3>1. l[i].kind # "open"
      BY <1>1, <1>2, <2>1, <2>2 DEF WellFormed
    <3>2. QED
      BY <2>2, <3>1 DEF ValueAt, Takes
  <2>3. CASE l[i].kind = "open" /\ i < Len(l) /\ l[i + 1].text = t
    <3>1. l[i].text = None
      BY <1>1, <2>1, <2>3 DEF WellFormed
    <3>2. Takes(l, i)
      BY <1>3, <3>1 DEF ValueAt
    <3>3. QED
      BY <2>3, <3>2 DEF ValueAt
  <2>4. QED
    BY <1>1, <2>2, <2>3
<1>7. QED
  BY <1>4, <1>5, <1>6 DEF OptValue, Has

-----------------------------------------------------------------------------
(***************************************************************************)
(* What a report answers, said of the task instead of the line.            *)
(***************************************************************************)
AnswersTask(r) ==
    /\ task.want # None /\ r.device # None => SpelledId[task.want] = r.device.id
    /\ task.release # None /\ r.diagnosis # None =>
          /\ task.release \in Releases
          /\ r.diagnosis = DiagnosisBy(task.release, r.device.id, r.driver)
    /\ r.verdict # None => task.command = "verify"
    /\ r.pending # None <=> task.command = "doctor"
    /\ r.exit = "refused" <=> r.plan # None /\ task.command = "repair" /\ task.execute

\* A task that goes on was not ended by the parser, and the device picked is
\* the one asked for.
RunningOK ==
    /\ pc # "idle" => Ended(task) = None
    /\ pc # "idle" /\ task.command = "doctor" => pc \in DoctorPath
    /\ pc \in Picked /\ task.want # None => SpelledId[task.want] = device.id

AInv ==
    /\ line # <<>> => task = Parsed(line)
    /\ RunningOK
    /\ report # None => AnswersTask(report)

LEMMA LineAnswered ==
    ASSUME IInv, AInv
    PROVE  ReportAnswersLine
<1> SUFFICES ASSUME report # None, Documented(line)
             PROVE  /\ \A t \in Text :
                          /\ Gives(line, "--device", t) /\ report.device # None =>
                                SpelledId[t] = report.device.id
                          /\ Gives(line, "--kernel-release", t) /\ report.diagnosis # None =>
                                /\ t \in Releases
                                /\ report.diagnosis =
                                      DiagnosisBy(t, report.device.id, report.driver)
                    /\ report.verdict # None => Asked(line) = "verify"
                    /\ report.pending # None <=> Asked(line) = "doctor"
                    /\ report.exit = "refused" <=>
                          report.plan # None /\ Asked(line) = "repair" /\ Has(line, "--execute")
  BY DEF ReportAnswersLine
<1>1. line # <<>> /\ line \in Lines
  BY DEF Documented, Spoken, IInv, TypeOK
<1>2. line \in Seq(Token) /\ WellFormed(line)
  BY <1>1, LinesTyped
<1>3. /\ task.command = Asked(line)
      /\ task.want = OptValue(line, "--device")
      /\ task.release = OptValue(line, "--kernel-release")
      /\ task.execute = Has(line, "--execute")
  BY <1>1, <1>2, DocumentedCommand DEF AInv, Parsed
<1>4. \A key \in ValueKeys, t \in Text : Gives(line, key, t) => OptValue(line, key) = t
  BY <1>2, DocumentedValue
<1>5. {"--device", "--kernel-release"} \subseteq ValueKeys
  BY DEF ValueKeys
<1>6. AnswersTask(report)
  BY DEF AInv
<1>7. \A t \in Text : t # None
  BY TextTyped
<1>8. QED
  BY <1>3, <1>4, <1>5, <1>6, <1>7 DEF AnswersTask

LEMMA HostKeepsAnswers ==
    ASSUME AInv, Host, UNCHANGED toolVars
    PROVE  AInv'
<1>1. RunningOK'
  BY DEF AInv, RunningOK, toolVars, Ended, ByChip
<1>2. QED
  BY <1>1 DEF AInv, AnswersTask, DiagnosisBy, toolVars

LEMMA StartKeepsAnswers ==
    ASSUME IInv, AInv, NEW l \in Lines, Start(l)
    PROVE  AInv'
<1> DEFINE t == Parsed(l)
           r == [Blank(t) EXCEPT !.exit = Ended(t)]
<1>1. task' = t /\ line' = l /\ pc = "idle"
  BY DEF Start
<1>2. CASE Ended(t) # None
  <2>1. report' = r /\ pc' = "idle"
    BY <1>1, <1>2 DEF Start
  <2>2. /\ r.device = None /\ r.plan = None /\ r.diagnosis = None /\ r.verdict = None
        /\ r.pending = None /\ r.exit = Ended(t)
    BY DEF Blank
  <2>3. Ended(t) # "refused" /\ t.command # "doctor"
    BY <1>2 DEF Ended
  <2> HIDE DEF t, r
  <2>4. RunningOK'
    BY <2>1 DEF RunningOK, Picked, AliasPath, VerifyPath
  <2>5. QED
    BY <1>1, <2>1, <2>2, <2>3, <2>4 DEF AInv, AnswersTask, t
<1>3. CASE Ended(t) = None
  <2>1. report' = None /\ pc' = IF t.command = "doctor" THEN "own_alias" ELSE "list"
    BY <1>3 DEF Start
  <2>2. Ended(task)' = None
    BY <1>1, <1>3 DEF Ended, ByChip
  <2> HIDE DEF t
  <2>3. RunningOK'
    BY <1>1, <2>1, <2>2 DEF RunningOK, Picked, AliasPath, VerifyPath, DoctorPath
  <2>4. QED
    BY <1>1, <2>1, <2>3 DEF AInv, t
<1>4. QED
  BY <1>2, <1>3

\* A command that finishes with a report that answers its task.
LEMMA FinishKeepsAnswers ==
    ASSUME AInv, NEW r, AnswersTask(r), Finish(r)
    PROVE  AInv'
<1>1. /\ report' = r /\ pc' = "idle" /\ UNCHANGED <<task, line>>
  BY DEF Finish
<1>2. AnswersTask(r)'
  BY <1>1 DEF AnswersTask, DiagnosisBy
<1>3. AnswersTask(report)'
  BY <1>1, <1>2 DEF AnswersTask
<1>4. RunningOK'
  BY <1>1 DEF RunningOK, Picked, AliasPath, VerifyPath
<1>5. QED
  BY <1>1, <1>3, <1>4 DEF AInv

\* A step that goes on.
LEMMA StepKeepsAnswers ==
    ASSUME SInv, AInv, pc # "idle", UNCHANGED <<hostVars, task, line, report>>,
           pc' \in DoctorPath <=> pc \in DoctorPath,
           pc' \in Picked /\ task.want # None => SpelledId[task.want] = device'.id
    PROVE  AInv'
<1>1. report' = None
  BY DEF SInv, TaskOK
<1>2. Ended(task)' = Ended(task)
  BY DEF Ended, ByChip
<1>3. RunningOK'
  BY <1>2 DEF AInv, RunningOK
<1>4. QED
  BY <1>1, <1>3 DEF AInv

LEMMA WalkKeepsAnswers ==
    ASSUME IInv, SInv, AInv,
           \/ ListNodes \/ ReadVendor \/ ReadProduct \/ ReadRest \/ RestRaises
           \/ PickNothing \/ PickDevice
    PROVE  AInv'
<1> USE DEF Step
<1>1. pc \in {"list"} \cup Walking
  BY DEF ListNodes, ReadVendor, ReadProduct, ReadRest, RestRaises, PickNothing, PickDevice, Walking
<1>2. pc # "idle" /\ pc \notin DoctorPath
  BY <1>1 DEF Walking, DoctorPath
<1>3. task.command # "doctor"
  BY <1>2 DEF AInv, RunningOK
<1>4. ASSUME ListNodes \/ ReadVendor \/ ReadProduct \/ ReadRest PROVE AInv'
  <2>1. pc' \in Walking /\ UNCHANGED <<hostVars, task, line, report>>
    BY <1>4 DEF ListNodes, ReadVendor, ReadProduct, ReadRest, Walking
  <2>2. pc' \notin DoctorPath /\ pc' \notin Picked
    BY <2>1 DEF Walking, DoctorPath, Picked, AliasPath, VerifyPath
  <2>3. QED
    BY <1>2, <2>1, <2>2, StepKeepsAnswers
<1>5. CASE PickNothing
  <2> DEFINE r == [Fresh EXCEPT !.exit = "unknown"]
  <2>1. Finish(r)
    BY <1>5 DEF PickNothing
  <2>2. /\ r.device = None /\ r.plan = None /\ r.diagnosis = None /\ r.verdict = None
        /\ r.pending = None /\ r.exit = "unknown"
    BY DEF Fresh, Blank
  <2> HIDE DEF r
  <2>3. AnswersTask(r)
    BY <1>3, <2>2 DEF AnswersTask
  <2>4. QED
    BY <2>1, <2>3, FinishKeepsAnswers
<1>6. CASE PickDevice
  <2>1. /\ UNCHANGED <<hostVars, task, line, report>> /\ pc' = NextAfterPick
        /\ Wanted # {} /\ device' = devs[Min(Wanted)]
    BY <1>6 DEF PickDevice
  <2>2. devs \in Seq(Device)
    BY DEF IInv, TypeOK
  <2>3. Wanted \subseteq Nat
    BY <2>2 DEF Wanted
  <2>4. Min(Wanted) \in Wanted
    BY <2>1, <2>3, MinProps
  <2>5. task.want # None => SpelledId[task.want] = device'.id
    BY <2>1, <2>4 DEF Wanted
  <2>6. pc' \notin DoctorPath
    BY <2>1 DEF NextAfterPick, DoctorPath
  <2>7. QED
    BY <1>2, <2>1, <2>5, <2>6, StepKeepsAnswers
<1>7. CASE RestRaises
  <2> DEFINE r == [Fresh EXCEPT !.exit = "raised", !.device = device]
  <2>1. Finish(r) /\ device = None
    BY <1>1, <1>7 DEF RestRaises, Raise, SInv, TaskOK
  <2>2. /\ r.device = None /\ r.plan = None /\ r.diagnosis = None /\ r.verdict = None
        /\ r.pending = None /\ r.exit = "raised"
    BY <2>1 DEF Fresh, Blank
  <2> HIDE DEF r
  <2>3. AnswersTask(r)
    BY <1>3, <2>2 DEF AnswersTask
  <2>4. QED
    BY <2>1, <2>3, FinishKeepsAnswers
<1>8. QED
  BY <1>4, <1>5, <1>6, <1>7

\* A bare report about the picked device.
LEMMA BareAnswers ==
    ASSUME AInv, pc \in Picked, NEW r, r.device = device, r.plan = None, r.diagnosis = None,
           r.verdict # None => task.command = "verify", r.pending = None, r.exit # "refused"
    PROVE  AnswersTask(r)
<1>1. task.command # "doctor"
  BY DEF AInv, RunningOK, Picked, AliasPath, VerifyPath, DoctorPath
<1>2. QED
  BY <1>1 DEF AnswersTask, AInv, RunningOK

LEMMA RaiseKeepsAnswers ==
    ASSUME AInv, pc \in Picked, Raise
    PROVE  AInv'
<1> DEFINE r == [Fresh EXCEPT !.exit = "raised", !.device = device]
<1>1. Finish(r)
  BY DEF Raise
<1>2. /\ r.device = device /\ r.plan = None /\ r.diagnosis = None /\ r.verdict = None
      /\ r.pending = None /\ r.exit = "raised"
  BY DEF Fresh, Blank
<1> HIDE DEF r
<1>3. AnswersTask(r)
  BY <1>2, BareAnswers
<1>4. QED
  BY <1>1, <1>3, FinishKeepsAnswers

\* A report with a plan, and a diagnosis when no chip was named.
LEMMA PlanAnswers ==
    ASSUME IInv, AInv, pc \in {"conclude", "chip_plan"},
           NEW r, r.device = device, r.plan \in Plan, r.verdict = None, r.pending = None,
           r.exit = PlanExit,
           r.diagnosis # None => /\ pc = "conclude"
                                 /\ r.diagnosis = DiagnosisOf(device.id, r.driver)
    PROVE  AnswersTask(r)
<1>1. task.command # "doctor" /\ (task.want # None => SpelledId[task.want] = device.id)
  BY DEF AInv, RunningOK, Picked, AliasPath, VerifyPath, DoctorPath
<1>2. r.plan # None
  BY NullIsNoPlan
<1>3. pc = "conclude" => Release \in Releases
  BY DEF IInv, ControlOK, AliasPath
<1>4. r.exit = "refused" <=> task.command = "repair" /\ task.execute
  BY DEF PlanExit
<1>5. task.release # None => Release = task.release
  BY DEF Release
<1>6. QED
  BY <1>1, <1>2, <1>3, <1>4, <1>5 DEF AnswersTask, DiagnosisOf

LEMMA DriverKeepsAnswers ==
    ASSUME IInv, SInv, AInv,
           \/ ReadAlias \/ NoAlias \/ ResolveIface \/ CheckIface \/ ResolveNode \/ CheckNode
           \/ Conclude \/ ChipPlan
    PROVE  AInv'
<1> USE DEF Step
<1>1. pc \in AliasPath \cup {"chip_plan"}
  BY DEF ReadAlias, NoAlias, ResolveIface, CheckIface, ResolveNode, CheckNode, ResolveLink,
         CheckLink, Conclude, ChipPlan, AliasPath
<1>2. pc # "idle" /\ pc \in Picked /\ pc \notin DoctorPath /\ device # None
  BY <1>1 DEF Picked, AliasPath, DoctorPath, IInv, ControlOK
<1>3. ASSUME Raise PROVE AInv'
  BY <1>2, <1>3, RaiseKeepsAnswers
<1>4. ASSUME ReadAlias \/ ResolveIface \/ CheckIface \/ ResolveNode \/ CheckNode PROVE AInv'
  <2>1. pc' \in AliasPath /\ UNCHANGED <<hostVars, task, line, report, device>>
    BY <1>4 DEF ReadAlias, ResolveIface, CheckIface, ResolveNode, CheckNode, ResolveLink,
                CheckLink, AliasPath, walkVars
  <2>2. pc' \notin DoctorPath
    BY <2>1 DEF AliasPath, DoctorPath
  <2>3. task.want # None => SpelledId[task.want] = device.id
    BY <1>2 DEF AInv, RunningOK
  <2>4. QED
    BY <1>2, <2>1, <2>2, <2>3, StepKeepsAnswers
<1>5. CASE NoAlias
  BY <1>3, <1>5 DEF NoAlias
<1>6. device.id \in Id /\ drv \in Module \cup {None}
  BY <1>2, DeviceTyped DEF IInv, TypeOK
<1>7. CASE Conclude
  <2> DEFINE plan == PlanStateB(device.id, drv, None)
             r == [Fresh EXCEPT !.exit = PlanExit, !.device = device, !.driver = drv,
                       !.plan = plan, !.diagnosis = DiagnosisOf(device.id, drv)]
  <2>1. CASE plan.kind = "raises"
    BY <1>3, <1>7, <2>1 DEF Conclude
  <2>2. CASE plan.kind # "raises"
    <3>1. Finish(r) /\ pc = "conclude" /\ ~ByChip(task)
      BY <1>7, <2>2 DEF Conclude, IInv, ControlOK, AliasPath
    <3>2. /\ r.device = device /\ r.plan = plan /\ r.verdict = None /\ r.pending = None
          /\ r.exit = PlanExit /\ r.driver = drv /\ r.diagnosis = DiagnosisOf(device.id, drv)
      BY DEF Fresh, Blank
    <3>3. plan \in Plan
      BY <1>6, PlanTyped
    <3> HIDE DEF r, plan
    <3>4. AnswersTask(r)
      BY <3>1, <3>2, <3>3, PlanAnswers
    <3>5. QED
      BY <3>1, <3>4, FinishKeepsAnswers
  <2>3. QED
    BY <2>1, <2>2
<1>8. CASE ChipPlan
  <2> DEFINE plan == ChipPlanOf(device.id, task.chip)
             r == [Fresh EXCEPT !.exit = PlanExit, !.device = device, !.plan = plan]
  <2>1. CASE plan.kind = "raises"
    BY <1>3, <1>8, <2>1 DEF ChipPlan
  <2>2. CASE plan.kind # "raises"
    <3>1. Finish(r) /\ pc = "chip_plan"
      BY <1>8, <2>2 DEF ChipPlan
    <3>2. /\ r.device = device /\ r.plan = plan /\ r.verdict = None /\ r.pending = None
          /\ r.exit = PlanExit /\ r.diagnosis = None
      BY DEF Fresh, Blank
    <3>3. plan \in Plan
      BY <1>6, PlanTyped DEF ChipPlanOf, NoBind, Plan, PlanKinds
    <3> HIDE DEF r, plan
    <3>4. AnswersTask(r)
      BY <3>1, <3>2, <3>3, PlanAnswers
    <3>5. QED
      BY <3>1, <3>4, FinishKeepsAnswers
  <2>3. QED
    BY <2>1, <2>2
<1>9. QED
  BY <1>4, <1>5, <1>7, <1>8

LEMMA VerifyKeepsAnswers ==
    ASSUME IInv, SInv, AInv, ListNetdevs \/ ReadPhy \/ SkipName \/ NoPhy \/ ReadDriverFile
    PROVE  AInv'
<1>1. pc \in VerifyPath
  BY DEF ListNetdevs, ReadPhy, SkipName, NoPhy, ReadDriverFile, Step, VerifyPath
<1>2. pc \in Picked /\ pc # "idle" /\ pc \notin DoctorPath /\ task.command = "verify"
  BY <1>1 DEF Picked, VerifyPath, DoctorPath, SInv, TaskOK
<1>3. CASE ReadDriverFile
  <2> DEFINE r == [Fresh EXCEPT !.device = device, !.netdev = found.netdev,
                       !.driver = DriverFile(device.node),
                       !.verdict = VerdictOf(Checks(found.netdev, DriverFile(device.node), NoLog))]
  <2>1. Finish(r)
    BY <1>3 DEF ReadDriverFile
  <2>2. /\ r.device = device /\ r.plan = None /\ r.diagnosis = None /\ r.pending = None
        /\ r.exit = "ok"
    BY DEF Fresh, Blank
  <2> HIDE DEF r
  <2>3. AnswersTask(r)
    BY <1>2, <2>2, BareAnswers
  <2>4. QED
    BY <2>1, <2>3, FinishKeepsAnswers
<1>4. ASSUME ListNetdevs \/ ReadPhy \/ SkipName \/ NoPhy PROVE AInv'
  <2>1. pc' \in VerifyPath /\ UNCHANGED <<hostVars, task, line, report, device>>
    BY <1>4 DEF ListNetdevs, ReadPhy, SkipName, NoPhy, Step, VerifyPath, walkVars
  <2>2. pc' \notin DoctorPath
    BY <2>1 DEF VerifyPath, DoctorPath
  <2>3. task.want # None => SpelledId[task.want] = device.id
    BY <1>2 DEF AInv, RunningOK
  <2>4. QED
    BY <1>2, <2>1, <2>2, <2>3, StepKeepsAnswers
<1>5. QED
  BY <1>3, <1>4

LEMMA DoctorKeepsAnswers ==
    ASSUME IInv, SInv, AInv, ReadOwnAlias \/ LookForMarker \/ ListTrees
    PROVE  AInv'
<1>1. pc \in DoctorPath /\ pc # "idle"
  BY DEF ReadOwnAlias, LookForMarker, ListTrees, Step, DoctorPath
<1>2. task.command = "doctor"
  BY <1>1 DEF SInv, TaskOK
<1>3. CASE ListTrees
  <2> DEFINE p == Pending(trees, found.marker)
             r == [Fresh EXCEPT !.readable = found.readable, !.pending = p]
  <2>1. Finish(r)
    BY <1>3 DEF ListTrees
  <2>2. /\ r.device = None /\ r.plan = None /\ r.diagnosis = None /\ r.verdict = None
        /\ r.pending = p /\ r.exit = "ok"
    BY DEF Fresh, Blank
  <2>3. p # None
    BY AttributesDistinct DEF Pending, Answers
  <2> HIDE DEF r, p
  <2>4. AnswersTask(r)
    BY <1>2, <2>2, <2>3 DEF AnswersTask
  <2>5. QED
    BY <2>1, <2>4, FinishKeepsAnswers
<1>4. ASSUME ReadOwnAlias \/ LookForMarker PROVE AInv'
  <2>1. pc' \in {"marker", "trees"} /\ UNCHANGED <<hostVars, task, line, report>>
    BY <1>4 DEF ReadOwnAlias, LookForMarker, Step
  <2>2. pc' \in DoctorPath /\ pc' \notin Picked
    BY <2>1 DEF DoctorPath, Picked, AliasPath, VerifyPath
  <2>3. QED
    BY <1>1, <2>1, <2>2, StepKeepsAnswers
<1>5. QED
  BY <1>3, <1>4

LEMMA AnswerStep == IInv /\ SInv /\ AInv /\ [Next]_vars => AInv'
<1> SUFFICES ASSUME IInv, SInv, AInv, [Next]_vars PROVE AInv'
  OBVIOUS
<1>1. CASE UNCHANGED vars
  BY <1>1 DEF vars, hostVars, toolVars, AInv, RunningOK, AnswersTask, DiagnosisBy, Ended, ByChip
<1>2. CASE Next
  BY <1>2, HostKeepsAnswers, StartKeepsAnswers, WalkKeepsAnswers, DriverKeepsAnswers,
     VerifyKeepsAnswers, DoctorKeepsAnswers DEF Next, Tool
<1>3. QED
  BY <1>1, <1>2

LEMMA AnswersInductive == Spec => []AInv
<1>1. Init => AInv
  BY DEF Init, AInv, RunningOK, Picked, AliasPath, VerifyPath
<1>2. QED
  BY <1>1, AnswerStep, SteadyInductive, Inductive, PTL DEF Spec

(***************************************************************************)
(* For every line of a usual form, of any length, whatever else it gives   *)
(* and wherever its options stand: the report is about the device asked    *)
(* for and the modules of the kernel asked for, it is that of the command  *)
(* asked for, and it refuses what was asked to be executed and no more.    *)
(***************************************************************************)
THEOREM ReportAnswersLineHolds == Spec => []ReportAnswersLine
<1>1. IInv /\ AInv => ReportAnswersLine
  BY LineAnswered
<1>2. QED
  BY <1>1, AnswersInductive, Inductive, PTL

-----------------------------------------------------------------------------
(***************************************************************************)
(* One look.  The first of what there is can be told although it changes,  *)
(* as long as nothing changes at or before it.                             *)
(***************************************************************************)
LEMMA FirstIsFirst ==
    ASSUME NEW c, NEW S, c \subseteq Nat, S \subseteq Nat, ~Upset(c, S),
           NEW k \in S \cup c, \A j \in S \ c : k <= j
    PROVE  S # {} /\ k = Min(S) /\ k \notin c
<1>1. \A x \in c : \E y \in S : y < x
  BY DEF Upset
<1>2. S # {}
  BY <1>1
<1>3. PICK m : m = Min(S)
  OBVIOUS
<1>4. m \in S /\ \A y \in S : m <= y
  BY <1>2, <1>3, MinProps
<1>5. m \notin c
  BY <1>1, <1>4
<1>6. k <= m /\ k \in Nat /\ m \in Nat
  BY <1>4, <1>5
<1>7. k \notin c
  BY <1>1, <1>4, <1>6
<1>8. QED
  BY <1>2, <1>3, <1>4, <1>6, <1>7

\* There is no first when the steps found none.
LEMMA NoneIsFirst ==
    ASSUME NEW c, NEW S, c \subseteq Nat, S \subseteq Nat, ~Upset(c, S), S \ c = {}
    PROVE  S = {} /\ c = {}
<1>1. \A x \in c : \E y \in S : y < x
  BY DEF Upset
<1>2. ASSUME S # {} PROVE FALSE
  <2>1. PICK m : m = Min(S)
    OBVIOUS
  <2>2. m \in S /\ \A y \in S : m <= y
    BY <1>2, <2>1, MinProps
  <2>3. QED
    BY <1>1, <2>2
<1>3. QED
  BY <1>1, <1>2

\* Later changes do not undo an earlier one.
LEMMA UpsetStays ==
    ASSUME NEW c, NEW S, NEW c2, NEW S2, c \subseteq c2, c2 \subseteq Nat, S \subseteq Nat,
           S2 \subseteq Nat, S2 \ S \subseteq c2, Upset(c, S)
    PROVE  Upset(c2, S2)
<1>1. PICK x \in c : \A y \in S : x <= y
  BY DEF Upset
<1>2. CASE \A y \in S2 : x <= y
  BY <1>1, <1>2 DEF Upset
<1>3. CASE \E y \in S2 : ~(x <= y)
  <2>1. PICK y \in S2 : ~(x <= y)
    BY <1>3
  <2>2. PICK m : m = Min(S2)
    OBVIOUS
  <2>3. m \in S2 /\ \A z \in S2 : m <= z
    BY <2>1, <2>2, MinProps
  <2>4. m \notin S
    BY <1>1, <2>1, <2>3
  <2>5. QED
    BY <2>3, <2>4 DEF Upset
<1>4. QED
  BY <1>2, <1>3

\* An undisturbed device that was enumerated had all its ids, and a class.
Seen(d) ==
    /\ d.node \in DeviceNodes
    /\ d.node \notin moved => Readable(d.node) /\ ~Malformed(d.node)

\* No undisturbed dongle cuts a walk short.
Sound == \A n \in DeviceNodes \ moved : Readable(n) => ~Malformed(n)

LookOK ==
    /\ HostConsistent
    /\ \A i \in DOMAIN devs : Seen(devs[i])
    /\ pc \in Picked => Seen(device) /\ Sound
    /\ pc \in AliasPath => task.command # "verify"

\* Drivers sit at dongles only, and hubs stay put.
LEMMA HostKeepsConsistent ==
    ASSUME IInv, HostConsistent, Host
    PROVE  HostConsistent'
<1>1. /\ usb     \in [Nodes -> Dongles \cup {Hub, None}]
      /\ iface   \in [Nodes -> Drivers \cup {None}]
      /\ nodeDrv \in [Nodes -> NodeDrivers \cup {None}]
      /\ DeviceNodes \subseteq Nodes
  BY HostTyped DEF IInv, TypeOK, HostOK
<1>2. None \notin Dongles
  BY HostTyped, AttributesDistinct
<1>3. ASSUME NEW n \in DeviceNodes, Plug(n) PROVE HostConsistent'
  <2>1. PICK d \in Dongles, m \in NodeDrivers :
            /\ usb' = [usb EXCEPT ![n] = d] /\ nodeDrv' = [nodeDrv EXCEPT ![n] = m]
            /\ iface' = iface /\ d # None
    BY <1>2, <1>3 DEF Plug
  <2>2. QED
    BY <1>1, <2>1 DEF HostConsistent
<1>4. ASSUME NEW n \in DeviceNodes, Unplug(n) PROVE HostConsistent'
  BY <1>1, <1>4 DEF Unplug, HostConsistent
<1>5. ASSUME NEW n \in DeviceNodes, BindDriver(n) PROVE HostConsistent'
  BY <1>1, <1>5 DEF BindDriver, HostConsistent
<1>6. ASSUME NEW n \in DeviceNodes, UnbindDriver(n) PROVE HostConsistent'
  BY <1>1, <1>6 DEF UnbindDriver, HostConsistent
<1>7. ASSUME SetMarker \/ (\E k \in Netdevs : MoveNetdev(k)) \/ (\E r \in Releases : MoveTree(r))
      PROVE  HostConsistent'
  BY <1>7 DEF SetMarker, MoveNetdev, MoveTree, HostConsistent
<1>8. QED
  BY <1>3, <1>4, <1>5, <1>6, <1>7 DEF Host

LEMMA HostKeepsLook ==
    ASSUME IInv, LookOK, Host, UNCHANGED toolVars
    PROVE  LookOK'
<1>1. ASSUME NEW n \in DeviceNodes, n \notin moved'
      PROVE  n \notin moved /\ Readable(n)' = Readable(n) /\ Malformed(n)' = Malformed(n)
  BY <1>1, Undisturbed, HostTyped DEF Readable, Malformed
<1>2. ASSUME NEW d, Seen(d) PROVE Seen(d)'
  BY <1>1, <1>2 DEF Seen
<1>3. Sound => Sound'
  BY <1>1 DEF Sound
<1>4. HostConsistent'
  BY HostKeepsConsistent DEF LookOK
<1>5. QED
  BY <1>2, <1>3, <1>4 DEF LookOK, toolVars

\* A walk that was not cut short met no malformed class that stayed.
LEMMA WalkSound ==
    ASSUME SInv, LookOK, pc = "vendor", todo = {}
    PROVE  Sound
<1>1. ASSUME NEW n \in DeviceNodes \ moved, Readable(n) PROVE ~Malformed(n)
  <2>1. PICK i \in DOMAIN devs : devs[i].node = n
    BY <1>1 DEF SInv, WalkOK, Walking
  <2>2. QED
    BY <2>1 DEF LookOK, Seen
<1>2. QED
  BY <1>1 DEF Sound

\* Nor is there one at all, when none could come and go.
LEMMA NoneMalformed ==
    ASSUME HostConsistent, Sound, Walks(task), ~Disturbed
    PROVE  ~ \E n \in DeviceNodes : Matches(n, None) /\ Malformed(n)
<1> SUFFICES ASSUME NEW n \in DeviceNodes, Matches(n, None), Malformed(n) PROVE FALSE
  OBVIOUS
<1>1. usb[n] \in Dongles /\ usb[n].class = "junk" /\ Readable(n)
  BY DEF HostConsistent, Malformed, Matches, Readable
<1>2. moved = {}
  BY <1>1 DEF Disturbed
<1>3. QED
  BY <1>1, <1>2 DEF Sound

LEMMA RestKeepsLook ==
    ASSUME IInv, SInv, LookOK, ReadRest
    PROVE  LookOK'
<1>1. /\ pc = "rest" /\ pc' = "vendor" /\ devs' = DevsWithNext
      /\ UNCHANGED <<usb, iface, nodeDrv, moved>>
      /\ ~(Complete /\ Malformed(NextNode))
  BY DEF ReadRest, Step, hostVars
<1>2. NextNode \in DeviceNodes
  BY <1>1, NextNodeTyped DEF IInv, ControlOK
<1>3. devs \in Seq(Device)
  BY DEF IInv, TypeOK
<1>4. \A i \in DOMAIN devs : Seen(devs[i])
  BY DEF LookOK
<1> DEFINE d == [node |-> NextNode, id |-> <<part.vid, part.pid>>]
<1>5. ASSUME Complete PROVE Seen(d)
  <2>1. d.node = NextNode
    OBVIOUS
  <2>2. NextNode \notin moved =>
           part.vid = Attribute(NextNode).vid /\ part.pid = Attribute(NextNode).pid
    BY <1>1 DEF SInv, WalkOK
  <2>3. NextNode \notin moved => Readable(NextNode)
    BY <1>5, <2>2 DEF Complete, Attribute, Readable
  <2> HIDE DEF d
  <2>4. QED
    BY <1>1, <1>2, <1>5, <2>1, <2>3 DEF Seen
<1>6. \A i \in DOMAIN devs' : Seen(devs'[i])
  <2>1. CASE Complete
    <3>1. devs' = Append(devs, d)
      BY <1>1, <2>1 DEF DevsWithNext
    <3> HIDE DEF d
    <3>2. QED
      BY <1>3, <1>4, <1>5, <2>1, <3>1
  <2>2. CASE ~Complete
    BY <1>1, <1>4, <2>2 DEF DevsWithNext
  <2>3. QED
    BY <2>1, <2>2
<1>7. \A i \in DOMAIN devs' : Seen(devs[i])'
  BY <1>1, <1>6 DEF Seen, Readable, Malformed
<1>8. HostConsistent'
  BY <1>1 DEF LookOK, HostConsistent
<1>9. QED
  BY <1>1, <1>7, <1>8 DEF LookOK, Picked, AliasPath, VerifyPath

\* Every other step of a command.
LEMMA ToolKeepsLook ==
    ASSUME IInv, SInv, LookOK, Tool, ~ReadRest
    PROVE  LookOK'
<1> USE DEF Step
<1>0. HostConsistent'
  <2>1. UNCHANGED hostVars
    BY DEF Tool, ListNodes, ReadVendor, ReadProduct, ReadRest, RestRaises, PickNothing, PickDevice,
           ReadAlias, NoAlias, ResolveIface, CheckIface, ResolveNode, CheckNode, ResolveLink,
           CheckLink, Conclude, ChipPlan, ListNetdevs, ReadPhy, SkipName, NoPhy, ReadDriverFile,
           ReadOwnAlias, LookForMarker, ListTrees, Finish, Raise
  <2>2. QED
    BY <2>1 DEF hostVars, LookOK, HostConsistent
<1>1. ASSUME NEW r, Finish(r) PROVE LookOK'
  BY <1>0, <1>1 DEF Finish, LookOK, Picked, AliasPath, VerifyPath
<1>2. ASSUME UNCHANGED <<usb, moved, task, devs, device>>,
             pc' \in Picked => pc \in Picked, pc' \in AliasPath => pc \in AliasPath
      PROVE  LookOK'
  BY <1>0, <1>2 DEF LookOK, Seen, Sound, Readable, Malformed
<1>3. CASE ListNodes \/ ReadVendor \/ ReadProduct
  BY <1>2, <1>3 DEF ListNodes, ReadVendor, ReadProduct, hostVars, Picked, AliasPath, VerifyPath
<1>4. CASE PickDevice
  <2>1. /\ UNCHANGED <<usb, moved, task, devs>> /\ pc' = NextAfterPick
        /\ Wanted # {} /\ device' = devs[Min(Wanted)] /\ pc = "vendor" /\ todo = {}
    BY <1>4 DEF PickDevice, hostVars
  <2>2. devs \in Seq(Device)
    BY DEF IInv, TypeOK
  <2>3. Wanted \subseteq Nat /\ Wanted \subseteq DOMAIN devs
    BY <2>2 DEF Wanted
  <2>4. Min(Wanted) \in DOMAIN devs
    BY <2>1, <2>3, MinProps
  <2>5. Seen(device')
    BY <2>1, <2>4 DEF LookOK
  <2>6. pc' \in AliasPath => task.command # "verify"
    BY <2>1 DEF NextAfterPick, AliasPath
  <2>7. Sound
    BY <2>1, WalkSound
  <2>8. QED
    BY <1>0, <2>1, <2>5, <2>6, <2>7 DEF LookOK, Seen, Sound, Readable, Malformed
<1>5. CASE ReadAlias \/ ResolveIface \/ CheckIface \/ ResolveNode \/ CheckNode
  <2>1. PathOnly
    BY <1>5 DEF ReadAlias, ResolveIface, CheckIface, ResolveNode, CheckNode, ResolveLink,
                CheckLink, PathOnly, AliasPath, walkVars
  <2>2. QED
    BY <1>2, <2>1 DEF PathOnly, hostVars, Picked
<1>6. CASE ListNetdevs \/ ReadPhy \/ SkipName \/ NoPhy
  BY <1>2, <1>6 DEF ListNetdevs, ReadPhy, SkipName, NoPhy, hostVars, walkVars, Picked,
                    AliasPath, VerifyPath
<1>7. CASE ReadOwnAlias \/ LookForMarker
  BY <1>2, <1>7 DEF ReadOwnAlias, LookForMarker, hostVars, walkVars, Picked, AliasPath,
                    VerifyPath
<1>8. CASE RestRaises \/ PickNothing \/ NoAlias \/ Conclude \/ ChipPlan \/ ReadDriverFile \/ ListTrees
  BY <1>1, <1>8 DEF RestRaises, PickNothing, NoAlias, Conclude, ChipPlan, ReadDriverFile, ListTrees, Raise
<1>9. QED
  BY <1>3, <1>4, <1>5, <1>6, <1>7, <1>8 DEF Tool

LEMMA LookStep == IInv /\ SInv /\ LookOK /\ [Next]_vars => LookOK'
<1> SUFFICES ASSUME IInv, SInv, LookOK, [Next]_vars PROVE LookOK'
  OBVIOUS
<1>1. CASE UNCHANGED vars
  BY <1>1 DEF vars, hostVars, toolVars, LookOK, HostConsistent, Seen, Sound, Readable, Malformed
<1>2. ASSUME NEW l \in Lines, Start(l) PROVE LookOK'
  <2>1. /\ pc' \in {"idle", "list", "own_alias"} /\ devs = <<>> /\ devs' = devs
        /\ UNCHANGED hostNow
    BY <1>2 DEF Start, walkVars, SInv, TaskOK
  <2>2. HostConsistent'
    BY <2>1 DEF LookOK, HostConsistent, hostNow
  <2>3. QED
    BY <2>1, <2>2 DEF LookOK, Picked, AliasPath, VerifyPath
<1>3. CASE Tool
  BY <1>3, RestKeepsLook, ToolKeepsLook
<1>4. QED
  BY <1>1, <1>2, <1>3, HostKeepsLook DEF Next

LEMMA LookInductive == Spec => []LookOK
<1>1. Init => LookOK
  BY DEF Init, HostInit, LookOK, Picked, AliasPath, VerifyPath
<1>2. QED
  BY <1>1, LookStep, SteadyInductive, Inductive, PTL DEF Spec
-----------------------------------------------------------------------------
(***************************************************************************)
(* The steps of a command against those of the one look.                   *)
(***************************************************************************)
LEMMA SetsOfNumbers ==
    ASSUME TypeOK
    PROVE  moved \subseteq Nat /\ netMoved \subseteq Nat /\ net \subseteq Nat /\ Pickable \subseteq Nat
BY HostTyped DEF TypeOK, HostOK, Pickable

\* What is picked is what one look would pick.
LEMMA PickedIsFirst ==
    ASSUME IInv, SInv, AInv, LookOK, pc \in Picked, ~Disturbed
    PROVE  /\ Ended(task) = None /\ task.command # "doctor"
           /\ Pickable # {} /\ device.node \notin moved
           /\ device = [node |-> Min(Pickable), id |-> IdAt(Min(Pickable))]
           /\ ~ \E n \in DeviceNodes : Matches(n, None) /\ Malformed(n)
<1>1. pc # "idle" /\ pc \notin DoctorPath /\ device # None
  BY DEF Picked, AliasPath, VerifyPath, DoctorPath, IInv, ControlOK
<1>2. Ended(task) = None /\ task.command # "doctor"
  BY <1>1 DEF AInv, RunningOK
<1>3. ~Upset(moved, Pickable)
  BY <1>2 DEF Disturbed, Walks
<1>4. device \in Device /\ device.node \in Nat /\ device.node \in DeviceNodes
  BY <1>1, DeviceTyped, HostTyped DEF IInv, LookOK, Seen
<1>5. device.node \notin moved => device.node \in Pickable
  <2> SUFFICES ASSUME device.node \notin moved PROVE Matches(device.node, task.want)
    BY <1>4 DEF Pickable
  <2>1. Readable(device.node) /\ device.id = IdAt(device.node)
    BY DEF LookOK, Seen, SInv, PickOK, Exact
  <2>2. task.want # None => SpelledId[task.want] = device.id
    BY DEF AInv, RunningOK
  <2>3. QED
    BY <2>1, <2>2 DEF Matches, Readable
<1>6. \A j \in Pickable \ moved : device.node <= j
  BY DEF SInv, PickOK, First1, Pickable
<1>7. moved \subseteq Nat /\ Pickable \subseteq Nat
  BY SetsOfNumbers DEF IInv
<1>8. Pickable # {} /\ device.node = Min(Pickable) /\ device.node \notin moved
  <2>1. ASSUME NEW k, k = device.node
        PROVE  Pickable # {} /\ k = Min(Pickable) /\ k \notin moved
    <3>1. k \in Pickable \cup moved /\ \A j \in Pickable \ moved : k <= j
      BY <1>5, <1>6, <2>1
    <3>2. QED
      BY <1>3, <1>7, <3>1, FirstIsFirst, ZenonT(60)
  <2>2. QED
    BY ONLY <2>1
<1>9. device.id = IdAt(device.node)
  BY <1>8 DEF SInv, PickOK, Exact
<1>10. device = [node |-> device.node, id |-> device.id]
  BY <1>4 DEF Device
<1>11. ~ \E n \in DeviceNodes : Matches(n, None) /\ Malformed(n)
  BY <1>2, NoneMalformed DEF Walks, LookOK
<1>12. QED
  BY <1>2, <1>8, <1>9, <1>10, <1>11

\* A command that prints what one look shows, unless it was disturbed.
LEMMA FinishReplies ==
    ASSUME pc # "idle", NEW r \in Report, Finish(r), ~Disturbed => r = Answer
    PROVE  Look!Next
<1>1. /\ pc' = "idle" /\ report' = r /\ r # None
      /\ UNCHANGED <<usb, net, moved, netMoved, treesMoved, markerMoved, task>>
  BY NullIsNoReport DEF Finish, hostVars
<1>2. Disturbed' = Disturbed
  BY <1>1 DEF Disturbed, Walks, Ended, ByChip, Upset, Pickable, Matches, IdAt, Diagnoses, Release
<1>3. Look!Reply
  BY <1>1, <1>2 DEF Look!Reply
<1>4. QED
  BY <1>3 DEF Look!Next

LEMMA PickNothingReplies ==
    ASSUME IInv, SInv, AInv, LookOK, PickNothing
    PROVE  Look!Next
<1> DEFINE r == [Fresh EXCEPT !.exit = "unknown"]
<1>1. Finish(r) /\ pc = "vendor" /\ todo = {} /\ Wanted = {}
  BY DEF PickNothing
<1>2. Ended(task) = None /\ task.command # "doctor"
  BY <1>1 DEF AInv, RunningOK, DoctorPath
<1>3. ASSUME ~Disturbed PROVE r = Answer
  <2>1. ~Upset(moved, Pickable)
    BY <1>2, <1>3 DEF Disturbed, Walks
  <2>2. Pickable \ moved = {}
    BY <1>1, WalkFinds DEF Pickable
  <2>3. Pickable = {}
    BY <2>1, <2>2, SetsOfNumbers, NoneIsFirst DEF IInv
  <2>4. ~ \E n \in DeviceNodes : Matches(n, None) /\ Malformed(n)
    BY <1>1, <1>2, <1>3, WalkSound, NoneMalformed DEF Walks, LookOK
  <2>5. QED
    BY <1>2, <2>3, <2>4 DEF Answer
<1>4. r \in Report
  BY BareReports DEF Bare, IInv
<1>5. QED
  BY <1>1, <1>3, <1>4, FinishReplies

\* The exception of a malformed class.
LEMMA RestRaisesReplies ==
    ASSUME IInv, SInv, AInv, LookOK, RestRaises
    PROVE  Look!Next
<1> DEFINE r == [Fresh EXCEPT !.exit = "raised", !.device = device]
<1>1. Finish(r) /\ pc = "rest" /\ Complete /\ Malformed(NextNode) /\ device = None
  BY DEF RestRaises, Raise, SInv, TaskOK, Walking
<1>2. Ended(task) = None /\ task.command # "doctor"
  BY <1>1 DEF AInv, RunningOK, DoctorPath
<1>3. NextNode \in DeviceNodes
  BY <1>1, NextNodeTyped DEF IInv, ControlOK
<1>4. ASSUME ~Disturbed PROVE r = Answer
  <2>1. usb[NextNode] \in Dongles /\ usb[NextNode].class = "junk"
    BY <1>1, <1>3 DEF Malformed, LookOK, HostConsistent
  <2>2. moved = {}
    BY <1>2, <1>4, <2>1 DEF Disturbed, Walks
  <2>3. part.vid = usb[NextNode].vid /\ part.pid = usb[NextNode].pid
    BY <1>1, <2>2 DEF SInv, WalkOK, Attribute, Malformed
  <2>4. Matches(NextNode, None)
    BY <1>1, <2>3 DEF Complete, Matches
  <2>5. Answer = [Fresh EXCEPT !.exit = "raised"]
    BY <1>1, <1>2, <1>3, <2>4 DEF Answer
  <2>6. Fresh \in Report /\ Fresh.device = None
    BY BareReports DEF IInv, Fresh, Blank
  <2>7. [Fresh EXCEPT !.exit = "raised", !.device = None] = [Fresh EXCEPT !.exit = "raised"]
    BY <2>6 DEF Report
  <2>8. QED
    BY <1>1, <2>5, <2>7
<1>5. r \in Report
  BY BareReports DEF Bare, IInv
<1>6. QED
  BY <1>1, <1>4, <1>5, FinishReplies

\* The commands that print a plan, and the exception instead of it.
LEMMA PlanReplies ==
    ASSUME IInv, SInv, AInv, LookOK, NoAlias \/ Conclude \/ ChipPlan
    PROVE  Look!Next
<1> DEFINE chip == ByChip(task)
           plan == IF chip THEN ChipPlanOf(device.id, task.chip)
                   ELSE PlanStateB(device.id, drv, None)
           e == [Fresh EXCEPT !.exit = "raised", !.device = device]
           c == [Fresh EXCEPT !.exit = PlanExit, !.device = device, !.plan = plan]
           d == [Fresh EXCEPT !.exit = PlanExit, !.device = device, !.driver = drv,
                              !.plan = plan, !.diagnosis = DiagnosisOf(device.id, drv)]
<1>1. pc \in Picked /\ pc # "idle" /\ device # None
  BY DEF NoAlias, Conclude, ChipPlan, Picked, AliasPath, IInv, ControlOK
<1>2. /\ task.command # "verify"
      /\ NoAlias \/ Conclude => ~chip /\ pc \in AliasPath
      /\ ChipPlan => chip
  BY DEF NoAlias, Conclude, ChipPlan, AliasPath, IInv, ControlOK, LookOK, SInv, TaskOK, ByChip
<1>3. ASSUME ~Disturbed
      PROVE  /\ Answer = AnswerAbout(device)
             /\ Diagnoses(task) <=> ~chip
             /\ Conclude => Release \in trees /\ drv = Bound(device.node)
  <2>1. /\ Ended(task) = None /\ task.command # "doctor" /\ Pickable # {}
        /\ device.node \notin moved
        /\ device = [node |-> Min(Pickable), id |-> IdAt(Min(Pickable))]
        /\ ~ \E n \in DeviceNodes : Matches(n, None) /\ Malformed(n)
    BY <1>1, <1>3, PickedIsFirst
  <2>2. Answer = AnswerAbout(device)
    BY <2>1 DEF Answer
  <2>3. Diagnoses(task) <=> ~chip
    BY <1>2, <2>1 DEF Diagnoses, Walks
  <2>4. ASSUME Conclude PROVE Release \in trees /\ drv = Bound(device.node)
    <3>1. pc = "conclude" /\ pc \in AliasPath \ {"alias"} /\ ~chip
      BY <1>2, <2>4 DEF Conclude, AliasPath
    <3>2. Release \notin treesMoved
      BY <1>3, <2>3, <3>1 DEF Disturbed
    <3>3. QED
      BY <2>1, <3>1, <3>2 DEF SInv, LinkOK
  <2>5. QED
    BY <2>2, <2>3, <2>4
<1>4. /\ e \in Report
      /\ Conclude /\ plan.kind # "raises" => d \in Report
      /\ ChipPlan /\ plan.kind # "raises" => c \in Report
  <2>1. e \in Report
    BY BareReports DEF Bare, IInv
  <2>2. Conclude /\ plan.kind # "raises" => d \in Report
    <3>1. Conclude => Release \in Releases
      BY DEF Conclude, IInv, ControlOK, AliasPath
    <3>2. QED
      BY <1>1, <1>2, <3>1, ConcludedReport DEF IInv
  <2>3. ChipPlan /\ plan.kind # "raises" => c \in Report
    BY <1>1, <1>2, ChipReport DEF IInv
  <2>4. QED
    BY <2>1, <2>2, <2>3
<1>5. CASE NoAlias
  <2>1. Finish(e) /\ Release \notin trees
    BY <1>5 DEF NoAlias, Raise
  <2>2. ~Disturbed => e = Answer
    BY <1>2, <1>3, <1>5, <2>1 DEF AnswerAbout
  <2>3. QED
    BY <1>1, <1>4, <2>1, <2>2, FinishReplies
<1>6. CASE Conclude
  <2>1. CASE plan.kind = "raises"
    <3>1. Finish(e)
      BY <1>2, <1>6, <2>1 DEF Conclude, Raise
    <3>2. ~Disturbed => e = Answer
      BY <1>2, <1>3, <1>6, <2>1 DEF AnswerAbout
    <3>3. QED
      BY <1>1, <1>4, <3>1, <3>2, FinishReplies
  <2>2. CASE plan.kind # "raises"
    <3>1. Finish(d)
      BY <1>2, <1>6, <2>2 DEF Conclude
    <3>2. ~Disturbed => d = Answer
      BY <1>2, <1>3, <1>6, <2>2 DEF AnswerAbout
    <3>3. QED
      BY <1>1, <1>4, <1>6, <2>2, <3>1, <3>2, FinishReplies
  <2>3. QED
    BY <2>1, <2>2
<1>7. CASE ChipPlan
  <2>1. CASE plan.kind = "raises"
    <3>1. Finish(e)
      BY <1>2, <1>7, <2>1 DEF ChipPlan, Raise
    <3>2. ~Disturbed => e = Answer
      BY <1>2, <1>3, <1>7, <2>1 DEF AnswerAbout
    <3>3. QED
      BY <1>1, <1>4, <3>1, <3>2, FinishReplies
  <2>2. CASE plan.kind # "raises"
    <3>1. Finish(c)
      BY <1>2, <1>7, <2>2 DEF ChipPlan
    <3>2. ~Disturbed => c = Answer
      BY <1>2, <1>3, <1>7, <2>2 DEF AnswerAbout
    <3>3. QED
      BY <1>1, <1>4, <1>7, <2>2, <3>1, <3>2, FinishReplies
  <2>3. QED
    BY <2>1, <2>2
<1>8. QED
  BY <1>5, <1>6, <1>7

LEMMA VerifyReplies ==
    ASSUME IInv, SInv, FInv, AInv, LookOK, ReadDriverFile
    PROVE  Look!Next
<1> DEFINE file == DriverFile(device.node)
           r == [Fresh EXCEPT !.device = device, !.netdev = found.netdev, !.driver = file,
                              !.verdict = VerdictOf(Checks(found.netdev, file, NoLog))]
<1>1. pc = "driver_file" /\ Finish(r) /\ pc \in Picked /\ task.command = "verify" /\ device # None
  BY DEF ReadDriverFile, Picked, VerifyPath, SInv, TaskOK, IInv, ControlOK
<1>2. ASSUME ~Disturbed PROVE r = Answer
  <2>1. /\ Ended(task) = None /\ Pickable # {}
        /\ device = [node |-> Min(Pickable), id |-> IdAt(Min(Pickable))]
        /\ ~ \E n \in DeviceNodes : Matches(n, None) /\ Malformed(n)
    BY <1>1, <1>2, PickedIsFirst
  <2>2. Answer = AnswerAbout(device)
    BY <1>1, <2>1 DEF Answer
  <2>3. ~Upset(netMoved, net) /\ net \subseteq Nat /\ netMoved \subseteq Nat
    BY <1>1, <1>2, SetsOfNumbers DEF Disturbed, IInv
  <2>4. PICK k : k = found.netdev
    OBVIOUS
  <2>5. /\ \A j \in net \ netMoved : k # None /\ k <= j
        /\ k # None => k \in net \cup netMoved
    BY <1>1, <2>4 DEF FInv, FoundOK, NetFor
  <2>6. CASE k = None
    <3>1. net \ netMoved = {}
      BY <2>5, <2>6
    <3>2. net = {}
      BY <2>3, <3>1, NoneIsFirst
    <3>3. found.netdev = FirstNet
      BY <2>4, <2>6, <3>2 DEF FirstNet
    <3>4. QED
      BY <1>1, <2>2, <3>3 DEF AnswerAbout
  <2>7. CASE k # None
    <3>1. net # {} /\ k = Min(net)
      BY <2>3, <2>5, <2>7, FirstIsFirst
    <3>2. found.netdev = FirstNet
      BY <2>4, <3>1 DEF FirstNet
    <3>3. QED
      BY <1>1, <2>2, <3>2 DEF AnswerAbout
  <2>8. QED
    BY <2>6, <2>7
<1>3. file \in Module \cup {None}
  BY <1>1, DeviceTyped, DriverFileTyped DEF IInv
<1>4. VerdictOf(Checks(found.netdev, file, NoLog)) \in Verdicts
  BY DEF VerdictOf, Verdicts
<1>5. r \in Report
  BY <1>3, <1>4, BareReports DEF Bare, IInv
<1>6. QED
  BY <1>1, <1>2, <1>5, FinishReplies

LEMMA DoctorReplies ==
    ASSUME IInv, SInv, FInv, AInv, ListTrees
    PROVE  Look!Next
<1> DEFINE r == [Fresh EXCEPT !.readable = found.readable, !.pending = Pending(trees, found.marker)]
<1>1. pc = "trees" /\ Finish(r) /\ task.command = "doctor" /\ Ended(task) = None
  BY DEF ListTrees, SInv, TaskOK, DoctorPath, AInv, RunningOK
<1>2. ASSUME ~Disturbed PROVE r = Answer
  <2>1. Running \notin treesMoved /\ ~markerMoved
    BY <1>1, <1>2 DEF Disturbed
  <2>2. found.readable \in BOOLEAN /\ found.marker \in BOOLEAN /\ marker \in BOOLEAN
    BY DEF IInv, TypeOK, HostOK, Findings
  <2>3. found.readable <=> Running \in trees
    BY <1>1, <2>1 DEF FInv, FoundOK, ReadableFor
  <2>4. found.marker <=> marker
    BY <1>1, <2>1 DEF FInv, FoundOK
  <2>5. found.readable = (Running \in trees) /\ found.marker = marker
    BY <2>2, <2>3, <2>4
  <2>6. QED
    BY <1>1, <2>5 DEF Answer
<1>3. Pending(trees, found.marker) \in Answers
  BY DEF Pending, Answers
<1>4. r \in Report
  BY <1>3, BareReports DEF Bare, IInv
<1>5. QED
  BY <1>1, <1>2, <1>4, FinishReplies

\* A step that goes on is no step of the one look.
LEMMA ToolStutters ==
    ASSUME Tool,
           ~(RestRaises \/ PickNothing \/ NoAlias \/ Conclude \/ ChipPlan \/ ReadDriverFile \/ ListTrees)
    PROVE  Look!Next
<1>1. pc # "idle" /\ pc' # "idle" /\ UNCHANGED <<hostVars, task, report>>
  BY DEF Tool, Step, ListNodes, ReadVendor, ReadProduct, ReadRest, PickDevice, NextAfterPick,
         ReadAlias, ResolveIface, CheckIface, ResolveNode, CheckNode, ResolveLink, CheckLink,
         ListNetdevs, ReadPhy, SkipName, NoPhy, ReadOwnAlias, LookForMarker
<1>2. Disturbed' = Disturbed
  BY <1>1 DEF hostVars, Disturbed, Walks, Ended, ByChip, Upset, Pickable, Matches, IdAt, Diagnoses,
              Release
<1>3. QED
  BY <1>1, <1>2 DEF Look!Next, Look!Move

LEMMA StartAsks ==
    ASSUME NEW l \in Lines, Start(l)
    PROVE  Look!Next
<1>1. pc = "idle" /\ moved' = {} /\ netMoved' = {} /\ treesMoved' = {} /\ ~markerMoved'
  BY DEF Start, Watch
<1>2. ~Disturbed'
  BY <1>1 DEF Disturbed, Upset
<1>3. CASE Ended(Parsed(l)) # None
  <2>1. pc' = "idle" /\ report' = [Blank(task') EXCEPT !.exit = Ended(task')]
        /\ Ended(task') # None
    BY <1>1, <1>3 DEF Start
  <2>2. Ended(task)' # None /\ Answer' = report'
    BY <2>1 DEF Answer, Fresh, Blank, Ended, ByChip
  <2>3. QED
    BY <1>1, <1>2, <2>1, <2>2 DEF Look!Next, Look!Ask
<1>4. CASE Ended(Parsed(l)) = None
  <2>1. pc' # "idle" /\ report' = None
    BY <1>4 DEF Start
  <2>2. QED
    BY <1>1, <1>2, <2>1 DEF Look!Next, Look!Ask
<1>5. QED
  BY <1>3, <1>4

LEMMA HostMoves ==
    ASSUME IInv, IInv', Host, UNCHANGED toolVars
    PROVE  Look!Next
<1>1. UNCHANGED <<pc, report, task>>
  BY DEF toolVars
<1>2. moved \subseteq moved' /\ treesMoved \subseteq treesMoved' /\ netMoved \subseteq netMoved'
      /\ (markerMoved => markerMoved') /\ net' \ net \subseteq netMoved'
  <2>1. netMoved \subseteq netMoved' /\ net' \ net \subseteq netMoved'
    BY DEF Host, Plug, Unplug, BindDriver, UnbindDriver, ChangeNode, MoveNetdev, Flip, MoveTree,
           SetMarker
  <2>2. QED
    BY <2>1, Undisturbed, UndisturbedNames
<1>3. Pickable' \ Pickable \subseteq moved'
  <2>1. ASSUME NEW n \in DeviceNodes, n \notin moved'
        PROVE  Matches(n, task.want)' <=> Matches(n, task.want)
    BY <1>1, <2>1, Undisturbed, HostTyped DEF Matches, IdAt
  <2>2. QED
    BY <2>1 DEF Pickable
<1>4. /\ moved \subseteq Nat /\ netMoved \subseteq Nat /\ net \subseteq Nat /\ Pickable \subseteq Nat
      /\ moved' \subseteq Nat /\ netMoved' \subseteq Nat /\ net' \subseteq Nat
      /\ Pickable' \subseteq Nat
  <2>1. TypeOK' => (moved \subseteq Nat /\ netMoved \subseteq Nat /\ net \subseteq Nat
                      /\ Pickable \subseteq Nat)'
    BY HostTyped DEF TypeOK, HostOK, Pickable
  <2>2. QED
    BY <2>1, SetsOfNumbers DEF IInv
<1>5. ASSUME Upset(moved, Pickable) PROVE Upset(moved', Pickable')
  <2>1. PICK c, S, c2, S2 : c = moved /\ S = Pickable /\ c2 = moved' /\ S2 = Pickable'
    OBVIOUS
  <2>2. /\ c \subseteq c2 /\ c2 \subseteq Nat /\ S \subseteq Nat /\ S2 \subseteq Nat
        /\ S2 \ S \subseteq c2 /\ Upset(c, S)
    BY <1>2, <1>3, <1>4, <1>5, <2>1
  <2>3. Upset(c2, S2)
    BY <2>2, UpsetStays, ZenonT(60)
  <2>4. QED
    BY <2>1, <2>3
<1>6. Upset(netMoved, net) => Upset(netMoved', net')
  BY <1>2, <1>4, UpsetStays, ZenonT(60)
<1>7. /\ Walks(task)' = Walks(task) /\ Diagnoses(task)' = Diagnoses(task) /\ Release' = Release
      /\ (task.command)' = task.command
  BY <1>1 DEF Walks, Diagnoses, Release, Ended, ByChip
<1>8. Disturbed => Disturbed'
  <2>1. Upset(moved, Pickable)' <=> Upset(moved', Pickable')
    BY DEF Upset
  <2>2. Upset(netMoved, net)' <=> Upset(netMoved', net')
    BY DEF Upset
  <2>3. QED
    BY <1>2, <1>5, <1>6, <1>7, <2>1, <2>2 DEF Disturbed
<1>9. QED
  BY <1>1, <1>8 DEF Look!Next, Look!Move

LEMMA LookSimulates ==
    IInv /\ IInv' /\ SInv /\ FInv /\ AInv /\ LookOK /\ [Next]_vars => [Look!Next]_(Look!look)
<1> SUFFICES ASSUME IInv, IInv', SInv, FInv, AInv, LookOK, [Next]_vars
             PROVE  [Look!Next]_(Look!look)
  OBVIOUS
<1>1. CASE UNCHANGED vars
  <2>1. UNCHANGED <<hostVars, pc, report, task>>
    BY <1>1 DEF vars, toolVars
  <2>2. Disturbed' = Disturbed
    BY <2>1 DEF hostVars, Disturbed, Walks, Ended, ByChip, Upset, Pickable, Matches, IdAt, Diagnoses,
                Release
  <2>3. QED
    BY <2>1, <2>2 DEF Look!Next, Look!Move
<1>2. CASE Tool
  BY <1>2, RestRaisesReplies, PickNothingReplies, PlanReplies, VerifyReplies, DoctorReplies, ToolStutters
<1>3. CASE Next
  BY <1>2, <1>3, StartAsks, HostMoves DEF Next
<1>4. QED
  BY <1>1, <1>3

(***************************************************************************)
(* The tool, for any bus, any churn, any knowledge base and any arguments, *)
(* implements the one look: the many reads of a command make one answer    *)
(* of the machine as it is at the last of them, unless a change hit what   *)
(* the answer is about, at or before the device or network device shown.   *)
(***************************************************************************)
THEOREM AnswersAsOneLookHolds == Spec => AnswersAsOneLook
<1>1. Init => Look!Init
  BY DEF Init, HostInit, Look!Init, Disturbed, Upset
<1>2. QED
  BY <1>1, LookSimulates, LookInductive, AnswersInductive, FoundInductive, SteadyInductive,
     Inductive, PTL DEF Spec, AnswersAsOneLook, Look!Spec

-----------------------------------------------------------------------------
(***************************************************************************)
(* The order of releases, of whatever shape their names are.               *)
(***************************************************************************)
\* Python's order of tuples.
Above(c, b) ==
    \E i \in DOMAIN c :
        /\ \A j \in 1..(i - 1) : j \in DOMAIN b /\ c[j] = b[j]
        /\ i \in DOMAIN b => c[i] > b[i]

LEMMA AboveIsTransitive ==
    ASSUME NEW a \in Seq(Int), NEW b \in Seq(Int), NEW c \in Seq(Int), Above(a, b), Above(b, c)
    PROVE  Above(a, c)
<1>1. PICK i \in DOMAIN a : /\ \A j \in 1..(i - 1) : j \in DOMAIN b /\ a[j] = b[j]
                            /\ i \in DOMAIN b => a[i] > b[i]
  BY DEF Above
<1>2. PICK k \in DOMAIN b : /\ \A j \in 1..(k - 1) : j \in DOMAIN c /\ b[j] = c[j]
                            /\ k \in DOMAIN c => b[k] > c[k]
  BY DEF Above
<1>3. /\ i \in Nat /\ k \in Nat /\ i > 0 /\ k > 0
      /\ \A j \in Nat : j > 0 /\ j <= i => j \in DOMAIN a
      /\ \A j \in Nat : j > 0 /\ j <= k => j \in DOMAIN b
      /\ \A j \in DOMAIN a : a[j] \in Int
      /\ \A j \in DOMAIN b : b[j] \in Int
      /\ \A j \in DOMAIN c : c[j] \in Int
  OBVIOUS
<1>4. CASE i <= k
  <2>1. ASSUME NEW j \in 1..(i - 1) PROVE j \in DOMAIN c /\ a[j] = c[j]
    <3>1. j \in 1..(k - 1)
      BY <1>3, <1>4
    <3>2. QED
      BY <1>1, <1>2, <3>1
  <2>2. i \in DOMAIN b /\ a[i] > b[i]
    BY <1>1, <1>3, <1>4
  <2>3. i \in DOMAIN c => b[i] >= c[i]
    <3>1. CASE i = k
      BY <1>2, <1>3, <2>2, <3>1
    <3>2. CASE i # k
      <4>1. i \in 1..(k - 1)
        BY <1>3, <1>4, <3>2
      <4>2. b[i] = c[i]
        BY <1>2, <4>1
      <4>3. QED
        BY <1>3, <2>2, <4>2
    <3>3. QED
      BY <3>1, <3>2
  <2>4. i \in DOMAIN c => a[i] > c[i]
    BY <1>3, <2>2, <2>3
  <2>5. QED
    BY <2>1, <2>4 DEF Above
<1>5. CASE k < i
  <2>1. k \in DOMAIN a /\ k \in 1..(i - 1)
    BY <1>3, <1>5
  <2>2. a[k] = b[k]
    BY <1>1, <2>1
  <2>3. \A j \in 1..(k - 1) : j \in DOMAIN c /\ a[j] = c[j]
    BY <1>1, <1>2, <1>3, <1>5
  <2>4. QED
    BY <1>2, <2>1, <2>2, <2>3 DEF Above
<1>6. QED
  BY <1>3, <1>4, <1>5

LEMMA AboveIsTotal ==
    ASSUME NEW a \in Seq(Int), NEW b \in Seq(Int), a # b
    PROVE  Above(a, b) \/ Above(b, a)
<1> DEFINE Apart(i) == ~(i \in DOMAIN a /\ i \in DOMAIN b /\ a[i] = b[i])
           S == {i \in DOMAIN a \cup DOMAIN b : Apart(i)}
           m == Min(S)
<1>1. /\ Len(a) \in Nat /\ Len(b) \in Nat
      /\ DOMAIN a = 1..Len(a) /\ DOMAIN b = 1..Len(b)
      /\ \A j \in DOMAIN a : a[j] \in Int
      /\ \A j \in DOMAIN b : b[j] \in Int
  OBVIOUS
<1>2. S \subseteq Nat
  BY <1>1
<1>3. S # {}
  <2> SUFFICES ASSUME S = {} PROVE FALSE
    OBVIOUS
  <2>1. \A i \in DOMAIN a \cup DOMAIN b : ~Apart(i)
    OBVIOUS
  <2>2. DOMAIN a = DOMAIN b
    BY <2>1
  <2>3. \A i \in DOMAIN a : a[i] = b[i]
    BY <2>1
  <2>4. Len(a) = Len(b)
    <3>1. \A n : n \in 1..Len(a) <=> n \in 1..Len(b)
      BY <1>1, <2>2
    <3>2. Len(a) > 0 => Len(a) <= Len(b)
      BY <1>1, <3>1
    <3>3. Len(b) > 0 => Len(b) <= Len(a)
      BY <1>1, <3>1
    <3>4. PICK p \in Nat, q \in Nat : p = Len(a) /\ q = Len(b)
      OBVIOUS
    <3>5. (p > 0 => p <= q) /\ (q > 0 => q <= p)
      BY <3>2, <3>3, <3>4
    <3>6. p = q
      BY <3>5
    <3>7. QED
      BY <3>4, <3>6
  <2>5. QED
    BY <2>3, <2>4
<1>4. m \in S /\ \A y \in S : m <= y
  BY <1>2, <1>3, MinProps
<1> HIDE DEF m
<1>5. m \in Nat /\ m > 0 /\ m \in DOMAIN a \cup DOMAIN b /\ Apart(m)
  BY <1>1, <1>4
<1>6. ASSUME NEW j \in 1..(m - 1)
      PROVE  j \in DOMAIN a /\ j \in DOMAIN b /\ a[j] = b[j]
  <2>1. j \in DOMAIN a \cup DOMAIN b /\ ~(m <= j)
    BY <1>1, <1>5
  <2>2. j \notin S
    BY <1>4, <2>1
  <2>3. QED
    BY <2>1, <2>2
<1> HIDE DEF S
<1>7. CASE m \in DOMAIN a /\ (m \in DOMAIN b => a[m] > b[m])
  BY <1>6, <1>7 DEF Above
<1>8. CASE m \in DOMAIN b /\ (m \in DOMAIN a => b[m] > a[m])
  BY <1>6, <1>8 DEF Above
<1>9. QED
  BY <1>1, <1>5, <1>7, <1>8

(***************************************************************************)
(* _version_gt orders the releases, whatever their names hold: no release  *)
(* is newer than itself, newer is transitive, and of two releases that     *)
(* differ in what is compared one is newer.  So rebooting into a kernel    *)
(* that doctor called for never makes it call for the one before.          *)
(***************************************************************************)
THEOREM NewerIsAnOrder ==
    /\ \A r \in Releases : ~VersionGt(r, r)
    /\ \A r, s, t \in Releases : VersionGt(r, s) /\ VersionGt(s, t) => VersionGt(r, t)
    /\ \A r, s \in Releases : VersionGt(r, s) => ~VersionGt(s, r)
    /\ \A r, s \in Releases : Key(r) # Key(s) => VersionGt(r, s) \/ VersionGt(s, r)
<1>1. ASSUME NEW r \in Releases PROVE Key(r) \in Seq(Int)
  <2>1. /\ Version[r].head \in Seq(Nat \cup {NoNumber})
        /\ Version[r].abi \in Nat \cup {NoNumber}
    BY ReleasesTyped DEF Numbers
  <2>2. Version[r].head \in Seq(Int) /\ Version[r].abi \in Int
    <3>1. Nat \cup {NoNumber} \subseteq Int
      BY DEF NoNumber
    <3>2. QED
      BY <2>1, <3>1
  <2>3. QED
    BY <2>2 DEF Key
<1>2. \A r, s : VersionGt(r, s) <=> Above(Key(r), Key(s))
  BY DEF VersionGt, Above
<1>3. ASSUME NEW r \in Releases PROVE ~VersionGt(r, r)
  <2>1. \A i \in DOMAIN Key(r) : Key(r)[i] \in Int
    BY <1>1
  <2>2. \A i \in DOMAIN Key(r) : ~(Key(r)[i] > Key(r)[i])
    BY <2>1
  <2>3. QED
    BY <1>2, <2>2 DEF Above
<1>4. ASSUME NEW r \in Releases, NEW s \in Releases, NEW t \in Releases,
             VersionGt(r, s), VersionGt(s, t)
      PROVE  VersionGt(r, t)
  BY <1>1, <1>2, <1>4, AboveIsTransitive
<1>5. ASSUME NEW r \in Releases, NEW s \in Releases, VersionGt(r, s) PROVE ~VersionGt(s, r)
  BY <1>3, <1>4, <1>5
<1>6. ASSUME NEW r \in Releases, NEW s \in Releases, Key(r) # Key(s)
      PROVE  VersionGt(r, s) \/ VersionGt(s, r)
  BY <1>1, <1>2, <1>6, AboveIsTotal
<1>7. QED
  BY <1>3, <1>4, <1>5, <1>6
=============================================================================
