------------------------------- MODULE Diagnose -------------------------------
(***************************************************************************)
(* The commands that look at the machine, one after another against a live *)
(* host: `diagnose`, `report`, `repair`, `verify` and `doctor`.  The tool  *)
(* parses its arguments, lists the USB bus, reads three attributes of      *)
(* every device node, picks a device, and then, by command, reads the      *)
(* alias file, resolves driver links, looks for network devices or lists   *)
(* kernels.  Every read that can be told from the next is a step.          *)
(***************************************************************************)
EXTENDS Classifier, Planner, LiveHost, CommandLine, Verification

CONSTANTS
    AliasOf,       \* release -> the modules.alias of that kernel
    Lines,         \* the argument lists issued
    SpelledId,     \* word -> the id it spells as VID:PID, or None
    DriverIsFile,  \* the driver attribute can be read like a file: never in
                   \* sysfs, where it is a link to a directory; always on the
                   \* hosts the tests inject
    LinkName       \* the word "driver", basename of an unresolved driver link

(***************************************************************************)
(* Commands that read or write a journal are the module Journal's; here    *)
(* history and rollback run as the entry point does without --journal.     *)
(***************************************************************************)
ASSUME LinesTyped ==
    /\ AliasOf \in [Releases -> AliasFile]
    /\ Lines \subseteq Seq(Token)
    /\ \A line \in Lines : WellFormed(line) /\ ~Has(line, "--journal")
    /\ SpelledId \in [Text -> Id \cup {None}]
    /\ DriverIsFile \in BOOLEAN

ASSUME LinkNameIsNoDriver ==
    /\ LinkName \in Module
    /\ LinkName \notin Drivers \cup NodeDrivers

\* UsbDevice, as far as the report shows it
Device == [node : Nodes, id : Id]

ASSUME AttributesDistinct ==
    /\ None \notin Vid \cup Pid \cup Dongle \cup Id \cup Chipset \cup Device \cup Netdevs
    /\ None \notin Answers

VARIABLES
    pc,       \* next step of the command
    task,     \* what the parser made of the arguments
    todo,     \* nodes listed and not read yet, to be read in sorted order
    part,     \* attributes read so far of the next node
    devs,     \* devices enumerated so far, in order
    device,   \* the device picked
    link,     \* what the driver link being looked at resolved to
    drv,      \* the bound driver found
    names,    \* network devices listed and not looked at yet
    found,    \* what verify and doctor have found so far
    report,   \* the output of the last command
    line      \* history: the arguments of the last command

toolVars == <<pc, task, todo, part, devs, device, link, drv, names, found, report, line>>
vars     == <<hostVars, toolVars>>

\* The locals of a command but those of verify and doctor, and of the others.
walkVars  == <<todo, part, devs, device, link, drv>>
checkVars == <<names, found>>

Steps == { "idle", "list", "vendor", "product", "rest", "alias", "iface_link",
           "iface_check", "node_link", "node_check", "conclude", "chip_plan",
           "netdevs", "phy", "driver_file", "own_alias", "marker", "trees" }

\* A link that does not resolve: realpath returns the path of the link itself.
Unresolved == "unresolved"

ASSUME UnresolvedIsNoDriver == Unresolved \notin Module

Findings == [netdev : Netdevs \cup {None}, readable : BOOLEAN, marker : BOOLEAN]

Report ==
    [ exit      : {"ok", "unknown", "refused", "not_found", "raised"},
      device    : Device \cup {None},
      driver    : Module \cup {None},
      diagnosis : Diagnosis \cup {None},
      chip      : Text \cup {None},
      plan      : Plan \cup {None},
      netdev    : Netdevs \cup {None},
      verdict   : Verdicts \cup {None},
      readable  : BOOLEAN,
      pending   : Answers \cup {None} ]

ASSUME NullIsNoReport == None \notin Report

TypeOK ==
    /\ HostOK
    /\ pc      \in Steps
    /\ task    \in Task
    /\ todo    \subseteq DeviceNodes
    /\ part    \in Dongle
    /\ devs    \in Seq(Device)
    /\ device  \in Device \cup {None}
    /\ link    \in Module \cup {Unresolved}
    /\ drv     \in Module \cup {None}
    /\ names   \subseteq Netdevs
    /\ found   \in Findings
    /\ report  \in Report \cup {None}
    /\ line    \in Lines \cup {<<>>}

NothingRead  == [vid |-> None, pid |-> None, class |-> "number"]
NothingFound == [netdev |-> None, readable |-> FALSE, marker |-> FALSE]

Init ==
    /\ HostInit
    /\ pc = "idle"
    /\ task = NoTask
    /\ todo = {}
    /\ part = NothingRead
    /\ devs = <<>>
    /\ device = None
    /\ link = Unresolved
    /\ drv = None
    /\ names = {}
    /\ found = NothingFound
    /\ report = None
    /\ line = <<>>

-----------------------------------------------------------------------------
(***************************************************************************)
(* The life of a command.                                                  *)
(***************************************************************************)
\* `repair` with a chip named on the command line.
ByChip(t) == t.command = "repair" /\ t.chip # None

(***************************************************************************)
(* run: the exit of a command that ends before it looks at the host, or    *)
(* None.  The usage text, identify, history and a word that is no command  *)
(* all exit with 0; rollback has no journal to find anything in; a chip    *)
(* the knowledge base does not cover cannot be repaired.                   *)
(***************************************************************************)
Ended(t) ==
    CASE t.command \in {"diagnose", "report", "verify", "doctor"} -> None
      [] t.command = "repair" ->
            IF ByChip(t) /\ EntryNamed(t.chip) = None THEN "not_found" ELSE None
      [] t.command = "rollback" -> "not_found"
      [] OTHER -> "ok"

Blank(t) ==
    [ exit |-> "ok", device |-> None, driver |-> None, diagnosis |-> None,
      chip |-> IF ByChip(t) THEN t.chip ELSE None, plan |-> None,
      netdev |-> None, verdict |-> None, readable |-> FALSE, pending |-> None ]

Fresh == Blank(task)

Start(l) ==
    LET t == Parsed(l)
    IN  /\ pc = "idle"
        /\ line' = l
        /\ task' = t
        /\ Watch
        /\ IF Ended(t) # None
           THEN report' = [Blank(t) EXCEPT !.exit = Ended(t)] /\ UNCHANGED pc
           ELSE report' = None /\ pc' = IF t.command = "doctor" THEN "own_alias" ELSE "list"
        /\ UNCHANGED <<hostNow, walkVars, checkVars>>

\* A step of a running command reads the host, and prints nothing yet.
Step(from, to) ==
    /\ pc = from /\ pc' = to
    /\ UNCHANGED <<hostVars, task, line, report>>

\* The command prints r and exits; its locals are gone.
Finish(r) ==
    /\ report' = r
    /\ pc' = "idle"
    /\ todo' = {} /\ part' = NothingRead /\ devs' = <<>> /\ device' = None
    /\ link' = Unresolved /\ drv' = None
    /\ names' = {} /\ found' = NothingFound
    /\ UNCHANGED <<hostVars, task, line>>

\* An exception nothing catches.
Raise == Finish([Fresh EXCEPT !.exit = "raised", !.device = device])

-----------------------------------------------------------------------------
(***************************************************************************)
(* enumerate_usb_devices: listdir, device nodes only, read in sorted order.*)
(***************************************************************************)
Listing == {n \in DeviceNodes : usb[n] # None}

\* A fault, to test the properties with: the bus is walked in reverse order.
NextNode_last == Max(todo)

NextNode == Min(todo)

ListNodes ==
    /\ Step("list", "vendor")
    /\ todo' = Listing
    /\ UNCHANGED <<part, devs, device, link, drv, checkVars>>

Attribute(n) == IF usb[n] = None THEN NothingRead ELSE usb[n]

ReadVendor ==
    /\ Step("vendor", "product")
    /\ todo # {}
    /\ part' = [part EXCEPT !.vid = Attribute(NextNode).vid]
    /\ UNCHANGED <<todo, devs, device, link, drv, checkVars>>

ReadProduct ==
    /\ Step("product", "rest")
    /\ part' = [part EXCEPT !.pid = Attribute(NextNode).pid]
    /\ UNCHANGED <<todo, devs, device, link, drv, checkVars>>

\* A fault, to test the properties with: a missing product id is not noticed.
Complete_noPid == part.vid # None /\ usb[NextNode] # None

\* The vendor, product and release ids were all readable.
Complete == part.vid # None /\ part.pid # None /\ usb[NextNode] # None

DevsWithNext ==
    IF Complete THEN Append(devs, [node |-> NextNode, id |-> <<part.vid, part.pid>>]) ELSE devs

Malformed(n) == usb[n] # None /\ usb[n].class = "junk"

\* A fault, to test the properties with: an incomplete node is read again until it is complete.
ReadRest_retry ==
    /\ Step("rest", "vendor")
    /\ ~(Complete /\ Malformed(NextNode))
    /\ devs' = DevsWithNext
    /\ todo' = IF Complete THEN todo \ {NextNode} ELSE todo
    /\ part' = NothingRead
    /\ UNCHANGED <<device, link, drv, checkVars>>

(***************************************************************************)
(* bcdDevice and the optional attributes: a node whose three ids were not  *)
(* all readable is skipped, any other becomes a device, unless its class   *)
(* is no number: the conversion of the class is not in the try block.      *)
(***************************************************************************)
ReadRest ==
    /\ Step("rest", "vendor")
    /\ ~(Complete /\ Malformed(NextNode))
    /\ devs' = DevsWithNext
    /\ todo' = todo \ {NextNode}
    /\ part' = NothingRead
    /\ UNCHANGED <<device, link, drv, checkVars>>

RestRaises == pc = "rest" /\ Complete /\ Malformed(NextNode) /\ Raise

\* _pick_device, and the exit of every command when nothing is left.
Wanted == {i \in DOMAIN devs : task.want = None \/ SpelledId[task.want] = devs[i].id}

NextAfterPick ==
    IF task.command = "verify" THEN "netdevs"
    ELSE IF ByChip(task) THEN "chip_plan" ELSE "alias"

PickNothing ==
    /\ pc = "vendor" /\ todo = {} /\ Wanted = {}
    /\ Finish([Fresh EXCEPT !.exit = "unknown"])

PickDevice ==
    /\ Step("vendor", NextAfterPick)
    /\ todo = {} /\ Wanted # {}
    /\ device' = devs[Min(Wanted)]
    /\ UNCHANGED <<todo, part, devs, link, drv, checkVars>>

-----------------------------------------------------------------------------
(***************************************************************************)
(* _diagnose_one.  It reads the alias file of the kernel named on the      *)
(* command line, or else of the running one; nothing between here and main *)
(* catches the HostError when that cannot be read.                         *)
(***************************************************************************)
Release == IF task.release = None THEN Running ELSE task.release

ReadAlias ==
    /\ Step("alias", "iface_link")
    /\ Release \in trees
    /\ UNCHANGED <<walkVars, checkVars>>

NoAlias == pc = "alias" /\ Release \notin trees /\ Raise

(***************************************************************************)
(* bound_driver, once for the interface and, when that finds nothing, once *)
(* for the device node.  It resolves the link, then asks whether what the  *)
(* link resolved to exists.  A link that is not there resolves to its own  *)
(* path, so a driver that binds before the second look makes that path     *)
(* exist, and the basename returned is the word "driver".                  *)
(***************************************************************************)
ResolveLink(from, to, at) ==
    /\ Step(from, to)
    /\ link' = IF at[device.node] = None THEN Unresolved ELSE at[device.node]
    /\ UNCHANGED <<todo, part, devs, device, drv, checkVars>>

InUse(m) == \E n \in Nodes : m \in {iface[n], nodeDrv[n]}

\* A driver nobody uses may have been unloaded: its directory may be gone.
LinkTarget(at) ==
    IF link = Unresolved
    THEN {IF at[device.node] = None THEN None ELSE LinkName}
    ELSE IF InUse(link) THEN {link} ELSE {link, None}

CheckLink(from, otherwise, at) ==
    /\ pc = from
    /\ \E m \in LinkTarget(at) :
          /\ Step(from, IF m = None THEN otherwise ELSE "conclude")
          /\ drv' = m
    /\ UNCHANGED <<todo, part, devs, device, link, checkVars>>

\* A fault, to test the properties with: the device node is not looked at.
CheckIface_only == CheckLink("iface_check", "conclude", iface)

ResolveIface == ResolveLink("iface_link", "iface_check", iface)
CheckIface   == CheckLink("iface_check", "node_link", iface)
ResolveNode  == ResolveLink("node_link", "node_check", nodeDrv)
CheckNode    == CheckLink("node_check", "conclude", nodeDrv)

(***************************************************************************)
(* The end of _diagnose_one.  The command line passes the classifier no    *)
(* log and no modprobe.d files, and asks for a plan whatever the state.    *)
(***************************************************************************)
DiagnosisBy(r, id, bound) == Classify(ResolveDevice(id, AliasOf[r]), bound, NoEvidence)

DiagnosisOf(id, bound) == DiagnosisBy(Release, id, bound)

\* A plan that is asked to be executed is printed all the same, and refused.
PlanExit == IF task.command = "repair" /\ task.execute THEN "refused" ELSE "ok"

Conclude ==
    /\ pc = "conclude"
    /\ LET plan == PlanStateB(device.id, drv, None)
       IN  IF plan.kind = "raises" THEN Raise
           ELSE Finish([Fresh EXCEPT !.exit = PlanExit, !.device = device,
                                     !.driver = drv, !.plan = plan,
                                     !.diagnosis = DiagnosisOf(device.id, drv)])

\* A fault, to test the properties with: the test of the plan is inverted.
ChipPlanOf_swapped(id, chip) ==
    LET plan == PlanStateB(id, None, None)
    IN  IF plan.kind # "bind" /\ ~Feasible(EntryNamed(chip)) THEN NoBind("refused") ELSE plan

(***************************************************************************)
(* `repair --chip`: the plan of the picked device's VID:PID, replaced by   *)
(* an empty one when the named chip refuses dynamic ids.                   *)
(***************************************************************************)
ChipPlanOf(id, chip) ==
    LET plan == PlanStateB(id, None, None)
    IN  IF plan.kind = "bind" /\ ~Feasible(EntryNamed(chip)) THEN NoBind("refused") ELSE plan

ChipPlan ==
    /\ pc = "chip_plan"
    /\ LET plan == ChipPlanOf(device.id, task.chip)
       IN  IF plan.kind = "raises" THEN Raise
           ELSE Finish([Fresh EXCEPT !.exit = PlanExit, !.device = device, !.plan = plan])

-----------------------------------------------------------------------------
(***************************************************************************)
(* `verify`: verify_device for a Wi-Fi device with an empty log.  The      *)
(* network devices are listed once and read in sorted order up to the      *)
(* first that has a phy80211/name.                                         *)
(***************************************************************************)
ListNetdevs ==
    /\ Step("netdevs", "phy")
    /\ names' = net
    /\ UNCHANGED <<walkVars, found>>

\* A fault, to test the properties with: the last network device is looked at first.
NextName_last == Max(names)

NextName == Min(names)

ReadPhy ==
    /\ names # {} /\ NextName \in net
    /\ Step("phy", "driver_file")
    /\ found' = [found EXCEPT !.netdev = NextName]
    /\ UNCHANGED <<walkVars, names>>

SkipName ==
    /\ names # {} /\ NextName \notin net
    /\ Step("phy", "phy")
    /\ names' = names \ {NextName}
    /\ UNCHANGED <<walkVars, found>>

NoPhy ==
    /\ names = {}
    /\ Step("phy", "driver_file")
    /\ UNCHANGED <<walkVars, checkVars>>

\* _read swallows the failure of the read: an unreadable driver is no driver.
DriverFile(n) == IF DriverIsFile THEN iface[n] ELSE None

ReadDriverFile ==
    /\ pc = "driver_file"
    /\ Finish([Fresh EXCEPT !.device = device, !.netdev = found.netdev,
                            !.driver = DriverFile(device.node),
                            !.verdict = VerdictOf(Checks(found.netdev, DriverFile(device.node), NoLog))])

-----------------------------------------------------------------------------
(***************************************************************************)
(* `doctor`: the running kernel's alias file, whose HostError is caught    *)
(* here, then reboot_pending's two signals, the marker and the list of     *)
(* installed kernels.                                                      *)
(***************************************************************************)
ReadOwnAlias ==
    /\ Step("own_alias", "marker")
    /\ found' = [found EXCEPT !.readable = Running \in trees]
    /\ UNCHANGED <<walkVars, names>>

LookForMarker ==
    /\ Step("marker", "trees")
    /\ found' = [found EXCEPT !.marker = marker]
    /\ UNCHANGED <<walkVars, names>>

ListTrees ==
    /\ pc = "trees"
    /\ Finish([Fresh EXCEPT !.readable = found.readable,
                            !.pending = Pending(trees, found.marker)])

-----------------------------------------------------------------------------
Tool ==
    \/ ListNodes \/ ReadVendor \/ ReadProduct \/ ReadRest \/ RestRaises
    \/ PickNothing \/ PickDevice
    \/ ReadAlias \/ NoAlias \/ ResolveIface \/ CheckIface \/ ResolveNode \/ CheckNode
    \/ Conclude \/ ChipPlan
    \/ ListNetdevs \/ ReadPhy \/ SkipName \/ NoPhy \/ ReadDriverFile
    \/ ReadOwnAlias \/ LookForMarker \/ ListTrees

Next ==
    \/ \E l \in Lines : Start(l)
    \/ Tool
    \/ Host /\ UNCHANGED toolVars

(***************************************************************************)
(* A command once started is scheduled; the host owes nobody anything, and *)
(* nobody has to start a command.                                          *)
(***************************************************************************)
Spec == Init /\ [][Next]_vars /\ WF_vars(Tool)

-----------------------------------------------------------------------------
(***************************************************************************)
(* Properties.                                                             *)
(***************************************************************************)
Bound(n) == IF iface[n] # None THEN iface[n] ELSE nodeDrv[n]

IdAt(n) == <<usb[n].vid, usb[n].pid>>

Matches(n, want) ==
    /\ usb[n] # None /\ usb[n].vid # None /\ usb[n].pid # None
    /\ want = None \/ SpelledId[want] = IdAt(n)

\* Commands that walk the bus to their end.
Walks(t) == Ended(t) = None /\ t.command # "doctor"

\* Commands that diagnose the device they pick.
Diagnoses(t) == Walks(t) /\ t.command # "verify" /\ ~ByChip(t)

(***************************************************************************)
(* Whatever is plugged and unplugged around it while the tool walks the    *)
(* bus, a matching dongle that stays put is never missed, and is passed    *)
(* over only for a device that sorts before it (_pick_device).  A walk     *)
(* that the class of a dongle cut short picks nothing.                     *)
(***************************************************************************)
CutShort == report.exit = "raised" /\ report.device = None

FirstSteadyDongleWins ==
    report # None /\ Walks(task) /\ ~CutShort =>
        \A n \in DeviceNodes \ moved : Matches(n, task.want) =>
            report.device # None /\ report.device.node <= n

(***************************************************************************)
(* When the picked node and the alias file did not change during the       *)
(* command, the dozen separate reads add up to what one look at the host   *)
(* shows: the id, the driver, the diagnosis, and whether an exception      *)
(* escapes; changes elsewhere on the bus do not leak into the report.      *)
(***************************************************************************)
SteadyReportIsExact ==
    report # None /\ report.device # None /\ Release \notin treesMoved =>
        LET n    == report.device.node
            plan == PlanStateB(IdAt(n), Bound(n), None)
        IN  n \notin moved =>
              /\ report.device.id = IdAt(n)
              /\ Diagnoses(task) =>
                    IF Release \notin trees \/ plan.kind = "raises"
                    THEN report.exit = "raised"
                    ELSE /\ report.exit # "raised"
                         /\ report.driver = Bound(n)
                         /\ report.diagnosis = DiagnosisOf(IdAt(n), Bound(n))
                         /\ report.plan = plan

(***************************************************************************)
(* The classifier finds the entry by chipset name and the planner by       *)
(* VID:PID.  A dongle is advised to be bound by new_id exactly when no     *)
(* driver was found and the plan below the advice is a bind plan, and the  *)
(* two name one module when no row of the alias file claims the dongle.    *)
(* When one does, the advice names the module of that row, and the plan    *)
(* the one the entry prefers: they can differ.                             *)
(***************************************************************************)
Claims(id) == MatchWithLines(id, AliasOf[Release])

BindAdviceHasPlan ==
    report # None /\ report.diagnosis # None =>
        /\ report.diagnosis.action = "bind_new_id"
              <=> report.plan.kind = "bind" /\ report.driver = None
        /\ report.diagnosis.action = "bind_new_id" /\ Nothing(Claims(report.device.id)) =>
              report.diagnosis.hint = report.plan.tx.module

(***************************************************************************)
(* No command prints commands to bind an id that the knowledge base says   *)
(* cannot be bound, whether it found the entry by the id or was given the  *)
(* chip by name.                                                           *)
(***************************************************************************)
BindPlanIsSanctioned ==
    report # None /\ report.plan # None /\ report.plan.kind = "bind" =>
        /\ Feasible(EntryOfId(report.device.id))
        /\ report.plan.tx.id = report.device.id
        /\ report.chip # None => Feasible(EntryNamed(report.chip))

(***************************************************************************)
(* The words of a line that are no option's value.  The first is the       *)
(* command, whether options come before it, as in the tests, or after it,  *)
(* as in the usage text.                                                   *)
(***************************************************************************)
Spoken(l) ==
    {i \in DOMAIN l : /\ l[i].kind = "word"
                      /\ i > 1 => l[i - 1].kind # "open" \/ l[i - 1].key \notin ValueKeys}

Asked(l) == l[Min(Spoken(l))].text

(***************************************************************************)
(* The arguments of a usual form: every option once, those with a value    *)
(* followed by it or joined to it by "=", those without not followed by a  *)
(* word, which the parser would take for their value.                      *)
(***************************************************************************)
Documented(l) ==
    /\ Spoken(l) # {}
    /\ \A i \in DOMAIN l : l[i].kind # "word" =>
          /\ IF l[i].key \in ValueKeys THEN ValueAt(l, i) # None
             ELSE l[i].kind = "open" /\ ~Takes(l, i)
          /\ \A j \in DOMAIN l : l[j].key = l[i].key => i = j

Gives(l, key, t) ==
    \E i \in DOMAIN l :
        /\ l[i].key = key
        /\ \/ l[i].text = t
           \/ l[i].kind = "open" /\ i < Len(l) /\ l[i + 1].text = t

(***************************************************************************)
(* A report is about what the arguments say, wherever the options stand    *)
(* and in either way of writing a value: the device is the one given, the  *)
(* diagnosis is the one the modules of the given kernel lead to (_parse,   *)
(* _opt_value, read_alias_lines), an answer is printed by the command it   *)
(* belongs to, and a plan is refused exactly when its execution was asked  *)
(* for.                                                                    *)
(***************************************************************************)
ReportAnswersLine ==
    report # None /\ Documented(line) =>
        /\ \A t \in Text :
              /\ Gives(line, "--device", t) /\ report.device # None =>
                    SpelledId[t] = report.device.id
              /\ Gives(line, "--kernel-release", t) /\ report.diagnosis # None =>
                    /\ t \in Releases
                    /\ report.diagnosis = DiagnosisBy(t, report.device.id, report.driver)
        /\ report.verdict # None => Asked(line) = "verify"
        /\ report.pending # None <=> Asked(line) = "doctor"
        /\ report.exit = "refused" <=>
              report.plan # None /\ Asked(line) = "repair" /\ Has(line, "--execute")

(***************************************************************************)
(* `verify`: a Wi-Fi network device that stays is never missed, the one    *)
(* reported is the first of those that stayed or one that came and went,   *)
(* and, where the driver attribute can be read, the verdict for an         *)
(* undisturbed device is functional exactly when its interface has a       *)
(* driver and such a network device was found.                             *)
(***************************************************************************)
VerdictIsExact ==
    report # None /\ report.verdict # None =>
        /\ \A k \in net \ netMoved : report.netdev # None /\ report.netdev <= k
        /\ report.netdev # None => report.netdev \in net \cup netMoved
        /\ DriverIsFile /\ report.device.node \notin moved =>
              (report.verdict = "functional"
                  <=> report.netdev # None /\ iface[report.device.node] # None)

(***************************************************************************)
(* `doctor` compares release names; a later kernel that is installed all   *)
(* along, or a marker that is there all along, is always reported as a     *)
(* pending reboot, a pending reboot is never made up, not even by a name   *)
(* that is no version, and unknown is said only when no kernel stays       *)
(* installed.  It holds of names of three numbers and a numeric abi, as    *)
(* Debian and Ubuntu give them; other names that begin with a number, as   *)
(* those of Fedora and Arch, are left out.                                 *)
(***************************************************************************)
Comparable ==
    /\ Shaped(Running)
    /\ \A r \in Releases : Shaped(r) \/ Version[r].head[1] = NoNumber

Later == {r \in Releases : Shaped(r) /\ Weight(r) > Weight(Running)}

PendingIsJustified ==
    Comparable /\ report # None /\ report.pending # None =>
        /\ report.pending # "yes" =>
              Later \cap (trees \ treesMoved) = {} /\ (marker => markerMoved)
        /\ report.pending = "yes" => Later \cap (trees \cup treesMoved) # {} \/ marker
        /\ report.pending = "unknown" => trees \subseteq treesMoved
        /\ Running \notin treesMoved => (report.readable <=> Running \in trees)

(***************************************************************************)
(* What one look at the host shows to the command that was asked.          *)
(***************************************************************************)
Pickable == {n \in DeviceNodes : Matches(n, task.want)}

FirstNet == IF net = {} THEN None ELSE Min(net)

AnswerAbout(d) ==
    LET driver == IF task.command = "verify" THEN DriverFile(d.node) ELSE Bound(d.node)
        plan   == IF ByChip(task) THEN ChipPlanOf(d.id, task.chip)
                  ELSE PlanStateB(d.id, driver, None)
        blind  == Diagnoses(task) /\ Release \notin trees
    IN  IF task.command = "verify"
        THEN [Fresh EXCEPT !.device = d, !.netdev = FirstNet, !.driver = driver,
                           !.verdict = VerdictOf(Checks(FirstNet, driver, NoLog))]
        ELSE IF blind \/ plan.kind = "raises"
        THEN [Fresh EXCEPT !.exit = "raised", !.device = d]
        ELSE IF ByChip(task)
        THEN [Fresh EXCEPT !.exit = PlanExit, !.device = d, !.plan = plan]
        ELSE [Fresh EXCEPT !.exit = PlanExit, !.device = d, !.driver = driver, !.plan = plan,
                           !.diagnosis = DiagnosisOf(d.id, driver)]

Answer ==
    IF Ended(task) # None THEN [Fresh EXCEPT !.exit = Ended(task)]
    ELSE IF task.command = "doctor"
    THEN [Fresh EXCEPT !.readable = Running \in trees, !.pending = Pending(trees, marker)]
    ELSE IF \E n \in DeviceNodes : Matches(n, None) /\ Malformed(n)
    THEN [Fresh EXCEPT !.exit = "raised"]
    ELSE IF Pickable = {} THEN [Fresh EXCEPT !.exit = "unknown"]
    ELSE AnswerAbout([node |-> Min(Pickable), id |-> IdAt(Min(Pickable))])

\* Something changed at or before the first member of S.
Upset(changed, S) == \E x \in changed : \A y \in S : x <= y

(***************************************************************************)
(* The changes after which a command need not have the answer right: at    *)
(* the device it picks or before it, in the alias file it reads, at the    *)
(* network device it shows or before it, in the marker; and, where dongles *)
(* with a malformed class come and go, anywhere on the bus.                *)
(***************************************************************************)
Disturbed ==
    \/ Walks(task) /\ Upset(moved, Pickable)
    \/ Walks(task) /\ moved # {} /\ \E d \in Dongles : d.class = "junk"
    \/ Diagnoses(task) /\ Release \in treesMoved
    \/ task.command = "verify" /\ Upset(netMoved, net)
    \/ task.command = "doctor" /\ (Running \in treesMoved \/ markerMoved)

Look == INSTANCE OneLook WITH
            Null <- None, busy <- pc # "idle", answer <- report,
            truth <- Answer, disturbed <- Disturbed

(***************************************************************************)
(* Every command, for all the reads it is made of, answers as one look     *)
(* does: which device it picks or that there is none, whether an exception *)
(* escapes, driver, diagnosis, plan, verdict and pending reboot.  Changes  *)
(* after the device picked, or of what the command is not about, and those *)
(* are most, do not show at all.                                           *)
(***************************************************************************)
AnswersAsOneLook == Look!Spec

(***************************************************************************)
(* Every step of a running command brings its end nearer, whatever the     *)
(* host does between two reads: dongles that come back incomplete, network *)
(* devices that keep vanishing and drivers that flap are read once and not *)
(* waited for.  ReadsLeft bounds the reads still to come by the ports and  *)
(* network devices the machine can have; the reads after the pick are at   *)
(* most those of `verify` or of a diagnosis.                               *)
(***************************************************************************)
ReadsLeft ==
    LET nets == Cardinality(Netdevs)
        walk == 3 * Cardinality(todo) + nets + 7
    IN  CASE pc = "list"    -> 3 * Cardinality(DeviceNodes) + nets + 8
          [] pc = "vendor"  -> walk
          [] pc = "product" -> walk - 1
          [] pc = "rest"    -> walk - 2
          [] pc = "netdevs" -> nets + 3
          [] pc = "phy"     -> Cardinality(names) + 2
          [] OTHER -> [ alias |-> 6, iface_link |-> 5, iface_check |-> 4,
                        node_link |-> 3, node_check |-> 2, conclude |-> 1,
                        own_alias |-> 3, marker |-> 2, trees |-> 1,
                        driver_file |-> 1, chip_plan |-> 1, idle |-> 0 ][pc]

EveryStepIsProgress ==
    [][pc # "idle" => UNCHANGED toolVars \/ ReadsLeft' \in 0 .. ReadsLeft - 1]_vars

(***************************************************************************)
(* A command that was started ends, however the host behaves meanwhile:    *)
(* the list of nodes is a snapshot, so new dongles cannot prolong it.      *)
(***************************************************************************)
CommandsFinish == pc # "idle" ~> pc = "idle"

-----------------------------------------------------------------------------
(***************************************************************************)
(* What the documentation says and the code does not do.                   *)
(***************************************************************************)
(***************************************************************************)
(* README.md: state A means "Correct driver bound, device working".  The   *)
(* driver of the device node is taken as a fallback, so a dongle no driver *)
(* has claimed counts as working where the kernel binds its generic one.   *)
(***************************************************************************)
WorkingMeansInterfaceBound ==
    report # None /\ report.diagnosis # None /\ report.diagnosis.state = "A" =>
        \/ report.device.node \in moved
        \/ iface[report.device.node] # None

(***************************************************************************)
(* checker.py: "NOT_FUNCTIONAL: at least one check failed", "UNKNOWN: a    *)
(* host read failed mid-check".  An undisturbed device with a driver at    *)
(* its interface and a Wi-Fi network device fails no check, so its verdict *)
(* is functional, or unknown when a read failed.                           *)
(***************************************************************************)
WorkingDeviceVerifies ==
    report # None /\ report.verdict # None =>
        \/ report.device.node \in moved \/ iface[report.device.node] = None
        \/ net \ netMoved = {}
        \/ report.verdict # "not_functional"
=============================================================================
