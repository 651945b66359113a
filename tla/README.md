# Verification of dongle-rescue

TLA+ modules that model dongle-rescue, a command-line tool that diagnoses USB
Wi-Fi and Bluetooth dongles, prints repair plans and never executes them. TLC
checks the modules on small instances; TLAPS proves the central properties for
every value of the constants. Paths below are relative to the repository; the
package is `src/dongle_rescue`.

## 1. The system

| Part | State | Operations | Talks to |
|---|---|---|---|
| USB enumeration, `usb/enumeration.py` | none; reads sysfs | `enumerate_usb_devices`, `bound_driver` | host |
| Host, `host.py` | none; the real file system | `read`, `exists`, `listdir`, `resolve_realpath` | kernel |
| Alias reader, `linux/modules_alias.py` | none | `read_alias_lines`, `match_with_lines` | host |
| Identification, `identification/resolver.py` | none | `resolve_device` | alias reader, knowledge base |
| Knowledge base, `data/chipsets.json` | static | lookup by VID:PID and by name, four copies of it | everybody |
| Classifier, `diagnostics/classifier.py` | none | `classify` | firmware resolver, knowledge base |
| Planner, `repair/planner.py` | none | `plan_state_b` | knowledge base, transactions |
| Transactions, `repair/transaction.py` | the journal file | `append`, `load`, `plan_rollback` | file system |
| Command line, `cli/main.py` | none between commands | `diagnose`, `report`, `repair`, `history`, `rollback`, `identify`, `verify`, `doctor` | all of the above |
| Firmware resolver, `firmware/resolver.py` | none | presence, file to package, advice | host, knowledge base |
| Verification, `verification/checker.py` | none | `verify_device` | host |
| Log access, `linux/log_access.py` | none | `reboot_pending`, `plan_kernel_log_access` | host |
| Windows, `windows/enum_ps.py` | none | command builders, parser | none |
| Types, `types.py` | none | closed enumerations, name grammars | all |

The program is a chain of calls: the command line picks a device, resolves it
against the alias file and the knowledge base, looks for its driver, classifies
and plans, and prints. It keeps nothing in memory from one command to the next.
What makes it hard is what it does not hold still:

- **The host changes between reads.** One `diagnose` makes some twenty reads of
  sysfs and of the module tree, none of them under a lock. Dongles are swapped,
  drivers bind, a kernel package goes away in the middle.
- **The journal is shared and unprotected.** Appends are single buffered writes
  with no lock and no sync; a crash leaves half a line, and the next append
  continues on it; a power cut takes acknowledged records back.
- **A person executes the output.** Plans, records and rollbacks of several
  devices and transactions are interleaved by hand, and all transactions of a
  device use one modprobe.d file.
- **The same fact is looked up in different ways.** The classifier searches the
  knowledge base by chipset name, the planner by VID:PID; ids are shared between
  entries (148f:760a is in MT7601U and in MT7610U).
- **The order of early returns is the meaning** of the classifier.
- **Firmware files change form.** Raw and compressed forms are probed one after
  the other, each by two calls, while package managers unpack and recompress.
- **Flags take what follows them**, whether they want a value or not.

What makes each part correct:

- enumeration: a dongle that stays put is not missed, the first match in sorted
  order is taken, and undisturbed reads add up to one look;
- classifier: the verdict is the highest of the states that apply, more trouble
  never looks like less, and a bind or an installation is advised only where
  nothing known stands against it;
- all commands: a command reads many times and answers as if it had looked once,
  unless something it depends on was disturbed, and each step brings its end
  nearer;
- planner: no bind plan without the consent of the entry that counts, the first
  that claims the id, and a report advises a bind exactly where it has a bind
  plan for an unbound dongle;
- journal: an acknowledged record that no power cut took back is either read or
  the damage is reported;
- rollback: a transaction rolled back leaves no alias line behind (the dynamic
  id it wrote stays in the kernel until the next boot), and where a device has
  one transaction, doing it twice is the same as doing it once;
- firmware resolver: a failed call is never taken for absence, an installation
  is advised only with reason, and, below a root that is not a link, absence is
  real and an undisturbed check finds the preferred form inside the root;
- `verify` and `doctor`: what stays put is not missed and not made up;
- option parser: a report is about what the line asks for.

## 2. The modules

| Module | Models | Notes |
|---|---|---|
| `ChipsetKb` | the knowledge base and its lookups | parameters and assumptions of everything above it |
| `Identification` | alias rows against a modalias, `resolve_device` | pure operators |
| `Classifier` | `classify`, firmware to package, package advice | pure operators |
| `Planner` | `plan_state_b` | pure operators; raising is an outcome |
| `CommandLine` | the option parser: what it makes of a line in closed form, and its loop turn by turn | pure operators |
| `RebootPending` | release names and their order, `reboot_pending` | pure operators |
| `Verification` | the four checks of `verify` and their verdict | pure operators |
| `LiveHost` | the machine the commands look at, and what happens to it | the environment of `Diagnose` |
| `OneLook` | what a command that looks at a changing machine promises | abstract specification |
| `Diagnose` | `diagnose`, `report`, `repair`, `verify`, `doctor` as processes against a live host | composes all of the above, refines `OneLook` |
| `Triage` | the classifier with all its evidence, driven by its caller | composes `Classifier` |
| `Firmware` | the firmware resolver against a disk that changes, and the advice on its answers | composes `Classifier` |
| `TransactionLog` | what a journal promises its readers | abstract specification |
| `Journal` | `append`, `load`, `history`, `rollback` with crashes | refines `TransactionLog` |
| `Repair` | the life of printed plans and transactions | composes `Planner` |
| `MCDiagnose`, `MCTriage`, `MCFirmware`, `MCJournal`, `MCRepair` | the instances TLC checks | |
| `MinLemmas`, `ClassifierProofs`, `DiagnoseProofs`, `SteadyProofs`, `TriageProofs`, `FirmwareProofs`, `JournalProofs`, `RepairProofs` | proofs | |

`PROJECT.json` maps each definition to its lines.

### How the models follow the code

**Identification.** A modalias is a record of fields. The program builds the
modalias it looks up from the two ids it read, so it has a vendor and a product
and no interface fields. A row of `modules.alias` has a pattern that leaves
fields out, fixes them or frees them; a row that breaks the grammar has none.
`PatternMatches` compares field by field as the code does, so a row that fixes
an interface field never matches; the parser of the text is left out.

**Diagnose.** A command starts with an argument list that `CommandLine` parses.
`pc` is the point the command has reached, one value for each read that can be
separated from the next by a change of the host:

| `pc` | Code |
|---|---|
| `list` | `listdir` of the USB tree |
| `vendor`, `product`, `rest` | the attribute reads of one node in the loop; at `vendor` with nothing left to read, `_pick_device` |
| `alias` | `read_alias_lines` |
| `iface_link`, `iface_check`, `node_link`, `node_check` | the two halves of the two calls of `bound_driver` |
| `conclude` | the pure rest of `_diagnose_one` |
| `chip_plan` | `repair --chip`, which never looks at drivers |
| `netdevs`, `phy`, `driver_file` | `verify`: listing the network devices, looking at one, reading the driver |
| `own_alias`, `marker`, `trees` | `doctor`: its own alias read, and the two signals of `reboot_pending` |

The remaining attribute reads of a node (`bcdDevice`, the class, the strings)
are one step; a node whose dongle is gone by then is incomplete, as in the code.
The class attributes are converted outside the `try` block
(`usb/enumeration.py:60-62`): a complete node whose class is no number
(`Malformed`) ends the command in a `ValueError` (`RestRaises`), whichever
device was asked for. Each kernel release has an alias file of its own
(`AliasOf`), and a diagnosis uses that of the release named, or else of the
running one. An exception that nothing catches is
`exit = "raised"`; `repair --execute` is `refused` after printing its plan.
`identify`, an unknown word, and `history` and `rollback` without `--journal`
end at once, without a look at the host.

`OneLook` has four variables: a command runs (`busy`), what the last one printed
(`answer`), what a single look at the machine would show now (`truth`) and
whether something the answer depends on has changed since the command was asked
(`disturbed`). Its `Reply` prints `truth`, or anything when disturbed. `Diagnose`
gives `truth` as `Answer` (pick, read, classify and plan, or check, in one
instant) and `disturbed` as `Disturbed`: a change at or before the device that
would be picked, of the alias file `diagnose` reads, at or before the network
device `verify` shows, for `doctor` of the marker and the running kernel, and,
where devices with a malformed class exist, any change of the bus.

`LiveHost` changes at any time: dongles and drivers come and go, network devices
appear and are renamed, kernels are installed and removed (`trees`: a release
with a directory has an alias file), the reboot marker is set. The history
variables `moved`, `netMoved`, `treesMoved` and `markerMoved` say what changed
since the command started and are read by no action. Commands run one after
another without a limit. `DriverIsFile` says whether the driver attribute can be
read like a file: never in sysfs, always on the hosts the tests inject.

**Firmware.** `resolve_module_firmware` answers one name after the other; the
check of a name looks for three forms, each by `exists` and, when that says yes,
`realpath`, and every call is a step. Any form of any file may be written,
removed or replaced by a link out of the root between two calls. `linked` is a
root that is itself reached by a link. A call that raises (`CallFails`) is
possible only on injected hosts, which `MayFail` says: `os.path.exists` and
`realpath` answer whatever the system does.

**Journal.** The text of a record is three tokens: the opening brace, the
members, the closing brace. A line is the sequence of tokens written on it.
It is an object when it opens one and closes it at its end with no brace in
between (`IsObject`), and a record when it is the text of one (`Whole`);
`Foreign` stands for members among which a field is missing. That pieces of
records, however they are joined, never form an object without fields is a
consequence (`TearsAreExplained`), not part of these definitions. `append` is
two steps, the open (which creates the file) and the write with its newline.
`TornWrite` is the death of the writer or a full disk at any token of the write:
it leaves nothing, a part, or the record without its newline. `LosePower` is a
power cut or a crash of the operating system: `append` flushes to the page cache
only (`transaction.py:65-66`), so any end of the file may be gone, acknowledged
records among it, or the file itself, and every process with it. Records it
takes are no longer acknowledged. File systems that leave other bytes in place
of a lost end are not modelled. `load` is two steps, the existence test and the
read; it fails with a `ValueError`, or with the `KeyError` of a missing field. A
rollback prefix is the set of records it matches, and `Undoable` are the records
`plan_rollback` accepts. `acked` are the appends that returned and were not lost,
`promised` those of them that had returned when the command started.

**Repair.** `conf` holds the alias lines of each modprobe.d file. The actions
are what the tool prints and what a person can do with it: run either printed
command, record the transaction, run a rollback step, reboot. Transaction ids
are content hashes over the id and the module, so that pair is the transaction.

**Triage.** The command line gives the classifier no log, no blacklist and no
disk. `Triage` is the caller that does, as the tests are: each step changes one
of the facts, and the verdict is examined in every state. `kind` is what the
interface of the device is; the program never sees it, the kernel does.

## 3. The runs

| Run | Checks | Size (distinct states) |
|---|---|---|
| `diagnose` | `TypeOK`, `FirstSteadyDongleWins`, `SteadyReportIsExact`, `BindAdviceHasPlan`, `BindPlanIsSanctioned`, `AnswersAsOneLook` | 634,591 |
| `diagnose_live` | `ReportAnswersLine`, `VerdictIsExact`, `PendingIsJustified`, `CommandsFinish`, `AnswersAsOneLook`, `EveryStepIsProgress` | 206,636 |
| `triage` | `TypeOK`, `DocumentedPriority`, `AdviceIsPossible`, `TroubleNeverImproves` | 39,936 |
| `journal` | `TypeOK`, `AckedNeverSwallowed`, `RollbackFindsAcked`, `TearsAreExplained`, `ImplementsLog` | 588,873 |
| `repair` | `TypeOK`, `OnlySanctionedBinds`, `UndoneLeavesNoLine`, `SoleSecondRollbackIsNoop` | 176,945 |
| `firmware` | `TypeOK`, `AbsentIsReal`, `FailureIsNeverAbsence`, `SteadyStatusIsExact`, `FoundIsReal`, `AdviceIsJustified` | 3,096,955 |
| `diagnose_working`, `verify_unreadable`, `triage_scope`, `firmware_linked`, `journal_corrupt`, `repair_twice` | one sentence of the documentation each, violated | |

What the passing runs show:

- `diagnose`: the diagnosing commands, device by device, while the bus changes:
  nothing that stays is missed, what did not change is reported exactly, a bind
  is advised exactly where an unbound dongle has a bind plan, and the commands
  implement `OneLook` on a bus where one dongle hides another. Advice and plan
  name the same module where no alias row claims the dongle; where one does, the
  advice names the module of the row (`classifier.py:184`) and the plan the
  preferred one of the entry (`planner.py:125`), and they can differ;
- `diagnose_live`: all commands with every shape of argument list: a report is
  about what was asked, `verify` and `doctor` are right about what stayed put,
  all of them implement `OneLook`, each step is progress, and every command ends.
  `ReportAnswersLine` is about lines of a usual form: each option once, a value
  option with its value, no switch followed by a word it would swallow, options
  before or after the command;
- `triage`: the classifier against an independent statement of its documented
  priority, for every mix of evidence. `Claiming` are the rows the kernel
  matches, interface fields included; `DocumentedPriority` is about the devices
  no row claims for one kind of interface only, and `triage_scope` is about the
  others. `AdviceIsPossible` has one exception: for a dongle no row is seen to
  claim, the blacklist is asked about the first module of the entry and the
  advice names its preferred one, which may then be blacklisted;
- `journal`: no acknowledged record is silently lost but to a power cut,
  whatever is torn, and the file behaves like a log that is appended to, can be
  damaged, and loses its end when the machine loses power;
- `repair`: what stays in force was allowed by the entry that counts, and what
  the rollback of one transaction guarantees while transactions share files;
- `firmware`: what the three answers of the resolver, and the advice on them,
  mean while files are unpacked, recompressed and removed. `AbsentIsReal` and
  `SteadyStatusIsExact` are about a root that is not a link; `firmware_linked`
  is about one that is.

Every property of a passing run has a mutant: an operator named after the
definition it replaces (`NextNode_last`, `Load_swallow`, ...) that TLC shows to
break the property.

### Bounds, and why they are enough

- `diagnose`: two device nodes and a root hub, four kinds of dongle (one of
  them with an unreadable product id), two interface drivers (one with a name
  the planner refuses), a generic node driver or none, five command lines, and
  `MaxChurn` changes of the host in a behaviour. Two nodes are enough for one
  dongle to be ahead of another and for a change next to the picked one; a
  change is one read's neighbour, and two in a row make the swap that tears an
  id. The knowledge base holds the four shapes that matter: a shared id, a
  refusing entry, a feasible one whose list includes the refusing driver, and
  an entry without a preferred module.
- `diagnose_live`: one port, a dongle that is complete, one that is not and one
  with a malformed class, two network devices, four kernels (running, later,
  older, and one whose name is no version), fifteen argument lists, on a
  knowledge base of one entry. Only the alias file of the later kernel claims
  the dongle, so that a diagnosis shows which file was read. Two changes
  let a dongle go and another come during the walk, a network device be renamed
  while the list is read, or a kernel go and a marker come.
- `triage`: one id per shape of evidence and a log of two failures, the least
  for which the first and the last differ.
- `firmware`: two files and a name the grammar rejects; one request asks for the
  same file again after the rejected name, so that what is left over from one
  check could reach the next. Two changes of the disk are a recompression (one
  form comes, another goes).
- `journal`: two writers, two records (one of which cannot be undone), two
  complete lines, and room for one more record on an unfinished line than a
  writer finds there; since both writers may have opened by then, two torn writes
  can meet on the line a third append completes, and a power cut can tear it
  anew. Foreign members are written once. Writers are interchangeable.
- `repair`: three ids, of which one has two possible modules and one is claimed
  by two entries, the first refusing dynamic ids and the second not. (That last
  shape is synthetic: shipped entries share ids, as 148f:760a, but none that do
  disagree about dynamic ids today.) Two lines
  per file: two transactions on one file, each applied before or after the
  other's rollback.

The bounds `MaxChurn`, `MaxLines`, `MaxTail`, `MaxLog` are guards of the
environment's actions (and of `OpenAppend`). Deadlock is checked in every run;
none stops.

### Fairness

`Diagnose` assumes `WF_vars(Tool)`: a command that was started is scheduled by
the operating system, and none of its steps waits for anything. Nothing is
assumed of the host or of the person starting commands. `CommandsFinish` holds
because the lists of nodes and network devices are snapshots: each walk is over
after as many iterations as there were names, whatever is plugged in meanwhile;
the mutant that reads an incomplete node again shows that it could be otherwise.
`EveryStepIsProgress` is the half of it that needs no fairness: a variant,
`ReadsLeft`, which each step of a command lowers whatever the host does.
The other specifications make no liveness claim and assume no fairness.

### Where documentation and code disagree

1. `diagnose_working`: README says state A is "Correct driver bound, device
   working"; the fallback to the device node's driver (`cli/main.py:163`) makes
   a dongle whose interface is unbound state A, since the kernel binds its
   generic driver to the node.
2. `verify_unreadable`: `checker.py:5-6` says NOT_FUNCTIONAL means a check
   failed and UNKNOWN that a read failed; the driver link is read as a file,
   which fails for a directory, and the failure is taken for "no driver", so a
   working device is never verified on a real host and UNKNOWN is never given.
3. `triage_scope`: `docs/research/linux-kernel.md:36-38` says the tool matches as
   the kernel does, on the interface modalias, and
   `docs/research/mediatek-atheros.md:268` that the parser must implement the
   interface scope. The modalias looked up is the device's and has no interface
   fields, so a row that fixes one never matches (`modules_alias.py:149`; its
   docstring, lines 135-137, says the same), and a dongle such a row claims is
   diagnosed E or UNKNOWN.
4. `firmware_linked`: `docs/research/firmware-supply-chain.md:199-201` says
   that `/lib` and `/usr/lib` denote the same tree where one links to the other.
   The prefix test compares the realpath of a file with the root as spelled
   (`firmware/resolver.py:99`): below `/lib/firmware` on a merged-`/usr` system
   every file is called absent.
5. `journal_corrupt`: the failure-injection tests promise no escaping
   traceback; `rollback` lets the `ValueError` of a damaged journal escape,
   `history` does not.
6. `repair_twice`: `rollback` prints that applying twice is a no-op; with two
   transactions of one device the second time removes the other's lines.
   `SoleSecondRollbackIsNoop` is the weaker promise that holds.

Read but not put into a run of its own:

- a driver that binds between `realpath` and `exists` is reported under the name
  `driver` (`usb/enumeration.py:105`), where line 99 promises the name of the
  driver or `None`; the model does it (`LinkTarget`), for nodes that changed;
- a missing `modules.alias` ends `diagnose` in an exception nothing catches
  (`cli/main.py:146`), where ADR 0003 (line 36) says UNKNOWN is a result and not
  an exception; so does a malformed class attribute of any device. `Answer` says
  exactly when;
- `repair --chip` plans for the picked device's VID:PID, whatever chip is named,
  although the comment at `cli/main.py:253` says "build the plan straight from
  the KB entry"; `BindPlanIsSanctioned` says what is left: both entries consent;
- `diagnose` passes the classifier neither log nor modprobe.d files
  (`cli/main.py:164`), so it can never report states C and D;
- a plan is shown whatever the diagnosis, also for a working device;
- the transaction id printed by `repair` is never journaled by any command, and
  the recorded content hash omits the comment line the command writes;
- `recommend_firmware_action` treats "cannot be told" like a missing file
  (`AdviceIsJustified` says when this can happen);
- `--device` without a value acts on the first device; the network device
  `verify` reports need not belong to the dongle;
- with a running kernel whose name has no numbers every other one is newer;
  `PendingIsJustified` is about names of three numbers and a numeric abi, as
  Debian and Ubuntu give them, and leaves out those of Fedora and Arch;
- the `preferred_module` of RTL8811CU and RTL8821CU (`rtw_8821cu`) is not in
  their module lists; `_diagnose_one`'s `chip_override` is never given;
- a caller of `run` that injects a knowledge base gives it to the resolver and
  the planner but not to the classifier, which loads its own; the command line
  injects none, and the model has one.

## 4. The proofs

Assumptions on the constants are named and stand in the modules that declare
them; TLC evaluates each on the instances. They are typing, plus:
`KbNamesUnique` (chipset names do not repeat) and `KbFeasibleHasModule` (a
feasible entry names a module), both facts of the shipped `data/chipsets.json`;
`NullsAreDistinct`, `AttributesDistinct`, `TextTyped`, `FormsAreNames`,
`NullIsNoKey`, `NullIsNoPlan`, `NullIsNoCheck`, `NullIsNoReport` (`None` and
`UNKNOWN` are not data); `LinkNameIsNoDriver` and `UnresolvedIsNoDriver` (no
driver is called `driver`, and a path that did not resolve is no module);
`RecordTyped` (a brace is not a record, nor are foreign members); `HostFinite`
(a machine has finitely many USB nodes and network devices).

| Theorem | States |
|---|---|
| `JournalProofs!TypeCorrect` | `Spec => []TypeOK` |
| `JournalProofs!AckedNeverSwallowedHolds` | `Spec => []AckedNeverSwallowed` |
| `JournalProofs!RollbackFindsAckedHolds` | `Spec => []RollbackFindsAcked` |
| `JournalProofs!JournalImplementsLog` | `Spec => ImplementsLog` |
| `JournalProofs!TearsAreExplainedHolds` | `Spec => []TearsAreExplained` |
| `FirmwareProofs!TypeCorrect` | `Spec => []TypeOK` |
| `FirmwareProofs!AbsentIsRealHolds` | `Spec => []AbsentIsReal` |
| `FirmwareProofs!FailureIsNeverAbsenceHolds` | `Spec => []FailureIsNeverAbsence` |
| `FirmwareProofs!SteadyStatusIsExactHolds` | `Spec => []SteadyStatusIsExact` |
| `FirmwareProofs!FoundIsRealHolds` | `Spec => []FoundIsReal` |
| `FirmwareProofs!AdviceIsJustifiedHolds` | `Spec => []AdviceIsJustified` |
| `RepairProofs!TypeCorrect` | `Spec => []TypeOK` |
| `RepairProofs!OnlySanctionedBindsHolds` | `Spec => []OnlySanctionedBinds` |
| `RepairProofs!UndoneLeavesNoLineHolds` | `Spec => []UndoneLeavesNoLine` |
| `RepairProofs!SoleSecondRollbackIsNoopHolds` | `Spec => SoleSecondRollbackIsNoop` |
| `DiagnoseProofs!TypeCorrect` | `Spec => []TypeOK` |
| `DiagnoseProofs!BindAdviceHasPlanHolds` | `Spec => []BindAdviceHasPlan` |
| `DiagnoseProofs!BindPlanIsSanctionedHolds` | `Spec => []BindPlanIsSanctioned` |
| `DiagnoseProofs!EveryStepIsProgressHolds` | `Spec => EveryStepIsProgress` |
| `DiagnoseProofs!ParsedIsWalked` | the loop of `_parse` computes `Parsed` |
| `SteadyProofs!FirstSteadyDongleWinsHolds` | `Spec => []FirstSteadyDongleWins` |
| `SteadyProofs!SteadyReportIsExactHolds` | `Spec => []SteadyReportIsExact` |
| `SteadyProofs!VerdictIsExactHolds` | `Spec => []VerdictIsExact` |
| `SteadyProofs!PendingIsJustifiedHolds` | `Spec => []PendingIsJustified` |
| `SteadyProofs!ReportAnswersLineHolds` | `Spec => []ReportAnswersLine` |
| `SteadyProofs!AnswersAsOneLookHolds` | `Spec => AnswersAsOneLook` |
| `SteadyProofs!NewerIsAnOrder` | `VersionGt` is a strict order, total up to equal keys |
| `TriageProofs!TypeCorrect` | `Spec => []TypeOK` |
| `TriageProofs!DocumentedPriorityHolds` | `Spec => []DocumentedPriority` |
| `TriageProofs!AdviceIsPossibleHolds` | `Spec => []AdviceIsPossible` |
| `TriageProofs!TroubleNeverImprovesHolds` | `Spec => []TroubleNeverImproves` |

**Journal.** No property about results is inductive: it speaks of a result
already printed and says nothing of the file the next load will read. The
strengthening is `AckedOnLines`: every acknowledged append is a complete line of
the file, and that line ends in its record. Complete lines are never changed,
and a power cut that takes one takes its acknowledgement, so it survives every
step; a line ending in a record that parses is that record alone, so a
successful `load` has it at that line number. For `TearsAreExplained` the
invariant is `AllShaped`, about the shape of every line that crashes and appends
can produce: `ShapedJoin` says that joining the start of a record to such a line
gives such a line, `ShapedCut` that cutting it anywhere does, and `ShapedObject`
that such a line, when it is an object, is the text of one single member; so an
object that is no record has a foreign member. For the refinement the abstract
view is `Load` of the text: lemmas show that a longer text or last line makes
`Load` add one entry, report its first bad line, or stay as it is, and that a
shorter one (`LossStep`) takes entries off the end or cuts the last one left.
`TypeOK` has to say that a file not created yet is empty.

**Diagnose.** `ControlOK` says which variables carry a value at which `pc`. The
content is in `ClassifierProofs`: `NameLeadsBack` shows that the entry found by
the name in an identification is the entry found by the id, from
`KbNamesUnique`; `BindAdvice` follows the classifier with the evidence the
command line supplies (none) and shows that `bind_new_id` is advised exactly for
an unbound, feasible entry, with the planner's module when no row claims the
dongle; `KbFeasibleHasModule` is what makes the last case of the classifier
agree.

**Steady devices.** The two properties about reports speak of a whole command,
so the invariant `SInv` says at each point of it how far they are fulfilled.
`WalkOK`: an undisturbed readable node is still to be read or has been read, the
ids read of it are its ids, and what was read sorts before what is to be read;
hence the least wanted index is the least wanted node, and `PickOK` follows.
`LinkOK`: at each half of `bound_driver` the link is what the undisturbed node
has (`SteadyTarget`: a driver in use cannot be gone), so that at `conclude` the
driver is `Bound`. `ReportOK` is the two properties. `Undisturbed` is what is
needed of the host: what is not in the history is as it was.

**What stayed, and what was asked.** The same plan, with the same history,
carries the other commands: `FoundOK` says what `verify` and `doctor` have found
so far (every network device that stayed is still in the list; the marker that
was not seen came later), and `WeightOrder` that comparing tuples of numbers is
comparing the number they are the digits of. For `ReportAnswersLine`,
`DocumentedCommand` and `DocumentedValue` show what the parser makes of a line of
a usual form, wherever its options stand, and `AInv` carries the task it made to
the report; past the read of an alias file its kernel is one that can be
installed (`ControlOK`), so the diagnosis is by the modules of that kernel.

**One look.** `AnswersAsOneLookHolds` follows from the same history. `LookOK`
says that every device read on the walk, and the one picked, is a node one look
can read too unless it has moved, and which commands are on the path that reads
an alias file, and that once a device is picked no complete node that stayed has
a malformed class (`Sound`; `HostConsistent`: drivers sit at dongles only, and
hubs stay put); with `SInv` this gives at the last step that the node picked is
the least a single look would pick (`FirstIsFirst`: if nothing changed at or
before the least candidate, what was found first is it), that its ids and its
driver are what one look shows, and the same for the first network device. The
last step of each command is then a `Reply`, a start is an `Ask`, and all other
steps, the host's included, are a `Move` or a stutter: what is disturbed stays
so because the least member of the set to be picked from can only change by a
change at or before it. The abstract specification says more than the separate
reports do: which device, or that there is none; that an exception escapes
exactly when one look would meet its cause; and that nothing else shows.

**Every step is progress.** `ReadsLeft` counts three reads for each node still on
the list, one for each network device, and the reads after the pick. `WalkDescends`,
`NetsDescend`, `StraightDescends` and `EndDescends` are its cases; the only facts
about data are that taking the least index out of a finite set makes it smaller
and that a snapshot is no larger than the machine (`Sizes`). With weak fairness a
variant that falls gives `CommandsFinish`; that last step is TLC's.

**The parser's loop.** `Diagnose` uses the option parser in closed form: which
words of a line are commands, which flag a value belongs to. `CommandLine` also
has the loop of `_parse` as the code writes it (`Beginning`, `Turn`), and
`ParsedIsWalked` runs it on an arbitrary line, as a specification with one
variable: `WalkInv` holds before the loop and is kept by each turn (`TurnKeeps`),
each turn moves on, and when no word is left the two lists it collected contain
what `Parsed` says. `WalkInv` relates each list to the part of the line already
read (`Before`), and has to say that the walk never stands on a word which a flag
before it takes as its value.

**The order of releases.** `NewerIsAnOrder` takes the comparison of tuples for
keys of any length and any mixture of numbers and words; `WeightOrder` compares
it with the versions the tuples spell.

**Triage.** No strengthening is needed beyond types: each property is about one
evaluation of `classify`. `ClaimsAreRows` turns the candidate list into the rows
the program sees, which are `Claiming` without `Scoped` (`MatchIsClaim`),
`PrimaryServes` and `MissingIsLost` do the same for the driver that matters and
the file that is missing, and the branches of `classify` are then compared with
`Applies` one by one (`ChainIsDocumented`), for any set of rows; `Followable` is
what `AdviceIsPossible` says of one verdict.

**Firmware.** The properties are about an answer given at the last of six
calls. `CheckOK` says that the mark of a failed call belongs to this check;
`SeenOK` that a form which was passed and is inside now came there behind the
probe, that there was a gap if no form is inside now, and that a path which
existed and is gone has changed. An answer is then compared with the disk in the
same state. `AbsentIsReal` and `SteadyStatusIsExact` need the root to be no link,
and say so.

**Repair.** `LinesArePrinted` (every alias line belongs to a transaction that
was printed) is what makes the second rollback of the only transaction of a
device change nothing. For `OnlySanctionedBinds`, `BindInv` says that every
printed transaction is sanctioned by the first entry of its id, and that
`new_id` got nothing that was not printed; `LinesArePrinted` says the same of
the files. `PlanIsSanctioned` follows `plan_state_b` for every knowledge base;
what is run, recorded, rolled back or rebooted only copies or removes. The
property alone is not inductive, since a plan printed long ago can be run at any
time.

Every invariant, every action property and both refinements of the passing runs
are proved. Only model-checked: `CommandsFinish`, since liveness under fairness
and `ENABLED` are out of the prover's reach, and the violations. Out of reach is
also what a recursive definition computes for every input; no module declares
one.

## 5. Not modelled, and the plan

Left out for good:

- texts and formatting, `--json`, argument escaping, evidence strings;
- the character grammars (VID:PID, module and firmware names, log lines,
  modprobe.d lines, alias patterns): their results are sets and records;
- `windows/enum_ps.py`: a command builder and a parser of text, which no
  command calls;
- `plan_kernel_log_access`: two lookups of tools and a text, which no state
  depends on;
- the Bluetooth branch of `verify_device`, which no command reaches;
- `identify`, which only prints the entry of a name;
- tests and `scripts/verify.sh`, which are not the program.

The plan's steps are done: knowledge base, identification, classifier, planner
and the commands against a changing host; the classifier with all its evidence;
the journal with its abstract specification and refinement; the life of
transactions; the firmware resolver; verification, pending reboots and the
option parser; the proofs of the safety properties, of both refinements, of the
variant of the commands and of the parser's loop. What could be added:

1. `Repair` composed with `Journal`, once a command appends the transaction it
   prints;
2. `Triage` composed with `Firmware`, once a command passes the classifier a
   disk: the set `absent` would be an answer of the resolver instead of a fact.
