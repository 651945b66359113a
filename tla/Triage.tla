-------------------------------- MODULE Triage --------------------------------
(***************************************************************************)
(* The classifier with all of its evidence.  The command line feeds it no  *)
(* log, no modprobe.d files and no disk, so this module is the caller the  *)
(* tests are: one device whose driver, log, blacklist and firmware files   *)
(* change step by step, diagnosed after every step.                        *)
(***************************************************************************)
EXTENDS Classifier

CONSTANTS
    Alias,     \* the alias file of the running kernel
    MaxLog     \* bound on the failures in the log

ASSUME AliasTyped == Alias \in AliasFile

ASSUME MaxLogTyped == MaxLog \in Nat

VARIABLES
    id, kind,            \* the device, and what its interface is
    bound, failed, blocked, absent

device == <<id, kind>>
vars   == <<device, bound, failed, blocked, absent>>

DiagnosedWith(log, list, gone) ==
    Classify(ResolveDevice(id, Alias), bound,
             [failed |-> log, blocked |-> list, absent |-> gone])

Diagnosed == DiagnosedWith(failed, blocked, absent)

Init ==
    /\ id \in Id
    /\ kind \in Iface
    /\ bound = None
    /\ failed = <<>>
    /\ blocked = {}
    /\ absent \in SUBSET Firmware

Bind(m) ==
    /\ bound = None /\ m \notin blocked
    /\ bound' = m
    /\ UNCHANGED <<device, failed, blocked, absent>>

Unbind ==
    /\ bound # None
    /\ bound' = None
    /\ UNCHANGED <<device, failed, blocked, absent>>

\* The kernel asks for a file it cannot find; a reboot starts a new log.
LogFailure(f) ==
    /\ f \in absent /\ Len(failed) < MaxLog
    /\ failed' = Append(failed, f)
    /\ UNCHANGED <<device, bound, blocked, absent>>

ClearLog ==
    /\ failed' = <<>>
    /\ UNCHANGED <<device, bound, blocked, absent>>

Block(m) ==
    /\ blocked' = blocked \cup {m}
    /\ UNCHANGED <<device, bound, failed, absent>>

Unblock(m) ==
    /\ blocked' = blocked \ {m}
    /\ UNCHANGED <<device, bound, failed, absent>>

RemoveFile(f) ==
    /\ absent' = absent \cup {f}
    /\ UNCHANGED <<device, bound, failed, blocked>>

InstallFile(f) ==
    /\ absent' = absent \ {f}
    /\ UNCHANGED <<device, bound, failed, blocked>>

Next ==
    \/ Unbind \/ ClearLog
    \/ \E m \in Module : Bind(m) \/ Block(m) \/ Unblock(m)
    \/ \E f \in Firmware : LogFailure(f) \/ RemoveFile(f) \/ InstallFile(f)

Spec == Init /\ [][Next]_vars

-----------------------------------------------------------------------------
(***************************************************************************)
(* The documented verdict, said without candidates lists: which states     *)
(* apply to the facts, and which of those that apply ranks highest.        *)
(***************************************************************************)
\* What the kernel matches: the modalias of the device's interface.
KernelClaims(row) ==
    /\ row.pattern # None
    /\ \A f \in DOMAIN row.pattern :
          row.pattern[f] \in {Any, [v |-> id[1], p |-> id[2], ic |-> kind][f]}

Claiming == {i \in DOMAIN Alias : KernelClaims(Alias[i])}

\* Those of them that are for one kind of interface only.
Scoped ==
    {i \in Claiming : "ic" \in DOMAIN Alias[i].pattern /\ Alias[i].pattern.ic # Any}

Known == EntryOfId(id)

\* The module that would serve the device, if rows are those that claim it.
Serving(rows) ==
    IF bound # None THEN {bound}
    ELSE IF rows # {} THEN {Alias[Min(rows)].module}
    ELSE IF Known # None /\ Known.modules # <<>> THEN {Known.modules[1]} ELSE {}

FirmwareLost(log, gone) ==
    \/ Known # None /\ \E i \in DOMAIN Known.firmware :
          \/ \E j \in DOMAIN log : log[j] = Known.firmware[i]
          \/ i = 1 /\ Known.firmware[i] \in gone
    \/ bound # None /\ log # <<>>

Bindable(rows) == rows # {} \/ HasCapabilityDetail(Known)

Applies(state, rows, log, list, gone) ==
    CASE state = "UNKNOWN" -> Known = None /\ rows = {}
      [] state = "D"       -> Serving(rows) \cap list # {}
      [] state = "C"       -> FirmwareLost(log, gone)
      [] state = "B"       -> bound = None /\ Bindable(rows)
      [] state = "E"       -> bound = None /\ ~Bindable(rows)
      [] state = "A"       -> bound # None

Rank == [ UNKNOWN |-> 5, D |-> 4, C |-> 3, B |-> 2, E |-> 2, A |-> 1 ]

TypeOK ==
    /\ id \in Id
    /\ kind \in Iface
    /\ bound \in Module \cup {None}
    /\ failed \in Seq(Firmware)
    /\ blocked \subseteq Module
    /\ absent \subseteq Firmware
    /\ Diagnosed \in Diagnosis

(***************************************************************************)
(* The chain of early returns in classify yields the applicable state that *)
(* ranks highest in its documented order, UNKNOWN > D > C > B/E > A, and   *)
(* a failed firmware load keeps a bound device out of state A.  It holds   *)
(* of a device the kernel claims by its ids alone or not at all: a row for *)
(* one kind of interface is not seen, see KernelClaimIsSeen.               *)
(***************************************************************************)
DocumentedPriority ==
    Scoped = {} =>
        /\ Applies(Diagnosed.state, Claiming, failed, blocked, absent)
        /\ \A s \in States :
              Applies(s, Claiming, failed, blocked, absent) => Rank[s] <= Rank[Diagnosed.state]

(***************************************************************************)
(* More trouble never looks like less: with device and driver as they are, *)
(* a further failure at the end of the log, a further blacklisted module,  *)
(* or a file gone from the disk never lowers the rank of the diagnosis.    *)
(***************************************************************************)
NoBetter(worse) == Rank[Diagnosed.state] <= Rank[worse.state]

TroubleNeverImproves ==
    /\ \A f \in Firmware : NoBetter(DiagnosedWith(Append(failed, f), blocked, absent))
    /\ \A m \in Module   : NoBetter(DiagnosedWith(failed, blocked \cup {m}, absent))
    /\ \A f \in Firmware : NoBetter(DiagnosedWith(failed, blocked, absent \cup {f}))

(***************************************************************************)
(* What stands against advice.  A dynamic bind is advised only for an      *)
(* unbound device whose entry says so outright, when no firmware is known  *)
(* to be missing, and names a module; a package install only when a file   *)
(* is missing.  The module named is not blacklisted, with one exception:   *)
(* where no row is seen to claim the device the blacklist is asked about   *)
(* the first module of the entry, and the advice names its preferred one,  *)
(* so that when they differ a blacklisted module can be named.             *)
(***************************************************************************)
AdviceIsPossible ==
    /\ Diagnosed.action = "bind_new_id" =>
          /\ bound = None /\ Known # None /\ Known.new_id_feasible = "true"
          /\ ~FirmwareLost(failed, absent)
          /\ Diagnosed.hint # None
          /\ Diagnosed.hint \in blocked =>
                /\ Claiming \ Scoped = {}
                /\ Diagnosed.hint = ModuleHint(Known)
                /\ Known.modules # <<>> => Known.modules[1] \notin blocked
    /\ Diagnosed.action = "install_firmware_package" => FirmwareLost(failed, absent)

-----------------------------------------------------------------------------
(***************************************************************************)
(* docs/research/linux-kernel.md: the kernel "matches the interface        *)
(* modalias against these expressions; the tool replicates the same glob   *)
(* algorithm over the file, in file order".  A device that a row of the    *)
(* alias file claims is therefore never said to have no in-tree driver,    *)
(* nor to be unknown.                                                      *)
(***************************************************************************)
KernelClaimIsSeen == Claiming # {} => Diagnosed.state \notin {"E", "UNKNOWN"}
=============================================================================
