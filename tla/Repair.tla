-------------------------------- MODULE Repair --------------------------------
(***************************************************************************)
(* The life of repair transactions.  The tool prints plans and rollback    *)
(* plans; a person runs the printed commands.  Every plan for one device   *)
(* appends to, and every rollback removes, the same modprobe.d file.       *)
(***************************************************************************)
EXTENDS Planner, SequencesExt

CONSTANTS
    Plugged,     \* ids that repair is run for
    Binding,     \* drivers found bound, and None
    MaxLines     \* bound on the alias lines of one modprobe.d file

ASSUME RepairTyped ==
    /\ Plugged \subseteq Id
    /\ Binding \subseteq Module \cup {None}
    /\ MaxLines \in Nat

VARIABLES
    conf,      \* id -> the modules of the alias lines in its modprobe.d file
    newIds,    \* the <<module, id>> pairs written to new_id since boot
    printed,   \* transactions of the plans printed
    journal,   \* transactions recorded
    undone     \* history: transactions rolled back and not applied since

vars == <<conf, newIds, printed, journal, undone>>

Init ==
    /\ conf = [id \in Plugged |-> <<>>]
    /\ newIds = {}
    /\ printed = {}
    /\ journal = <<>>
    /\ undone = {}

\* `repair`: a feasible plan shows its transaction.
PrintPlan(id, bound) ==
    LET plan == PlanStateB(id, bound, None)
    IN  /\ plan.kind = "bind"
        /\ printed' = printed \cup {plan.tx}
        /\ UNCHANGED <<conf, newIds, journal, undone>>

\* The first printed command: echo '<vid> <pid>' | tee .../<module>/new_id
RunBind(tx) ==
    /\ tx \in printed
    /\ newIds' = newIds \cup {<<tx.module, tx.id>>}
    /\ UNCHANGED <<conf, printed, journal, undone>>

\* The second printed command: printf <alias line> | tee -a <conf>
RunPersist(tx) ==
    /\ tx \in printed
    /\ Len(conf[tx.id]) < MaxLines
    /\ conf' = [conf EXCEPT ![tx.id] = Append(@, tx.module)]
    /\ undone' = undone \ {tx}
    /\ UNCHANGED <<newIds, printed, journal>>

\* Journal.append, by a caller outside the command line.
Record(tx) ==
    /\ tx \in printed /\ ~Contains(journal, tx)
    /\ journal' = Append(journal, tx)
    /\ UNCHANGED <<conf, newIds, printed, undone>>

\* A fault, to test the properties with: only the last line of the file is removed.
RunRollback_lastLine(tx) ==
    /\ Contains(journal, tx)
    /\ conf' = [conf EXCEPT ![tx.id] = IF @ = <<>> THEN @ ELSE Front(@)]
    /\ undone' = undone \cup {tx}
    /\ UNCHANGED <<newIds, printed, journal>>

\* The step plan_rollback prints: remove the file if it is present.
RunRollback(tx) ==
    /\ Contains(journal, tx)
    /\ conf' = [conf EXCEPT ![tx.id] = <<>>]
    /\ undone' = undone \cup {tx}
    /\ UNCHANGED <<newIds, printed, journal>>

Reboot ==
    /\ newIds' = {}
    /\ UNCHANGED <<conf, printed, journal, undone>>

Next ==
    \/ \E id \in Plugged, bound \in Binding : PrintPlan(id, bound)
    \/ \E tx \in printed : RunBind(tx) \/ RunPersist(tx) \/ Record(tx) \/ RunRollback(tx)
    \/ Reboot

Spec == Init /\ [][Next]_vars

-----------------------------------------------------------------------------
TypeOK ==
    /\ conf \in [Plugged -> Seq(ValidName)]
    /\ newIds \subseteq ValidName \X Plugged
    /\ printed \subseteq [id : Plugged, module : ValidName]
    /\ journal \in Seq(printed)
    /\ undone \subseteq printed

\* What is in force for a dongle: the new_id writes since boot, which rollbacks
\* do not take back, and the alias lines, which reboots do not.
InForce(id) == {pair[1] : pair \in {w \in newIds : w[2] = id}} \cup Range(conf[id])

\* The modules somebody named for the dongle: its driver, found bound, or the
\* first entry that claims its id.
NamedFor(id) ==
    Binding \cup {EntryOfId(id).preferred_module} \cup Range(EntryOfId(id).new_id_modules)

(***************************************************************************)
(* A dongle is told to a driver only when the first entry that claims its  *)
(* id says the chip takes dynamic ids (an id may be in several entries that*)
(* disagree), and only to a module that was bound to it or that this entry *)
(* names.  It holds of what the printed commands leave behind, whichever   *)
(* are run, however often, across rollbacks and reboots.                   *)
(***************************************************************************)
OnlySanctionedBinds ==
    \A id \in Plugged :
        InForce(id) # {} => Feasible(EntryOfId(id)) /\ InForce(id) \subseteq NamedFor(id)

(***************************************************************************)
(* Once a transaction is rolled back, its alias line is gone, however      *)
(* often it had been applied and whatever other transactions of the same   *)
(* device were applied in between, and stays gone until it is applied anew.*)
(***************************************************************************)
UndoneLeavesNoLine == \A tx \in undone : ~Contains(conf[tx.id], tx.module)

(***************************************************************************)
(* `rollback` prints "Applying twice is a declared no-op (idempotent, SPEC *)
(* 24)".  Rolling a transaction back again, when it was not applied again, *)
(* changes nothing.                                                        *)
(***************************************************************************)
SecondRollbackIsNoop ==
    [][\A tx \in undone : RunRollback(tx) => conf' = conf]_vars

(***************************************************************************)
(* It is one as long as only one transaction was planned for the device.   *)
(***************************************************************************)
SoleSecondRollbackIsNoop ==
    [][\A tx \in undone :
          (\A t \in printed : t.id = tx.id => t = tx) /\ RunRollback(tx) => conf' = conf]_vars
=============================================================================
