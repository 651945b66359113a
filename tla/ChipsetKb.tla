------------------------------- MODULE ChipsetKb -------------------------------
(***************************************************************************)
(* The chipset knowledge base, data/chipsets.json, and the lookups the     *)
(* program makes in it.  The resolver and the planner look an entry up by  *)
(* VID:PID, the classifier and `repair --chip` by chipset name; all of     *)
(* them walk the list from the top and take the first hit, and the list    *)
(* does hold entries that share ids (RTL8811CU and RTL8821CU; 148f:760a    *)
(* is in both MT7601U and MT7610U).                                        *)
(***************************************************************************)
EXTENDS Naturals, Sequences, FiniteSetsExt

CONSTANTS
    Vid, Pid,     \* vendor and product ids, as model values
    Module,       \* kernel module (and bound driver) names
    Chipset,      \* chipset names of the knowledge base
    Firmware,     \* firmware files the knowledge base declares
    Kb,           \* the knowledge base: a sequence of entries, in file order
    None,         \* the absent value (Python's None)
    UnknownChip   \* the chipset name "UNKNOWN"

Id == Vid \X Pid

Confidences == {"CONFIRMED", "HIGH_CONFIDENCE", "PROBABLE", "POSSIBLE", "UNKNOWN"}

Entry ==
    [ chipset          : Chipset,
      usb_ids          : SUBSET Id,
      modules          : Seq(Module),
      preferred_module : Module \cup {None},
      new_id_modules   : Seq(Module),
      new_id_feasible  : {"true", "false", "unset"},
      confidence       : Confidences,
      firmware         : Seq(Firmware),
      packaged         : BOOLEAN ]       \* fw_package_debian is not empty

(***************************************************************************)
(* The first entry of the knowledge base that is in hits, a set of         *)
(* positions, or None when there is none.                                  *)
(***************************************************************************)
FirstOf(hits) == IF hits = {} THEN None ELSE Kb[Min(hits)]

EntryOfId(id) == FirstOf({i \in DOMAIN Kb : id \in Kb[i].usb_ids})

EntryNamed(chip) == FirstOf({i \in DOMAIN Kb : Kb[i].chipset = chip})

\* entry.get("new_id_feasible") used as a truth value
Feasible(entry) == entry # None /\ entry.new_id_feasible = "true"

\* A plan for a feasible entry can name a module.
HasModule(entry) == entry.preferred_module # None \/ entry.new_id_modules # <<>>

-----------------------------------------------------------------------------
(***************************************************************************)
(* What data/chipsets.json guarantees today: it is well typed, chipset     *)
(* names are unique, and a feasible entry names a module to bind to.       *)
(***************************************************************************)
ASSUME KbTyped == Kb \in Seq(Entry)

ASSUME KbNamesUnique ==
    \A i, j \in DOMAIN Kb : Kb[i].chipset = Kb[j].chipset => i = j

ASSUME KbFeasibleHasModule ==
    \A i \in DOMAIN Kb : Feasible(Kb[i]) => HasModule(Kb[i])

ASSUME NullsAreDistinct ==
    /\ None \notin Module \cup Entry \cup Firmware
    /\ UnknownChip \notin Chipset
=============================================================================
