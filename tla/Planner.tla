-------------------------------- MODULE Planner --------------------------------
(***************************************************************************)
(* The dry-run planner of state B.  A plan is data for a human: a command  *)
(* that binds the id through <module>/new_id, a command that appends an    *)
(* alias line to a modprobe.d file, and a transaction that says how to     *)
(* take the file away again.                                               *)
(***************************************************************************)
EXTENDS ChipsetKb

CONSTANT ValidName    \* the module names require_module_name accepts

ASSUME ValidNameTyped ==
    /\ ValidName \subseteq Module
    /\ None \notin ValidName

(***************************************************************************)
(* The id names the modprobe.d file of a plan (ddr-<vid>-<pid>.conf); the  *)
(* alias line appended to it is determined by the id and the module.  A    *)
(* transaction id is a hash over those fields only, so the pair stands     *)
(* for it; None is a plan without a transaction.                           *)
(***************************************************************************)
Transaction == [id : Id, module : ValidName]

PlanKinds == {"identify", "refused", "bind", "raises"}

Plan == [kind : PlanKinds, tx : Transaction \cup {None}]

ASSUME NullIsNoPlan == None \notin Plan

NoBind(kind) == [kind |-> kind, tx |-> None]

\* bound_driver or loaded_module or preferred_module or new_id_modules[0]
PlanModule(entry, bound, loaded) ==
    IF bound # None THEN bound
    ELSE IF loaded # None THEN loaded
    ELSE IF entry.preferred_module # None THEN entry.preferred_module
    ELSE IF entry.new_id_modules # <<>> THEN entry.new_id_modules[1] ELSE None

\* A fault, to test the properties with: the module name is not validated.
PlanStateB_unchecked(id, bound, loaded) ==
    LET entry == EntryOfId(id)
    IN  IF entry = None THEN NoBind("identify")
        ELSE IF ~Feasible(entry) THEN NoBind("refused")
        ELSE [kind |-> "bind",
              tx |-> [id |-> id, module |-> PlanModule(entry, bound, loaded)]]

\* A fault, to test the properties with: any entry that claims the id and takes
\* dynamic ids will do, not only the first that claims it.
PlanStateB_anyEntry(id, bound, loaded) ==
    LET claims == {i \in DOMAIN Kb : id \in Kb[i].usb_ids}
        taking == {i \in claims : Feasible(Kb[i])}
        module == PlanModule(FirstOf(taking), bound, loaded)
    IN  IF claims = {} THEN NoBind("identify")
        ELSE IF taking = {} THEN NoBind("refused")
        ELSE IF module \notin ValidName THEN NoBind("raises")
        ELSE [kind |-> "bind", tx |-> [id |-> id, module |-> module]]

(***************************************************************************)
(* plan_state_b.  Raising is an outcome: a feasible entry without a module *)
(* and a module name outside the grammar both end in a ValueError.         *)
(***************************************************************************)
PlanStateB(id, bound, loaded) ==
    LET entry  == EntryOfId(id)
        module == PlanModule(entry, bound, loaded)
    IN  IF entry = None THEN NoBind("identify")
        ELSE IF ~Feasible(entry) THEN NoBind("refused")
        ELSE IF module \notin ValidName THEN NoBind("raises")
        ELSE [kind |-> "bind", tx |-> [id |-> id, module |-> module]]
=============================================================================
