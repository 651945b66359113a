------------------------------ MODULE RepairProofs ------------------------------
(***************************************************************************)
(* The life of transactions, for any knowledge base, any dongles and any   *)
(* number of plans: what a rollback takes away, and when a second one is   *)
(* a no-op.                                                                *)
(***************************************************************************)
EXTENDS Repair, MinLemmas, TLAPS

\* A plan that binds has a transaction for the id asked about and a valid module.
LEMMA PlanGives ==
    ASSUME NEW id, NEW bound, PlanStateB(id, bound, None).kind = "bind"
    PROVE  /\ PlanStateB(id, bound, None).tx.id = id
           /\ PlanStateB(id, bound, None).tx \in [id : {id}, module : ValidName]
BY DEF PlanStateB, NoBind

\* What one more alias line does to a file.
LEMMA LineAdded ==
    ASSUME NEW file \in Seq(ValidName), NEW m \in ValidName
    PROVE  /\ Append(file, m) \in Seq(ValidName)
           /\ \A n : Contains(Append(file, m), n) <=> Contains(file, n) \/ n = m
<1>1. /\ Append(file, m) \in Seq(ValidName)
      /\ Len(Append(file, m)) = Len(file) + 1
      /\ Append(file, m)[Len(file) + 1] = m
      /\ \A i \in 1..Len(file) : Append(file, m)[i] = file[i]
      /\ Len(file) \in Nat
  OBVIOUS
<1>2. QED
  BY <1>1 DEF Contains

LEMMA EmptyContainsNothing == \A n : ~Contains(<<>>, n)
BY DEF Contains

-----------------------------------------------------------------------------
(***************************************************************************)
(* Types.                                                                  *)
(***************************************************************************)
LEMMA TypeStep == TypeOK /\ [Next]_vars => TypeOK'
<1> SUFFICES ASSUME TypeOK, [Next]_vars PROVE TypeOK'
  OBVIOUS
<1>1. ASSUME NEW id \in Plugged, NEW bound \in Binding, PrintPlan(id, bound) PROVE TypeOK'
  <2> DEFINE tx == PlanStateB(id, bound, None).tx
  <2>1. /\ tx \in [id : Plugged, module : ValidName]
        /\ printed' = printed \cup {tx}
        /\ UNCHANGED <<conf, newIds, journal, undone>>
    BY <1>1, PlanGives DEF PrintPlan
  <2> HIDE DEF tx
  <2>2. printed \subseteq printed' /\ printed' \subseteq [id : Plugged, module : ValidName]
    BY <2>1 DEF TypeOK
  <2>3. journal' \in Seq(printed') /\ undone' \subseteq printed'
    BY <2>1, <2>2 DEF TypeOK
  <2>4. QED
    BY <2>1, <2>2, <2>3 DEF TypeOK
<1>2. ASSUME NEW tx \in printed, RunBind(tx) PROVE TypeOK'
  <2>1. tx.id \in Plugged /\ tx.module \in ValidName
    BY DEF TypeOK
  <2>2. QED
    BY <1>2, <2>1 DEF RunBind, TypeOK
<1>3. ASSUME NEW tx \in printed, RunPersist(tx) PROVE TypeOK'
  <2>1. tx.id \in Plugged /\ tx.module \in ValidName /\ conf[tx.id] \in Seq(ValidName)
    BY DEF TypeOK
  <2>2. conf' \in [Plugged -> Seq(ValidName)]
    BY <1>3, <2>1, LineAdded DEF RunPersist, TypeOK
  <2>3. QED
    BY <1>3, <2>2 DEF RunPersist, TypeOK
<1>4. ASSUME NEW tx \in printed, Record(tx) PROVE TypeOK'
  BY <1>4 DEF Record, TypeOK
<1>5. ASSUME NEW tx \in printed, RunRollback(tx) PROVE TypeOK'
  <2>1. <<>> \in Seq(ValidName)
    OBVIOUS
  <2>2. conf' \in [Plugged -> Seq(ValidName)]
    BY <1>5, <2>1 DEF RunRollback, TypeOK
  <2>3. QED
    BY <1>5, <2>2 DEF RunRollback, TypeOK
<1>6. CASE Reboot
  BY <1>6 DEF Reboot, TypeOK
<1>7. CASE UNCHANGED vars
  BY <1>7 DEF vars, TypeOK
<1>8. QED
  BY <1>1, <1>2, <1>3, <1>4, <1>5, <1>6, <1>7 DEF Next

(***************************************************************************)
(* Every file holds alias lines of valid modules only, and only printed    *)
(* transactions are recorded or rolled back: plan_state_b's refusals and   *)
(* its name check let nothing else through, whatever drivers are bound.    *)
(***************************************************************************)
THEOREM TypeCorrect == Spec => []TypeOK
<1>1. Init => TypeOK
  BY DEF Init, TypeOK
<1>2. QED
  BY <1>1, TypeStep, PTL DEF Spec

-----------------------------------------------------------------------------
(***************************************************************************)
(* What is in the files.                                                   *)
(***************************************************************************)
\* Every alias line is of a plan that was printed for the file's dongle.
LinesArePrinted ==
    \A id \in Plugged : \A m \in ValidName :
        Contains(conf[id], m) => [id |-> id, module |-> m] \in printed

IInv == TypeOK /\ UndoneLeavesNoLine /\ LinesArePrinted

\* A transaction is its id and its module.
LEMMA TxIs ==
    ASSUME NEW tx \in [id : Plugged, module : ValidName]
    PROVE  /\ tx = [id |-> tx.id, module |-> tx.module]
           /\ tx.id \in Plugged /\ tx.module \in ValidName
OBVIOUS

LEMMA LineStep ==
    ASSUME IInv, [Next]_vars
    PROVE  UndoneLeavesNoLine' /\ LinesArePrinted'
<1>0. /\ printed \subseteq [id : Plugged, module : ValidName] /\ undone \subseteq printed
      /\ conf \in [Plugged -> Seq(ValidName)]
  BY DEF IInv, TypeOK
<1>1. ASSUME NEW tx \in printed, RunPersist(tx)
      PROVE  UndoneLeavesNoLine' /\ LinesArePrinted'
  <2>1. /\ tx.id \in Plugged /\ tx.module \in ValidName /\ conf[tx.id] \in Seq(ValidName)
        /\ tx = [id |-> tx.id, module |-> tx.module]
    BY <1>0, TxIs
  <2>2. /\ conf' = [conf EXCEPT ![tx.id] = Append(conf[tx.id], tx.module)]
        /\ undone' = undone \ {tx} /\ printed' = printed
    BY <1>1 DEF RunPersist
  <2>3. \A id \in Plugged : \A m :
           Contains(conf'[id], m) <=> Contains(conf[id], m) \/ (id = tx.id /\ m = tx.module)
    BY <1>0, <2>1, <2>2, LineAdded
  <2>4. LinesArePrinted'
    BY <2>1, <2>2, <2>3 DEF IInv, LinesArePrinted
  <2>5. ASSUME NEW t \in undone' PROVE ~Contains(conf'[t.id], t.module)
    <3>1. /\ t \in undone /\ t # tx /\ t.id \in Plugged
          /\ t = [id |-> t.id, module |-> t.module]
      BY <1>0, <2>2, <2>5, TxIs
    <3>2. ~Contains(conf[t.id], t.module)
      BY <3>1 DEF IInv, UndoneLeavesNoLine
    <3>3. ~(t.id = tx.id /\ t.module = tx.module)
      BY <2>1, <3>1
    <3>4. QED
      BY <2>3, <3>1, <3>2, <3>3
  <2>6. QED
    BY <2>4, <2>5 DEF UndoneLeavesNoLine
<1>2. ASSUME NEW tx \in printed, RunRollback(tx)
      PROVE  UndoneLeavesNoLine' /\ LinesArePrinted'
  <2>1. /\ conf' = [conf EXCEPT ![tx.id] = <<>>]
        /\ undone' = undone \cup {tx} /\ printed' = printed
    BY <1>2 DEF RunRollback
  <2>2. \A id \in Plugged : \A m :
           Contains(conf'[id], m) => Contains(conf[id], m) /\ id # tx.id
    BY <1>0, <2>1, EmptyContainsNothing
  <2>3. \A t \in undone' : t.id \in Plugged
    BY <1>0, <2>1, TxIs
  <2>4. QED
    BY <2>1, <2>2, <2>3 DEF IInv, UndoneLeavesNoLine, LinesArePrinted
<1>3. CASE UNCHANGED <<conf, undone>> /\ printed \subseteq printed'
  BY <1>3 DEF IInv, UndoneLeavesNoLine, LinesArePrinted
<1>4. QED
  BY <1>1, <1>2, <1>3 DEF Next, PrintPlan, RunBind, Record, Reboot, vars

LEMMA Inductive == Spec => []IInv
<1>1. Init => IInv
  <2>1. Init => TypeOK
    BY DEF Init, TypeOK
  <2>2. QED
    BY <2>1, EmptyContainsNothing DEF Init, IInv, UndoneLeavesNoLine, LinesArePrinted
<1>2. IInv /\ [Next]_vars => IInv'
  BY TypeStep, LineStep DEF IInv
<1>3. QED
  BY <1>1, <1>2, PTL DEF Spec

(***************************************************************************)
(* The step plan_rollback prints takes every line of its transaction away, *)
(* however many transactions share the file and in whatever order they are *)
(* applied and rolled back.                                                *)
(***************************************************************************)
THEOREM UndoneLeavesNoLineHolds == Spec => []UndoneLeavesNoLine
<1>1. IInv => UndoneLeavesNoLine
  BY DEF IInv
<1>2. QED
  BY <1>1, Inductive, PTL

\* Where one transaction was ever printed for a dongle, its file is empty
\* once that transaction is rolled back.
LEMMA SoleFileEmpty ==
    ASSUME IInv, NEW tx \in undone, \A t \in printed : t.id = tx.id => t = tx
    PROVE  tx.id \in Plugged /\ conf[tx.id] = <<>>
<1>1. /\ tx \in printed /\ tx.id \in Plugged /\ conf[tx.id] \in Seq(ValidName)
  BY TxIs DEF IInv, TypeOK
<1>2. ASSUME conf[tx.id] # <<>> PROVE FALSE
  <2> DEFINE m == conf[tx.id][1]
  <2>1. m \in ValidName /\ Contains(conf[tx.id], m)
    BY <1>1, <1>2 DEF Contains
  <2>2. [id |-> tx.id, module |-> m] \in printed
    BY <1>1, <2>1 DEF IInv, LinesArePrinted
  <2> HIDE DEF m
  <2>3. m = tx.module
    BY <2>2
  <2>4. ~Contains(conf[tx.id], tx.module)
    BY DEF IInv, UndoneLeavesNoLine
  <2>5. QED
    BY <2>1, <2>3, <2>4
<1>3. QED
  BY <1>1, <1>2

(***************************************************************************)
(* "Applying twice is a declared no-op" for every dongle that was planned  *)
(* for with one transaction only.                                          *)
(***************************************************************************)
THEOREM SoleSecondRollbackIsNoopHolds == Spec => SoleSecondRollbackIsNoop
<1> DEFINE Step == \A tx \in undone :
               (\A t \in printed : t.id = tx.id => t = tx) /\ RunRollback(tx) => conf' = conf
<1>1. IInv /\ [Next]_vars => [Step]_vars
  <2> SUFFICES ASSUME IInv, NEW tx \in undone, RunRollback(tx),
                      \A t \in printed : t.id = tx.id => t = tx
               PROVE  conf' = conf
    OBVIOUS
  <2>1. tx.id \in Plugged /\ conf[tx.id] = <<>> /\ conf \in [Plugged -> Seq(ValidName)]
    BY SoleFileEmpty DEF IInv, TypeOK
  <2>2. conf' = [conf EXCEPT ![tx.id] = <<>>]
    BY DEF RunRollback
  <2>3. QED
    BY <2>1, <2>2
<1>2. QED
  BY <1>1, Inductive, PTL DEF Spec, SoleSecondRollbackIsNoop
-----------------------------------------------------------------------------
(***************************************************************************)
(* What is told to the drivers.                                            *)
(***************************************************************************)
\* A transaction plan_state_b may make: the dongle's first entry takes dynamic
\* ids, and the module was bound or is named by that entry.
Sanctioned(tx) == Feasible(EntryOfId(tx.id)) /\ tx.module \in NamedFor(tx.id)

\* The printed transactions are sanctioned, and new_id got nothing else.
BindInv ==
    /\ \A tx \in printed : Sanctioned(tx)
    /\ \A w \in newIds : [id |-> w[2], module |-> w[1]] \in printed

LEMMA EntryTyped ==
    ASSUME NEW id, EntryOfId(id) # None
    PROVE  EntryOfId(id) \in Entry
<1> DEFINE hits == {i \in DOMAIN Kb : id \in Kb[i].usb_ids}
<1>1. hits \subseteq Nat /\ hits # {}
  BY KbTyped DEF EntryOfId, FirstOf
<1>2. Min(hits) \in hits
  BY <1>1, MinProps
<1>3. QED
  BY <1>1, <1>2, KbTyped DEF EntryOfId, FirstOf

\* The module of a plan is one that was named for the dongle.
LEMMA PlanIsSanctioned ==
    ASSUME NEW id, NEW bound \in Binding, PlanStateB(id, bound, None).kind = "bind"
    PROVE  Sanctioned(PlanStateB(id, bound, None).tx)
<1> DEFINE entry == EntryOfId(id)
           m == PlanModule(entry, bound, None)
<1>1. /\ Feasible(entry) /\ m \in ValidName
      /\ PlanStateB(id, bound, None).tx = [id |-> id, module |-> m]
  BY DEF PlanStateB, NoBind
<1>2. entry.new_id_modules # <<>> => entry.new_id_modules[1] \in Range(entry.new_id_modules)
  <2>1. entry \in Entry
    BY <1>1, EntryTyped DEF Feasible
  <2>2. entry.new_id_modules \in Seq(Module)
    BY <2>1 DEF Entry
  <2>3. entry.new_id_modules # <<>> => 1 \in DOMAIN entry.new_id_modules
    BY <2>2
  <2>4. QED
    BY <2>3 DEF Range
<1>3. m # None
  BY <1>1, ValidNameTyped
<1>4. m \in NamedFor(id)
  BY <1>2, <1>3 DEF PlanModule, NamedFor
<1>5. QED
  BY <1>1, <1>4 DEF Sanctioned

LEMMA BindStep ==
    ASSUME IInv, BindInv, [Next]_vars
    PROVE  BindInv'
<1>1. ASSUME NEW id \in Plugged, NEW bound \in Binding, PrintPlan(id, bound) PROVE BindInv'
  <2>1. Sanctioned(PlanStateB(id, bound, None).tx)
    BY <1>1, PlanIsSanctioned DEF PrintPlan
  <2>2. /\ printed' = printed \cup {PlanStateB(id, bound, None).tx} /\ newIds' = newIds
    BY <1>1 DEF PrintPlan
  <2>3. QED
    BY <2>1, <2>2 DEF BindInv, Sanctioned, NamedFor
<1>2. ASSUME NEW tx \in printed, RunBind(tx) PROVE BindInv'
  <2>1. tx = [id |-> tx.id, module |-> tx.module]
    BY TxIs DEF IInv, TypeOK
  <2>2. newIds' = newIds \cup {<<tx.module, tx.id>>} /\ printed' = printed
    BY <1>2 DEF RunBind
  <2>3. ASSUME NEW w \in newIds' PROVE [id |-> w[2], module |-> w[1]] \in printed
    <3>1. CASE w \in newIds
      BY <3>1 DEF BindInv
    <3>2. CASE w = <<tx.module, tx.id>>
      BY <2>1, <3>2
    <3>3. QED
      BY <2>2, <3>1, <3>2
  <2>4. QED
    BY <2>2, <2>3 DEF BindInv, Sanctioned, NamedFor
<1>3. CASE Reboot
  BY <1>3 DEF Reboot, BindInv, Sanctioned, NamedFor
<1>4. CASE UNCHANGED <<newIds, printed>>
  BY <1>4 DEF BindInv, Sanctioned, NamedFor
<1>5. QED
  BY <1>1, <1>2, <1>3, <1>4 DEF Next, RunPersist, Record, RunRollback, vars

(***************************************************************************)
(* Only a dongle whose first entry takes dynamic ids is ever told to a     *)
(* driver, and only to a module named for it, whatever the knowledge base  *)
(* holds, whichever printed commands are run, and across rollbacks and     *)
(* reboots.                                                                *)
(***************************************************************************)
THEOREM OnlySanctionedBindsHolds == Spec => []OnlySanctionedBinds
<1>1. Init => BindInv
  BY DEF Init, BindInv
<1>2. IInv /\ BindInv /\ [Next]_vars => BindInv'
  BY BindStep
<1>3. IInv /\ BindInv => OnlySanctionedBinds
  <2> SUFFICES ASSUME IInv, BindInv, NEW id \in Plugged, NEW m \in InForce(id)
               PROVE  Sanctioned([id |-> id, module |-> m])
    BY DEF OnlySanctionedBinds, Sanctioned
  <2>1. CASE m \in Range(conf[id])
    <3>1. conf[id] \in Seq(ValidName)
      BY DEF IInv, TypeOK
    <3>2. m \in ValidName /\ Contains(conf[id], m)
      BY <2>1, <3>1 DEF Range, Contains
    <3>3. QED
      BY <3>2 DEF IInv, LinesArePrinted, BindInv
  <2>2. CASE \E w \in newIds : w[2] = id /\ w[1] = m
    BY <2>2 DEF BindInv
  <2>3. QED
    BY <2>1, <2>2 DEF InForce
<1>4. QED
  BY <1>1, <1>2, <1>3, Inductive, PTL DEF Spec
=============================================================================
