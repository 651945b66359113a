---------------------------- MODULE FirmwareProofs ----------------------------
(***************************************************************************)
(* The firmware resolver for any names, any lists of them and any changes  *)
(* of the disk between its calls.                                          *)
(***************************************************************************)
EXTENDS Firmware, MinLemmas, SequenceTheorems

\* A check is of an accepted name, and the code knows of a failure.
CheckOK ==
    Checking =>
        /\ todo # <<>> /\ Head(todo) \in Valid
        /\ indeterminate = failed

(***************************************************************************)
(* What has been looked for so far: a form that was passed and is inside   *)
(* now came there behind the probe; a path that existed and is gone has    *)
(* changed.                                                                *)
(***************************************************************************)
SeenOK ==
    Checking =>
        /\ NoForm(disk[Head(todo)]) => gap
        /\ ~failed /\ ~linked =>
              \A i \in 1..(probe - 1) :
                  disk[Head(todo)][Forms[i]] = "inside" => behind /\ Forms[i] \in changed
        /\ pc = "realpath" /\ Here = "absent" => Forms[probe] \in changed

IInv ==
    /\ TypeOK
    /\ CheckOK
    /\ SeenOK
    /\ AbsentIsReal
    /\ FailureIsNeverAbsence
    /\ SteadyStatusIsExact
    /\ FoundIsReal

-----------------------------------------------------------------------------
(***************************************************************************)
(* Forms and statuses.                                                     *)
(***************************************************************************)
LEMMA FormsAre ==
    /\ Len(Forms) = 3
    /\ Forms[1] = "raw" /\ Forms[2] = ".zst" /\ Forms[3] = ".xz"
    /\ \A i \in 1..3 : Forms[i] \in FormNames
BY DEF Forms, FormNames

LEMMA PackagedTyped ==
    ASSUME NEW name
    PROVE  Packaged(name) \in BOOLEAN
<1>1. Owner(FileOf[name]) = None \/ Owner(FileOf[name]) \in Entry
  <2> DEFINE hits == {i \in DOMAIN Kb : Declares(Kb[i], FileOf[name])}
  <2>1. CASE hits = {}
    BY <2>1 DEF Owner, FirstOf
  <2>2. CASE hits # {}
    <3>1. hits \subseteq Nat
      BY KbTyped
    <3>2. Min(hits) \in hits
      BY <2>2, <3>1, MinProps
    <3>3. Kb[Min(hits)] \in Entry
      BY <3>2, KbTyped
    <3>4. QED
      BY <2>2, <3>3 DEF Owner, FirstOf
  <2>3. QED
    BY <2>1, <2>2
<1>2. QED
  BY <1>1 DEF Packaged, Entry

StatusOf(name, installed, form) ==
    [ name |-> name, installed |-> installed, form |-> form,
      failures |-> Failures(name), packaged |-> Packaged(name) ]

LEMMA StatusTyped ==
    ASSUME NEW name \in Names, NEW installed \in {"true", "false", "unknown"},
           NEW form \in FormNames \cup {None}
    PROVE  StatusOf(name, installed, form) \in Status
<1>1. Failures(name) \subseteq Nat
  BY FirmwareTyped DEF Failures
<1>2. Packaged(name) \in BOOLEAN
  BY PackagedTyped
<1>3. QED
  BY <1>1, <1>2 DEF StatusOf, Status

\* An answer appends one status, which is then the one given last.
LEMMA AnswerGives ==
    ASSUME TypeOK, todo # <<>>,
           NEW installed \in {"true", "false", "unknown"},
           NEW form \in FormNames \cup {None},
           Answer(installed, form)
    PROVE  /\ pc' = "next"
           /\ todo' \in Seq(Names)
           /\ statuses' \in Seq(Status) /\ statuses' # <<>>
           /\ Given' = StatusOf(Head(todo), installed, form)
<1>1. todo \in Seq(Names) /\ statuses \in Seq(Status)
  BY DEF TypeOK
<1>2. Head(todo) \in Names /\ Tail(todo) \in Seq(Names)
  BY <1>1, HeadTailProperties
<1>3. StatusOf(Head(todo), installed, form) \in Status
  BY <1>2, StatusTyped
<1>4. statuses' = Append(statuses, StatusOf(Head(todo), installed, form))
  BY DEF Answer, StatusOf
<1>5. QED
  BY <1>1, <1>2, <1>3, <1>4, AppendProperties DEF Answer, Given

-----------------------------------------------------------------------------
(***************************************************************************)
(* The end of a check.                                                     *)
(***************************************************************************)
\* What the four promises need of an answer about the name checked.
Justified(installed, form) ==
    /\ ~linked /\ installed = "false" => gap \/ behind
    /\ failed' => installed # "false"
    /\ installed = "unknown" => failed'
    /\ ~linked /\ changed = {} /\ ~failed' =>
          LET best == Preferred(disk[Head(todo)])
          IN  /\ form = best
              /\ installed = IF best = None THEN "false" ELSE "true"
    /\ installed = "true" =>
          form \in FormNames /\ (form \in changed \/ disk[Head(todo)][form] = "inside")

LEMMA AnswerKeeps ==
    ASSUME IInv, Checking,
           NEW installed \in {"true", "false", "unknown"},
           NEW form \in FormNames \cup {None},
           Answer(installed, form), Justified(installed, form),
           UNCHANGED <<diskVars, probe, indeterminate, gap, behind, changed>>,
           failed' \in BOOLEAN
    PROVE  IInv'
<1>1. /\ pc' = "next" /\ todo' \in Seq(Names) /\ statuses' \in Seq(Status)
      /\ Given' = StatusOf(Head(todo), installed, form)
  BY AnswerGives DEF IInv, CheckOK
<1>2. TypeOK'
  BY <1>1 DEF IInv, TypeOK, diskVars
<1>3. CheckOK' /\ SeenOK'
  BY <1>1 DEF CheckOK, SeenOK, Checking
<1>4. /\ Given'.installed = installed /\ Given'.form = form /\ Given'.name = Head(todo)
  BY <1>1 DEF StatusOf
<1>5. AbsentIsReal' /\ FailureIsNeverAbsence'
  BY <1>4 DEF AbsentIsReal, FailureIsNeverAbsence, Justified, diskVars
<1>6. SteadyStatusIsExact' /\ FoundIsReal'
  BY <1>4 DEF SteadyStatusIsExact, FoundIsReal, Justified, diskVars
<1>7. QED
  BY <1>2, <1>3, <1>5, <1>6 DEF IInv

(***************************************************************************)
(* The promises survive a step that answers nothing.                       *)
(***************************************************************************)
LEMMA NoAnswer ==
    ASSUME IInv, pc' # "next"
    PROVE  AbsentIsReal' /\ FailureIsNeverAbsence' /\ SteadyStatusIsExact' /\ FoundIsReal'
BY DEF AbsentIsReal, FailureIsNeverAbsence, SteadyStatusIsExact, FoundIsReal, Answered

(***************************************************************************)
(* A form that was looked for in vain: it is not there, or the call failed.*)
(***************************************************************************)
LEMMA MissedKeeps ==
    ASSUME IInv, Checking, NEW unsure \in BOOLEAN, Missed(unsure),
           UNCHANGED <<diskVars, gap, behind, changed>>,
           failed' \in BOOLEAN, unsure = failed', failed => failed',
           failed' \/ linked \/ Here # "inside"
    PROVE  IInv'
<1>1. probe \in 1..3 /\ todo # <<>> /\ Head(todo) \in Valid
  BY DEF IInv, TypeOK, CheckOK
<1>2. ~failed' /\ ~linked =>
          \A i \in 1..probe :
              disk[Head(todo)][Forms[i]] = "inside" => behind /\ Forms[i] \in changed
  BY <1>1 DEF IInv, SeenOK, Here
<1>3. CASE probe < 3
  <2>1. /\ probe' = probe + 1 /\ pc' = "exists" /\ indeterminate' = unsure
        /\ UNCHANGED <<todo, statuses>>
    BY <1>3, FormsAre DEF Missed
  <2>2. TypeOK'
    BY <1>1, <1>3, <2>1 DEF IInv, TypeOK, diskVars
  <2>3. CheckOK'
    BY <1>1, <2>1 DEF CheckOK
  <2>4. SeenOK'
    <3>1. probe' - 1 = probe
      BY <1>1, <2>1
    <3>2. NoForm(disk[Head(todo)]) => gap
      BY DEF IInv, SeenOK
    <3>3. QED
      BY <1>2, <2>1, <3>1, <3>2 DEF SeenOK, diskVars, NoForm
  <2>5. QED
    BY <2>1, <2>2, <2>3, <2>4, NoAnswer DEF IInv
<1>4. CASE probe = 3
  <2> DEFINE installed == IF unsure THEN "unknown" ELSE "false"
  <2>1. Answer(installed, None) /\ UNCHANGED <<probe, indeterminate>>
    BY <1>4, FormsAre DEF Missed
  <2>2. ~failed' /\ ~linked /\ ~(gap \/ behind) => FALSE
    <3>1. SUFFICES ASSUME ~failed', ~linked, ~gap, ~behind PROVE FALSE
      OBVIOUS
    <3>2. \A i \in 1..3 : disk[Head(todo)][Forms[i]] # "inside"
      BY <1>2, <1>4, <3>1
    <3>3. NoForm(disk[Head(todo)])
      BY <3>2, FormsAre DEF NoForm, FormNames
    <3>4. QED
      BY <3>1, <3>3 DEF IInv, SeenOK
  <2>3. ~linked /\ changed = {} /\ ~failed' => Preferred(disk[Head(todo)]) = None
    <3>1. SUFFICES ASSUME changed = {}, ~failed', ~linked
                   PROVE  Preferred(disk[Head(todo)]) = None
      OBVIOUS
    <3>2. \A i \in 1..3 : disk[Head(todo)][Forms[i]] # "inside"
      BY <1>2, <1>4, <3>1
    <3>3. QED
      BY <3>2, FormsAre DEF Preferred
  <2>4. Justified(installed, None)
    BY <2>2, <2>3 DEF Justified
  <2>5. installed \in {"true", "false", "unknown"}
    OBVIOUS
  <2> HIDE DEF installed
  <2>6. QED
    BY <2>1, <2>4, <2>5, AnswerKeeps
<1>5. QED
  BY <1>1, <1>3, <1>4

-----------------------------------------------------------------------------
(***************************************************************************)
(* One step.                                                               *)
(***************************************************************************)
LEMMA OutsideCheck ==
    ASSUME IInv, (\E request \in Requests : Resolve(request)) \/ Return
    PROVE  IInv'
<1>1. TypeOK'
  <2>1. CASE Return
    BY <2>1 DEF IInv, TypeOK, Return, diskVars, historyVars
  <2>2. ASSUME NEW request \in Requests, Resolve(request) PROVE TypeOK'
    <3>1. request \in Seq(Names) /\ <<>> \in Seq(Status)
      BY FirmwareTyped
    <3>2. QED
      BY <2>2, <3>1 DEF IInv, TypeOK, Resolve, diskVars, historyVars
  <2>3. QED
    BY <2>1, <2>2
<1>2. CheckOK' /\ SeenOK'
  BY DEF CheckOK, SeenOK, Checking, Resolve, Return
<1>3. ~Answered'
  BY DEF Answered, Resolve, Return
<1>4. QED
  BY <1>1, <1>2, <1>3
     DEF IInv, AbsentIsReal, FailureIsNeverAbsence, SteadyStatusIsExact, FoundIsReal

LEMMA RejectStep ==
    ASSUME IInv, Reject
    PROVE  IInv'
<1>1. todo # <<>> /\ Head(todo) \notin Valid /\ Answer("unknown", None)
      /\ UNCHANGED <<diskVars, probe, indeterminate, historyVars>>
  BY DEF Reject
<1>2. /\ pc' = "next" /\ todo' \in Seq(Names) /\ statuses' \in Seq(Status)
      /\ Given' = StatusOf(Head(todo), "unknown", None)
  BY <1>1, AnswerGives DEF IInv
<1>3. TypeOK'
  BY <1>1, <1>2 DEF IInv, TypeOK, diskVars, historyVars
<1>4. CheckOK' /\ SeenOK'
  BY <1>2 DEF CheckOK, SeenOK, Checking
<1>5. ~Answered'
  BY <1>1, <1>2 DEF Answered, Given, StatusOf
<1>6. QED
  BY <1>3, <1>4, <1>5
     DEF IInv, AbsentIsReal, FailureIsNeverAbsence, SteadyStatusIsExact, FoundIsReal

LEMMA BeginStep ==
    ASSUME IInv, Begin
    PROVE  IInv'
<1>1. /\ todo # <<>> /\ Head(todo) \in Valid
      /\ pc' = "exists" /\ probe' = 1
      /\ indeterminate' = FALSE /\ failed' = FALSE /\ behind' = FALSE /\ changed' = {}
      /\ gap' = NoForm(disk[Head(todo)])
      /\ UNCHANGED <<disk, linked, churn, todo, statuses>>
  BY DEF Begin, diskVars
<1>2. TypeOK'
  <2>1. gap' \in BOOLEAN
    BY <1>1 DEF NoForm
  <2>2. failed' \in BOOLEAN /\ behind' \in BOOLEAN /\ indeterminate' \in BOOLEAN
    BY <1>1, Zenon
  <2>3. probe' \in 1..3 /\ changed' \subseteq FormNames
    <3>1. probe' = 1 /\ changed' = {}
      BY <1>1
    <3>2. QED
      BY <3>1
  <2>4. /\ disk' = disk /\ linked' = linked /\ churn' = churn /\ todo' = todo
        /\ statuses' = statuses /\ pc' = "exists"
    BY <1>1
  <2>5. QED
    BY <2>1, <2>2, <2>3, <2>4 DEF IInv, TypeOK
<1>3. CheckOK'
  BY <1>1 DEF CheckOK
<1>4. SeenOK'
  BY <1>1 DEF SeenOK, NoForm
<1>5. QED
  BY <1>1, <1>2, <1>3, <1>4, NoAnswer DEF IInv

LEMMA HereTyped ==
    ASSUME IInv, Checking
    PROVE  probe \in 1..3 /\ Forms[probe] \in FormNames /\ Here \in Presence
BY FormsAre DEF IInv, TypeOK, CheckOK, Here

LEMMA LookStep ==
    ASSUME IInv, LookExists \/ LookRealpath \/ CallFails
    PROVE  IInv'
<1>1. Checking
  BY DEF LookExists, LookRealpath, CallFails, Checking
<1>2. indeterminate = failed /\ failed \in BOOLEAN /\ todo # <<>> /\ Head(todo) \in Valid
  BY <1>1 DEF IInv, TypeOK, CheckOK
<1>3. CASE LookExists /\ Here = "absent"
  <2>1. Missed(indeterminate) /\ UNCHANGED <<diskVars, historyVars>>
    BY <1>3 DEF LookExists
  <2>2. QED
    BY <1>1, <1>2, <1>3, <2>1, MissedKeeps DEF historyVars
<1>4. CASE LookExists /\ Here # "absent"
  <2>1. /\ pc = "exists" /\ pc' = "realpath"
        /\ UNCHANGED <<disk, linked, churn, todo, probe, indeterminate, statuses, failed, gap, behind, changed>>
    BY <1>4 DEF LookExists, diskVars, historyVars
  <2>2. TypeOK'
    BY <2>1 DEF IInv, TypeOK
  <2>3. CheckOK'
    BY <1>2, <2>1 DEF CheckOK
  <2>4. SeenOK'
    BY <1>1, <1>4, <2>1 DEF IInv, SeenOK, Here, NoForm
  <2>5. QED
    BY <2>1, <2>2, <2>3, <2>4, NoAnswer DEF IInv
<1>5. CASE LookRealpath /\ Contained
  <2>1. /\ pc = "realpath" /\ Answer("true", Forms[probe])
        /\ UNCHANGED <<diskVars, historyVars, probe, indeterminate>>
    BY <1>5 DEF LookRealpath
  <2>2. ~linked /\ Here # "outside" /\ Here \in Presence /\ Forms[probe] \in FormNames
        /\ probe \in 1..3
    BY <1>1, <1>5, HereTyped DEF Contained
  <2>3. Here = "inside" \/ Forms[probe] \in changed
    BY <1>1, <2>1, <2>2 DEF IInv, SeenOK, Presence
  <2>4. changed = {} /\ ~failed =>
            /\ Preferred(disk[Head(todo)]) = Forms[probe]
            /\ Preferred(disk[Head(todo)]) # None
    <3>1. SUFFICES ASSUME changed = {}, ~failed
                   PROVE  /\ Preferred(disk[Head(todo)]) = Forms[probe]
                          /\ Preferred(disk[Head(todo)]) # None
      OBVIOUS
    <3>2. disk[Head(todo)][Forms[probe]] = "inside"
      BY <2>3, <3>1 DEF Here
    <3>3. \A i \in 1..(probe - 1) : disk[Head(todo)][Forms[i]] # "inside"
      BY <1>1, <2>2, <3>1 DEF IInv, SeenOK
    <3>4. Preferred(disk[Head(todo)]) = Forms[probe]
      BY <2>2, <3>2, <3>3, FormsAre DEF Preferred
    <3>5. QED
      BY <2>2, <3>4, FormsAreNames
  <2>5. Justified("true", Forms[probe])
    BY <2>1, <2>2, <2>3, <2>4 DEF Justified, historyVars, Here
  <2>6. QED
    BY <1>1, <1>2, <2>1, <2>2, <2>5, AnswerKeeps DEF historyVars
<1>6. CASE LookRealpath /\ ~Contained
  <2>1. Missed(indeterminate) /\ UNCHANGED <<diskVars, historyVars>>
    BY <1>6 DEF LookRealpath
  <2>2. linked \/ Here # "inside"
    BY <1>6 DEF Contained
  <2>3. QED
    BY <1>1, <1>2, <2>1, <2>2, MissedKeeps DEF historyVars
<1>7. CASE CallFails
  <2>1. Missed(TRUE) /\ failed' = TRUE /\ UNCHANGED <<diskVars, gap, behind, changed>>
    BY <1>7 DEF CallFails
  <2>2. QED
    BY <1>1, <2>1, MissedKeeps
<1>8. QED
  BY <1>3, <1>4, <1>5, <1>6, <1>7

LEMMA DiskStep ==
    ASSUME IInv, NEW name \in Valid, NEW f \in FormNames, NEW presence \in Presence,
           SetForm(name, f, presence)
    PROVE  IInv'
<1>1. /\ churn' = churn + 1 /\ churn < MaxChurn
      /\ disk' = [disk EXCEPT ![name][f] = presence]
      /\ Watch(name, f, presence)
      /\ UNCHANGED <<linked, pc, todo, probe, indeterminate, statuses, failed>>
  BY DEF SetForm
<1>2. disk' \in [Valid -> [FormNames -> Presence]]
  BY <1>1 DEF IInv, TypeOK
<1>3. /\ \A n \in Valid, g \in FormNames :
             disk'[n][g] = IF n = name /\ g = f THEN presence ELSE disk[n][g]
      /\ disk'[name] = [disk[name] EXCEPT ![f] = presence]
  BY <1>1 DEF IInv, TypeOK
<1>4. changed' \subseteq FormNames /\ gap' \in BOOLEAN /\ behind' \in BOOLEAN
  BY <1>1 DEF IInv, TypeOK, Watch
<1>5. TypeOK'
  <2>1. churn' \in 0..MaxChurn
    BY <1>1, FirmwareTyped DEF IInv, TypeOK
  <2>2. QED
    BY <1>1, <1>2, <1>4, <2>1 DEF IInv, TypeOK
<1>6. CheckOK'
  BY <1>1 DEF IInv, CheckOK, Checking
<1>7. changed \subseteq changed' /\ (gap => gap') /\ (behind => behind')
  BY <1>1 DEF Watch
<1>8. SeenOK'
  <2> SUFFICES ASSUME Checking PROVE SeenOK'
    BY <1>1 DEF SeenOK, Checking
  <2>1. /\ Head(todo) \in Valid /\ probe \in 1..3 /\ Forms[probe] \in FormNames
        /\ \A i \in 1..(probe - 1) : i \in 1..3 /\ Forms[i] \in FormNames
    BY HereTyped, FormsAre DEF IInv, CheckOK
  <2>2. CASE name # Head(todo)
    <3>1. disk'[Head(todo)] = disk[Head(todo)]
      BY <1>1, <2>1, <2>2 DEF IInv, TypeOK
    <3>2. QED
      BY <1>1, <1>7, <3>1 DEF IInv, SeenOK, Checking, Here, NoForm
  <2>3. CASE name = Head(todo)
    <3>1. /\ changed' = changed \cup {f}
          /\ behind' = (behind \/ (presence = "inside" /\ Passed(f)))
          /\ gap' = (gap \/ NoForm(disk'[name]))
      BY <1>1, <1>3, <2>3 DEF Watch, Subject
    <3>2. NoForm(disk'[Head(todo)]) => gap'
      BY <2>3, <3>1 DEF NoForm
    <3>3. ASSUME ~failed, ~linked, NEW i \in 1..(probe - 1),
                 disk'[Head(todo)][Forms[i]] = "inside"
          PROVE  behind' /\ Forms[i] \in changed'
      <4>1. CASE Forms[i] = f
        BY <1>3, <2>1, <2>3, <3>1, <3>3, <4>1 DEF Passed
      <4>2. CASE Forms[i] # f
        BY <1>3, <2>1, <3>1, <3>3, <4>2 DEF IInv, SeenOK
      <4>3. QED
        BY <4>1, <4>2
    <3>4. pc = "realpath" /\ disk'[Head(todo)][Forms[probe]] = "absent"
             => Forms[probe] \in changed'
      BY <1>3, <2>1, <3>1 DEF IInv, SeenOK, Here
    <3>5. QED
      BY <1>1, <3>2, <3>3, <3>4 DEF SeenOK, Here
  <2>4. QED
    BY <2>2, <2>3
<1>9. /\ AbsentIsReal' /\ FailureIsNeverAbsence'
  BY <1>1, <1>7 DEF IInv, AbsentIsReal, FailureIsNeverAbsence, Answered, Given
<1>10. SteadyStatusIsExact' /\ FoundIsReal'
  <2>1. SUFFICES ASSUME Answered PROVE SteadyStatusIsExact' /\ FoundIsReal'
    BY <1>1 DEF SteadyStatusIsExact, FoundIsReal, Answered
  <2>2. ~Checking /\ Given' = Given /\ Given.name \in Valid /\ Given \in Status
    <3>1. statuses \in Seq(Status) /\ statuses # <<>>
      BY <2>1 DEF Answered, IInv, TypeOK
    <3>2. statuses[Len(statuses)] \in Status
      BY <3>1
    <3>3. QED
      BY <1>1, <2>1, <3>2 DEF Answered, Checking, Given
  <2>3. CASE name = Given.name
    <3>1. changed' = changed \cup {f}
      BY <1>1, <2>1, <2>2, <2>3 DEF Watch, Subject, Answered, Given
    <3>2. Given.installed = "true" =>
              /\ Given.form \in FormNames
              /\ Given.form \in changed' \/ disk'[Given.name][Given.form] = "inside"
      <4>0. Given.installed = "true" => Given.form \in FormNames
        BY <2>1 DEF IInv, FoundIsReal
      <4>1. SUFFICES ASSUME Given.installed = "true", Given.form \notin changed',
                            Given.form \in FormNames
                     PROVE  disk'[Given.name][Given.form] = "inside"
        BY <4>0
      <4>2. Given.form # f /\ disk[Given.name][Given.form] = "inside"
        BY <2>1, <3>1, <4>1 DEF IInv, FoundIsReal
      <4>3. QED
        BY <1>1, <2>2, <4>2 DEF IInv, TypeOK
    <3>3. QED
      BY <2>2, <3>1, <3>2 DEF SteadyStatusIsExact, FoundIsReal
  <2>4. CASE name # Given.name
    <3>1. disk'[Given.name] = disk[Given.name]
      BY <1>1, <2>2, <2>4 DEF IInv, TypeOK
    <3>2. QED
      BY <1>1, <1>7, <2>1, <2>2, <3>1 DEF IInv, SteadyStatusIsExact, FoundIsReal
  <2>5. QED
    BY <2>3, <2>4
<1>11. QED
  BY <1>5, <1>6, <1>8, <1>9, <1>10 DEF IInv

LEMMA InductiveStep == IInv /\ [Next]_vars => IInv'
<1> SUFFICES ASSUME IInv, [Next]_vars PROVE IInv'
  OBVIOUS
<1>1. CASE UNCHANGED vars
  BY <1>1 DEF vars, diskVars, historyVars, IInv, TypeOK, CheckOK, SeenOK, AbsentIsReal,
              FailureIsNeverAbsence, SteadyStatusIsExact, FoundIsReal, Answered, Given,
              Checking, Here
<1>2. CASE Next
  BY <1>2, OutsideCheck, RejectStep, BeginStep, LookStep, DiskStep DEF Next
<1>3. QED
  BY <1>1, <1>2

LEMMA Inductive == Spec => []IInv
<1>1. Init => IInv
  <2> SUFFICES ASSUME Init PROVE IInv
    OBVIOUS
  <2>1. 0 \in 0..MaxChurn /\ <<>> \in Seq(Names) /\ <<>> \in Seq(Status)
    BY FirmwareTyped
  <2>2. TypeOK
    <3>1. probe \in 1..3 /\ changed \subseteq FormNames /\ linked \in BOOLEAN
      BY DEF Init
    <3>2. /\ indeterminate \in BOOLEAN /\ failed \in BOOLEAN /\ gap \in BOOLEAN
          /\ behind \in BOOLEAN
      BY DEF Init
    <3>3. QED
      BY <2>1, <3>1, <3>2 DEF Init, TypeOK
  <2>3. QED
    BY <2>2 DEF Init, IInv, CheckOK, SeenOK, AbsentIsReal, FailureIsNeverAbsence,
                SteadyStatusIsExact, FoundIsReal, Answered, Checking
<1>2. QED
  BY <1>1, InductiveStep, PTL DEF Spec

-----------------------------------------------------------------------------
(***************************************************************************)
(* Theorems.                                                               *)
(***************************************************************************)
(***************************************************************************)
(* Every variable keeps its type: the resolver never looks for a fourth    *)
(* form and answers with statuses only.                                    *)
(***************************************************************************)
THEOREM TypeCorrect == Spec => []TypeOK
<1>1. IInv => TypeOK
  BY DEF IInv
<1>2. QED
  BY <1>1, Inductive, PTL

(***************************************************************************)
(* Below a root that is not a link, a file that was on the disk in some    *)
(* form at every moment of its check, and was not moved into a form        *)
(* already looked for, is never said to be absent.                         *)
(***************************************************************************)
THEOREM AbsentIsRealHolds == Spec => []AbsentIsReal
<1>1. IInv => AbsentIsReal
  BY DEF IInv
<1>2. QED
  BY <1>1, Inductive, PTL

(***************************************************************************)
(* A call of the host that fails never becomes "absent", and the answer    *)
(* "cannot be told" has a failed call in its own check.                    *)
(***************************************************************************)
THEOREM FailureIsNeverAbsenceHolds == Spec => []FailureIsNeverAbsence
<1>1. IInv => FailureIsNeverAbsence
  BY DEF IInv
<1>2. QED
  BY <1>1, Inductive, PTL

(***************************************************************************)
(* Below a root that is not a link, an undisturbed check answers as one    *)
(* look at the disk would.                                                 *)
(***************************************************************************)
THEOREM SteadyStatusIsExactHolds == Spec => []SteadyStatusIsExact
<1>1. IInv => SteadyStatusIsExact
  BY DEF IInv
<1>2. QED
  BY <1>1, Inductive, PTL

(***************************************************************************)
(* A form that is reported and did not change since its check began is     *)
(* inside the firmware root.                                               *)
(***************************************************************************)
THEOREM FoundIsRealHolds == Spec => []FoundIsReal
<1>1. IInv => FoundIsReal
  BY DEF IInv
<1>2. QED
  BY <1>1, Inductive, PTL

(***************************************************************************)
(* The advice made of the status sends nobody for a file that was there to *)
(* be seen below a root that is no link, and lets no missing file pass.    *)
(***************************************************************************)
THEOREM AdviceIsJustifiedHolds == Spec => []AdviceIsJustified
<1>1. ASSUME IInv, Answered
      PROVE  /\ Advice(Given) # "no_action" => gap \/ behind \/ failed \/ linked
             /\ changed = {} /\ NoForm(disk[Given.name]) => Advice(Given) # "no_action"
  <2>1. Given \in Status
    <3>1. statuses \in Seq(Status) /\ statuses # <<>>
      BY <1>1 DEF Answered, IInv, TypeOK
    <3>2. statuses[Len(statuses)] \in Status
      BY <3>1
    <3>3. QED
      BY <3>2 DEF Given
  <2>2. Given.installed \in {"true", "false", "unknown"}
    BY <2>1 DEF Status
  <2>3. Given.installed # "true" <=> Advice(Given) # "no_action"
    BY DEF Advice
  <2>4. Given.installed # "true" => gap \/ behind \/ failed \/ linked
    BY <1>1, <2>2 DEF IInv, AbsentIsReal, FailureIsNeverAbsence
  <2>5. ASSUME changed = {}, NoForm(disk[Given.name]), Given.installed = "true" PROVE FALSE
    <3>1. Given.form \in FormNames /\ disk[Given.name][Given.form] = "inside"
      BY <1>1, <2>5 DEF IInv, FoundIsReal
    <3>2. QED
      BY <2>5, <3>1 DEF NoForm
  <2>6. QED
    BY <2>3, <2>4, <2>5
<1>2. IInv => AdviceIsJustified
  BY <1>1 DEF AdviceIsJustified
<1>3. QED
  BY <1>2, Inductive, PTL
=============================================================================
