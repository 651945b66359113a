-------------------------------- MODULE Firmware --------------------------------
(***************************************************************************)
(* The firmware resolver: is each file a module asks for on the disk?  A   *)
(* file may be there raw or in one of two compressed forms, and the forms  *)
(* are looked for one after the other, each by two calls of the host: does *)
(* the path exist, and does it lead to a place below the firmware root?    *)
(* Package managers write, recompress and remove the files meanwhile.      *)
(***************************************************************************)
EXTENDS Classifier

CONSTANTS
    Names,      \* firmware names, as a module or a line of the log spells them
    Valid,      \* those the name grammar accepts
    FileOf,     \* name -> the declared file of the same base name
    Requests,   \* the lists of names asked for
    Log,        \* the names in the failure lines of the log, in log order
    MayFail,    \* calls of the host can fail: on injected hosts only, since the
                \* real exists and realpath answer whatever the system says
    MaxChurn    \* bound on the changes of the disk

ASSUME FirmwareTyped ==
    /\ Valid \subseteq Names
    /\ FileOf \in [Names -> Firmware]
    /\ Requests \subseteq Seq(Names)
    /\ Log \in Seq(Names)
    /\ MayFail \in BOOLEAN
    /\ MaxChurn \in Nat

\* A fault, to test the properties with: .xz is forgotten.
Forms_two == <<"raw", ".zst">>

\* A fault, to test the properties with: the compressed forms are preferred.
Forms_rawLast == <<".zst", ".xz", "raw">>

\* The forms, in the order they are looked for.
Forms == <<"raw", ".zst", ".xz">>

\* What is at a path; "outside" is a link that leads out of the firmware root.
Presence == {"absent", "inside", "outside"}

VARIABLES
    disk,           \* valid name -> form -> what is at its path
    linked,         \* the root itself is reached by a link (/lib -> usr/lib)
    churn,          \* changes of the disk so far
    pc,             \* next step of the resolver
    todo,           \* names not answered yet, the one being checked first
    probe,          \* index of the form being looked for
    indeterminate,  \* a call of the host failed during this check
    statuses,       \* the answers so far
    \* history of the check of one name
    failed,         \* a call of the host failed
    gap,            \* at some moment no form was inside
    behind,         \* a form came inside after it was looked for
    changed         \* forms changed since the check began, and after it

diskVars    == <<disk, linked, churn>>
historyVars == <<failed, gap, behind, changed>>
vars        == <<diskVars, pc, todo, probe, indeterminate, statuses, historyVars>>

FormNames == {"raw", ".zst", ".xz"}

ASSUME FormsAreNames == None \notin FormNames

\* FirmwareStatus; installed is True, False or None in the code.
Status ==
    [ name      : Names,
      installed : {"true", "false", "unknown"},
      form      : FormNames \cup {None},
      failures  : SUBSET Nat,        \* lines of the log about this file
      packaged  : BOOLEAN ]          \* the knowledge base names its package

TypeOK ==
    /\ disk          \in [Valid -> [FormNames -> Presence]]
    /\ linked        \in BOOLEAN
    /\ churn         \in 0..MaxChurn
    /\ pc            \in {"idle", "next", "exists", "realpath"}
    /\ todo          \in Seq(Names)
    /\ probe         \in 1..3
    /\ indeterminate \in BOOLEAN
    /\ statuses      \in Seq(Status)
    /\ failed        \in BOOLEAN
    /\ gap           \in BOOLEAN
    /\ behind        \in BOOLEAN
    /\ changed       \subseteq FormNames

Init ==
    /\ disk \in [Valid -> [FormNames -> Presence]]
    /\ linked \in BOOLEAN
    /\ churn = 0
    /\ pc = "idle"
    /\ todo = <<>>
    /\ probe = 1
    /\ indeterminate = FALSE
    /\ statuses = <<>>
    /\ failed = FALSE /\ gap = FALSE /\ behind = FALSE /\ changed = {}

-----------------------------------------------------------------------------
(***************************************************************************)
(* The disk.                                                               *)
(***************************************************************************)
Checking == pc \in {"exists", "realpath"}

NoForm(forms) == \A f \in FormNames : forms[f] # "inside"

\* A form that was looked for before the one being looked for.
Passed(f) == \E i \in 1..(probe - 1) : Forms[i] = f

\* The name being checked, and then the name answered last.
Subject(name) ==
    IF Checking THEN name = Head(todo)
    ELSE statuses # <<>> /\ name = statuses[Len(statuses)].name

Watch(name, f, presence) ==
    /\ changed' = IF Subject(name) THEN changed \cup {f} ELSE changed
    /\ IF Checking /\ Subject(name)
       THEN /\ behind' = (behind \/ (presence = "inside" /\ Passed(f)))
            /\ gap' = (gap \/ NoForm([disk[name] EXCEPT ![f] = presence]))
       ELSE UNCHANGED <<gap, behind>>

SetForm(name, f, presence) ==
    /\ churn < MaxChurn
    /\ presence # disk[name][f]
    /\ churn' = churn + 1
    /\ disk' = [disk EXCEPT ![name][f] = presence]
    /\ Watch(name, f, presence)
    /\ UNCHANGED <<linked, pc, todo, probe, indeterminate, statuses, failed>>

-----------------------------------------------------------------------------
(***************************************************************************)
(* resolve_module_firmware: one status for each name, in order.            *)
(***************************************************************************)
Resolve(request) ==
    /\ pc = "idle"
    /\ pc' = "next"
    /\ todo' = request
    /\ statuses' = <<>>
    /\ UNCHANGED <<diskVars, probe, indeterminate, historyVars>>

Failures(name) == {i \in DOMAIN Log : FileOf[Log[i]] = FileOf[name]}

Packaged(name) == Owner(FileOf[name]) # None /\ Owner(FileOf[name]).packaged

Answer(installed, form) ==
    /\ pc' = "next"
    /\ todo' = Tail(todo)
    /\ statuses' = Append(statuses,
           [ name |-> Head(todo), installed |-> installed, form |-> form,
             failures |-> Failures(Head(todo)), packaged |-> Packaged(Head(todo)) ])

Return ==
    /\ pc = "next" /\ todo = <<>>
    /\ pc' = "idle"
    /\ UNCHANGED <<diskVars, todo, probe, indeterminate, statuses, historyVars>>

\* A name the grammar rejects is never looked for.
Reject ==
    /\ pc = "next" /\ todo # <<>> /\ Head(todo) \notin Valid
    /\ Answer("unknown", None)
    /\ UNCHANGED <<diskVars, probe, indeterminate, historyVars>>

\* A fault, to test the properties with: a failure is remembered from the name before.
Begin_noReset ==
    /\ pc = "next" /\ todo # <<>> /\ Head(todo) \in Valid
    /\ pc' = "exists"
    /\ probe' = 1
    /\ failed' = FALSE /\ behind' = FALSE /\ changed' = {}
    /\ gap' = NoForm(disk[Head(todo)])
    /\ UNCHANGED <<diskVars, todo, indeterminate, statuses>>

Begin ==
    /\ pc = "next" /\ todo # <<>> /\ Head(todo) \in Valid
    /\ pc' = "exists"
    /\ probe' = 1
    /\ indeterminate' = FALSE
    /\ failed' = FALSE /\ behind' = FALSE /\ changed' = {}
    /\ gap' = NoForm(disk[Head(todo)])
    /\ UNCHANGED <<diskVars, todo, statuses>>

-----------------------------------------------------------------------------
(***************************************************************************)
(* check_firmware_presence for one accepted name.                          *)
(***************************************************************************)
Here == disk[Head(todo)][Forms[probe]]

\* A fault, to test the properties with: one form too many is looked for.
Missed_past(unsure) ==
    IF probe <= Len(Forms)
    THEN /\ probe' = probe + 1
         /\ pc' = "exists"
         /\ indeterminate' = unsure
         /\ UNCHANGED <<todo, statuses>>
    ELSE /\ Answer(IF unsure THEN "unknown" ELSE "false", None)
         /\ UNCHANGED <<probe, indeterminate>>

\* The form is not there, or could not be looked for: on to the next one.
Missed(unsure) ==
    IF probe < Len(Forms)
    THEN /\ probe' = probe + 1
         /\ pc' = "exists"
         /\ indeterminate' = unsure
         /\ UNCHANGED <<todo, statuses>>
    ELSE /\ Answer(IF unsure THEN "unknown" ELSE "false", None)
         /\ UNCHANGED <<probe, indeterminate>>

\* exists
LookExists ==
    /\ pc = "exists"
    /\ IF Here = "absent" THEN Missed(indeterminate)
       ELSE pc' = "realpath" /\ UNCHANGED <<todo, probe, indeterminate, statuses>>
    /\ UNCHANGED <<diskVars, historyVars>>

\* A fault, to test the properties with: any form that exists will do.
Contained_not == TRUE

(***************************************************************************)
(* The prefix test.  A path that is gone by now resolves to itself, below  *)
(* the root; below a root that is a link nothing resolves to such a path.  *)
(***************************************************************************)
Contained == Here # "outside" /\ ~linked

\* resolve_realpath
LookRealpath ==
    /\ pc = "realpath"
    /\ IF Contained
       THEN Answer("true", Forms[probe]) /\ UNCHANGED <<probe, indeterminate>>
       ELSE Missed(indeterminate)
    /\ UNCHANGED <<diskVars, historyVars>>

\* Either call raises.
CallFails ==
    /\ MayFail /\ Checking
    /\ Missed(TRUE)
    /\ failed' = TRUE
    /\ UNCHANGED <<diskVars, gap, behind, changed>>

Next ==
    \/ \E request \in Requests : Resolve(request)
    \/ Return \/ Reject \/ Begin
    \/ LookExists \/ LookRealpath \/ CallFails
    \/ \E name \in Valid, f \in FormNames, presence \in Presence : SetForm(name, f, presence)

Spec == Init /\ [][Next]_vars

-----------------------------------------------------------------------------
\* A fault, to test the properties with: a file with a package is always to be installed.
Advice_packageFirst(status) ==
    IF status.packaged THEN "install_firmware_package"
    ELSE IF status.installed = "true" THEN "no_action" ELSE "manual_package_lookup"

\* recommend_firmware_action on a status of the resolver: what cannot be told
\* is treated like a missing file.
Advice(status) ==
    IF status.installed = "true" THEN "no_action"
    ELSE IF status.packaged THEN "install_firmware_package" ELSE "manual_package_lookup"

-----------------------------------------------------------------------------
(***************************************************************************)
(* Properties.  They are about the status given last, as long as the next  *)
(* check has not begun, and the history of the check that gave it.         *)
(***************************************************************************)
Answered == pc = "next" /\ statuses # <<>> /\ statuses[Len(statuses)].name \in Valid

Given == statuses[Len(statuses)]

(***************************************************************************)
(* Below a root that is not a link, "absent" is never said of a file that  *)
(* was there all the time: either there was a moment without any form of   *)
(* it, or it was moved into a form that had been looked for already (a     *)
(* file that is unpacked while it is looked for is the one kind of change  *)
(* that is missed).  Below a linked root it is said of every file, see     *)
(* LinkedRootIsTheSameTree.                                                *)
(***************************************************************************)
AbsentIsReal ==
    Answered /\ ~linked /\ Given.installed = "false" => gap \/ behind

(***************************************************************************)
(* A failing host is never taken for an absent file, and "cannot be told"  *)
(* is said only because a call failed during the check of that very name   *)
(* and no later form was found (check_firmware_presence, SPEC 22).         *)
(***************************************************************************)
FailureIsNeverAbsence ==
    Answered =>
        /\ failed => Given.installed # "false"
        /\ Given.installed = "unknown" => failed

\* The form to report: raw before .zst before .xz.
Preferred(forms) ==
    IF forms["raw"] = "inside" THEN "raw"
    ELSE IF forms[".zst"] = "inside" THEN ".zst"
    ELSE IF forms[".xz"] = "inside" THEN ".xz" ELSE None

(***************************************************************************)
(* When neither the disk nor the host disturbs the check, and the root is  *)
(* not a link, its six calls add up to one look: the first form inside the *)
(* root, and never one that a link leads out of it.                        *)
(***************************************************************************)
SteadyStatusIsExact ==
    Answered /\ ~linked /\ changed = {} /\ ~failed =>
        LET form == Preferred(disk[Given.name])
        IN  /\ Given.form = form
            /\ Given.installed = IF form = None THEN "false" ELSE "true"

(***************************************************************************)
(* A form that is reported was there when its check began or came during   *)
(* it, and one that did not change meanwhile is inside the root.           *)
(***************************************************************************)
FoundIsReal ==
    Answered /\ Given.installed = "true" =>
        /\ Given.form \in FormNames
        /\ Given.form \in changed \/ disk[Given.name][Given.form] = "inside"

(***************************************************************************)
(* What is advised on the status.  A person is sent for a file only when   *)
(* there was a moment without it, it was moved behind the check, a call    *)
(* failed, or the root is a link; and a file that nobody touched and that  *)
(* is not there is never called fine, not even where calls fail.           *)
(***************************************************************************)
AdviceIsJustified ==
    Answered =>
        /\ Advice(Given) # "no_action" => gap \/ behind \/ failed \/ linked
        /\ changed = {} /\ NoForm(disk[Given.name]) => Advice(Given) # "no_action"

-----------------------------------------------------------------------------
(***************************************************************************)
(* docs/research/firmware-supply-chain.md: "/lib is a symlink to /usr/lib, *)
(* so both spellings denote the same tree".  A file of that tree that      *)
(* nobody touches is then found whichever spelling the root has.           *)
(***************************************************************************)
LinkedRootIsTheSameTree ==
    Answered /\ linked /\ changed = {} /\ ~failed =>
        Given.installed = IF NoForm(disk[Given.name]) THEN "false" ELSE "true"
=============================================================================
