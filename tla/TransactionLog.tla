---------------------------- MODULE TransactionLog ----------------------------
(***************************************************************************)
(* What a transaction journal promises its readers.  Reading it yields     *)
(* either every record, each at its line, or an error that names a line.   *)
(* Records are added after all the others; an error stands at no record's  *)
(* left, and until the machine loses power it is there for good, at the    *)
(* same line: corruption surfaces, it is never skipped over.  A loss of    *)
(* power takes records from the end only, and may break the last one left. *)
(***************************************************************************)
EXTENDS Naturals

CONSTANT Record

VARIABLES
    view,   \* what a read of the journal returns now
    lost    \* the last step was a loss of power

LineNo == Nat \ {0}

\* A read that succeeds: line number -> record.
Good(entries) == [ok |-> TRUE, entries |-> entries, line |-> 0]

\* A read that raises "journal corrupt at line <line>".
Bad(line) == [ok |-> FALSE, entries |-> <<>>, line |-> line]

Init == view = Good(<<>>) /\ lost = FALSE

(***************************************************************************)
(* The steps, each as a relation of what a read returned and what it       *)
(* returns now.                                                            *)
(***************************************************************************)
\* longer has one record more than shorter, on a line below all of shorter's.
ExtendedBy(longer, shorter, line) ==
    /\ line \in LineNo
    /\ DOMAIN longer = DOMAIN shorter \cup {line}
    /\ \A i \in DOMAIN shorter : i < line /\ longer[i] = shorter[i]
    /\ longer[line] \in Record

Add(old, new) ==
    /\ old.ok /\ new.ok
    /\ new = Good(new.entries)
    /\ \E line \in DOMAIN new.entries : ExtendedBy(new.entries, old.entries, line)

Damage(old, new) ==
    /\ old.ok /\ ~new.ok
    /\ new = Bad(new.line)
    /\ new.line \in LineNo
    /\ \A i \in DOMAIN old.entries : i <= new.line

\* A loss of power.  shorter is the upper part of longer.
UpperPart(shorter, longer) ==
    /\ DOMAIN shorter \subseteq DOMAIN longer
    /\ \A i \in DOMAIN shorter :
          /\ shorter[i] = longer[i]
          /\ \A j \in DOMAIN longer \ DOMAIN shorter : i < j

\* The last records are gone.  Those above a bad line, which were never
\* shown, show when the loss takes that line or what was bad of it.
Lose(old, new) ==
    /\ new.ok
    /\ new = Good(new.entries)
    /\ IF old.ok
       THEN UpperPart(new.entries, old.entries)
       ELSE \A i \in DOMAIN new.entries : i \in 1..old.line /\ new.entries[i] \in Record

\* The last record left is cut, or a bad line further up is the first now.
Cut(old, new) ==
    /\ ~new.ok
    /\ new = Bad(new.line)
    /\ new.line \in IF old.ok THEN DOMAIN old.entries ELSE 1..old.line

\* (Named once each, since a read is all of load.)
Next ==
    \E old \in {view}, new \in {view'} :
        IF lost' THEN Lose(old, new) \/ Cut(old, new)
        ELSE new = old \/ Add(old, new) \/ Damage(old, new)

Spec == Init /\ [][Next]_<<view, lost>>
=============================================================================
