-------------------------------- MODULE Journal --------------------------------
(***************************************************************************)
(* The transaction journal: a JSONL file that several processes append to  *)
(* and that `history` and `rollback` read.  append opens the file and      *)
(* writes one record and its newline in one write; a crash or a full disk  *)
(* can cut that write short anywhere.  Nothing is ever synced, so a power  *)
(* cut can take back what was written last, acknowledged or not.  load     *)
(* reads the whole file and parses it line by line.                        *)
(*                                                                         *)
(* The text of an object is its opening brace, its members and its closing *)
(* brace.  The members are one token: a cut inside them, at any depth,     *)
(* leaves the object open, as a cut on either side of them does.           *)
(***************************************************************************)
EXTENDS Naturals, Sequences, FiniteSetsExt

CONSTANTS
    Record,     \* transaction records
    Undoable,   \* those whose rollback action plan_rollback accepts
    Writer,     \* processes that append
    Prefix,     \* id prefixes: the records whose ids start with it
    MaxLines,   \* bound on the lines of the file
    MaxTail,    \* bound on the tokens after its last newline when a writer opens it
    Foreign,    \* members among which a field of a record is missing
    None

ASSUME RecordTyped ==
    /\ {Foreign, None, "open", "close"} \cap Record = {}
    /\ Foreign \notin {"open", "close"}
    /\ Undoable \subseteq Record
ASSUME PrefixTyped == Prefix \subseteq SUBSET Record
ASSUME BoundsTyped == MaxLines \in Nat /\ MaxTail \in Nat

VARIABLES
    exists,     \* the file has been created
    lines,      \* its complete lines
    tail,       \* the tokens after the last newline
    pending,    \* writer -> the record it is about to write, or None
    command,    \* the command whose load has found the file and not read it, or None
    result,     \* what a command answered in the last step, or None
    \* history, read by properties only
    acked,      \* <<line, record>> of the appends that returned
    promised,   \* acked when that command was started
    lost        \* the last step was a loss of power

fileVars   == <<exists, lines, tail>>
readerVars == <<command, promised>>
vars       == <<fileVars, pending, acked, readerVars, result, lost>>

Member == Record \cup {Foreign}
Brace  == {"open", "close"}
Token  == Member \cup Brace

\* What json.dumps makes of a record, and what the text of anything else looks like.
JsonText(m) == <<"open", m, "close">>

\* The commands that load the journal, `rollback` with an id or a prefix of one.
Command == [name : {"history"}, wanted : {{}}] \cup [name : {"rollback"}, wanted : Prefix]

-----------------------------------------------------------------------------
(***************************************************************************)
(* load, on the text it has read.                                          *)
(***************************************************************************)
\* splitlines: what follows the last newline is a line when it is not empty.
TextLines(ls, t) == IF t = <<>> THEN ls ELSE Append(ls, t)

\* A blank line is skipped.
Blank(line) == line = <<>>

\* A fault, to test the properties with: a parser that looks at the ends of the line only.
IsObject_ends(line) == Len(line) >= 2 /\ line[1] = "open" /\ line[Len(line)] = "close"

\* json.loads accepts a line that opens an object and closes it at its end.
IsObject(line) ==
    /\ Len(line) >= 2
    /\ line[1] = "open" /\ line[Len(line)] = "close"
    /\ \A i \in 2..(Len(line) - 1) : line[i] \notin Brace

\* TransactionRecord takes an object that has the five fields.
Whole(line) == \E r \in Record : line = JsonText(r)

BadLines(ls) == {i \in DOMAIN ls : ~Blank(ls[i]) /\ ~Whole(ls[i])}

Entries(ls) == [i \in {j \in DOMAIN ls : ~Blank(ls[j])} |-> ls[i][2]]

Good(entries) == [ok |-> TRUE, entries |-> entries, line |-> 0]
Bad(line)     == [ok |-> FALSE, entries |-> <<>>, line |-> line]

\* A fault, to test the properties with: lines that do not parse are skipped.
Load_swallow(ls) == Good(Entries([i \in DOMAIN ls |-> IF i \in BadLines(ls) THEN <<>> ELSE ls[i]]))

\* The records, each at its line number, or the number of the first bad line.
Load(ls) == IF BadLines(ls) = {} THEN Good(Entries(ls)) ELSE Bad(Min(BadLines(ls)))

\* The error is the KeyError of a missing field, not a ValueError.
MissesField(ls) == BadLines(ls) # {} /\ IsObject(ls[Min(BadLines(ls))])

View == Load(TextLines(lines, tail))

\* Members that are no record's are in the file.
ForeignIn(line) == \E i \in DOMAIN line : line[i] = Foreign
HoldsForeign == (\E i \in DOMAIN lines : ForeignIn(lines[i])) \/ ForeignIn(tail)

-----------------------------------------------------------------------------
Init ==
    /\ exists = FALSE
    /\ lines = <<>>
    /\ tail = <<>>
    /\ pending = [w \in Writer |-> None]
    /\ command = None
    /\ result = None
    /\ acked = {}
    /\ promised = {}
    /\ lost = FALSE

\* A step in which no command answers and the machine stays up.
Silent == result' = None /\ lost' = FALSE

\* A bound: there is room for what this writer may write beside what is being written.
InBounds ==
    LET writing == Cardinality({w \in Writer : pending[w] # None})
    IN  /\ Len(lines) + writing < MaxLines
        /\ Len(tail) + 3 * writing <= MaxTail

\* A fault, to test the properties with: the file is created only when the write succeeds.
OpenAppend_noCreate(w, r) ==
    /\ pending[w] = None
    /\ InBounds
    /\ pending' = [pending EXCEPT ![w] = r]
    /\ Silent
    /\ UNCHANGED <<fileVars, acked, readerVars>>

\* append: mkdir and open(path, "a"); opening creates the file.
OpenAppend(w, r) ==
    /\ pending[w] = None
    /\ InBounds
    /\ pending' = [pending EXCEPT ![w] = r]
    /\ exists' = TRUE
    /\ Silent
    /\ UNCHANGED <<lines, tail, acked, readerVars>>

\* A fault, to test the properties with: the file is opened for writing, not for appending.
WriteLine_truncates(w) ==
    /\ pending[w] # None
    /\ lines' = <<JsonText(pending[w])>>
    /\ tail' = <<>>
    /\ acked' = acked \cup {<<1, pending[w]>>}
    /\ pending' = [pending EXCEPT ![w] = None]
    /\ Silent
    /\ UNCHANGED <<exists, readerVars>>

\* The write and the close: append returns.
WriteLine(w) ==
    /\ pending[w] # None
    /\ lines' = Append(lines, tail \o JsonText(pending[w]))
    /\ tail' = <<>>
    /\ acked' = acked \cup {<<Len(lines) + 1, pending[w]>>}
    /\ pending' = [pending EXCEPT ![w] = None]
    /\ Silent
    /\ UNCHANGED <<exists, readerVars>>

(***************************************************************************)
(* The writer dies, or the disk fills up, before the write is complete:    *)
(* nothing, a part, or the whole record without its newline is left.       *)
(***************************************************************************)
TornWrite(w) ==
    /\ pending[w] # None
    /\ \E cut \in 0..3 : tail' = tail \o SubSeq(JsonText(pending[w]), 1, cut)
    /\ pending' = [pending EXCEPT ![w] = None]
    /\ Silent
    /\ UNCHANGED <<exists, lines, acked, readerVars>>

(***************************************************************************)
(* The machine loses power.  The writes reached the page cache and no one  *)
(* synced them: any end of the file may be gone, the file itself if its    *)
(* directory entry was not written, and every process.  (File systems that *)
(* leave other bytes in place of a lost end are not modelled.)             *)
(***************************************************************************)
LosePower ==
    /\ exists
    /\ \E n \in 0..Len(lines) :
          LET next == IF n < Len(lines) THEN lines[n + 1] ELSE tail
          IN  /\ lines' = SubSeq(lines, 1, n)
              /\ \E cut \in 0..Len(next) : tail' = SubSeq(next, 1, cut)
    /\ exists' \in BOOLEAN
    /\ ~exists' => lines' = <<>> /\ tail' = <<>>
    /\ pending' = [w \in Writer |-> None]
    /\ acked' = {a \in acked : a[1] <= Len(lines')}
    /\ command' = None /\ promised' = {} /\ result' = None /\ lost' = TRUE

\* Somebody ends the file with a newline, as editors do.
AddNewline ==
    /\ exists
    /\ Len(lines) < MaxLines
    /\ lines' = Append(lines, tail)
    /\ tail' = <<>>
    /\ Silent
    /\ UNCHANGED <<exists, pending, acked, readerVars>>

\* Something that does not append records ends the file with a line of JSON.
\* (A bound: once.)
ForeignLine ==
    /\ exists
    /\ ~HoldsForeign /\ Len(tail) <= MaxTail
    /\ Len(lines) < MaxLines
    /\ lines' = Append(lines, tail \o JsonText(Foreign))
    /\ tail' = <<>>
    /\ Silent
    /\ UNCHANGED <<exists, pending, acked, readerVars>>

Matches(view, wanted) == {i \in DOMAIN view.entries : view.entries[i] \in wanted}

\* A fault, to test the properties with: the last match is taken, not the first.
Chosen_last(view, wanted) ==
    IF view.ok /\ Matches(view, wanted) # {}
    THEN view.entries[Max(Matches(view, wanted))] ELSE None

\* The first record whose id has the prefix, in file order.
Chosen(view, wanted) ==
    IF view.ok /\ Matches(view, wanted) # {}
    THEN view.entries[Min(Matches(view, wanted))] ELSE None

\* _cmd_history turns a ValueError into an exit code.
HistoryExit(view, keyError) ==
    IF view.ok THEN "ok" ELSE IF keyError THEN "raised" ELSE "not_found"

\* _cmd_rollback catches nothing, neither from load nor from plan_rollback.
RollbackExit(view, record) ==
    IF ~view.ok THEN "raised"
    ELSE IF record = None THEN "not_found"
    ELSE IF record \in Undoable THEN "ok" ELSE "raised"

\* The answer of a command, on what load gave it, with what was acknowledged before.
Outcome(cmd, kept, view, keyError) ==
    LET record == Chosen(view, cmd.wanted)
    IN  [ command |-> cmd, promised |-> kept, view |-> view, record |-> record,
          exit |-> IF cmd.name = "history" THEN HistoryExit(view, keyError)
                   ELSE RollbackExit(view, record) ]

\* load looks whether the file exists, and reads it in a second step.
BeginLoad(cmd) ==
    /\ command = None
    /\ IF exists
       THEN command' = cmd /\ promised' = acked /\ result' = None
       ELSE UNCHANGED readerVars /\ result' = Outcome(cmd, acked, Good(<<>>), FALSE)
    /\ lost' = FALSE
    /\ UNCHANGED <<fileVars, pending, acked>>

FinishLoad ==
    /\ command # None
    /\ result' = Outcome(command, promised, View, MissesField(TextLines(lines, tail)))
    /\ command' = None /\ promised' = {}
    /\ lost' = FALSE
    /\ UNCHANGED <<fileVars, pending, acked>>

Next ==
    \/ \E w \in Writer : (\E r \in Record : OpenAppend(w, r)) \/ WriteLine(w) \/ TornWrite(w)
    \/ LosePower
    \/ AddNewline \/ ForeignLine
    \/ \E cmd \in Command : BeginLoad(cmd)
    \/ FinishLoad

Spec == Init /\ [][Next]_vars

-----------------------------------------------------------------------------
(***************************************************************************)
(* Properties.                                                             *)
(***************************************************************************)
LineNo == Nat \ {0}

TypeOK ==
    /\ exists \in BOOLEAN
    /\ lines \in Seq(Seq(Token))
    /\ tail \in Seq(Token)
    /\ pending \in [Writer -> Record \cup {None}]
    /\ command \in Command \cup {None}
    /\ result # None =>
          /\ result.command \in Command
          /\ result.exit \in {"ok", "not_found", "raised"}
          /\ result.record \in Record \cup {None}
          /\ result.promised \subseteq acked
    /\ acked \subseteq LineNo \X Record
    /\ promised \subseteq acked
    /\ lost \in BOOLEAN
    /\ ~exists => /\ lines = <<>> /\ tail = <<>>
                  /\ \A w \in Writer : pending[w] = None

(***************************************************************************)
(* A command that gets records from load gets every record whose append    *)
(* had returned when the command started, each at its line: whatever       *)
(* processes crashed meanwhile, an acknowledged record is never silently   *)
(* missing.  The exception is a power cut, since append does not sync:     *)
(* what it takes back is no longer acknowledged (see LosePower), and what  *)
(* it left is.                                                             *)
(***************************************************************************)
AckedNeverSwallowed ==
    result # None /\ result.view.ok =>
        \A a \in result.promised : a[1] \in DOMAIN result.view.entries
                            /\ result.view.entries[a[1]] = a[2]

(***************************************************************************)
(* `rollback` with a prefix of an acknowledged record's id never answers   *)
(* "not found", what it undoes is no later than that record, and it fails  *)
(* only on a damaged journal or on a record that cannot be undone.         *)
(***************************************************************************)
RollbackFindsAcked ==
    result # None /\ result.command.name = "rollback" =>
        \A a \in result.promised : a[2] \in result.command.wanted =>
            IF ~result.view.ok THEN result.exit = "raised"
            ELSE /\ result.exit = IF result.record \in Undoable THEN "ok" ELSE "raised"
                 /\ \E i \in 1..a[1] : i \in DOMAIN result.view.entries
                                       /\ result.view.entries[i] = result.record

(***************************************************************************)
(* However crashes and power cuts tear the records and appends join the    *)
(* parts on one line, no line of them is an object that lacks a field: as  *)
(* long as nothing foreign is in the file, `history` explains every damage *)
(* with an exit code.                                                      *)
(***************************************************************************)
TearsAreExplained ==
    result # None /\ result.command.name = "history" /\ result.exit = "raised" => HoldsForeign

(***************************************************************************)
(* The journal implements the log its readers rely on.                     *)
(***************************************************************************)
Log == INSTANCE TransactionLog WITH view <- View

ImplementsLog == Log!Spec

(***************************************************************************)
(* test_failure_injection.py says of malformed input "NEVER a raw          *)
(* traceback escaping the module boundary".  No command ends in one.       *)
(***************************************************************************)
CorruptionIsReported == result # None => result.exit # "raised"
=============================================================================
