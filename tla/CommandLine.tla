------------------------------ MODULE CommandLine ------------------------------
(***************************************************************************)
(* The option parser.  It walks the arguments from the left; a flag        *)
(* without "=" takes the next argument as its value when that is not a     *)
(* flag, whether the flag wants a value or not.  Only words are ever       *)
(* taken and only by the flag right before them, so whether an argument is *)
(* taken depends on its neighbour alone, and no loop is needed to say what *)
(* the walk collects.                                                      *)
(***************************************************************************)
EXTENDS ChipsetKb

CONSTANT Text    \* the words a person types: commands, ids, chip names, releases

ASSUME TextTyped == None \notin Text

ValueKeys  == {"--device", "--chip", "--kernel-release", "--journal"}
SwitchKeys == {"--execute", "--json", "--verbose", "--debug", "--non-interactive",
               "--no-network", "--dry-run"}

ASSUME NullIsNoKey == None \notin ValueKeys \cup SwitchKeys

\* A flag "--k" is open, "--k=v" is closed; "--k=" is closed with no text, since
\* every use of a value treats the empty string as absent.
Token ==
    [ kind : {"word", "open", "closed"},
      key  : ValueKeys \cup SwitchKeys \cup {None},
      text : Text \cup {None} ]

WellFormed(line) ==
    \A i \in DOMAIN line :
        IF line[i].kind = "word" THEN line[i].key = None /\ line[i].text # None
        ELSE line[i].key # None /\ (line[i].kind = "open" => line[i].text = None)

\* Argument i is a flag that takes the argument after it.
Takes(line, i) ==
    /\ {i, i + 1} \subseteq DOMAIN line
    /\ line[i].kind = "open" /\ line[i + 1].kind = "word"

\* The second component of the pairs in opts.
ValueAt(line, i) == IF Takes(line, i) THEN line[i + 1].text ELSE line[i].text

Positional(line) ==
    {i \in DOMAIN line : line[i].kind = "word" /\ ~Takes(line, i - 1)}

\* args[0], or None when there are no arguments left.
Command(line) ==
    IF Positional(line) = {} THEN None ELSE line[Min(Positional(line))].text

FlagsNamed(line, key) == {i \in DOMAIN line : line[i].kind # "word" /\ line[i].key = key}

Has(line, key) == FlagsNamed(line, key) # {}

\* A fault, to test the properties with: a value after "=" is not looked at.
OptValue_spaced(line, key) ==
    IF Has(line, key) /\ Takes(line, Min(FlagsNamed(line, key)))
    THEN line[Min(FlagsNamed(line, key)) + 1].text ELSE None

\* _opt_value: the first flag of that name counts, with or without a value.
OptValue(line, key) ==
    IF Has(line, key) THEN ValueAt(line, Min(FlagsNamed(line, key))) ELSE None

Task ==
    [ command : Text \cup {None},
      want    : Text \cup {None},     \* --device
      chip    : Text \cup {None},     \* --chip
      release : Text \cup {None},     \* --kernel-release
      execute : BOOLEAN ]             \* --execute

NoTask == [command |-> None, want |-> None, chip |-> None, release |-> None,
           execute |-> FALSE]

Parsed(line) ==
    [ command |-> Command(line),
      want    |-> OptValue(line, "--device"),
      chip    |-> OptValue(line, "--chip"),
      release |-> OptValue(line, "--kernel-release"),
      execute |-> Has(line, "--execute") ]

-----------------------------------------------------------------------------
(***************************************************************************)
(* The walk itself, as _parse writes it: what it has collected, and one    *)
(* turn of its loop.  Nothing runs it; it is what the definitions above    *)
(* are proved to describe.                                                 *)
(***************************************************************************)
Opt == (ValueKeys \cup SwitchKeys) \X (Text \cup {None})

Walk == [at : Nat \ {0}, opts : Seq(Opt), positional : Seq(Text)]

Beginning == [at |-> 1, opts |-> <<>>, positional |-> <<>>]

Turn(line, w) ==
    LET tok       == line[w.at]
        wordAfter == w.at < Len(line) /\ line[w.at + 1].kind = "word"
    IN  CASE tok.kind = "word" ->
               [w EXCEPT !.at = w.at + 1, !.positional = Append(@, tok.text)]
          [] tok.kind = "closed" ->
               [w EXCEPT !.at = w.at + 1, !.opts = Append(@, <<tok.key, tok.text>>)]
          [] tok.kind = "open" /\ wordAfter ->
               [w EXCEPT !.at = w.at + 2, !.opts = Append(@, <<tok.key, line[w.at + 1].text>>)]
          [] OTHER ->
               [w EXCEPT !.at = w.at + 1, !.opts = Append(@, <<tok.key, None>>)]

\* What the commands ask of the two lists: args[0], _has and _opt_value.
FirstArg(args) == IF args = <<>> THEN None ELSE args[1]

OptsNamed(opts, key) == {k \in DOMAIN opts : opts[k][1] = key}

FirstValue(opts, key) ==
    IF OptsNamed(opts, key) = {} THEN None ELSE opts[Min(OptsNamed(opts, key))][2]
=============================================================================
