-------------------------------- MODULE OneLook --------------------------------
(***************************************************************************)
(* What a command that looks at the machine promises: it looks many times, *)
(* while the machine changes, and yet it answers what one look at its last *)
(* step would show, unless something its answer depends on was disturbed   *)
(* after the command was asked.                                            *)
(***************************************************************************)
CONSTANT Null

VARIABLES
    busy,       \* a command runs
    answer,     \* what the last command printed, or Null
    truth,      \* what one look at the machine would show now
    disturbed   \* since the command was asked

look == <<busy, answer, truth, disturbed>>

Init == ~busy /\ answer = Null /\ ~disturbed

\* A command that needs no look answers at once.
Ask ==
    /\ ~busy /\ ~disturbed'
    /\ answer' = IF busy' THEN Null ELSE truth'

Reply ==
    /\ busy /\ ~busy'
    /\ answer' # Null
    /\ disturbed \/ answer' = truth
    /\ UNCHANGED disturbed

\* The machine changes; what was disturbed stays disturbed.
Move ==
    /\ UNCHANGED <<busy, answer>>
    /\ disturbed => disturbed'

Next == Move \/ Ask \/ Reply

Spec == Init /\ [][Next]_look
=============================================================================
