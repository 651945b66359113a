------------------------------- MODULE MCJournal -------------------------------
(***************************************************************************)
(* Two writers, two records, of which one cannot be undone, and a file of  *)
(* a few lines: enough for two torn writes to meet on one line, with a     *)
(* completed append before and after.                                      *)
(***************************************************************************)
EXTENDS Journal, TLC

CONSTANTS r1, r2, w1, w2

MCRecord == {r1, r2}
MCUndoable == {r1}
MCPrefix == {{r2}, {r1, r2}}
MCWriter == {w1, w2}
Symmetric == Permutations(MCWriter)
=============================================================================
