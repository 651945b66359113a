----------------------------- MODULE RebootPending -----------------------------
(***************************************************************************)
(* Whether a reboot is pending: a kernel newer than the running one is     *)
(* installed, or the package manager left its marker.  What "newer" means  *)
(* is the comparison of release names as tuples of numbers.                *)
(***************************************************************************)
EXTENDS Integers, Sequences

CONSTANTS
    Releases,    \* kernel releases that may be installed, by name
    Running,     \* the one that runs
    Version      \* release -> the numbers in its name

(***************************************************************************)
(* 6.17.0-1018-oracle has the head 6.17.0 and the abi 1018.  A chunk of    *)
(* the head that is not a number, and an abi that is missing or not a      *)
(* number, is NoNumber; what follows the abi is not looked at.             *)
(***************************************************************************)
NoNumber == -1

Numbers == [head : Seq(Nat \cup {NoNumber}) \ {<<>>}, abi : Nat \cup {NoNumber}]

ASSUME ReleasesTyped ==
    /\ Running \in Releases
    /\ Version \in [Releases -> Numbers]

Key(r) == Append(Version[r].head, Version[r].abi)

\* A fault, to test the properties with: a larger number anywhere makes it newer.
VersionGt_anywhere(candidate, baseline) ==
    LET c == Key(candidate)  b == Key(baseline)
    IN  \E i \in DOMAIN c \cap DOMAIN b : c[i] > b[i]

\* _version_gt: Python's order of tuples; a proper prefix is the smaller one.
VersionGt(candidate, baseline) ==
    LET c == Key(candidate)  b == Key(baseline)
    IN  \E i \in DOMAIN c :
           /\ \A j \in 1..(i - 1) : j \in DOMAIN b /\ c[j] = b[j]
           /\ i \in DOMAIN b => c[i] > b[i]

Newer(installed) == {r \in installed \ {Running} : VersionGt(r, Running)}

(***************************************************************************)
(* reboot_pending.  A directory that cannot be listed counts as empty.     *)
(***************************************************************************)
Answers == {"yes", "no", "unknown"}

Pending(installed, hasMarker) ==
    IF Newer(installed) # {} \/ hasMarker THEN "yes"
    ELSE IF installed # {} THEN "no" ELSE "unknown"

-----------------------------------------------------------------------------
(***************************************************************************)
(* The order of versions, said as one number: defined for the shape that   *)
(* distributions give their releases, three numbers and an abi.            *)
(***************************************************************************)
CONSTANT Base    \* above every number in a release name

ASSUME BaseTyped == Base \in Nat

Shaped(r) ==
    /\ Len(Version[r].head) = 3
    /\ \A i \in 1..4 : Key(r)[i] \in 0..(Base - 1)

Weight(r) ==
    LET k == Key(r)
    IN  ((k[1] * Base + k[2]) * Base + k[3]) * Base + k[4]
=============================================================================
