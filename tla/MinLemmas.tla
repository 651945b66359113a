------------------------------- MODULE MinLemmas -------------------------------
(***************************************************************************)
(* The least element of a set of numbers, of which the models make every   *)
(* "first": the first bad line of a journal, the first matching record,    *)
(* the first entry of the knowledge base, the next node to read.           *)
(***************************************************************************)
EXTENDS Naturals, FiniteSetsExt, WellFoundedInduction, TLAPS

\* Min is in the set and below all of it.
LEMMA MinProps ==
    ASSUME NEW S, S \subseteq Nat, S # {}
    PROVE  Min(S) \in S /\ \A y \in S : Min(S) <= y
<1>1. PICK x \in S : \A y \in S : ~ (<<y, x>> \in OpToRel(<, Nat))
  BY NatLessThanWellFounded, WFMin
<1>2. \A y \in S : ~ (y < x)
  BY <1>1, Zenon DEF OpToRel
<1>3. \A y \in S : x <= y
  BY <1>2
<1>4. QED
  BY <1>3 DEF Min

\* Adding a number above a non-empty set leaves its least element alone.
LEMMA MinKept ==
    ASSUME NEW S, S \subseteq Nat, S # {}, NEW y \in Nat, \A x \in S : x <= y
    PROVE  Min(S \cup {y}) = Min(S)
<1>1. Min(S) \in S /\ \A z \in S : Min(S) <= z
  BY MinProps
<1>2. S \cup {y} \subseteq Nat /\ S \cup {y} # {}
  OBVIOUS
<1>3. Min(S \cup {y}) \in S \cup {y} /\ \A z \in S \cup {y} : Min(S \cup {y}) <= z
  BY <1>2, MinProps
<1> DEFINE m == Min(S)  n == Min(S \cup {y})
<1> HIDE DEF m, n
<1>4. m \in S /\ m \in Nat /\ n \in Nat /\ n <= m
  BY <1>1, <1>2, <1>3 DEF m, n
<1>5. n \in S \cup {y} /\ \A z \in S : m <= z
  BY <1>1, <1>3 DEF m, n
<1>6. m <= n
  BY <1>4, <1>5
<1>7. QED
  BY <1>4, <1>6 DEF m, n
=============================================================================
