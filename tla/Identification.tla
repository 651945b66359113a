---------------------------- MODULE Identification ----------------------------
(***************************************************************************)
(* Layers 2-4 of the identification chain: the rows of modules.alias that  *)
(* claim a device, cross-referenced with the knowledge base.  A row names  *)
(* a module and the pattern of the modaliases it claims.                   *)
(***************************************************************************)
EXTENDS ChipsetKb

CONSTANT Iface    \* what the interface fields of a modalias can say

Any == "*"

(***************************************************************************)
(* _parse_body: a pattern constrains fields from the left and may end      *)
(* early; one that breaks the grammar is None.  v and p stand for the six  *)
(* fields of a device (d, dc, dsc and dp are compared as they are), ic for *)
(* the four of an interface.                                               *)
(***************************************************************************)
Pattern == UNION { [fields -> Vid \cup Pid \cup Iface \cup {Any}] :
                       fields \in {{}, {"v"}, {"v", "p"}, {"v", "p", "ic"}} }

Row == [module : Module, pattern : Pattern \cup {None}]

\* The modules.alias of one kernel.
AliasFile == Seq(Row)

\* _build_device_modalias: the tool asks for the device, not for an interface of it.
Modalias(id) == [v |-> id[1], p |-> id[2]]

\* A fault, to test the properties with: a field the modalias lacks is not compared.
PatternMatches_shared(pattern, modalias) ==
    /\ pattern # None
    /\ \A f \in DOMAIN pattern \cap DOMAIN modalias : pattern[f] \in {Any, modalias[f]}

\* _pattern_matches: a constrained field that the modalias lacks does not match.
PatternMatches(pattern, modalias) ==
    /\ pattern # None
    /\ \A f \in DOMAIN pattern :
          pattern[f] = Any \/ (f \in DOMAIN modalias /\ modalias[f] = pattern[f])

(***************************************************************************)
(* A list in the order of a file, kept as a function from the positions of *)
(* the file the list was picked from to the modules found there.           *)
(***************************************************************************)
Listed(list) == DOMAIN list \subseteq Nat /\ \A i \in DOMAIN list : list[i] \in Module

Nothing(list) == DOMAIN list = {}

First(list) == IF Nothing(list) THEN None ELSE list[Min(DOMAIN list)]

\* match_with_lines: the modules of the rows of lines that claim id.
MatchWithLines(id, lines) ==
    [i \in {j \in DOMAIN lines : PatternMatches(lines[j].pattern, Modalias(id))}
        |-> lines[i].module]

\* The knowledge-base modules no alias row has claimed already.
KbCandidates(entry, claims) ==
    [i \in {j \in DOMAIN entry.modules : \A k \in DOMAIN claims : claims[k] # entry.modules[j]}
        |-> entry.modules[i]]

(***************************************************************************)
(* resolve_device.  A kernel claim confirms a knowledge-base entry; a      *)
(* claim without an entry leaves the chipset UNKNOWN but keeps the         *)
(* candidates; no evidence at all yields an UNKNOWN with no candidates.    *)
(* The candidates are the kernel's claims, then the entry's own modules.   *)
(***************************************************************************)
ResolveDevice(id, lines) ==
    LET claims == MatchWithLines(id, lines)
        entry  == EntryOfId(id)
    IN  IF entry # None
        THEN [ chipset    |-> entry.chipset,
               confidence |-> IF Nothing(claims) THEN entry.confidence ELSE "CONFIRMED",
               claims     |-> claims,
               extras     |-> KbCandidates(entry, claims) ]
        ELSE [ chipset    |-> UnknownChip,
               confidence |-> IF Nothing(claims) THEN "UNKNOWN" ELSE "PROBABLE",
               claims     |-> claims,
               extras     |-> <<>> ]

NoCandidates(res) == Nothing(res.claims) /\ Nothing(res.extras)

FirstCandidate(res) == IF Nothing(res.claims) THEN First(res.extras) ELSE First(res.claims)
=============================================================================
