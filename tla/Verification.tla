------------------------------ MODULE Verification ------------------------------
(***************************************************************************)
(* The verdict of `verify` from what was found on the host: the Wi-Fi      *)
(* network device, the text of the driver attribute, and the kernel log.   *)
(***************************************************************************)
EXTENDS ChipsetKb

\* The lines of the log that count, by kind.
Log == [failed : BOOLEAN, critical : BOOLEAN]

\* What the command line passes.
NoLog == [failed |-> FALSE, critical |-> FALSE]

Verdicts == {"functional", "not_functional", "unknown"}

(***************************************************************************)
(* The four checks.  None would be an indeterminate check; no check is     *)
(* ever given it, a read that fails has become a None result before.       *)
(***************************************************************************)
Checks(netdev, driver, log) ==
    [ interface_present  |-> netdev # None,
      driver_bound       |-> driver # None,
      firmware_loaded    |-> ~log.failed /\ netdev # None /\ driver # None,
      no_critical_errors |-> ~log.critical ]

ASSUME NullIsNoCheck == None \notin BOOLEAN

VerdictOf(checks) ==
    IF \E c \in DOMAIN checks : checks[c] = None THEN "unknown"
    ELSE IF \A c \in DOMAIN checks : checks[c] THEN "functional"
    ELSE "not_functional"
=============================================================================
