--------------------------- MODULE MCConfigRecovery ---------------------------
(* Instances of ConfigRecovery for TLC: every file makes sshd listen on a  *)
(* port of its own, and budgets of saves, restarts, service events, edits  *)
(* and faults.                                                             *)
EXTENDS ConfigRecovery, TLC

OwnPort == [c \in Saved \cup Foreign |-> c]
SamePort == [c \in Saved \cup Foreign |-> 22]

WindowSymmetry == Permutations(Windows)

Limit(saves, restarts, services, edits, faults) ==
    [k \in Kinds |-> CASE k = "save" -> saves [] k = "restart" -> restarts
                       [] k = "service" -> services [] k = "edit" -> edits [] OTHER -> faults]

\* two windows, a save each, sshd stops or restarts, a fault
TwoWindows    == Limit(2, 0, 1, 0, 1)

\* one change, disturbed by everything else
OneChange     == Limit(1, 1, 1, 1, 2)
\* nothing but the windows
Undisturbed   == Limit(2, 0, 0, 0, 0)
OneSave       == Limit(1, 0, 0, 0, 0)
=============================================================================
