----------------------------- MODULE MCListener -----------------------------
(* An instance of Listener for TLC.                                        *)
EXTENDS Listener

Secs == [t \in PenaltyType |-> 1]
Ends == {"255"}
=============================================================================
