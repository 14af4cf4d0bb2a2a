--------------------------- MODULE OrderedStream ---------------------------
(***************************************************************************)
(* What the packet layer promises to the layers above it: for each         *)
(* direction, the messages one end hands over reach the other end, each    *)
(* once and in the order in which they were handed over. Rekeying does not *)
(* show. Messages are counted: sent[e] is the last one end e handed over,  *)
(* got[e] the last one that was delivered to it.                           *)
(***************************************************************************)
EXTENDS Naturals

CONSTANTS End, Peer(_)

VARIABLES sent, got

Init == sent = [e \in End |-> 0] /\ got = [e \in End |-> 0]

Send(e) == sent' = [sent EXCEPT ![e] = @ + 1] /\ UNCHANGED got

Deliver(e) ==
    /\ got[e] < sent[Peer(e)]
    /\ got' = [got EXCEPT ![e] = @ + 1]
    /\ UNCHANGED sent

Next == \E e \in End : Send(e) \/ Deliver(e)

Safety == Init /\ [][Next]_<<sent, got>>

Spec == Safety /\ \A e \in End : WF_<<sent, got>>(Deliver(e))
=============================================================================
