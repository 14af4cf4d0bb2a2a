------------------------------ MODULE SrcLimit ------------------------------
(***************************************************************************)
(* srclimit.c: the connections that are not authenticated yet, counted per *)
(* source, and the penalties of sources whose connections went wrong.      *)
(*                                                                         *)
(* A Source is an address after masking with PerSourceNetBlockSize. IPv4   *)
(* and IPv6 have a penalty table each, of the same kind: this is one of    *)
(* them. All times in the penalty table are compared with the time of the  *)
(* call, so a penalty is kept as the time that is left, and the passing of *)
(* time (Elapse) lowers it; below zero it has expired but stays in the     *)
(* table until the next call of expire_penalties.                          *)
(***************************************************************************)
EXTENDS Integers, FiniteSets

CONSTANTS
    Source,         \* masked source addresses
    NoSource,       \* the address in an entry that is not used
    Exempt,         \* those on PerSourcePenaltyExemptList
    MaxStartups,    \* slots of the listener, and of the per-source table
    MaxPerSource,   \* PerSourceMaxStartups
    PenaltySecs,    \* length of each type of penalty
    PenaltyMin,     \* accumulated time from which a penalty is enforced
    PenaltyMax,     \* accumulated time above which it does not grow
    MaxSources,     \* penalties that are tracked
    Overflow        \* what happens beyond that: "deny-all" or "permissive"

PenaltyType == {"crash", "authfail", "noauth", "refuseconnection",
                "grace", "invaliduser"}

Slot == 1 .. MaxStartups

ASSUME SrcLimitAssumption ==
    /\ IsFiniteSet(Source) /\ Exempt \subseteq Source /\ NoSource \notin Source
    /\ MaxStartups \in Nat \ {0} /\ MaxPerSource \in Nat
    /\ PenaltySecs \in [PenaltyType -> Nat]
    /\ PenaltyMin \in Nat /\ PenaltyMax \in Nat /\ MaxSources \in Nat
    /\ Overflow \in {"deny-all", "permissive"}

-----------------------------------------------------------------------------
(* The table of unauthenticated connections. The id of an entry is the     *)
(* listener's end of the connection's startup pipe, 0 when it is unused.   *)

Unused == 0

NoEntry == [id |-> Unused, addr |-> NoSource]

Entries(limit, s) == {i \in Slot : limit[i].id # Unused /\ limit[i].addr = s}

Room(limit) == {i \in Slot : limit[i].id = Unused}

First(S) == CHOOSE i \in S : \A j \in S : i <= j

\* Whether srclimit_check_allow lets a connection of s through.
Allowed(limit, s) ==
    Room(limit) # {} /\ Cardinality(Entries(limit, s)) < MaxPerSource

\* What it then stores.
srclimit_check_allow(limit, s, id) ==
    [limit EXCEPT ![First(Room(limit))] = [id |-> id, addr |-> s]]

srclimit_done(limit, id) ==
    LET found == {i \in Slot : limit[i].id = id}
    IN  IF found = {} THEN limit
        ELSE [limit EXCEPT ![First(found)] = NoEntry]

-----------------------------------------------------------------------------
(* Penalties. A table is a record: pen the penalty of each source, n the   *)
(* number of them (npenalties4).                                           *)

NoPenalty == [held |-> FALSE, left |-> 0, active |-> FALSE]

Held(P) == {s \in Source : P.pen[s].held}

Expired(P) == {s \in Held(P) : P.pen[s].left < 0}

Drop(P, S) == [pen |-> [s \in Source |-> IF s \in S THEN NoPenalty ELSE P.pen[s]],
               n   |-> P.n - Cardinality(S)]

\* Mutant: an expired penalty is counted out but stays in the tree.
expire_penalties_Keeps(P) == [P EXCEPT !.n = @ - Cardinality(Expired(P))]

expire_penalties(P) == Drop(P, Expired(P))

Full(P) == P.n >= MaxSources

\* srclimit_penalty_check_allow is called for a connection of s: the table
\* afterwards, and whether the connection is let through.
PenaltyCheck(P, s) == IF s \in Exempt THEN P ELSE expire_penalties(P)

srclimit_penalty_check_allow(P, s) ==
    LET Q == PenaltyCheck(P, s)
    IN  \/ s \in Exempt
        \/ /\ ~(Full(Q) /\ Overflow = "deny-all")
           /\ ~(Q.pen[s].held /\ Q.pen[s].active)

\* The penalty that goes first; addresses break ties.
Soonest(P) == CHOOSE s \in Held(P) : \A t \in Held(P) : P.pen[s].left <= P.pen[t].left

\* The table was within its limit before one penalty came in, so the loop of
\* this function takes out at most one.
srclimit_early_expire_penalties(P) ==
    IF P.n > MaxSources THEN Drop(P, {Soonest(P)}) ELSE P

NewPenalty(P, s, secs) ==
    srclimit_early_expire_penalties(
        [pen |-> [P.pen EXCEPT ![s] = [held |-> TRUE, left |-> secs,
                                       active |-> secs > PenaltyMin]],
         n |-> P.n + 1])

\* Mutant: a repeated penalty grows past the maximum.
AccumulatePenalty_NoCap(P, s, secs) ==
    LET left == P.pen[s].left + secs
    IN  [P EXCEPT !.pen[s] = [held |-> TRUE, left |-> left,
                              active |-> @.active \/ left > PenaltyMin]]

AccumulatePenalty(P, s, secs) ==
    LET left == IF P.pen[s].left + secs > PenaltyMax THEN PenaltyMax
                ELSE P.pen[s].left + secs
    IN  [P EXCEPT !.pen[s] = [held |-> TRUE, left |-> left,
                              active |-> @.active \/ left > PenaltyMin]]

\* type is a PenaltyType, or "none" (SRCLIMIT_PENALTY_NONE).
srclimit_penalise(P, s, type) ==
    IF s \in Exempt \/ type = "none" THEN P
    ELSE IF PenaltySecs[type] = 0 THEN P
    ELSE LET Q == expire_penalties(P)
         IN  CASE Full(Q) /\ Overflow = "deny-all" -> Q
               [] ~(Full(Q) /\ Overflow = "deny-all") /\ Q.pen[s].held ->
                    AccumulatePenalty(Q, s, PenaltySecs[type])
               [] OTHER -> NewPenalty(Q, s, PenaltySecs[type])

\* The clock: one unit passes.
Elapse(P) ==
    [P EXCEPT !.pen = [s \in Source |->
        IF P.pen[s].held /\ P.pen[s].left >= 0
        THEN [P.pen[s] EXCEPT !.left = @ - 1] ELSE P.pen[s]]]
=============================================================================
