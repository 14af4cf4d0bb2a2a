--------------------------- MODULE ListenerProofs ---------------------------
(***************************************************************************)
(* Proofs about the listener, for every number of slots, processes and     *)
(* sources, and for every setting of the limits and penalties.             *)
(***************************************************************************)
EXTENDS Listener, FiniteSetTheorems, SequenceTheorems, WellFoundedInduction, TLAPS

-----------------------------------------------------------------------------
(* The inductive invariant.                                                *)

TableTypes ==
    /\ child \in [Slot -> [pipefd : Fd \cup {None}, pid : Pid \cup {None},
                           early : BOOLEAN, buf : {"config", "keys", "none"},
                           addr : Source \cup {NoSource}]]
    /\ limit \in [Slot -> [id : Fd \cup {Unused}, addr : Source \cup {NoSource}]]

ProcTypes ==
    /\ proc \in [Pid -> [st : {"none", "init", "preauth", "auth", "zombie"},
                         fd : Fd \cup {None}, status : Statuses]]
    /\ pipe \in [Fd -> [open : BOOLEAN, got : Nat, sent : Seq({0, 1})]]

\* What has been written to a slot's process and what is still to be read of it.
Stage(c, q) ==
    /\ c.buf = "config" => q.got = 0
    /\ c.buf = "keys" => q.got = 1
    /\ c.early => q.sent \in {<<>>, <<0>>, <<0, 1>>}
    /\ ~c.early => q.sent \in {<<>>, <<1>>} /\ c.buf = "none"
    /\ q.sent # <<>> => c.buf = "none"

\* How far the process of a slot is, against what the listener has read.
Link(st, c, q) ==
    /\ st = "init" => q.open /\ c.early /\ q.sent = <<>>
    /\ st = "preauth" => q.open /\ c.buf = "none" /\ q.sent = (IF c.early THEN <<0>> ELSE <<>>)
    /\ st = "auth" => c.buf = "none" /\ q.sent = (IF c.early THEN <<0, 1>> ELSE <<1>>)

\* A slot against its process and its pipe.
SlotInv(i) ==
    /\ child[i].pipefd = None /\ child[i].pid = None => child[i].buf = "none"
    /\ child[i].pipefd # None \/ child[i].pid # None => child[i].addr \in Source
    /\ child[i].pid # None => proc[child[i].pid].st # "none"
    /\ child[i].pid # None /\ child[i].pipefd = None => proc[child[i].pid].st = "zombie"
    /\ child[i].pipefd # None => Stage(child[i], pipe[child[i].pipefd])
    /\ child[i].pid # None /\ child[i].pipefd # None =>
         /\ proc[child[i].pid].fd = child[i].pipefd
         /\ Link(proc[child[i].pid].st, child[i], pipe[child[i].pipefd])

Slots == \A i \in Slot : SlotInv(i)

\* Two slots share neither a pipe nor a process.
Distinct ==
    \A i, j \in Slot : i # j =>
        /\ child[i].pipefd # None => child[i].pipefd # child[j].pipefd
        /\ child[i].pid # None => child[i].pid # child[j].pid

\* A process has a pipe only as long as its slot has it too.
Procs ==
    \A p \in Pid : proc[p].fd # None =>
        \E i \in Slot : child[i].pipefd = proc[p].fd /\ child[i].pid = p

\* A descriptor that is not open has nothing left in it.
Fds == \A fd \in Fd : (\A i \in Slot : child[i].pipefd # fd) => pipe[fd] = NoPipe

\* The counters are the sizes of what they count.
Counted ==
    /\ children_active = Cardinality(Used)
    /\ ForkSupported => listening = Cardinality(EarlySlots)
    /\ listening \in Int

\* Entries of the per-source table and open pipes correspond one to one.
Entered ==
    /\ \A i \in Slot : limit[i].id # Unused =>
         \E j \in Slot : child[j].pipefd = limit[i].id /\ child[j].addr = limit[i].addr
    /\ \A j \in Slot : child[j].pipefd # None =>
         \E i \in Slot : limit[i].id = child[j].pipefd /\ limit[i].addr = child[j].addr
    /\ \A i, j \in Slot : i # j /\ limit[i].id # Unused => limit[i].id # limit[j].id

\* The sockets are closed only for SIGHUP, which Windows does not have.
Hup ==
    /\ sighup \in BOOLEAN /\ lameduck \in BOOLEAN /\ mode \in {"run", "exit"}
    /\ lameduck => sighup
    /\ sighup => ForkSupported

\* A penalty table that is counted, within its limit, and enforces what it must.
PenaltyOK(P) ==
    /\ P \in [pen : [Source -> [held : BOOLEAN, left : {-1} \cup Nat, active : BOOLEAN]], n : Nat]
    /\ P.n = Cardinality(Held(P))
    /\ P.n <= MaxSources
    /\ \A s \in Held(P) : ~P.pen[s].active => P.pen[s].left <= PenaltyMin

\* All of the invariant that is not about penalties.
Tables ==
    /\ TableTypes /\ ProcTypes
    /\ Slots /\ Distinct /\ Procs /\ Fds /\ Counted /\ Entered /\ Hup

IndInv == Tables /\ PenaltyOK(penalties)

-----------------------------------------------------------------------------
(* Facts about the operators of the model.                                 *)

\* A set of numbers that is not empty has a least element, and First names it.
LEMMA FirstIsLeast ==
  ASSUME NEW S, S \subseteq Nat, S # {}
  PROVE  First(S) \in S /\ \A j \in S : First(S) <= j
  <1>1. \E x \in S : \A y \in S : ~(<<y, x>> \in OpToRel(<, Nat))
    BY WFMin, NatLessThanWellFounded
  <1>2. PICK x \in S : \A y \in S : ~(<<y, x>> \in OpToRel(<, Nat))
    BY <1>1
  <1>3. \A y \in S : ~(y < x)
    BY <1>2 DEF OpToRel
  <1>4. \A y \in S : x <= y
    BY <1>3
  <1> QED
    BY <1>4 DEF First

\* The sets of slots, descriptors and processes hold no 0.
LEMMA Numbers ==
  /\ Slot \subseteq Nat /\ Fd \subseteq Nat /\ Pid \subseteq Nat
  /\ None \notin Fd /\ None \notin Pid /\ Unused \notin Fd
  /\ IsFiniteSet(Slot) /\ Cardinality(Slot) = MaxStartups
  /\ IsFiniteSet(Fd) /\ Cardinality(Fd) = MaxStartups + 1
  <1>1. MaxStartups \in Nat \ {0} /\ MaxProcs \in Nat
    BY SrcLimitAssumption, ListenerAssumption
  <1>2. /\ Slot \subseteq Nat /\ Fd \subseteq Nat /\ Pid \subseteq Nat
        /\ None \notin Fd /\ None \notin Pid /\ Unused \notin Fd
    BY <1>1 DEF Slot, Fd, Pid, None, Unused
  <1>3. IsFiniteSet(Slot) /\ Cardinality(Slot) = MaxStartups
    BY <1>1, FS_Interval DEF Slot
  <1>4. IsFiniteSet(Fd) /\ Cardinality(Fd) = MaxStartups + 1
    BY <1>1, FS_Interval DEF Fd
  <1> QED
    BY <1>2, <1>3, <1>4

-----------------------------------------------------------------------------
(* The table of penalties.                                                 *)

PenaltyRec == [held : BOOLEAN, left : {-1} \cup Nat, active : BOOLEAN]

\* A table whose types are right, whatever its limit.
PenTable(P) == P \in [pen : [Source -> PenaltyRec], n : Int]

\* Every penalty that is not enforced is within the minimum.
Lenient(P) == \A s \in Held(P) : ~P.pen[s].active => P.pen[s].left <= PenaltyMin

\* No penalty exceeds the maximum.
Bounded(P) == \A s \in Held(P) : P.pen[s].left <= PenaltyMax

\* The penalties held are finitely many.
LEMMA HeldFinite ==
  ASSUME NEW P
  PROVE  Held(P) \subseteq Source /\ IsFiniteSet(Held(P)) /\ Cardinality(Held(P)) \in Nat
  <1>1. Held(P) \subseteq Source
    BY DEF Held
  <1>2. IsFiniteSet(Held(P))
    BY <1>1, FS_Subset, SrcLimitAssumption
  <1> QED
    BY <1>1, <1>2, FS_CardinalityType

\* Drop takes out the sources it is given, and counts them out (expire_penalties4,
\* srclimit_early_expire_penalties4).
LEMMA DropKeeps ==
  ASSUME NEW P, PenTable(P), P.n = Cardinality(Held(P)), Lenient(P), NEW S, S \subseteq Held(P)
  PROVE  /\ PenTable(Drop(P, S))
         /\ Held(Drop(P, S)) = Held(P) \ S
         /\ Drop(P, S).n = Cardinality(Held(Drop(P, S)))
         /\ \A s \in Held(P) \ S : Drop(P, S).pen[s] = P.pen[s]
         /\ Lenient(Drop(P, S))
         /\ Bounded(P) => Bounded(Drop(P, S))
         /\ Drop(P, S).n = P.n - Cardinality(S)
  <1> DEFINE D == Drop(P, S)
  <1>1. IsFiniteSet(S) /\ Cardinality(S) \in Nat /\ Cardinality(Held(P)) \in Nat
    BY HeldFinite, FS_Subset, FS_CardinalityType
  <1>2. NoPenalty \in PenaltyRec /\ ~NoPenalty.held
    BY DEF NoPenalty, PenaltyRec
  <1>3. PenTable(D)
    BY <1>1, <1>2 DEF Drop, PenTable
  <1>4. \A s \in Source : D.pen[s] = IF s \in S THEN NoPenalty ELSE P.pen[s]
    BY DEF Drop
  <1>5. Held(D) = Held(P) \ S
    BY <1>2, <1>4 DEF Held
  <1>6. Held(P) \cap S = S
    OBVIOUS
  <1>7. Cardinality(Held(D)) = Cardinality(Held(P)) - Cardinality(S)
    <2>1. IsFiniteSet(Held(P))
      BY HeldFinite
    <2>2. Cardinality(Held(P) \ S) = Cardinality(Held(P)) - Cardinality(Held(P) \cap S)
      BY <2>1, FS_Difference
    <2> QED
      BY <1>5, <1>6, <2>2
  <1>8. D.n = P.n - Cardinality(S)
    BY DEF Drop
  <1>9. \A s \in Held(P) \ S : D.pen[s] = P.pen[s]
    BY <1>4 DEF Held
  <1> HIDE DEF D
  <1>10. Lenient(D)
    BY <1>5, <1>9 DEF Lenient
  <1>11. Bounded(P) => Bounded(D)
    BY <1>5, <1>9 DEF Bounded
  <1> QED
    BY <1>3, <1>5, <1>7, <1>8, <1>9, <1>10, <1>11 DEF D

\* The invariant of the table: its size is counted, and within the limit.
LEMMA PenaltyIs ==
  ASSUME NEW P
  PROVE  PenaltyOK(P) <=> /\ PenTable(P) /\ P.n = Cardinality(Held(P)) /\ P.n <= MaxSources
                          /\ Lenient(P)
  BY HeldFinite DEF PenaltyOK, PenTable, Lenient, PenaltyRec

\* expire_penalties keeps the table right, and leaves only penalties that run.
LEMMA ExpireKeeps ==
  ASSUME NEW P, PenaltyOK(P)
  PROVE  /\ PenaltyOK(expire_penalties(P))
         /\ \A s \in Held(expire_penalties(P)) : expire_penalties(P).pen[s].left \in Nat
         /\ Bounded(P) => Bounded(expire_penalties(P))
  <1>1. Expired(P) \subseteq Held(P)
    BY DEF Expired
  <1>2. PenTable(P) /\ P.n = Cardinality(Held(P)) /\ P.n <= MaxSources /\ Lenient(P)
    BY PenaltyIs
  <1> DEFINE D == Drop(P, Expired(P))
  <1>3. /\ PenTable(D)
        /\ Held(D) = Held(P) \ Expired(P)
        /\ D.n = Cardinality(Held(D))
        /\ \A s \in Held(P) \ Expired(P) : D.pen[s] = P.pen[s]
        /\ Lenient(D)
        /\ Bounded(P) => Bounded(D)
        /\ D.n = P.n - Cardinality(Expired(P))
    BY <1>1, <1>2, DropKeeps
  <1>4. Cardinality(Expired(P)) \in Nat
    BY <1>1, HeldFinite, FS_Subset, FS_CardinalityType
  <1>5. P.n \in Nat
    BY <1>2, HeldFinite
  <1> HIDE DEF D
  <1>6. D.n <= MaxSources
    BY <1>2, <1>3, <1>4, <1>5, SrcLimitAssumption
  <1>7. PenaltyOK(D)
    BY <1>3, <1>6, PenaltyIs
  <1>8. \A s \in Held(D) : D.pen[s].left \in Nat
    <2> SUFFICES ASSUME NEW s \in Held(D)
                 PROVE  D.pen[s].left \in Nat
      OBVIOUS
    <2>1. s \in Held(P) /\ ~(P.pen[s].left < 0) /\ D.pen[s] = P.pen[s]
      BY <1>3 DEF Expired
    <2>2. P.pen[s].left \in {-1} \cup Nat
      BY <1>2, <2>1 DEF PenTable, PenaltyRec, Held
    <2> QED
      BY <2>1, <2>2
  <1> QED
    BY <1>3, <1>7, <1>8 DEF expire_penalties, D

\* The penalty that ends first is one of the table.
LEMMA SoonestIsHeld ==
  ASSUME NEW P, PenTable(P), Held(P) # {}
  PROVE  Soonest(P) \in Held(P)
  <1> DEFINE L == {P.pen[s].left + 1 : s \in Held(P)}
  <1>1. \A s \in Held(P) : P.pen[s].left \in Int /\ P.pen[s].left + 1 \in Nat
    BY DEF PenTable, PenaltyRec, Held
  <1>2. L \subseteq Nat /\ L # {}
    BY <1>1
  <1>3. First(L) \in L /\ \A j \in L : First(L) <= j
    BY <1>2, FirstIsLeast
  <1>4. PICK s \in Held(P) : First(L) = P.pen[s].left + 1
    BY <1>3
  <1>5. \A t \in Held(P) : P.pen[s].left + 1 <= P.pen[t].left + 1
    BY <1>3, <1>4
  <1>6. \A t \in Held(P) : P.pen[s].left <= P.pen[t].left
    BY <1>1, <1>5
  <1> QED
    BY <1>6 DEF Soonest

\* A new penalty is counted, and the table stays within its limit.
LEMMA NewPenaltyKeeps ==
  ASSUME NEW P, PenaltyOK(P), NEW s \in Source, ~P.pen[s].held, NEW secs \in Nat
  PROVE  /\ PenaltyOK(NewPenalty(P, s, secs))
         /\ Bounded(P) /\ secs <= PenaltyMax => Bounded(NewPenalty(P, s, secs))
  <1> DEFINE a == secs > PenaltyMin
             r == [held |-> TRUE, left |-> secs, active |-> a]
             Q == [pen |-> [P.pen EXCEPT ![s] = r], n |-> P.n + 1]
  <1>1. PenTable(P) /\ P.n = Cardinality(Held(P)) /\ P.n <= MaxSources /\ Lenient(P)
    BY PenaltyIs
  <1>2. P.n \in Nat /\ MaxSources \in Nat /\ PenaltyMin \in Nat
    BY <1>1, HeldFinite, SrcLimitAssumption
  <1>3. /\ r \in PenaltyRec /\ r.held /\ r.left = secs
        /\ ~r.active => secs <= PenaltyMin
    <2>1. a \in BOOLEAN /\ (~a => secs <= PenaltyMin)
      BY <1>2
    <2> HIDE DEF a
    <2>2. r.active = a /\ r.held /\ r.left = secs
      OBVIOUS
    <2>3. r \in PenaltyRec
      BY <2>1 DEF PenaltyRec
    <2> QED
      BY <2>1, <2>2, <2>3, Zenon
  <1>4. ~r.active => secs <= PenaltyMin
    BY <1>3
  <1> HIDE DEF r
  <1>5. PenTable(Q)
    <2>1. P.pen \in [Source -> PenaltyRec] /\ P.n + 1 \in Int
      BY <1>1, <1>2 DEF PenTable
    <2>2. [P.pen EXCEPT ![s] = r] \in [Source -> PenaltyRec]
      BY <1>3, <2>1
    <2> QED
      BY <2>1, <2>2 DEF PenTable
  <1>6. \A t \in Source : Q.pen[t] = IF t = s THEN r ELSE P.pen[t]
    <2>1. P.pen \in [Source -> PenaltyRec]
      BY <1>1 DEF PenTable
    <2>2. \A x : [P.pen EXCEPT ![s] = x] = [t \in Source |-> IF t = s THEN x ELSE P.pen[t]]
      BY <2>1
    <2>3. Q.pen = [P.pen EXCEPT ![s] = r]
      OBVIOUS
    <2>4. Q.pen = [t \in Source |-> IF t = s THEN r ELSE P.pen[t]]
      BY <2>2, <2>3
    <2> QED
      BY <2>4
  <1>7. Q.n = P.n + 1
    OBVIOUS
  <1> HIDE DEF Q
  <1>8. Held(Q) = Held(P) \cup {s} /\ s \notin Held(P)
    BY <1>3, <1>6 DEF Held
  <1>9. Cardinality(Held(Q)) = Cardinality(Held(P)) + 1
    BY <1>8, HeldFinite, FS_AddElement
  <1>10. Lenient(Q)
    BY <1>1, <1>3, <1>4, <1>6, <1>8 DEF Lenient, Held
  <1>11. ASSUME Bounded(P), secs <= PenaltyMax PROVE Bounded(Q)
    BY <1>3, <1>6, <1>8, <1>11 DEF Bounded, Held
  <1>12. Q.n = Cardinality(Held(Q))
    BY <1>1, <1>7, <1>9
  <1>13. NewPenalty(P, s, secs) = IF Q.n > MaxSources THEN Drop(Q, {Soonest(Q)}) ELSE Q
    BY DEF NewPenalty, srclimit_early_expire_penalties, Q, r, a
  <1>14. CASE Q.n > MaxSources
    <2>1. Held(Q) # {}
      BY <1>8
    <2>2. {Soonest(Q)} \subseteq Held(Q)
      BY <1>5, <2>1, SoonestIsHeld
    <2> DEFINE D == Drop(Q, {Soonest(Q)})
    <2>3. /\ PenTable(D) /\ D.n = Cardinality(Held(D)) /\ Lenient(D)
          /\ Bounded(Q) => Bounded(D)
          /\ D.n = Q.n - Cardinality({Soonest(Q)})
      BY <1>5, <1>10, <1>12, <2>2, DropKeeps
    <2>4. Cardinality({Soonest(Q)}) = 1
      BY FS_Singleton
    <2> HIDE DEF D
    <2>5. D.n <= MaxSources
      BY <1>1, <1>2, <1>7, <2>3, <2>4
    <2>6. PenaltyOK(D)
      BY <2>3, <2>5, PenaltyIs
    <2> QED
      BY <1>11, <1>13, <1>14, <2>3, <2>6 DEF D
  <1>15. CASE ~(Q.n > MaxSources)
    <2>1. Q.n <= MaxSources
      BY <1>2, <1>7, <1>15
    <2>2. PenaltyOK(Q)
      BY <1>5, <1>10, <1>12, <2>1, PenaltyIs
    <2> QED
      BY <1>11, <1>13, <1>15, <2>2
  <1> QED
    BY <1>14, <1>15

\* A repeated penalty grows up to the maximum.
LEMMA AccumulateKeeps ==
  ASSUME NEW P, PenaltyOK(P), NEW s \in Source, P.pen[s].held, P.pen[s].left \in Nat,
         NEW secs \in Nat
  PROVE  /\ PenaltyOK(AccumulatePenalty(P, s, secs))
         /\ Bounded(P) => Bounded(AccumulatePenalty(P, s, secs))
  <1> DEFINE left == IF P.pen[s].left + secs > PenaltyMax THEN PenaltyMax ELSE P.pen[s].left + secs
             Q == AccumulatePenalty(P, s, secs)
             a == P.pen[s].active \/ left > PenaltyMin
             r == [held |-> TRUE, left |-> left, active |-> a]
  <1>1. PenTable(P) /\ P.n = Cardinality(Held(P)) /\ P.n <= MaxSources /\ Lenient(P)
    BY PenaltyIs
  <1>2. PenaltyMax \in Nat /\ PenaltyMin \in Nat
    BY SrcLimitAssumption
  <1>3. left \in Nat /\ left <= PenaltyMax
    BY <1>2
  <1> HIDE DEF left
  <1>4. P.pen \in [Source -> PenaltyRec] /\ P.pen[s] \in PenaltyRec
    BY <1>1 DEF PenTable
  <1>5. a \in BOOLEAN /\ (~a => left <= PenaltyMin)
    BY <1>2, <1>3
  <1>6. r \in PenaltyRec /\ r.held /\ r.left = left
    <2> HIDE DEF a
    <2>1. r.held /\ r.left = left
      OBVIOUS
    <2> QED
      BY <1>3, <1>5, <2>1 DEF PenaltyRec
  <1>7. ~r.active => left <= PenaltyMin
    <2> HIDE DEF a
    <2>1. r.active = a
      OBVIOUS
    <2> QED
      BY <1>5, <2>1, Zenon
  <1>8. Q = [P EXCEPT !.pen = [P.pen EXCEPT ![s] = r]]
    BY <1>1 DEF AccumulatePenalty, left, a, r, PenTable
  <1> HIDE DEF r, Q
  <1>9. Q.n = P.n /\ Q.pen = [P.pen EXCEPT ![s] = r] /\ Q = [pen |-> Q.pen, n |-> Q.n]
    BY <1>1, <1>8 DEF PenTable
  <1>10. Q.pen = [t \in Source |-> IF t = s THEN r ELSE P.pen[t]]
    BY <1>4, <1>9
  <1>11. Q.pen \in [Source -> PenaltyRec]
    BY <1>4, <1>6, <1>10
  <1>12. P.n \in Int
    BY <1>1 DEF PenTable
  <1>13. PenTable(Q)
    BY <1>9, <1>11, <1>12 DEF PenTable
  <1>14. Held(Q) = Held(P)
    BY <1>6, <1>10 DEF Held
  <1>15. Lenient(Q)
    BY <1>1, <1>6, <1>7, <1>10, <1>14 DEF Lenient, Held
  <1>16. Bounded(P) => Bounded(Q)
    BY <1>3, <1>6, <1>10, <1>14 DEF Bounded, Held
  <1> QED
    BY <1>1, <1>9, <1>13, <1>14, <1>15, <1>16, PenaltyIs DEF Q

\* srclimit_penalty_check_allow keeps the table right.
LEMMA CheckKeeps ==
  ASSUME NEW P, PenaltyOK(P), NEW s
  PROVE  /\ PenaltyOK(PenaltyCheck(P, s))
         /\ Bounded(P) => Bounded(PenaltyCheck(P, s))
  BY ExpireKeeps DEF PenaltyCheck

\* So does srclimit_penalise, for every type of penalty.
LEMMA PenaliseKeeps ==
  ASSUME NEW P, PenaltyOK(P), NEW s \in Source, NEW type \in PenaltyType \cup {"none"}
  PROVE  /\ PenaltyOK(srclimit_penalise(P, s, type))
         /\ Bounded(P) /\ (\A t \in PenaltyType : PenaltySecs[t] <= PenaltyMax)
              => Bounded(srclimit_penalise(P, s, type))
  <1>1. CASE s \in Exempt \/ type = "none"
    BY <1>1 DEF srclimit_penalise
  <1>2. CASE ~(s \in Exempt \/ type = "none") /\ PenaltySecs[type] = 0
    BY <1>2 DEF srclimit_penalise
  <1>3. CASE ~(s \in Exempt \/ type = "none") /\ PenaltySecs[type] # 0
    <2> DEFINE Q == expire_penalties(P)
               secs == PenaltySecs[type]
    <2>1. type \in PenaltyType
      BY <1>3
    <2>2. secs \in Nat
      BY <2>1, SrcLimitAssumption
    <2>3. /\ PenaltyOK(Q)
          /\ \A t \in Held(Q) : Q.pen[t].left \in Nat
          /\ Bounded(P) => Bounded(Q)
      BY ExpireKeeps
    <2>4. srclimit_penalise(P, s, type) =
            IF Full(Q) /\ Overflow = "deny-all" THEN Q
            ELSE IF Q.pen[s].held THEN AccumulatePenalty(Q, s, secs)
            ELSE NewPenalty(Q, s, secs)
      BY <1>3 DEF srclimit_penalise
    <2> HIDE DEF Q
    <2>5. CASE Full(Q) /\ Overflow = "deny-all"
      BY <2>3, <2>4, <2>5
    <2>6. CASE ~(Full(Q) /\ Overflow = "deny-all") /\ Q.pen[s].held
      <3>1. Q.pen[s].left \in Nat
        BY <2>3, <2>6 DEF Held
      <3>2. /\ PenaltyOK(AccumulatePenalty(Q, s, secs))
            /\ Bounded(Q) => Bounded(AccumulatePenalty(Q, s, secs))
        BY <2>2, <2>3, <2>6, <3>1, AccumulateKeeps
      <3> QED
        BY <2>3, <2>4, <2>6, <3>2
    <2>7. CASE ~(Full(Q) /\ Overflow = "deny-all") /\ ~Q.pen[s].held
      <3>1. /\ PenaltyOK(NewPenalty(Q, s, secs))
            /\ Bounded(Q) /\ secs <= PenaltyMax => Bounded(NewPenalty(Q, s, secs))
        BY <2>2, <2>3, <2>7, NewPenaltyKeeps
      <3> QED
        BY <2>1, <2>3, <2>4, <2>7, <3>1
    <2> QED
      BY <2>5, <2>6, <2>7
  <1> QED
    BY <1>1, <1>2, <1>3

\* Time only shortens penalties.
LEMMA ElapseKeeps ==
  ASSUME NEW P, PenaltyOK(P)
  PROVE  /\ PenaltyOK(Elapse(P))
         /\ Bounded(P) => Bounded(Elapse(P))
  <1> DEFINE r(s) == IF P.pen[s].held /\ P.pen[s].left >= 0
                     THEN [P.pen[s] EXCEPT !.left = @ - 1] ELSE P.pen[s]
             Q == Elapse(P)
  <1>1. PenTable(P) /\ P.n = Cardinality(Held(P)) /\ P.n <= MaxSources /\ Lenient(P)
    BY PenaltyIs
  <1>2. \A s \in Source : P.pen[s] \in PenaltyRec
    BY <1>1 DEF PenTable
  <1>3. \A s \in Source : /\ r(s) \in PenaltyRec
                          /\ r(s).held = P.pen[s].held /\ r(s).active = P.pen[s].active
                          /\ r(s).left <= P.pen[s].left
    <2> TAKE s \in Source
    <2>1. CASE P.pen[s].held /\ P.pen[s].left >= 0
      <3>1. P.pen[s].left - 1 \in {-1} \cup Nat /\ P.pen[s].left - 1 <= P.pen[s].left
        BY <1>2, <2>1 DEF PenaltyRec
      <3>2. r(s) = [P.pen[s] EXCEPT !.left = P.pen[s].left - 1]
        BY <2>1
      <3> QED
        BY <1>2, <3>1, <3>2 DEF PenaltyRec
    <2>2. CASE ~(P.pen[s].held /\ P.pen[s].left >= 0)
      BY <1>2, <2>2 DEF PenaltyRec
    <2> QED
      BY <2>1, <2>2
  <1>4. Q = [P EXCEPT !.pen = [s \in Source |-> r(s)]]
    BY DEF Elapse
  <1> HIDE DEF r, Q
  <1>5. Q.n = P.n /\ Q.pen = [s \in Source |-> r(s)] /\ Q = [pen |-> Q.pen, n |-> Q.n]
    BY <1>1, <1>4 DEF PenTable
  <1>6. Q.pen \in [Source -> PenaltyRec]
    BY <1>3, <1>5
  <1>7. P.n \in Int
    BY <1>1 DEF PenTable
  <1>8. PenTable(Q)
    BY <1>5, <1>6, <1>7 DEF PenTable
  <1>9. Held(Q) = Held(P)
    BY <1>3, <1>5 DEF Held
  <1>10. \A s \in Source : P.pen[s].left \in Int /\ r(s).left \in Int
    BY <1>2, <1>3 DEF PenaltyRec
  <1>11. \A s \in Source : Q.pen[s] = r(s)
    BY <1>5
  <1>12. PenaltyMin \in Int /\ PenaltyMax \in Int
    BY SrcLimitAssumption
  <1>13. Lenient(Q)
    BY <1>1, <1>3, <1>9, <1>10, <1>11, <1>12 DEF Lenient, Held
  <1>14. Bounded(P) => Bounded(Q)
    BY <1>3, <1>9, <1>10, <1>11, <1>12 DEF Bounded, Held
  <1> QED
    BY <1>1, <1>5, <1>8, <1>9, <1>13, <1>14, PenaltyIs DEF Q

-----------------------------------------------------------------------------
(* The children table, the per-source table and the session processes.     *)

SlotRec == [pipefd : Fd \cup {None}, pid : Pid \cup {None}, early : BOOLEAN,
            buf : {"config", "keys", "none"}, addr : Source \cup {NoSource}]

EntryRec == [id : Fd \cup {Unused}, addr : Source \cup {NoSource}]

ProcRec == [st : {"none", "init", "preauth", "auth", "zombie"}, fd : Fd \cup {None},
            status : Statuses]

PipeRec == [open : BOOLEAN, got : Nat, sent : Seq({0, 1})]

\* The types in the form the proofs use.
LEMMA Types ==
  /\ TableTypes <=> child \in [Slot -> SlotRec] /\ limit \in [Slot -> EntryRec]
  /\ ProcTypes <=> proc \in [Pid -> ProcRec] /\ pipe \in [Fd -> PipeRec]
  /\ TableTypes' <=> child' \in [Slot -> SlotRec] /\ limit' \in [Slot -> EntryRec]
  /\ ProcTypes' <=> proc' \in [Pid -> ProcRec] /\ pipe' \in [Fd -> PipeRec]
  BY DEF TableTypes, ProcTypes, SlotRec, EntryRec, ProcRec, PipeRec

\* The sets that are counted are finite.
LEMMA CountedSets ==
  /\ IsFiniteSet(Used) /\ Cardinality(Used) \in Nat
  /\ IsFiniteSet(EarlySlots) /\ Cardinality(EarlySlots) \in Nat
  <1>1. Used \subseteq Slot /\ EarlySlots \subseteq Slot
    BY DEF Used, EarlySlots
  <1> QED
    BY <1>1, Numbers, FS_Subset, FS_CardinalityType

\* A slot is in use exactly while it has a pipe or a process.
LEMMA UsedIsTracked ==
  /\ Slots => Used = Tracked
  /\ Slots' => Used' = Tracked'
  BY DEF Slots, SlotInv, Used, Vacant, Tracked

\* What a step does not touch stays right.
LEMMA SlotFrame ==
  ASSUME NEW j, SlotInv(j), child'[j] = child[j],
         child[j].pid # None => proc'[child[j].pid] = proc[child[j].pid],
         child[j].pipefd # None => pipe'[child[j].pipefd] = pipe[child[j].pipefd]
  PROVE  SlotInv(j)'
  BY DEF SlotInv

\* A step of a session process: p goes on to x, its pipe, if it has one, to q.
LEMMA ProcessStep ==
  ASSUME Tables, NEW p \in Pid, NEW x \in ProcRec, NEW q \in PipeRec,
         ListenerUnchanged,
         proc' = [proc EXCEPT ![p] = x],
         pipe' = IF proc[p].fd = None THEN pipe ELSE [pipe EXCEPT ![proc[p].fd] = q],
         x.fd = proc[p].fd, x.st # "none",
         \A i \in Slot : child[i].pid = p /\ child[i].pipefd = None => x.st = "zombie",
         \A i \in Slot : child[i].pid = p /\ child[i].pipefd # None =>
             Stage(child[i], q) /\ Link(x.st, child[i], q)
  PROVE  Tables'
  <1>1. /\ child' = child /\ limit' = limit /\ children_active' = children_active
        /\ listening' = listening /\ sighup' = sighup /\ lameduck' = lameduck /\ mode' = mode
    BY DEF ListenerUnchanged
  <1>2. /\ child \in [Slot -> SlotRec] /\ limit \in [Slot -> EntryRec]
        /\ proc \in [Pid -> ProcRec] /\ pipe \in [Fd -> PipeRec]
    BY Types DEF Tables
  <1>3. TableTypes'
    BY <1>1, <1>2, Types
  <1>4. proc' \in [Pid -> ProcRec] /\ \A r \in Pid : proc'[r] = IF r = p THEN x ELSE proc[r]
    BY <1>2
  <1>5. proc[p].fd \in Fd \cup {None}
    BY <1>2 DEF ProcRec
  <1>6. /\ pipe' \in [Fd -> PipeRec]
        /\ \A fd \in Fd : pipe'[fd] = IF fd = proc[p].fd THEN q ELSE pipe[fd]
    <2>1. CASE proc[p].fd = None
      BY <1>2, <2>1, Numbers
    <2>2. CASE proc[p].fd # None
      BY <1>2, <1>5, <2>2
    <2> QED
      BY <2>1, <2>2
  <1>7. ProcTypes'
    BY <1>4, <1>6, Types
  <1>8. Slots'
    <2> SUFFICES ASSUME NEW j \in Slot
                 PROVE  SlotInv(j)'
      BY DEF Slots
    <2>1. SlotInv(j) /\ child[j] \in SlotRec
      BY <1>2 DEF Tables, Slots
    <2>2. child[j].pid \in Pid \cup {None} /\ child[j].pipefd \in Fd \cup {None}
      BY <2>1 DEF SlotRec
    <2>3. CASE child[j].pid = p
      <3>1. child[j].pid # None
        BY <2>3, Numbers
      <3>2. proc'[child[j].pid] = x
        BY <1>4, <2>3
      <3>3. CASE child[j].pipefd = None
        BY <1>1, <2>1, <2>3, <3>1, <3>2, <3>3 DEF SlotInv
      <3>4. CASE child[j].pipefd # None
        <4>1. proc[p].fd = child[j].pipefd
          BY <2>1, <2>3, <3>1, <3>4 DEF SlotInv
        <4>2. pipe'[child[j].pipefd] = q
          BY <1>6, <2>2, <3>4, <4>1
        <4>3. Stage(child[j], q) /\ Link(x.st, child[j], q)
          BY <2>3, <3>4
        <4> QED
          BY <1>1, <2>1, <2>3, <3>1, <3>2, <3>4, <4>1, <4>2, <4>3 DEF SlotInv
      <3> QED
        BY <3>3, <3>4
    <2>4. CASE child[j].pid # p
      <3>1. child[j].pid # None => proc'[child[j].pid] = proc[child[j].pid]
        BY <1>4, <2>2, <2>4
      <3>2. child[j].pipefd # None => child[j].pipefd # proc[p].fd
        BY <2>4 DEF Tables, Procs, Distinct
      <3>3. child[j].pipefd # None => pipe'[child[j].pipefd] = pipe[child[j].pipefd]
        BY <1>6, <2>2, <3>2
      <3> QED
        BY <1>1, <2>1, <3>1, <3>3, SlotFrame
    <2> QED
      BY <2>3, <2>4
  <1>9. Procs'
    BY <1>1, <1>4 DEF Tables, Procs
  <1>10. Fds'
    BY <1>1, <1>6 DEF Tables, Procs, Fds
  <1>11. Distinct' /\ Counted' /\ Entered' /\ Hup'
    BY <1>1 DEF Tables, Distinct, Counted, Entered, Hup, Used, EarlySlots, Vacant
  <1> QED
    BY <1>3, <1>7, <1>8, <1>9, <1>10, <1>11 DEF Tables

\* The bytes of a startup pipe.
LEMMA Bytes ==
  /\ Append(<<>>, 0) = <<0>> /\ Append(<<>>, 1) = <<1>> /\ Append(<<0>>, 1) = <<0, 1>>
  /\ Head(<<0>>) = 0 /\ Head(<<0, 1>>) = 0 /\ Head(<<1>>) = 1
  /\ Tail(<<0>>) = <<>> /\ Tail(<<0, 1>>) = <<1>>
  /\ <<0>> # <<>> /\ <<1>> # <<>> /\ <<0, 1>> # <<>> /\ <<0, 1>> # <<1>> /\ <<0>> # <<1>>
  <1>1. Append(<<>>, 0) = <<0>>
    OBVIOUS
  <1>2. Append(<<>>, 1) = <<1>>
    OBVIOUS
  <1>3. Append(<<0>>, 1) = <<0, 1>>
    <2>1. <<0>> \in Seq({0, 1}) /\ <<0, 1>> \in Seq({0, 1}) /\ Len(<<0, 1>>) = 2 /\ Len(<<0>>) = 1
      OBVIOUS
    <2>2. /\ Append(<<0>>, 1) \in Seq({0, 1}) /\ Len(Append(<<0>>, 1)) = 2
          /\ Append(<<0>>, 1)[1] = 0 /\ Append(<<0>>, 1)[2] = 1
      BY <2>1, AppendProperties
    <2>3. <<0, 1>>[1] = 0 /\ <<0, 1>>[2] = 1
      OBVIOUS
    <2>4. \A i \in 1 .. 2 : i = 1 \/ i = 2
      OBVIOUS
    <2>5. \A i \in 1 .. Len(Append(<<0>>, 1)) : Append(<<0>>, 1)[i] = <<0, 1>>[i]
      BY <2>2, <2>3, <2>4, Zenon
    <2> QED
      BY <2>1, <2>2, <2>5, SeqEqual
  <1>4. Head(<<0>>) = 0 /\ Head(<<0, 1>>) = 0 /\ Head(<<1>>) = 1
    OBVIOUS
  <1>5. Tail(<<0>>) = <<>>
    OBVIOUS
  <1>6. Tail(<<0, 1>>) = <<1>>
    OBVIOUS
  <1>7. <<0>> # <<>> /\ <<1>> # <<>> /\ <<0, 1>> # <<>>
    OBVIOUS
  <1>8. <<0, 1>> # <<1>> /\ <<0>> # <<1>>
    OBVIOUS
  <1> QED
    BY <1>1, <1>2, <1>3, <1>4, <1>5, <1>6, <1>7, <1>8

\* The process of a slot that has a pipe has the same pipe.
LEMMA OfSlot ==
  ASSUME Tables, NEW i \in Slot, child[i].pid # None
  PROVE  /\ SlotInv(i)
         /\ child[i].pid \in Pid
         /\ child[i].pipefd \in Fd \cup {None}
         /\ child[i].pipefd # None =>
              /\ proc[child[i].pid].fd = child[i].pipefd
              /\ Stage(child[i], pipe[child[i].pipefd])
              /\ Link(proc[child[i].pid].st, child[i], pipe[child[i].pipefd])
  <1>1. SlotInv(i)
    BY DEF Tables, Slots
  <1>2. child[i] \in SlotRec
    BY Types DEF Tables
  <1> QED
    BY <1>1, <1>2 DEF SlotInv, SlotRec

\* A process reports that it has its configuration and its keys.
LEMMA PreliminariesKeeps ==
  ASSUME Tables, NEW p \in Pid, Preliminaries(p)
  PROVE  Tables'
  <1>1. proc \in [Pid -> ProcRec] /\ pipe \in [Fd -> PipeRec]
    BY Types DEF Tables
  <1>2. /\ proc[p].st = "init" /\ proc[p].fd # None /\ pipe[proc[p].fd].got = 2
        /\ Says(p, "preauth", 0, TRUE)
    BY DEF Preliminaries
  <1> DEFINE x == [proc[p] EXCEPT !.st = "preauth"]
             o == pipe[proc[p].fd]
             q == [open |-> TRUE, got |-> o.got, sent |-> Append(o.sent, 0)]
  <1>3. proc[p].fd \in Fd /\ o \in PipeRec
    BY <1>1, <1>2 DEF ProcRec
  <1>4. x \in ProcRec /\ x.fd = proc[p].fd /\ x.st = "preauth"
    BY <1>1 DEF ProcRec
  <1>5. q \in PipeRec /\ q.open = TRUE /\ q.sent = Append(o.sent, 0)
    <2> HIDE DEF o
    <2>1. o.sent \in Seq({0, 1}) /\ o.got \in Nat
      BY <1>3 DEF PipeRec
    <2> QED
      BY <2>1 DEF PipeRec
  <1>6. proc' = [proc EXCEPT ![p] = x]
    BY <1>2 DEF Says
  <1>7. pipe' = IF proc[p].fd = None THEN pipe ELSE [pipe EXCEPT ![proc[p].fd] = q]
    BY <1>2 DEF Says
  <1>8. ListenerUnchanged
    BY <1>2 DEF Says
  <1> HIDE DEF x, q
  <1>9. \A i \in Slot : child[i].pid = p => child[i].pipefd = proc[p].fd
    <2> SUFFICES ASSUME NEW i \in Slot, child[i].pid = p
                 PROVE  child[i].pipefd = proc[p].fd
      OBVIOUS
    <2>1. child[i].pid # None
      BY Numbers
    <2> QED
      BY <1>2, <2>1, OfSlot DEF SlotInv
  <1>10. \A i \in Slot : child[i].pid = p /\ child[i].pipefd # None =>
             Stage(child[i], q) /\ Link(x.st, child[i], q)
    <2> SUFFICES ASSUME NEW i \in Slot, child[i].pid = p, child[i].pipefd # None
                 PROVE  Stage(child[i], q) /\ Link(x.st, child[i], q)
      OBVIOUS
    <2>1. child[i].pid # None
      BY Numbers
    <2>2. Stage(child[i], o) /\ Link("init", child[i], o)
      BY <1>2, <1>9, <2>1, OfSlot
    <2>3. child[i] \in SlotRec
      BY Types DEF Tables
    <2>4. child[i].buf = "none"
      BY <1>2, <2>2, <2>3 DEF Stage, SlotRec
    <2>5. q.sent = <<0>> /\ child[i].early
      BY <1>5, <2>2, Bytes DEF Link
    <2> QED
      BY <1>4, <1>5, <2>4, <2>5, Bytes DEF Stage, Link
  <1>11. \A i \in Slot : child[i].pid = p /\ child[i].pipefd = None => x.st = "zombie"
    BY <1>2, <1>9
  <1> QED
    BY <1>4, <1>5, <1>6, <1>7, <1>8, <1>10, <1>11, ProcessStep

\* A process reports that its user has authenticated.
LEMMA AuthenticatedKeeps ==
  ASSUME Tables, NEW p \in Pid, Authenticated(p)
  PROVE  Tables'
  <1>1. proc \in [Pid -> ProcRec] /\ pipe \in [Fd -> PipeRec]
    BY Types DEF Tables
  <1>2. proc[p].st = "preauth" /\ Says(p, "auth", 1, FALSE)
    BY DEF Authenticated
  <1> DEFINE x == [proc[p] EXCEPT !.st = "auth"]
             o == IF proc[p].fd = None THEN NoPipe ELSE pipe[proc[p].fd]
             q == [open |-> FALSE, got |-> o.got, sent |-> Append(o.sent, 1)]
  <1>3. o \in PipeRec
    <2>1. NoPipe \in PipeRec
      BY DEF NoPipe, PipeRec
    <2>2. proc[p].fd \in Fd \cup {None}
      BY <1>1 DEF ProcRec
    <2> QED
      BY <1>1, <2>1, <2>2
  <1>4. x \in ProcRec /\ x.fd = proc[p].fd /\ x.st = "auth"
    BY <1>1 DEF ProcRec
  <1>5. proc[p].fd # None => o = pipe[proc[p].fd]
    OBVIOUS
  <1>6. proc' = [proc EXCEPT ![p] = x]
    BY <1>2 DEF Says
  <1>7. pipe' = IF proc[p].fd = None THEN pipe ELSE [pipe EXCEPT ![proc[p].fd] = q]
    BY <1>2 DEF Says
  <1>8. ListenerUnchanged
    BY <1>2 DEF Says
  <1> HIDE DEF o
  <1>9. q \in PipeRec /\ ~q.open /\ q.sent = Append(o.sent, 1) /\ q.got = o.got
    BY <1>3 DEF PipeRec
  <1> HIDE DEF x, q
  <1>10. \A i \in Slot : child[i].pid = p => child[i].pipefd # None /\ child[i].pipefd = proc[p].fd
    <2> SUFFICES ASSUME NEW i \in Slot, child[i].pid = p
                 PROVE  child[i].pipefd # None /\ child[i].pipefd = proc[p].fd
      OBVIOUS
    <2>1. child[i].pid # None
      BY Numbers
    <2> QED
      BY <1>2, <2>1, OfSlot DEF SlotInv
  <1>11. \A i \in Slot : child[i].pid = p /\ child[i].pipefd # None =>
             Stage(child[i], q) /\ Link(x.st, child[i], q)
    <2> SUFFICES ASSUME NEW i \in Slot, child[i].pid = p, child[i].pipefd # None
                 PROVE  Stage(child[i], q) /\ Link(x.st, child[i], q)
      OBVIOUS
    <2>1. child[i].pid # None
      BY Numbers
    <2>2. Stage(child[i], o) /\ Link("preauth", child[i], o)
      BY <1>2, <1>5, <1>10, <2>1, OfSlot
    <2>3. child[i].buf = "none" /\ o.sent = (IF child[i].early THEN <<0>> ELSE <<>>)
      BY <2>2 DEF Link
    <2>4. CASE child[i].early
      <3>1. q.sent = <<0, 1>>
        BY <1>9, <2>3, <2>4, Bytes
      <3> QED
        BY <1>4, <2>3, <2>4, <3>1, Bytes DEF Stage, Link
    <2>5. CASE ~child[i].early
      <3>1. q.sent = <<1>>
        BY <1>9, <2>3, <2>5, Bytes
      <3> QED
        BY <1>4, <2>3, <2>5, <3>1, Bytes DEF Stage, Link
    <2> QED
      BY <2>4, <2>5
  <1>12. \A i \in Slot : child[i].pid = p /\ child[i].pipefd = None => x.st = "zombie"
    BY <1>10
  <1> QED
    BY <1>4, <1>6, <1>7, <1>8, <1>9, <1>11, <1>12, ProcessStep

\* A process ends, at any time and in any way.
LEMMA ExitKeeps ==
  ASSUME Tables, NEW p \in Pid, Exit(p)
  PROVE  Tables'
  <1>1. proc \in [Pid -> ProcRec] /\ pipe \in [Fd -> PipeRec]
    BY Types DEF Tables
  <1>2. PICK status \in EndsWith(p) :
          proc' = [proc EXCEPT ![p] = [st |-> "zombie", fd |-> @.fd, status |-> status]]
    BY DEF Exit
  <1>3. status \in Statuses
    BY ListenerAssumption DEF EndsWith
  <1> DEFINE x == [st |-> "zombie", fd |-> proc[p].fd, status |-> status]
             o == IF proc[p].fd = None THEN NoPipe ELSE pipe[proc[p].fd]
             q == [o EXCEPT !.open = FALSE]
  <1>4. o \in PipeRec
    <2>1. NoPipe \in PipeRec
      BY DEF NoPipe, PipeRec
    <2>2. proc[p].fd \in Fd \cup {None}
      BY <1>1 DEF ProcRec
    <2> QED
      BY <1>1, <2>1, <2>2
  <1>5. x \in ProcRec /\ x.fd = proc[p].fd /\ x.st = "zombie"
    BY <1>1, <1>3 DEF ProcRec
  <1>6. proc[p].fd # None => o = pipe[proc[p].fd]
    OBVIOUS
  <1>7. proc' = [proc EXCEPT ![p] = x]
    BY <1>2
  <1>8. pipe' = IF proc[p].fd = None THEN pipe ELSE [pipe EXCEPT ![proc[p].fd] = q]
    BY DEF Exit
  <1>9. ListenerUnchanged
    BY DEF Exit
  <1> HIDE DEF o, x
  <1>10. q \in PipeRec /\ q.sent = o.sent /\ q.got = o.got
    BY <1>4 DEF PipeRec
  <1> HIDE DEF q
  <1>11. \A i \in Slot : child[i].pid = p /\ child[i].pipefd # None =>
             Stage(child[i], q) /\ Link(x.st, child[i], q)
    <2> SUFFICES ASSUME NEW i \in Slot, child[i].pid = p, child[i].pipefd # None
                 PROVE  Stage(child[i], q) /\ Link(x.st, child[i], q)
      OBVIOUS
    <2>1. child[i].pid # None
      BY Numbers
    <2>2. Stage(child[i], o)
      BY <1>6, <2>1, OfSlot
    <2> QED
      BY <1>5, <1>10, <2>2 DEF Stage, Link
  <1> QED
    BY <1>5, <1>7, <1>8, <1>9, <1>10, <1>11, ProcessStep

\* srclimit_done takes out the one entry of a pipe that is open.
LEMMA DoneRemoves ==
  ASSUME Tables, NEW i \in Slot, child[i].pipefd # None
  PROVE  \E k \in Slot : /\ limit[k].id = child[i].pipefd
                         /\ \A j \in Slot : j # k => limit[j].id # child[i].pipefd
                         /\ srclimit_done(limit, child[i].pipefd) = [limit EXCEPT ![k] = NoEntry]
  <1> DEFINE fd == child[i].pipefd
             found == {j \in Slot : limit[j].id = fd}
  <1>1. PICK k \in Slot : limit[k].id = fd
    BY DEF Tables, Entered
  <1>2. fd # Unused
    BY DEF None, Unused
  <1>3. \A j \in Slot : j # k => limit[j].id # fd
    BY <1>1, <1>2 DEF Tables, Entered
  <1>4. found = {k}
    BY <1>1, <1>3
  <1>5. First(found) = k
    BY <1>4 DEF First
  <1>6. srclimit_done(limit, fd) = [limit EXCEPT ![k] = NoEntry]
    BY <1>4, <1>5 DEF srclimit_done
  <1> QED
    BY <1>1, <1>3, <1>6

\* A slot loses its pipe, which the listener closes.
LEMMA CloseSlot ==
  ASSUME Tables, NEW i \in Slot, child[i].pipefd # None,
         NEW r \in SlotRec, r.pipefd = None, r.pid \in {child[i].pid, None},
         child' = [child EXCEPT ![i] = r],
         limit' = srclimit_done(limit, child[i].pipefd),
         Close(child[i].pipefd)
  PROVE  /\ TableTypes' /\ ProcTypes' /\ Distinct' /\ Procs' /\ Fds' /\ Entered'
         /\ \A j \in Slot : j # i => SlotInv(j)'
         /\ \A j \in Slot : child'[j] = IF j = i THEN r ELSE child[j]
         /\ \A p \in Pid : proc'[p].st = proc[p].st
  <1> DEFINE fd == child[i].pipefd
  <1>1. /\ child \in [Slot -> SlotRec] /\ limit \in [Slot -> EntryRec]
        /\ proc \in [Pid -> ProcRec] /\ pipe \in [Fd -> PipeRec]
    BY Types DEF Tables
  <1>2. fd \in Fd /\ fd # None
    BY <1>1 DEF SlotRec
  <1>3. /\ child' \in [Slot -> SlotRec]
        /\ \A j \in Slot : child'[j] = IF j = i THEN r ELSE child[j]
    BY <1>1
  <1>4. PICK k \in Slot : /\ limit[k].id = fd
                          /\ \A j \in Slot : j # k => limit[j].id # fd
                          /\ limit' = [limit EXCEPT ![k] = NoEntry]
    BY DoneRemoves
  <1>5. NoEntry \in EntryRec /\ NoEntry.id = Unused
    BY DEF NoEntry, EntryRec
  <1>6. /\ limit' \in [Slot -> EntryRec]
        /\ \A j \in Slot : limit'[j] = IF j = k THEN NoEntry ELSE limit[j]
    BY <1>1, <1>4, <1>5
  <1>7. pipe' = [pipe EXCEPT ![fd] = NoPipe]
    BY DEF Close
  <1>8. NoPipe \in PipeRec
    BY DEF NoPipe, PipeRec
  <1>9. /\ pipe' \in [Fd -> PipeRec]
        /\ \A f \in Fd : pipe'[f] = IF f = fd THEN NoPipe ELSE pipe[f]
    BY <1>1, <1>7, <1>8
  <1>10. proc' = [p \in Pid |-> IF proc[p].fd = fd THEN [proc[p] EXCEPT !.fd = None] ELSE proc[p]]
    BY DEF Close
  <1> HIDE DEF fd
  <1>11. \A p \in Pid : /\ proc'[p] \in ProcRec /\ proc'[p].st = proc[p].st
                        /\ proc'[p].fd = IF proc[p].fd = fd THEN None ELSE proc[p].fd
                        /\ proc[p].fd # fd => proc'[p] = proc[p]
    BY <1>1, <1>10 DEF ProcRec
  <1>12. proc' \in [Pid -> ProcRec]
    BY <1>10, <1>11
  <1>13. TableTypes' /\ ProcTypes'
    BY <1>3, <1>6, <1>9, <1>12, Types
  <1>14. \A j \in Slot : j # i => child[j].pipefd # fd
    BY <1>2 DEF Tables, Distinct, fd
  <1>15. \A j \in Slot : j # i => SlotInv(j)'
    <2> SUFFICES ASSUME NEW j \in Slot, j # i
                 PROVE  SlotInv(j)'
      OBVIOUS
    <2>1. SlotInv(j) /\ child[j] \in SlotRec
      BY <1>1 DEF Tables, Slots
    <2>2. child[j].pid \in Pid \cup {None} /\ child[j].pipefd \in Fd \cup {None}
      BY <2>1 DEF SlotRec
    <2>3. child[j].pipefd # None => pipe'[child[j].pipefd] = pipe[child[j].pipefd]
      BY <1>9, <1>14, <2>2
    <2>4. child[j].pid # None => proc[child[j].pid].fd # fd
      <3> SUFFICES ASSUME child[j].pid # None, proc[child[j].pid].fd = fd
                   PROVE  FALSE
        OBVIOUS
      <3>1. PICK m \in Slot : child[m].pipefd = fd /\ child[m].pid = child[j].pid
        BY <1>2, <2>2 DEF Tables, Procs
      <3>2. m = j
        BY <3>1 DEF Tables, Distinct
      <3> QED
        BY <1>14, <3>1, <3>2
    <2>5. child[j].pid # None => proc'[child[j].pid] = proc[child[j].pid]
      BY <1>11, <2>2, <2>4
    <2> QED
      BY <1>3, <2>1, <2>3, <2>5, SlotFrame
  <1>16. Distinct'
    BY <1>3 DEF Tables, Distinct
  <1>17. Procs'
    <2> SUFFICES ASSUME NEW p \in Pid, proc'[p].fd # None
                 PROVE  \E j \in Slot : child'[j].pipefd = proc'[p].fd /\ child'[j].pid = p
      BY DEF Procs
    <2>1. proc'[p].fd = proc[p].fd /\ proc[p].fd # fd
      BY <1>11
    <2>2. PICK j \in Slot : child[j].pipefd = proc[p].fd /\ child[j].pid = p
      BY <2>1 DEF Tables, Procs
    <2>3. j # i
      BY <2>1, <2>2 DEF fd
    <2> QED
      BY <1>3, <2>1, <2>2, <2>3
  <1>18. Fds'
    <2> SUFFICES ASSUME NEW f \in Fd, \A j \in Slot : child'[j].pipefd # f
                 PROVE  pipe'[f] = NoPipe
      BY DEF Fds
    <2>1. CASE f = fd
      BY <1>9, <2>1
    <2>2. CASE f # fd
      <3>1. \A j \in Slot : child[j].pipefd # f
        BY <1>3, <2>2 DEF fd
      <3> QED
        BY <1>9, <2>2, <3>1 DEF Tables, Fds
    <2> QED
      BY <2>1, <2>2
  <1>19. Entered'
    <2>1. \A j \in Slot : limit'[j].id # Unused =>
            \E m \in Slot : child'[m].pipefd = limit'[j].id /\ child'[m].addr = limit'[j].addr
      <3> SUFFICES ASSUME NEW j \in Slot, limit'[j].id # Unused
                   PROVE  \E m \in Slot : child'[m].pipefd = limit'[j].id /\ child'[m].addr = limit'[j].addr
        OBVIOUS
      <3>1. j # k /\ limit'[j] = limit[j]
        BY <1>5, <1>6
      <3>2. PICK m \in Slot : child[m].pipefd = limit[j].id /\ child[m].addr = limit[j].addr
        BY <3>1 DEF Tables, Entered
      <3>3. m # i
        BY <1>4, <3>1, <3>2 DEF fd
      <3> QED
        BY <1>3, <3>1, <3>2, <3>3
    <2>2. \A j \in Slot : child'[j].pipefd # None =>
            \E m \in Slot : limit'[m].id = child'[j].pipefd /\ limit'[m].addr = child'[j].addr
      <3> SUFFICES ASSUME NEW j \in Slot, child'[j].pipefd # None
                   PROVE  \E m \in Slot : limit'[m].id = child'[j].pipefd /\ limit'[m].addr = child'[j].addr
        OBVIOUS
      <3>1. j # i /\ child'[j] = child[j]
        BY <1>3
      <3>2. PICK m \in Slot : limit[m].id = child[j].pipefd /\ limit[m].addr = child[j].addr
        BY <3>1 DEF Tables, Entered
      <3>3. m # k
        BY <1>4, <1>14, <3>1, <3>2
      <3> QED
        BY <1>6, <3>1, <3>2, <3>3
    <2>3. \A j, m \in Slot : j # m /\ limit'[j].id # Unused => limit'[j].id # limit'[m].id
      BY <1>5, <1>6 DEF Tables, Entered
    <2> QED
      BY <2>1, <2>2, <2>3 DEF Entered
  <1> QED
    BY <1>3, <1>11, <1>13, <1>15, <1>16, <1>17, <1>18, <1>19

\* Counting a slot out is never an underflow.
LEMMA CountsOut ==
  ASSUME Tables, NEW i \in Used, Count(TRUE)
  PROVE  mode' = mode /\ children_active' = Cardinality(Used \ {i})
  <1>1. IsFiniteSet(Used) /\ Cardinality(Used) \in Nat /\ children_active = Cardinality(Used)
    BY CountedSets DEF Tables, Counted
  <1>2. Cardinality(Used \ {i}) = Cardinality(Used) - 1
    BY <1>1, FS_RemoveElement
  <1>3. Cardinality(Used) # 0
    BY <1>1, FS_EmptySet
  <1> QED
    BY <1>1, <1>2, <1>3 DEF Count

\* An early slot that loses its pipe is counted out of listening.
LEMMA ListensLess ==
  ASSUME Tables, NEW i \in Slot, child[i].pipefd # None,
         listening' = listening - Early(i)
  PROVE  listening' \in Int /\ (ForkSupported => listening' = Cardinality(EarlySlots \ {i}))
  <1>1. IsFiniteSet(EarlySlots) /\ Cardinality(EarlySlots) \in Nat
    BY CountedSets
  <1>2. Cardinality(EarlySlots \ {i}) =
          IF i \in EarlySlots THEN Cardinality(EarlySlots) - 1 ELSE Cardinality(EarlySlots)
    BY <1>1, FS_RemoveElement
  <1>3. i \in EarlySlots <=> child[i].early
    BY DEF EarlySlots
  <1>4. listening \in Int /\ (ForkSupported => listening = Cardinality(EarlySlots))
    BY DEF Tables, Counted
  <1> QED
    BY <1>1, <1>2, <1>3, <1>4 DEF Early

\* The pipe of a slot is at its end.
LEMMA HangUpKeeps ==
  ASSUME Tables, NEW i \in Slot, HangUp(i)
  PROVE  Tables'
  <1>1. /\ child[i].pipefd # None /\ ~pipe[child[i].pipefd].open
        /\ child[i].buf # "none" \/ pipe[child[i].pipefd].sent = <<>>
        /\ listening' = listening - Early(i)
        /\ child_close(i, FALSE)
        /\ Close(child[i].pipefd)
        /\ sighup' = sighup /\ lameduck' = lameduck
    BY DEF HangUp
  <1>2. child \in [Slot -> SlotRec]
    BY Types DEF Tables
  <1> DEFINE r == IF child[i].pid = None THEN FreeSlot ELSE [child[i] EXCEPT !.pipefd = None]
  <1>3. FreeSlot \in SlotRec /\ FreeSlot.pipefd = None /\ FreeSlot.pid = None /\ FreeSlot.buf = "none"
    BY DEF FreeSlot, SlotRec
  <1>4. /\ r \in SlotRec /\ r.pipefd = None /\ r.pid = child[i].pid
        /\ r.pid = None => r.buf = "none"
        /\ r.pid # None => r.addr = child[i].addr
    BY <1>2, <1>3 DEF SlotRec
  <1>5. child' = [child EXCEPT ![i] = r]
    BY <1>1, <1>2 DEF child_close, child_finish, Finishes
  <1>6. limit' = srclimit_done(limit, child[i].pipefd)
    BY <1>1 DEF child_close
  <1> HIDE DEF r
  <1>7. /\ TableTypes' /\ ProcTypes' /\ Distinct' /\ Procs' /\ Fds' /\ Entered'
        /\ \A j \in Slot : j # i => SlotInv(j)'
        /\ \A j \in Slot : child'[j] = IF j = i THEN r ELSE child[j]
        /\ \A p \in Pid : proc'[p].st = proc[p].st
    BY <1>1, <1>4, <1>5, <1>6, CloseSlot
  <1>8. child'[i] = r
    BY <1>7
  <1>9. SlotInv(i)'
    <2>1. CASE r.pid = None
      BY <1>4, <1>8, <2>1 DEF SlotInv
    <2>2. CASE r.pid # None
      <3>1. child[i].pid # None
        BY <1>4, <2>2
      <3>2. /\ SlotInv(i) /\ child[i].pid \in Pid
            /\ Link(proc[child[i].pid].st, child[i], pipe[child[i].pipefd])
        BY <1>1, <3>1, OfSlot
      <3>3. proc[child[i].pid].st \in {"none", "init", "preauth", "auth", "zombie"}
        BY <3>2, Types DEF Tables, ProcRec
      <3>4. proc[child[i].pid].st = "zombie"
        BY <1>1, <3>1, <3>2, <3>3, Bytes DEF Link, SlotInv
      <3>5. proc'[r.pid].st = "zombie"
        BY <1>4, <1>7, <3>2, <3>4
      <3>6. r.addr \in Source
        BY <1>4, <2>2, <3>1, <3>2 DEF SlotInv
      <3> QED
        BY <1>4, <1>8, <2>2, <3>5, <3>6 DEF SlotInv
    <2> QED
      BY <2>1, <2>2
  <1>10. Slots'
    BY <1>7, <1>9 DEF Slots
  <1>11. Used = Tracked /\ Used' = Tracked'
    BY <1>10, UsedIsTracked DEF Tables
  <1>12. i \in Used
    BY <1>1, <1>11 DEF Tracked
  <1>13. EarlySlots' = EarlySlots \ {i}
    BY <1>4, <1>7 DEF EarlySlots
  <1>14. mode' = mode /\ children_active' = Cardinality(Used')
    <2>1. CASE child[i].pid = None
      <3>1. Count(TRUE)
        BY <1>1, <2>1 DEF child_close, Finishes
      <3>2. Used' = Used \ {i}
        BY <1>4, <1>7, <1>11, <2>1 DEF Tracked
      <3> QED
        BY <1>12, <3>1, <3>2, CountsOut
    <2>2. CASE child[i].pid # None
      <3>1. Count(FALSE)
        BY <1>1, <2>2 DEF child_close, Finishes
      <3>2. Used' = Used
        BY <1>1, <1>4, <1>7, <1>11, <2>2 DEF Tracked
      <3> QED
        BY <3>1, <3>2 DEF Count, Tables, Counted
    <2> QED
      BY <2>1, <2>2
  <1>15. Counted'
    <2>1. listening' \in Int /\ (ForkSupported => listening' = Cardinality(EarlySlots \ {i}))
      BY <1>1, ListensLess
    <2> QED
      BY <1>13, <1>14, <2>1 DEF Counted
  <1>16. Hup'
    BY <1>1, <1>14 DEF Tables, Hup
  <1> QED
    BY <1>7, <1>10, <1>15, <1>16 DEF Tables

\* The byte the listener reads is the one it expects.
LEMMA Expected ==
  ASSUME Tables, NEW i \in Slot, child[i].pipefd # None, pipe[child[i].pipefd].sent # <<>>
  PROVE  /\ child[i].buf = "none"
         /\ ~Unexpected(i, Head(pipe[child[i].pipefd].sent))
         /\ \/ /\ child[i].early /\ Head(pipe[child[i].pipefd].sent) = 0
               /\ pipe[child[i].pipefd].sent \in {<<0>>, <<0, 1>>}
            \/ ~child[i].early /\ pipe[child[i].pipefd].sent = <<1>>
  <1> DEFINE q == pipe[child[i].pipefd]
  <1>1. Stage(child[i], q)
    BY DEF Tables, Slots, SlotInv
  <1>2. child[i].buf = "none"
    BY <1>1 DEF Stage
  <1> HIDE DEF q
  <1>3. q.sent # <<>>
    BY DEF q
  <1>4. \/ child[i].early /\ Head(q.sent) = 0 /\ q.sent \in {<<0>>, <<0, 1>>}
        \/ ~child[i].early /\ q.sent = <<1>> /\ Head(q.sent) = 1
    BY <1>1, <1>3, Bytes DEF Stage
  <1>5. ~Unexpected(i, Head(q.sent))
    BY <1>2, <1>4 DEF Unexpected
  <1> QED
    BY <1>2, <1>4, <1>5 DEF q

\* A slot changes, and with it at most its pipe, but neither descriptor, process nor source.
LEMMA SlotChanges ==
  ASSUME Tables, NEW i \in Slot, child[i].pipefd # None,
         NEW r \in SlotRec, NEW q \in PipeRec,
         r.pipefd = child[i].pipefd, r.pid = child[i].pid, r.addr = child[i].addr,
         child' = [child EXCEPT ![i] = r],
         pipe' = [pipe EXCEPT ![child[i].pipefd] = q],
         UNCHANGED <<children_active, limit, sighup, lameduck, mode, proc>>,
         Stage(r, q), child[i].pid # None => Link(proc[child[i].pid].st, r, q),
         listening' \in Int, ForkSupported => listening' = Cardinality(EarlySlots')
  PROVE  Tables'
  <1> DEFINE fd == child[i].pipefd
  <1>1. /\ child \in [Slot -> SlotRec] /\ limit \in [Slot -> EntryRec]
        /\ proc \in [Pid -> ProcRec] /\ pipe \in [Fd -> PipeRec]
    BY Types DEF Tables
  <1>2. fd \in Fd
    BY <1>1 DEF SlotRec
  <1>3. /\ child' \in [Slot -> SlotRec]
        /\ \A j \in Slot : child'[j] = IF j = i THEN r ELSE child[j]
    BY <1>1
  <1>4. /\ pipe' \in [Fd -> PipeRec]
        /\ \A f \in Fd : pipe'[f] = IF f = fd THEN q ELSE pipe[f]
    BY <1>1, <1>2
  <1>5. TableTypes' /\ ProcTypes'
    BY <1>1, <1>3, <1>4, Types
  <1>6. child'[i] = r /\ pipe'[r.pipefd] = q
    BY <1>2, <1>3, <1>4
  <1>7. SlotInv(i)'
    <2>1. SlotInv(i)
      BY DEF Tables, Slots
    <2> QED
      BY <1>6, <2>1 DEF SlotInv
  <1>8. Slots'
    <2> SUFFICES ASSUME NEW j \in Slot, j # i
                 PROVE  SlotInv(j)'
      BY <1>7 DEF Slots
    <2>1. SlotInv(j) /\ child[j] \in SlotRec
      BY <1>1 DEF Tables, Slots
    <2>2. child[j].pipefd \in Fd \cup {None}
      BY <2>1 DEF SlotRec
    <2>3. child[j].pipefd # None => child[j].pipefd # fd
      BY DEF Tables, Distinct
    <2>4. child[j].pipefd # None => pipe'[child[j].pipefd] = pipe[child[j].pipefd]
      BY <1>4, <2>2, <2>3
    <2> QED
      BY <1>3, <2>1, <2>4, SlotFrame
  <1>9. \A j \in Slot : /\ child'[j].pipefd = child[j].pipefd /\ child'[j].pid = child[j].pid
                        /\ child'[j].addr = child[j].addr
    BY <1>3
  <1>10. Distinct' /\ Procs' /\ Entered'
    BY <1>9 DEF Tables, Distinct, Procs, Entered
  <1>11. Fds'
    BY <1>4, <1>9 DEF Tables, Fds
  <1>12. Used' = Used
    BY <1>8, <1>9, UsedIsTracked DEF Tables, Tracked
  <1>13. Counted'
    BY <1>12 DEF Tables, Counted
  <1>14. Hup'
    BY DEF Tables, Hup
  <1> QED
    BY <1>5, <1>8, <1>10, <1>11, <1>13, <1>14 DEF Tables

\* config and then keys are written to the pipe.
LEMMA WriteKeeps ==
  ASSUME Tables, NEW i \in Slot, Write(i)
  PROVE  Tables'
  <1>1. /\ child[i].pipefd # None /\ child[i].buf # "none"
        /\ child' = [child EXCEPT ![i].buf = IF @ = "config" THEN "keys" ELSE "none"]
        /\ pipe' = [pipe EXCEPT ![child[i].pipefd].got = @ + 1]
        /\ UNCHANGED <<children_active, listening, limit, sighup, lameduck, mode, proc>>
    BY DEF Write
  <1>2. child \in [Slot -> SlotRec] /\ pipe \in [Fd -> PipeRec]
    BY Types DEF Tables
  <1> DEFINE b == IF child[i].buf = "config" THEN "keys" ELSE "none"
             r == [child[i] EXCEPT !.buf = b]
             o == pipe[child[i].pipefd]
             q == [o EXCEPT !.got = @ + 1]
  <1>3. child[i] \in SlotRec /\ o \in PipeRec
    BY <1>1, <1>2 DEF SlotRec
  <1>4. b \in {"keys", "none"} /\ (b = "keys" <=> child[i].buf = "config")
    OBVIOUS
  <1>5. child' = [child EXCEPT ![i] = r]
    BY <1>1
  <1>6. pipe' = [pipe EXCEPT ![child[i].pipefd] = q]
    BY <1>1
  <1>7. Stage(child[i], o)
    BY <1>1 DEF Tables, Slots, SlotInv
  <1>8. child[i].pid # None => Link(proc[child[i].pid].st, child[i], o)
    BY <1>1, OfSlot
  <1> HIDE DEF b, o
  <1>9. /\ r \in SlotRec /\ r.pipefd = child[i].pipefd /\ r.pid = child[i].pid
        /\ r.addr = child[i].addr /\ r.early = child[i].early /\ r.buf = b
    BY <1>3, <1>4 DEF SlotRec
  <1>10. q \in PipeRec /\ q.got = o.got + 1 /\ q.sent = o.sent /\ q.open = o.open
    <2>1. o.got \in Nat /\ o.got + 1 \in Nat
      BY <1>3 DEF PipeRec
    <2> QED
      BY <1>3, <2>1 DEF PipeRec
  <1> HIDE DEF r, q
  <1>11. o.sent = <<>> /\ child[i].early
    BY <1>1, <1>7 DEF Stage
  <1>12. Stage(r, q)
    <2>1. b = "keys" => q.got = 1
      BY <1>4, <1>7, <1>10 DEF Stage
    <2> QED
      BY <1>4, <1>9, <1>10, <1>11, <2>1 DEF Stage
  <1>13. child[i].pid # None => Link(proc[child[i].pid].st, r, q)
    BY <1>1, <1>8, <1>9, <1>10 DEF Link
  <1>14. EarlySlots' = EarlySlots
    BY <1>2, <1>5, <1>9 DEF EarlySlots
  <1>15. listening' \in Int /\ (ForkSupported => listening' = Cardinality(EarlySlots'))
    BY <1>1, <1>14 DEF Tables, Counted
  <1> QED
    BY <1>1, <1>5, <1>6, <1>9, <1>10, <1>12, <1>13, <1>15, SlotChanges

\* A byte is read.
LEMMA ReadKeeps ==
  ASSUME Tables, NEW i \in Slot, Read(i)
  PROVE  Tables'
  <1> DEFINE fd == child[i].pipefd
             o == pipe[fd]
             c == Head(o.sent)
  <1>1. fd # None /\ o.sent # <<>> /\ sighup' = sighup /\ lameduck' = lameduck
    BY DEF Read
  <1>2. /\ child[i].buf = "none" /\ ~Unexpected(i, c)
        /\ \/ child[i].early /\ c = 0 /\ o.sent \in {<<0>>, <<0, 1>>}
           \/ ~child[i].early /\ o.sent = <<1>>
    BY <1>1, Expected
  <1>3. child \in [Slot -> SlotRec] /\ pipe \in [Fd -> PipeRec]
    BY Types DEF Tables
  <1>4. child[i] \in SlotRec /\ o \in PipeRec
    BY <1>1, <1>3 DEF SlotRec
  <1>5. CASE c = 0
    <2>1. child[i].early /\ o.sent \in {<<0>>, <<0, 1>>}
      BY <1>2, <1>5, Bytes
    <2>2. /\ listening' = listening - 1
          /\ child' = [child EXCEPT ![i].early = FALSE]
          /\ pipe' = [pipe EXCEPT ![fd].sent = Tail(@)]
          /\ UNCHANGED <<children_active, limit, mode, proc>>
      BY <1>2, <1>5 DEF Read
    <2> DEFINE r == [child[i] EXCEPT !.early = FALSE]
               q == [o EXCEPT !.sent = Tail(@)]
    <2>3. child' = [child EXCEPT ![i] = r] /\ pipe' = [pipe EXCEPT ![fd] = q]
      BY <2>2
    <2>4. Stage(child[i], o) /\ (child[i].pid # None => Link(proc[child[i].pid].st, child[i], o))
      BY <1>1, OfSlot DEF Tables, Slots, SlotInv
    <2> HIDE DEF o
    <2>5. /\ r \in SlotRec /\ r.pipefd = child[i].pipefd /\ r.pid = child[i].pid
          /\ r.addr = child[i].addr /\ r.early = FALSE /\ r.buf = child[i].buf
      BY <1>4 DEF SlotRec
    <2>6. Tail(o.sent) \in Seq({0, 1})
      <3>1. <<>> \in Seq({0, 1}) /\ <<1>> \in Seq({0, 1})
        OBVIOUS
      <3> QED
        BY <2>1, <3>1, Bytes
    <2>7. q \in PipeRec /\ q.got = o.got /\ q.sent = Tail(o.sent) /\ q.open = o.open
      BY <1>4, <2>6 DEF PipeRec
    <2> HIDE DEF r, q
    <2>8. q.sent \in {<<>>, <<1>>} /\ (o.sent = <<0>> => q.sent = <<>>) /\ (o.sent = <<0, 1>> => q.sent = <<1>>)
      BY <2>1, <2>7, Bytes
    <2>9. Stage(r, q)
      BY <1>2, <2>5, <2>8 DEF Stage
    <2>10. child[i].pid # None => Link(proc[child[i].pid].st, r, q)
      BY <1>2, <2>1, <2>4, <2>5, <2>7, <2>8, Bytes DEF Link
    <2>11. EarlySlots' = EarlySlots \ {i}
      BY <1>3, <2>3, <2>5 DEF EarlySlots
    <2>12. listening' \in Int /\ (ForkSupported => listening' = Cardinality(EarlySlots'))
      BY <1>1, <2>1, <2>2, <2>11, ListensLess DEF Early
    <2> QED
      BY <1>1, <2>2, <2>3, <2>5, <2>7, <2>9, <2>10, <2>12, SlotChanges
  <1>6. CASE c # 0
    <2>1. ~child[i].early
      BY <1>2, <1>6
    <2>2. child_close(i, TRUE) /\ Close(fd) /\ listening' = listening
      BY <1>2, <1>6 DEF Read
    <2>3. FreeSlot \in SlotRec /\ FreeSlot.pipefd = None /\ FreeSlot.pid = None /\ FreeSlot.buf = "none"
      BY DEF FreeSlot, SlotRec
    <2>4. child' = [child EXCEPT ![i] = FreeSlot] /\ limit' = srclimit_done(limit, fd) /\ Count(TRUE)
      BY <2>2 DEF child_close, child_finish, Finishes
    <2>5. /\ TableTypes' /\ ProcTypes' /\ Distinct' /\ Procs' /\ Fds' /\ Entered'
          /\ \A j \in Slot : j # i => SlotInv(j)'
          /\ \A j \in Slot : child'[j] = IF j = i THEN FreeSlot ELSE child[j]
      BY <1>1, <2>2, <2>3, <2>4, CloseSlot
    <2>6. SlotInv(i)'
      BY <2>3, <2>5 DEF SlotInv
    <2>7. Slots'
      BY <2>5, <2>6 DEF Slots
    <2>8. Used = Tracked /\ Used' = Tracked'
      BY <2>7, UsedIsTracked DEF Tables
    <2>9. i \in Used /\ Used' = Used \ {i}
      BY <1>1, <2>3, <2>5, <2>8 DEF Tracked
    <2>10. mode' = mode /\ children_active' = Cardinality(Used')
      BY <2>4, <2>9, CountsOut
    <2>11. EarlySlots' = EarlySlots
      BY <2>1, <2>3, <2>5 DEF EarlySlots
    <2>12. Counted' /\ Hup'
      BY <1>1, <2>2, <2>10, <2>11 DEF Tables, Counted, Hup
    <2> QED
      BY <2>5, <2>7, <2>12 DEF Tables
  <1> QED
    BY <1>5, <1>6

\* A process that has ended is waited for.
LEMMA ReapKeeps ==
  ASSUME Tables, NEW p \in Pid, child_reap_all_exited(p)
  PROVE  Tables'
  <1>1. /\ proc' = [proc EXCEPT ![p] = NoProc]
        /\ listening' = listening /\ limit' = limit /\ sighup' = sighup
        /\ lameduck' = lameduck /\ pipe' = pipe
    BY DEF child_reap_all_exited
  <1>2. /\ child \in [Slot -> SlotRec] /\ limit \in [Slot -> EntryRec]
        /\ proc \in [Pid -> ProcRec] /\ pipe \in [Fd -> PipeRec]
    BY Types DEF Tables
  <1>3. NoProc \in ProcRec /\ NoProc.fd = None
    BY DEF NoProc, ProcRec, Statuses
  <1>4. proc' \in [Pid -> ProcRec] /\ \A r \in Pid : proc'[r] = IF r = p THEN NoProc ELSE proc[r]
    BY <1>1, <1>2, <1>3
  <1>5. p # None
    BY Numbers
  <1>6. \A j \in Slot : child[j].pid # p /\ child'[j] = child[j] => SlotInv(j)'
    <2> SUFFICES ASSUME NEW j \in Slot, child[j].pid # p, child'[j] = child[j]
                 PROVE  SlotInv(j)'
      OBVIOUS
    <2>1. SlotInv(j) /\ child[j] \in SlotRec
      BY <1>2 DEF Tables, Slots
    <2>2. child[j].pid # None => proc'[child[j].pid] = proc[child[j].pid]
      BY <1>4, <2>1 DEF SlotRec
    <2> QED
      BY <1>1, <2>1, <2>2, SlotFrame
  <1>7. CASE \A i \in Slot : child[i].pid # p
    <2>1. child' = child /\ children_active' = children_active /\ mode' = mode
      BY <1>7 DEF child_reap_all_exited
    <2>2. TableTypes' /\ ProcTypes'
      BY <1>1, <1>2, <1>4, <2>1, Types
    <2>3. Slots'
      BY <1>6, <1>7, <2>1 DEF Slots
    <2>4. Procs'
      BY <1>3, <1>4, <2>1 DEF Tables, Procs
    <2>5. Distinct' /\ Fds' /\ Counted' /\ Entered' /\ Hup'
      BY <1>1, <2>1 DEF Tables, Distinct, Fds, Counted, Entered, Hup, Used, EarlySlots, Vacant
    <2> QED
      BY <2>2, <2>3, <2>4, <2>5 DEF Tables
  <1>8. ASSUME NEW k \in Slot, child[k].pid = p
        PROVE  Tables'
    <2>1. PICK i \in Slot : child[i].pid = p /\ child_reap(i, p)
      BY <1>8 DEF child_reap_all_exited
    <2> DEFINE r == IF child[i].pipefd = None THEN FreeSlot ELSE [child[i] EXCEPT !.pid = None]
    <2>2. FreeSlot \in SlotRec /\ FreeSlot.pipefd = None /\ FreeSlot.pid = None /\ FreeSlot.buf = "none"
      BY DEF FreeSlot, SlotRec
    <2>3. /\ r \in SlotRec /\ r.pipefd = child[i].pipefd /\ r.pid = None
          /\ r.pipefd = None => r.buf = "none"
          /\ r.pipefd # None => r.addr = child[i].addr /\ r.early = child[i].early /\ r.buf = child[i].buf
      BY <1>2, <2>2 DEF SlotRec
    <2>4. child' = [child EXCEPT ![i] = r] /\ Count(child[i].pipefd = None)
      BY <2>1 DEF child_reap, child_finish
    <2> HIDE DEF r
    <2>5. /\ child' \in [Slot -> SlotRec]
          /\ \A j \in Slot : child'[j] = IF j = i THEN r ELSE child[j]
      BY <1>2, <2>3, <2>4
    <2>6. TableTypes' /\ ProcTypes'
      BY <1>1, <1>2, <1>4, <2>5, Types
    <2>7. \A j \in Slot : j # i => child[j].pid # p
      BY <1>5, <2>1 DEF Tables, Distinct
    <2>8. SlotInv(i)'
      <3>1. SlotInv(i)
        BY DEF Tables, Slots
      <3>2. CASE child[i].pipefd = None
        BY <2>3, <2>5, <3>2 DEF SlotInv
      <3>3. CASE child[i].pipefd # None
        <4>1. Stage(r, pipe[r.pipefd]) /\ r.addr \in Source
          BY <2>3, <3>1, <3>3 DEF SlotInv, Stage
        <4> QED
          BY <1>1, <2>3, <2>5, <3>3, <4>1 DEF SlotInv
      <3> QED
        BY <3>2, <3>3
    <2>9. Slots'
      BY <1>6, <2>5, <2>7, <2>8 DEF Slots
    <2>10. Distinct'
      BY <2>3, <2>5 DEF Tables, Distinct
    <2>11. Procs'
      <3> SUFFICES ASSUME NEW z \in Pid, proc'[z].fd # None
                   PROVE  \E j \in Slot : child'[j].pipefd = proc'[z].fd /\ child'[j].pid = z
        BY DEF Procs
      <3>1. z # p /\ proc'[z] = proc[z]
        BY <1>3, <1>4
      <3>2. PICK j \in Slot : child[j].pipefd = proc[z].fd /\ child[j].pid = z
        BY <3>1 DEF Tables, Procs
      <3> QED
        BY <2>1, <2>5, <3>1, <3>2
    <2>12. Fds'
      BY <1>1, <2>3, <2>5 DEF Tables, Fds
    <2>13. Entered'
      <3>1. \A j \in Slot : child'[j].pipefd = child[j].pipefd /\ (child[j].pipefd # None => child'[j].addr = child[j].addr)
        BY <2>3, <2>5
      <3>2. \A j \in Slot : limit[j].id # Unused => limit[j].id # None
        BY DEF Unused, None
      <3> QED
        BY <1>1, <3>1, <3>2 DEF Tables, Entered
    <2>14. Used = Tracked /\ Used' = Tracked'
      BY <2>9, UsedIsTracked DEF Tables
    <2>15. mode' = mode /\ children_active' = Cardinality(Used')
      <3>1. CASE child[i].pipefd = None
        <4>1. i \in Used /\ Used' = Used \ {i}
          BY <1>5, <2>1, <2>3, <2>5, <2>14, <3>1 DEF Tracked
        <4>2. Count(TRUE)
          BY <2>4, <3>1
        <4> QED
          BY <4>1, <4>2, CountsOut
      <3>2. CASE child[i].pipefd # None
        <4>1. Used' = Used
          BY <2>1, <2>3, <2>5, <2>14, <3>2 DEF Tracked
        <4>2. Count(FALSE)
          BY <2>4, <3>2
        <4> QED
          BY <4>1, <4>2 DEF Count, Tables, Counted
      <3> QED
        BY <3>1, <3>2
    <2>16. EarlySlots' = EarlySlots
      BY <2>3, <2>5 DEF EarlySlots
    <2>17. Counted' /\ Hup'
      BY <1>1, <2>15, <2>16 DEF Tables, Counted, Hup
    <2> QED
      BY <2>6, <2>9, <2>10, <2>11, <2>12, <2>13, <2>17 DEF Tables
  <1> QED
    BY <1>7, <1>8

\* Where should_drop_connection lets a connection through, there is a slot for it: the
\* fatal errors of child_register do not occur.
LEMMA RoomForOne ==
  ASSUME Tables, FALSE \in should_drop_connection(children_active)
  PROVE  /\ VacantSlots # {} /\ children_active < MaxStartups
         /\ First(VacantSlots) \in Slot /\ Vacant(First(VacantSlots))
  <1>1. children_active = Cardinality(Used) /\ IsFiniteSet(Used) /\ children_active \in Nat
    BY CountedSets DEF Tables, Counted
  <1>2. MaxStartups \in Nat /\ MaxStartupsBegin \in Nat /\ MaxStartupsBegin <= MaxStartups
    BY SrcLimitAssumption, ListenerAssumption
  <1>3. children_active < MaxStartups
    <2> SUFFICES ASSUME children_active >= MaxStartups
                 PROVE  FALSE
      BY <1>1, <1>2
    <2>1. ~(children_active < MaxStartupsBegin) /\ children_active >= MaxStartupsBegin
      BY <1>1, <1>2
    <2>2. ~(children_active < MaxStartups)
      BY <1>1, <1>2
    <2>3. should_drop_connection(children_active) = {TRUE}
      BY <2>1, <2>2 DEF should_drop_connection
    <2> QED
      BY <2>3
  <1>4. Used # Slot
    BY <1>1, <1>3, Numbers
  <1>5. VacantSlots # {} /\ VacantSlots \subseteq Nat
    BY <1>4, Numbers DEF VacantSlots, Used
  <1>6. First(VacantSlots) \in VacantSlots
    BY <1>5, FirstIsLeast
  <1> QED
    BY <1>3, <1>5, <1>6 DEF VacantSlots, Used

\* There is a descriptor that no slot has: one more than there are slots.
LEMMA NewFdIsNew ==
  ASSUME Tables
  PROVE  NewFd \in Fd /\ \A i \in Slot : child[i].pipefd # NewFd
  <1> DEFINE F == {fd \in Fd : \A i \in Slot : child[i].pipefd # fd}
  <1>1. F # {}
    <2> SUFFICES ASSUME \A fd \in Fd : \E i \in Slot : child[i].pipefd = fd
                 PROVE  FALSE
      OBVIOUS
    <2> DEFINE g == [fd \in Fd |-> CHOOSE i \in Slot : child[i].pipefd = fd]
    <2>1. \A fd \in Fd : g[fd] \in Slot /\ child[g[fd]].pipefd = fd
      OBVIOUS
    <2>2. g \in [Fd -> Slot]
      BY <2>1
    <2> HIDE DEF g
    <2>3. IsFiniteSet(Fd) /\ IsFiniteSet(Slot) /\ Cardinality(Slot) < Cardinality(Fd)
      BY SrcLimitAssumption, Numbers
    <2>4. \E x, y \in Fd : x # y /\ g[x] = g[y]
      BY <2>2, <2>3, FS_PigeonHole
    <2> QED
      BY <2>1, <2>4
  <1>2. F \subseteq Nat
    BY Numbers
  <1>3. First(F) \in F
    BY <1>1, <1>2, FirstIsLeast
  <1> QED
    BY <1>3 DEF NewFd

\* A connection is accepted: it gets a slot, a descriptor and an entry of its own.
LEMMA AdmitKeeps ==
  ASSUME Tables, NEW s \in Source, NEW pid \in Pid \cup {None},
         pid # None => proc[pid].st = "none",
         Admit(s, pid)
  PROVE  Tables'
  <1>1. /\ FALSE \in should_drop_connection(children_active)
        /\ Allowed(limit, s)
        /\ limit' = srclimit_check_allow(limit, s, NewFd)
        /\ listening' = IF ForkSupported THEN listening + 1 ELSE listening
        /\ sighup' = sighup /\ lameduck' = lameduck
    BY DEF Admit
  <1>2. PICK k \in Slot : /\ k = First(VacantSlots) /\ VacantSlots # {}
                          /\ children_active < MaxStartups /\ Vacant(k)
    BY <1>1, RoomForOne
  <1>3. PICK fd \in Fd : /\ fd = NewFd /\ fd # None /\ fd # Unused
                         /\ \A i \in Slot : child[i].pipefd # fd
    BY NewFdIsNew, Numbers
  <1>4. PICK l \in Slot : l = First(Room(limit)) /\ limit[l].id = Unused
    <2>1. Room(limit) # {} /\ Room(limit) \subseteq Nat
      BY <1>1, Numbers DEF Allowed, Room
    <2>2. First(Room(limit)) \in Room(limit)
      BY <2>1, FirstIsLeast
    <2> QED
      BY <2>2 DEF Room
  <1> DEFINE r == [pipefd |-> fd, pid |-> pid, early |-> TRUE, buf |-> "config", addr |-> s]
             x == [st |-> "init", fd |-> fd, status |-> "0"]
             b == pid # None
             q == [NoPipe EXCEPT !.open = b]
             e == [id |-> fd, addr |-> s]
  <1>5. ~(children_active >= MaxStartups)
    <2>1. children_active \in Nat /\ MaxStartups \in Nat
      BY CountedSets, SrcLimitAssumption DEF Tables, Counted
    <2> QED
      BY <1>2, <2>1
  <1>6. /\ child' = [child EXCEPT ![k] = r]
        /\ children_active' = children_active + 1
        /\ proc' = IF pid = None THEN proc ELSE [proc EXCEPT ![pid] = x]
        /\ pipe' = [pipe EXCEPT ![fd].open = b]
        /\ mode' = mode
    BY <1>2, <1>3, <1>5 DEF Admit, child_register
  <1>7. limit' = [limit EXCEPT ![l] = e]
    BY <1>1, <1>3, <1>4 DEF srclimit_check_allow
  <1>8. /\ child \in [Slot -> SlotRec] /\ limit \in [Slot -> EntryRec]
        /\ proc \in [Pid -> ProcRec] /\ pipe \in [Fd -> PipeRec]
    BY Types DEF Tables
  <1>9. pipe[fd] = NoPipe
    BY <1>3 DEF Tables, Fds
  <1>10. /\ r \in SlotRec /\ r.pipefd = fd /\ r.pid = pid /\ r.early /\ r.buf = "config" /\ r.addr = s
    BY <1>3 DEF SlotRec
  <1>11. x \in ProcRec /\ x.fd = fd /\ x.st = "init"
    BY <1>3 DEF ProcRec, Statuses
  <1>12. q \in PipeRec /\ q.got = 0 /\ q.sent = <<>> /\ (pid # None => q.open)
    <2>1. <<>> \in Seq({0, 1}) /\ 0 \in Nat
      OBVIOUS
    <2>2. NoPipe \in PipeRec /\ NoPipe.got = 0 /\ NoPipe.sent = <<>>
      BY <2>1 DEF NoPipe, PipeRec
    <2>3. b \in BOOLEAN /\ (pid # None => b)
      OBVIOUS
    <2> HIDE DEF b
    <2>4. q \in PipeRec /\ q.got = NoPipe.got /\ q.sent = NoPipe.sent /\ q.open = b
      BY <2>2, <2>3 DEF PipeRec
    <2> QED
      BY <2>2, <2>3, <2>4, Zenon
  <1>13. e \in EntryRec /\ e.id = fd /\ e.addr = s
    BY <1>3 DEF EntryRec
  <1>14. pipe' = [pipe EXCEPT ![fd] = q]
    BY <1>6, <1>9
  <1> HIDE DEF r, x, q, e, b
  <1>15. /\ child' \in [Slot -> SlotRec]
         /\ \A j \in Slot : child'[j] = IF j = k THEN r ELSE child[j]
    BY <1>2, <1>6, <1>8, <1>10
  <1>16. /\ limit' \in [Slot -> EntryRec]
         /\ \A j \in Slot : limit'[j] = IF j = l THEN e ELSE limit[j]
    BY <1>4, <1>7, <1>8, <1>13
  <1>17. /\ pipe' \in [Fd -> PipeRec]
         /\ \A f \in Fd : pipe'[f] = IF f = fd THEN q ELSE pipe[f]
    BY <1>3, <1>8, <1>12, <1>14
  <1>18. /\ proc' \in [Pid -> ProcRec]
         /\ \A p \in Pid : proc'[p] = IF p = pid THEN x ELSE proc[p]
    <2>1. CASE pid = None
      BY <1>6, <1>8, <2>1, Numbers
    <2>2. CASE pid # None
      BY <1>6, <1>8, <1>11, <2>2
    <2> QED
      BY <2>1, <2>2
  <1>19. TableTypes' /\ ProcTypes'
    BY <1>15, <1>16, <1>17, <1>18, Types
  <1>20. child[k].pipefd = None /\ child[k].pid = None
    BY <1>2 DEF Vacant
  <1>21. \A j \in Slot : pid # None => child[j].pid # pid
    <2> SUFFICES ASSUME NEW j \in Slot, pid # None, child[j].pid = pid
                 PROVE  FALSE
      OBVIOUS
    <2>1. SlotInv(j)
      BY DEF Tables, Slots
    <2> QED
      BY <2>1 DEF SlotInv
  <1>22. Slots'
    <2>1. SlotInv(k)'
      <3>1. child'[k] = r /\ pipe'[r.pipefd] = q
        BY <1>2, <1>3, <1>10, <1>15, <1>17
      <3>2. Stage(r, q)
        BY <1>10, <1>12 DEF Stage
      <3>3. ASSUME pid # None
            PROVE  proc'[r.pid] = x /\ Link(x.st, r, q)
        BY <1>10, <1>11, <1>12, <1>18, <3>3 DEF Link
      <3> QED
        BY <1>3, <1>10, <1>11, <3>1, <3>2, <3>3 DEF SlotInv
    <2>2. ASSUME NEW j \in Slot, j # k
          PROVE  SlotInv(j)'
      <3>1. SlotInv(j) /\ child[j] \in SlotRec
        BY <1>8 DEF Tables, Slots
      <3>2. child[j].pid \in Pid \cup {None} /\ child[j].pipefd \in Fd \cup {None}
        BY <3>1 DEF SlotRec
      <3>3. child[j].pid # None => proc'[child[j].pid] = proc[child[j].pid]
        BY <1>18, <1>21, <3>2
      <3>4. child[j].pipefd # None => pipe'[child[j].pipefd] = pipe[child[j].pipefd]
        BY <1>3, <1>17, <3>2
      <3>5. child'[j] = child[j]
        BY <1>15, <2>2
      <3> QED
        BY <3>1, <3>3, <3>4, <3>5, SlotFrame
    <2> QED
      BY <2>1, <2>2 DEF Slots
  <1>23. Distinct'
    <2> SUFFICES ASSUME NEW i \in Slot, NEW j \in Slot, i # j
                 PROVE  /\ child'[i].pipefd # None => child'[i].pipefd # child'[j].pipefd
                        /\ child'[i].pid # None => child'[i].pid # child'[j].pid
      BY DEF Distinct
    <2>1. CASE i = k
      BY <1>3, <1>10, <1>15, <1>21, <2>1
    <2>2. CASE j = k
      BY <1>3, <1>10, <1>15, <1>21, <2>2
    <2>3. CASE i # k /\ j # k
      BY <1>15, <2>3 DEF Tables, Distinct
    <2> QED
      BY <2>1, <2>2, <2>3
  <1>24. Procs'
    <2> SUFFICES ASSUME NEW p \in Pid, proc'[p].fd # None
                 PROVE  \E j \in Slot : child'[j].pipefd = proc'[p].fd /\ child'[j].pid = p
      BY DEF Procs
    <2>1. CASE p = pid
      BY <1>2, <1>10, <1>11, <1>15, <1>18, <2>1
    <2>2. CASE p # pid
      <3>1. PICK j \in Slot : child[j].pipefd = proc[p].fd /\ child[j].pid = p
        BY <1>18, <2>2 DEF Tables, Procs
      <3>2. j # k
        BY <1>20, <3>1, Numbers
      <3> QED
        BY <1>15, <1>18, <2>2, <3>1, <3>2
    <2> QED
      BY <2>1, <2>2
  <1>25. Fds'
    <2> SUFFICES ASSUME NEW f \in Fd, \A j \in Slot : child'[j].pipefd # f
                 PROVE  pipe'[f] = NoPipe
      BY DEF Fds
    <2>1. f # fd
      BY <1>2, <1>10, <1>15
    <2>2. \A j \in Slot : child[j].pipefd # f
      BY <1>15, <1>20, Numbers
    <2> QED
      BY <1>17, <2>1, <2>2 DEF Tables, Fds
  <1>26. Entered'
    <2>1. ASSUME NEW j \in Slot, limit'[j].id # Unused
          PROVE  \E m \in Slot : child'[m].pipefd = limit'[j].id /\ child'[m].addr = limit'[j].addr
      <3>1. CASE j = l
        BY <1>2, <1>10, <1>13, <1>15, <1>16, <3>1
      <3>2. CASE j # l
        <4>1. limit'[j] = limit[j]
          BY <1>16, <3>2
        <4>2. PICK m \in Slot : child[m].pipefd = limit[j].id /\ child[m].addr = limit[j].addr
          BY <2>1, <4>1 DEF Tables, Entered
        <4>3. m # k
          BY <1>20, <2>1, <4>1, <4>2 DEF None, Unused
        <4> QED
          BY <1>15, <4>1, <4>2, <4>3
      <3> QED
        BY <3>1, <3>2
    <2>2. ASSUME NEW j \in Slot, child'[j].pipefd # None
          PROVE  \E m \in Slot : limit'[m].id = child'[j].pipefd /\ limit'[m].addr = child'[j].addr
      <3>1. CASE j = k
        BY <1>4, <1>10, <1>13, <1>15, <1>16, <3>1
      <3>2. CASE j # k
        <4>1. child'[j] = child[j]
          BY <1>15, <3>2
        <4>2. PICK m \in Slot : limit[m].id = child[j].pipefd /\ limit[m].addr = child[j].addr
          BY <2>2, <4>1 DEF Tables, Entered
        <4>3. m # l
          BY <1>4, <2>2, <4>1, <4>2 DEF None, Unused
        <4> QED
          BY <1>16, <4>1, <4>2, <4>3
      <3> QED
        BY <3>1, <3>2
    <2>3. \A j \in Slot : limit[j].id # fd
      <3> SUFFICES ASSUME NEW j \in Slot, limit[j].id = fd
                   PROVE  FALSE
        OBVIOUS
      <3>1. PICK m \in Slot : child[m].pipefd = limit[j].id
        BY <1>3 DEF Tables, Entered
      <3> QED
        BY <1>3, <3>1
    <2>4. \A j, m \in Slot : j # m /\ limit'[j].id # Unused => limit'[j].id # limit'[m].id
      BY <1>13, <1>16, <2>3 DEF Tables, Entered
    <2> QED
      BY <2>1, <2>2, <2>4 DEF Entered
  <1>27. Used = Tracked /\ Used' = Tracked'
    BY <1>22, UsedIsTracked DEF Tables
  <1>28. Used' = Used \cup {k} /\ k \notin Used
    BY <1>2, <1>3, <1>10, <1>15, <1>20, <1>27 DEF Tracked
  <1>29. EarlySlots' = EarlySlots \cup {k} /\ k \notin EarlySlots
    BY <1>2, <1>3, <1>10, <1>15, <1>20 DEF EarlySlots
  <1>30. children_active' = Cardinality(Used')
    <2>1. Cardinality(Used \cup {k}) = Cardinality(Used) + 1
      BY <1>28, CountedSets, FS_AddElement
    <2> QED
      BY <1>6, <1>28, <2>1 DEF Tables, Counted
  <1>31. listening' \in Int /\ (ForkSupported => listening' = Cardinality(EarlySlots'))
    <2>1. Cardinality(EarlySlots \cup {k}) = Cardinality(EarlySlots) + 1
      BY <1>29, CountedSets, FS_AddElement
    <2>2. listening \in Int /\ (ForkSupported => listening = Cardinality(EarlySlots))
      BY DEF Tables, Counted
    <2> QED
      BY <1>1, <1>29, <2>1, <2>2
  <1>32. Counted' /\ Hup'
    BY <1>1, <1>6, <1>30, <1>31 DEF Tables, Counted, Hup
  <1> QED
    BY <1>19, <1>22, <1>23, <1>24, <1>25, <1>26, <1>32 DEF Tables

\* The tables of a listener that starts.
LEMMA ClearedIsRight ==
  ASSUME child' = [i \in Slot |-> FreeSlot], children_active' = 0, listening' = 0,
         limit' = [i \in Slot |-> NoEntry], pipe' = [fd \in Fd |-> NoPipe],
         sighup' = FALSE, lameduck' = FALSE, mode' \in {"run", "exit"},
         proc' \in [Pid -> ProcRec], \A p \in Pid : proc'[p].fd = None
  PROVE  Tables'
  <1>1. FreeSlot \in SlotRec /\ FreeSlot.pipefd = None /\ FreeSlot.pid = None /\ FreeSlot.buf = "none"
    BY DEF FreeSlot, SlotRec
  <1>2. NoEntry \in EntryRec /\ NoEntry.id = Unused
    BY DEF NoEntry, EntryRec
  <1>3. NoPipe \in PipeRec
    BY DEF NoPipe, PipeRec
  <1>4. TableTypes' /\ ProcTypes'
    BY <1>1, <1>2, <1>3, Types
  <1>5. \A j \in Slot : child'[j] = FreeSlot /\ limit'[j] = NoEntry
    OBVIOUS
  <1>6. Slots'
    BY <1>1, <1>5 DEF Slots, SlotInv
  <1>7. Distinct' /\ Procs' /\ Entered'
    BY <1>1, <1>2, <1>5 DEF Distinct, Procs, Entered
  <1>8. Fds'
    BY DEF Fds
  <1>9. Used' = {} /\ EarlySlots' = {}
    BY <1>1, <1>5 DEF Used, Vacant, EarlySlots
  <1>10. Counted'
    BY <1>9, FS_EmptySet DEF Counted
  <1>11. Hup'
    BY Zenon DEF Hup
  <1> QED
    BY <1>4, <1>6, <1>7, <1>8, <1>10, <1>11 DEF Tables

\* Steps that leave the tables as they are.
LEMMA Untouched ==
  ASSUME Tables, UNCHANGED <<child, children_active, listening, limit, proc, pipe>>, Hup'
  PROVE  Tables'
  <1>1. TableTypes' /\ ProcTypes'
    BY DEF Tables, TableTypes, ProcTypes
  <1>2. Slots'
    BY DEF Tables, Slots, SlotInv
  <1>3. Distinct' /\ Procs' /\ Fds' /\ Entered'
    BY DEF Tables, Distinct, Procs, Fds, Entered
  <1>4. Used' = Used /\ EarlySlots' = EarlySlots
    BY DEF Used, Vacant, EarlySlots
  <1>5. Counted'
    BY <1>4 DEF Tables, Counted
  <1> QED
    BY <1>1, <1>2, <1>3, <1>5 DEF Tables

\* Signals, refusals and the clock.
LEMMA OthersKeep ==
  ASSUME Tables,
         (\E s \in Source : Refuse(s)) \/ Sighup \/ CloseListenSocks \/ Restart \/ Sigterm \/ Tick
         \/ UNCHANGED vars
  PROVE  Tables'
  <1>1. CASE \E s \in Source : Refuse(s)
    <2>1. Hup'
      BY <1>1 DEF Refuse, Tables, Hup
    <2> QED
      BY <1>1, <2>1, Untouched DEF Refuse
  <1>2. CASE Sighup
    <2>1. Hup'
      BY <1>2 DEF Sighup, Tables, Hup
    <2> QED
      BY <1>2, <2>1, Untouched DEF Sighup
  <1>3. CASE CloseListenSocks
    <2>1. Hup'
      BY <1>3 DEF CloseListenSocks, Tables, Hup
    <2> QED
      BY <1>3, <2>1, Untouched DEF CloseListenSocks
  <1>4. CASE Tick
    <2>1. Hup'
      BY <1>4 DEF Tick, Tables, Hup
    <2> QED
      BY <1>4, <2>1, Untouched DEF Tick
  <1>5. CASE UNCHANGED vars
    <2>1. Hup'
      BY <1>5 DEF vars, Tables, Hup
    <2> QED
      BY <1>5, <2>1, Untouched DEF vars
  <1>6. CASE Restart
    <2>1. proc \in [Pid -> ProcRec]
      BY Types DEF Tables
    <2>2. proc' = [p \in Pid |-> [proc[p] EXCEPT !.fd = None]]
      BY <1>6 DEF Restart
    <2>3. \A p \in Pid : [proc[p] EXCEPT !.fd = None] \in ProcRec /\ [proc[p] EXCEPT !.fd = None].fd = None
      BY <2>1 DEF ProcRec
    <2>4. proc' \in [Pid -> ProcRec] /\ \A p \in Pid : proc'[p].fd = None
      BY <2>2, <2>3
    <2>5. mode' \in {"run", "exit"}
      BY <1>6 DEF Restart, Up
    <2> QED
      BY <1>6, <2>4, <2>5, ClearedIsRight DEF Restart, ClearTables
  <1>7. CASE Sigterm
    <2>1. NoProc \in ProcRec /\ NoProc.fd = None
      BY DEF NoProc, ProcRec, Statuses
    <2>2. proc' = [p \in Pid |-> NoProc]
      BY <1>7 DEF Sigterm
    <2>3. proc' \in [Pid -> ProcRec] /\ \A p \in Pid : proc'[p].fd = None
      BY <2>1, <2>2
    <2>4. mode' \in {"run", "exit"}
      BY <1>7 DEF Sigterm
    <2> QED
      BY <1>7, <2>3, <2>4, ClearedIsRight DEF Sigterm, ClearTables
  <1> QED
    BY <1>1, <1>2, <1>3, <1>4, <1>5, <1>6, <1>7

\* A connection gets a slot and, unless fork fails, a process that is free.
LEMMA AcceptKeeps ==
  ASSUME Tables, NEW s \in Source, Accept(s)
  PROVE  Tables'
  <1>1. CASE FreePids # {} /\ Admit(s, First(FreePids))
    <2>1. FreePids \subseteq Nat /\ FreePids # {}
      BY <1>1, Numbers DEF FreePids
    <2>2. First(FreePids) \in FreePids
      BY <2>1, FirstIsLeast
    <2>3. PICK pid \in Pid : pid = First(FreePids) /\ proc[pid].st = "none"
      BY <2>2 DEF FreePids
    <2>4. Admit(s, pid)
      BY <1>1, <2>3
    <2> QED
      BY <2>3, <2>4, AdmitKeeps
  <1>2. CASE Admit(s, None)
    BY <1>2, AdmitKeeps
  <1> QED
    BY <1>1, <1>2 DEF Accept

\* Every step keeps the tables right.
LEMMA TablesStep == Tables /\ [Next]_vars => Tables'
  <1> SUFFICES ASSUME Tables, [Next]_vars
               PROVE  Tables'
    OBVIOUS
  <1>1. CASE \E s \in Source : Accept(s)
    BY <1>1, AcceptKeeps
  <1>2. CASE \E i \in Slot : Write(i) \/ HangUp(i) \/ Read(i)
    BY <1>2, WriteKeeps, HangUpKeeps, ReadKeeps
  <1>3. CASE \E p \in Pid : child_reap_all_exited(p)
    BY <1>3, ReapKeeps
  <1>4. CASE \E p \in Pid : Preliminaries(p) \/ Authenticated(p) \/ Exit(p)
    BY <1>4, PreliminariesKeeps, AuthenticatedKeeps, ExitKeeps
  <1>5. CASE (\E s \in Source : Refuse(s)) \/ Sighup \/ CloseListenSocks \/ Restart \/ Sigterm \/ Tick
             \/ UNCHANGED vars
    BY <1>5, OthersKeep
  <1> QED
    BY <1>1, <1>2, <1>3, <1>4, <1>5 DEF Next

\* The listener starts with its tables right.
LEMMA TablesInit == Init => Tables
  <1> SUFFICES ASSUME Init
               PROVE  Tables
    OBVIOUS
  <1>1. FreeSlot \in SlotRec /\ FreeSlot.pipefd = None /\ FreeSlot.pid = None /\ FreeSlot.buf = "none"
    BY DEF FreeSlot, SlotRec
  <1>2. NoEntry \in EntryRec /\ NoEntry.id = Unused
    BY DEF NoEntry, EntryRec
  <1>3. NoPipe \in PipeRec /\ NoProc \in ProcRec /\ NoProc.fd = None
    BY DEF NoPipe, PipeRec, NoProc, ProcRec, Statuses
  <1>4. TableTypes /\ ProcTypes
    BY <1>1, <1>2, <1>3, Types DEF Init
  <1>5. \A j \in Slot : child[j] = FreeSlot /\ limit[j] = NoEntry
    BY DEF Init
  <1>6. \A p \in Pid : proc[p] = NoProc
    BY DEF Init
  <1>7. Slots
    BY <1>1, <1>5 DEF Slots, SlotInv
  <1>8. Distinct /\ Procs /\ Entered
    BY <1>1, <1>2, <1>3, <1>5, <1>6 DEF Distinct, Procs, Entered
  <1>9. Fds
    BY DEF Init, Fds
  <1>10. Used = {} /\ EarlySlots = {}
    BY <1>1, <1>5 DEF Used, Vacant, EarlySlots
  <1>11. Counted
    BY <1>10, FS_EmptySet DEF Init, Counted
  <1>12. Hup
    BY Zenon DEF Init, Hup
  <1> QED
    BY <1>4, <1>7, <1>8, <1>9, <1>11, <1>12 DEF Tables

-----------------------------------------------------------------------------
(* Penalties along the steps of the listener.                              *)

\* The lengths in the configuration are within the maximum.
LengthsFit == \A t \in PenaltyType : PenaltySecs[t] <= PenaltyMax

\* A table without penalties is right.
LEMMA NoPenalties ==
  ASSUME NEW P, P = [pen |-> [s \in Source |-> NoPenalty], n |-> 0]
  PROVE  PenaltyOK(P) /\ Bounded(P)
  <1>1. NoPenalty \in PenaltyRec /\ ~NoPenalty.held
    BY DEF NoPenalty, PenaltyRec
  <1>2. PenTable(P)
    BY <1>1 DEF PenTable
  <1>3. Held(P) = {}
    BY <1>1 DEF Held
  <1>4. P.n = 0
    OBVIOUS
  <1>5. P.n = Cardinality(Held(P)) /\ P.n <= MaxSources
    BY <1>3, <1>4, FS_EmptySet, SrcLimitAssumption
  <1> QED
    BY <1>2, <1>3, <1>5, PenaltyIs DEF Lenient, Bounded

\* Every step of the listener does one of these to the penalties.
LEMMA PenaltyMoves ==
  ASSUME Tables, [Next]_vars
  PROVE  \/ penalties' = penalties
         \/ \E s \in Source : penalties' = PenaltyCheck(penalties, s)
         \/ \E s \in Source, type \in PenaltyType \cup {"none"} :
              penalties' = srclimit_penalise(penalties, s, type)
         \/ penalties' = Elapse(penalties)
         \/ penalties' = [pen |-> [s \in Source |-> NoPenalty], n |-> 0]
  <1>1. CASE \E s \in Source : Refuse(s) \/ Accept(s)
    BY <1>1 DEF Refuse, Accept, Admit
  <1>2. CASE \E i \in Slot : Write(i) \/ HangUp(i) \/ Read(i)
    BY <1>2 DEF Write, HangUp, Read
  <1>3. ASSUME NEW p \in Pid, child_reap_all_exited(p)
        PROVE  \/ penalties' = penalties
               \/ \E s \in Source, type \in PenaltyType \cup {"none"} :
                    penalties' = srclimit_penalise(penalties, s, type)
    <2>1. CASE \A i \in Slot : child[i].pid # p
      BY <1>3, <2>1 DEF child_reap_all_exited
    <2>2. ASSUME NEW k \in Slot, child[k].pid = p
          PROVE  \E s \in Source, type \in PenaltyType \cup {"none"} :
                   penalties' = srclimit_penalise(penalties, s, type)
      <3>1. PICK i \in Slot : child[i].pid = p /\ child_reap(i, p)
        BY <1>3, <2>2 DEF child_reap_all_exited
      <3>2. child[i].addr \in Source
        BY <3>1, Numbers DEF Tables, Slots, SlotInv
      <3>3. PenaltyFor(proc[p].status) \in PenaltyType \cup {"none"}
        BY DEF PenaltyFor, PenaltyType
      <3>4. penalties' = srclimit_penalise(penalties, child[i].addr, PenaltyFor(proc[p].status))
        BY <3>1 DEF child_reap
      <3> QED
        BY <3>2, <3>3, <3>4
    <2> QED
      BY <2>1, <2>2
  <1>4. CASE \E p \in Pid : Preliminaries(p) \/ Authenticated(p) \/ Exit(p)
    BY <1>4 DEF Preliminaries, Authenticated, Exit, Says, ListenerUnchanged
  <1>5. CASE Sighup \/ CloseListenSocks \/ Restart \/ Sigterm \/ Tick \/ UNCHANGED vars
    BY <1>5 DEF Sighup, CloseListenSocks, Restart, Sigterm, Tick, ClearTables, vars
  <1> QED
    BY <1>1, <1>2, <1>3, <1>4, <1>5 DEF Next

\* Penalties stay counted and within their limits.
LEMMA PenaltyStep ==
  ASSUME Tables, PenaltyOK(penalties), [Next]_vars
  PROVE  /\ PenaltyOK(penalties')
         /\ LengthsFit /\ Bounded(penalties) => Bounded(penalties')
  <1>1. CASE penalties' = penalties
    BY <1>1
  <1>2. CASE \E s \in Source : penalties' = PenaltyCheck(penalties, s)
    BY <1>2, CheckKeeps
  <1>3. CASE \E s \in Source, type \in PenaltyType \cup {"none"} :
               penalties' = srclimit_penalise(penalties, s, type)
    BY <1>3, PenaliseKeeps DEF LengthsFit
  <1>4. CASE penalties' = Elapse(penalties)
    BY <1>4, ElapseKeeps
  <1>5. CASE penalties' = [pen |-> [s \in Source |-> NoPenalty], n |-> 0]
    BY <1>5, NoPenalties
  <1> QED
    BY <1>1, <1>2, <1>3, <1>4, <1>5, PenaltyMoves

-----------------------------------------------------------------------------
(* The theorems.                                                           *)

\* The invariant is inductive: every table of the listener is right after every step.
THEOREM Inductive == Spec => []IndInv
  <1>1. Init => IndInv
    <2>1. Init => PenaltyOK(penalties)
      BY NoPenalties DEF Init
    <2> QED
      BY <2>1, TablesInit DEF IndInv
  <1>2. IndInv /\ [Next]_vars => IndInv'
    <2> SUFFICES ASSUME IndInv, [Next]_vars
                 PROVE  IndInv'
      OBVIOUS
    <2>1. Tables /\ PenaltyOK(penalties)
      BY DEF IndInv, Tables
    <2>2. Tables'
      BY <2>1, TablesStep
    <2>3. PenaltyOK(penalties')
      BY <2>1, PenaltyStep
    <2> QED
      BY <2>2, <2>3 DEF IndInv, Tables
  <1> QED
    BY <1>1, <1>2, PTL DEF Spec

\* The state of the listener keeps its types; npenalties in particular does not wrap.
THEOREM TypeCorrect == Spec => []TypeOK
  <1>1. IndInv => TypeOK
    <2> SUFFICES ASSUME IndInv
                 PROVE  TypeOK
      OBVIOUS
    <2>1. children_active \in Nat
      BY CountedSets DEF IndInv, Tables, Counted
    <2>2. penalties \in [pen : [Source -> Penalty], n : Nat]
      <3>1. /\ penalties \in [pen : [Source -> PenaltyRec], n : Nat]
        BY DEF IndInv, Tables, PenaltyOK, PenaltyRec
      <3>2. PenaltyRec \subseteq Penalty
        BY DEF PenaltyRec, Penalty
      <3> QED
        BY <3>1, <3>2
    <2> QED
      BY <2>1, <2>2 DEF IndInv, Tables, TableTypes, ProcTypes, Counted, Hup, TypeOK
  <1> QED
    BY <1>1, Inductive, PTL

\* Whatever the order of end of file, exit status and notice, and however many slots there
\* are: every slot is counted exactly while it is in use, and the fatal errors of
\* child_register and child_finish do not occur.
THEOREM SlotsAreExact == Spec => []SlotsExact
  <1>1. IndInv => SlotsExact
    <2> SUFFICES ASSUME IndInv
                 PROVE  SlotsExact
      OBVIOUS
    <2>1. Used = Tracked
      BY UsedIsTracked DEF IndInv, Tables
    <2>2. mode # "fatal"
      BY DEF IndInv, Tables, Hup
    <2>3. \A i \in Slot : child[i].pid # None => proc[child[i].pid].st # "none"
      BY DEF IndInv, Tables, Slots, SlotInv
    <2> QED
      BY <2>1, <2>2, <2>3 DEF IndInv, Tables, Counted, Distinct, SlotsExact
  <1> QED
    BY <1>1, Inductive, PTL

\* The per-source table charges a source for its open startup pipes and for nothing else
\* (srclimit_check_allow, srclimit_done).
THEOREM SourcesAreExact == Spec => []SourcesExact
  <1>1. IndInv => SourcesExact
    <2> SUFFICES ASSUME IndInv
                 PROVE  SourcesExact
      OBVIOUS
    <2>1. limit \in [Slot -> EntryRec] /\ child \in [Slot -> SlotRec]
      BY Types DEF IndInv, Tables
    <2>2. \A i, j \in Slot : limit[i].id = child[j].pipefd /\ limit[i].addr = child[j].addr
             => limit[i] = [id |-> child[j].pipefd, addr |-> child[j].addr]
      BY <2>1 DEF EntryRec
    <2>3. \A i \in Slot : limit[i].id # Unused =>
            \E j \in Slot : child[j].pipefd # None
                            /\ limit[i] = [id |-> child[j].pipefd, addr |-> child[j].addr]
      BY <2>2 DEF IndInv, Tables, Entered, None, Unused
    <2>4. \A j \in Slot : child[j].pipefd # None =>
            \E i \in Slot : limit[i].id # Unused
                            /\ limit[i] = [id |-> child[j].pipefd, addr |-> child[j].addr]
      BY <2>2 DEF IndInv, Tables, Entered, None, Unused
    <2>5. {limit[i] : i \in {j \in Slot : limit[j].id # Unused}}
            = {[id |-> child[i].pipefd, addr |-> child[i].addr] :
                  i \in {j \in Slot : child[j].pipefd # None}}
      <3> DEFINE rec(i) == [id |-> child[i].pipefd, addr |-> child[i].addr]
                 L == {limit[i] : i \in {j \in Slot : limit[j].id # Unused}}
                 C == {rec(i) : i \in {j \in Slot : child[j].pipefd # None}}
      <3>1. /\ \A i \in Slot : limit[i].id # Unused => \E j \in Slot : child[j].pipefd # None /\ limit[i] = rec(j)
            /\ \A j \in Slot : child[j].pipefd # None => \E i \in Slot : limit[i].id # Unused /\ limit[i] = rec(j)
        BY <2>3, <2>4, Zenon
      <3> HIDE DEF rec
      <3>2. L = C
        BY <3>1, Zenon
      <3> QED
        BY <3>2 DEF rec
    <2> QED
      BY <2>5 DEF IndInv, Tables, Entered, SourcesExact
  <1> QED
    BY <1>1, Inductive, PTL

\* The listener ends no session process that does what it should: the byte it reads is
\* always the one it expects.
THEOREM HealthyIsSpared == Spec => []HealthyNotKilled
  <1>1. IndInv => HealthyNotKilled
    BY Expected DEF IndInv, Tables, HealthyNotKilled
  <1> QED
    BY <1>1, Inductive, PTL

\* When no single penalty is configured longer than the maximum, the table of penalties is
\* counted right, within its limit, and no penalty ever exceeds the maximum.
THEOREM PenaltiesAreExact ==
  ASSUME \A t \in PenaltyType : PenaltySecs[t] <= PenaltyMax
  PROVE  Spec => []PenaltiesExact
  <1> DEFINE Fits == Bounded(penalties)
  <1>1. Init => Fits
    BY NoPenalties DEF Init
  <1>2. IndInv /\ Fits /\ [Next]_vars => Fits'
    <2>1. IndInv => Tables /\ PenaltyOK(penalties)
      BY DEF IndInv, Tables
    <2>2. LengthsFit
      BY DEF LengthsFit
    <2>3. IndInv /\ Bounded(penalties) /\ [Next]_vars => Bounded(penalties')
      BY <2>1, <2>2, PenaltyStep
    <2> QED
      BY <2>3
  <1>3. IndInv /\ Fits => PenaltiesExact
    BY DEF IndInv, Tables, PenaltyOK, Bounded, PenaltiesExact
  <1> HIDE DEF Fits
  <1>4. Spec => []Fits
    BY <1>1, <1>2, Inductive, PTL DEF Spec
  <1> QED
    BY <1>3, <1>4, Inductive, PTL

\* The slot i may forget its process in this step.
MayForget(i) ==
    LET p == child[i].pid
    IN  \/ proc[p].st = "zombie" /\ proc'[p].st = "none"
        \/ sighup /\ ~sighup' /\ proc[p].st # "init"
        \/ mode' # "run"
        \/ child[i].pipefd # None /\ pipe[child[i].pipefd].sent = <<1>>

\* No step makes a slot forget its process before it may.
LEMMA ForgetsNobody ==
  ASSUME Tables, Next, NEW i \in Slot, child[i].pid # None, child'[i].pid # child[i].pid
  PROVE  MayForget(i)
  <1>1. child \in [Slot -> SlotRec]
    BY Types DEF Tables
  <1>2. ASSUME NEW s \in Source, NEW pid, Admit(s, pid)
        PROVE  FALSE
    <2>1. FALSE \in should_drop_connection(children_active)
      BY <1>2 DEF Admit
    <2>2. First(VacantSlots) \in Slot /\ Vacant(First(VacantSlots))
      BY <2>1, RoomForOne
    <2>3. i # First(VacantSlots)
      BY <2>2 DEF Vacant
    <2>4. child'[i] = child[i]
      BY <1>1, <1>2, <2>2, <2>3 DEF Admit, child_register
    <2> QED
      BY <2>4
  <1>3. CASE \E s \in Source : Refuse(s) \/ Accept(s)
    BY <1>2, <1>3 DEF Accept, Refuse
  <1>4. ASSUME NEW j \in Slot, Write(j)
        PROVE  FALSE
    BY <1>1, <1>4 DEF Write, SlotRec
  <1>5. ASSUME NEW j \in Slot, HangUp(j)
        PROVE  FALSE
    <2>1. child_close(j, FALSE)
      BY <1>5 DEF HangUp
    <2>2. CASE i = j
      BY <1>1, <2>1, <2>2 DEF child_close, Finishes, SlotRec
    <2>3. CASE i # j
      BY <1>1, <2>1, <2>3 DEF child_close, child_finish
    <2> QED
      BY <2>2, <2>3
  <1>6. ASSUME NEW j \in Slot, Read(j)
        PROVE  MayForget(i)
    <2> DEFINE o == pipe[child[j].pipefd]
               c == Head(o.sent)
    <2>1. child[j].pipefd # None /\ o.sent # <<>>
      BY <1>6 DEF Read
    <2>2. /\ ~Unexpected(j, c)
          /\ \/ child[j].early /\ c = 0
             \/ ~child[j].early /\ o.sent = <<1>>
      BY <2>1, Expected
    <2>3. CASE c = 0
      <3>1. child' = [child EXCEPT ![j].early = FALSE]
        BY <1>6, <2>2, <2>3 DEF Read
      <3> QED
        BY <1>1, <3>1 DEF SlotRec
    <2>4. CASE c # 0
      <3>1. child_close(j, TRUE)
        BY <1>6, <2>2, <2>4 DEF Read
      <3>2. i = j
        BY <1>1, <3>1 DEF child_close, child_finish, Finishes
      <3> QED
        BY <2>1, <2>2, <2>4, <3>2 DEF MayForget
    <2> QED
      BY <2>3, <2>4
  <1>7. ASSUME NEW p \in Pid, child_reap_all_exited(p)
        PROVE  MayForget(i)
    <2>1. proc[p].st = "zombie" /\ proc' = [proc EXCEPT ![p] = NoProc]
      BY <1>7 DEF child_reap_all_exited
    <2>2. proc \in [Pid -> ProcRec]
      BY Types DEF Tables
    <2>3. proc'[p].st = "none"
      BY <2>1, <2>2 DEF NoProc
    <2>4. child[i].pid = p
      BY <1>1, <1>7 DEF child_reap_all_exited, child_reap, child_finish
    <2> QED
      BY <2>1, <2>3, <2>4 DEF MayForget
  <1>8. CASE \E p \in Pid : Preliminaries(p) \/ Authenticated(p) \/ Exit(p)
    BY <1>8 DEF Preliminaries, Authenticated, Exit, Says, ListenerUnchanged
  <1>9. CASE Sighup \/ CloseListenSocks \/ Tick
    BY <1>9 DEF Sighup, CloseListenSocks, Tick
  <1>10. CASE Restart
    <2>1. lameduck /\ listening <= 0 /\ sighup' = FALSE
      BY <1>10 DEF Restart, ClearTables
    <2>2. sighup /\ ForkSupported
      BY <2>1 DEF Tables, Hup
    <2>3. Cardinality(EarlySlots) = 0
      <3>1. listening = Cardinality(EarlySlots) /\ Cardinality(EarlySlots) \in Nat
        BY <2>2, CountedSets DEF Tables, Counted
      <3> QED
        BY <2>1, <3>1
    <2>4. i \notin EarlySlots
      BY <2>3, CountedSets, FS_EmptySet
    <2>5. /\ SlotInv(i)
          /\ child[i].pipefd # None => Link(proc[child[i].pid].st, child[i], pipe[child[i].pipefd])
      BY OfSlot
    <2>6. proc[child[i].pid].st # "init"
      BY <2>4, <2>5 DEF SlotInv, Link, EarlySlots
    <2> QED
      BY <2>1, <2>2, <2>6 DEF MayForget
  <1>11. CASE Sigterm
    BY <1>11 DEF Sigterm, MayForget
  <1> QED
    BY <1>3, <1>4, <1>5, <1>6, <1>7, <1>8, <1>9, <1>10, <1>11 DEF Next

\* A slot forgets its process only when that has been waited for, when its user has
\* authenticated, or when the listener restarts and the process has its configuration.
THEOREM TrackedToTheEnd == Spec => TrackedUntilExit
  <1> DEFINE A == \A i \in Slot :
                    LET p == child[i].pid
                    IN  (p # None /\ child'[i].pid # p) =>
                          \/ proc[p].st = "zombie" /\ proc'[p].st = "none"
                          \/ sighup /\ ~sighup' /\ proc[p].st # "init"
                          \/ mode' # "run"
                          \/ child[i].pipefd # None /\ pipe[child[i].pipefd].sent = <<1>>
  <1>1. IndInv /\ [Next]_vars => [A]_vars
    <2> SUFFICES ASSUME IndInv, Next
                 PROVE  A
      OBVIOUS
    <2>1. Tables
      BY DEF IndInv, Tables
    <2> QED
      BY <2>1, ForgetsNobody DEF MayForget
  <1> QED
    BY <1>1, Inductive, PTL DEF Spec, TrackedUntilExit
=============================================================================
