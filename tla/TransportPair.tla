--------------------------- MODULE TransportPair ----------------------------
(***************************************************************************)
(* The two ends of a connection as the key exchange takes them through it: *)
(* which stages they can be in together, with which messages on their way  *)
(* (Row), and what a read, a message sent or a change of phase at one end  *)
(* does to the pair.                                                       *)
(***************************************************************************)
EXTENDS TransportWire
-----------------------------------------------------------------------------
(* The exchange as the two ends step through it. a and K are the stage of  *)
(* end e and what it has on its wire, b and L those of its peer.           *)

RowAt(e, m, a, b, K, L) ==
    IF e = "client" THEN Row(m, a, b, K, L) ELSE Row(m, b, a, L, K)

Lowest(x, L) == x \in L /\ \A y \in L \ {x} : Rank(x) < Rank(y)

\* An end at rest may send its KEXINIT.
LEMMA RowKexinit ==
    ASSUME NEW e \in End, NEW m, NEW b, NEW K, NEW L, RowAt(e, m, "rest", b, K, L)
    PROVE  /\ \A x \in K : Rank(x) < 2
           /\ RowAt(e, m, "sent", b, K \union {"KEXINIT"}, L)
           /\ \A x \in L : x = "KEXINIT"
BY DEF RowAt, Row, Rank

\* An end that may send data has no KEXINIT on its wire, and a peer that is in
\* an exchange has a NEWKEYS to read first.
LEMMA RowPlain ==
    ASSUME NEW e \in End, NEW m, NEW a \in {"rest", "over"}, NEW b, NEW K, NEW L,
           RowAt(e, m, a, b, K, L)
    PROVE  /\ "KEXINIT" \notin K
           /\ b \in {"ask", "key", "over"} => "NEWKEYS" \in K
BY DEF RowAt, Row

\* An end that has sent its KEXINIT reads KEXINIT next and starts its method.
LEMMA RowReadsKexinit ==
    ASSUME NEW e \in End, NEW m, NEW b, NEW K, NEW L, NEW x,
           RowAt(e, m, "sent", b, K, L), Lowest(x, L)
    PROVE  /\ x = "KEXINIT"
           /\ e = "client" => \A y \in K : Rank(y) < 3
           /\ e = "client" /\ m = "gen" =>
                 RowAt(e, m, "key", b, K \union {"KEX_INIT"}, L \ {x})
           /\ e = "client" /\ m = "gex" =>
                 RowAt(e, m, "ask", b, K \union {"GEX_REQUEST"}, L \ {x})
           /\ e = "server" /\ m = "gen" => RowAt(e, m, "key", b, K, L \ {x})
           /\ e = "server" /\ m = "gex" => RowAt(e, m, "ask", b, K, L \ {x})
           /\ b \in {"sent", "ask", "key"}
<1>1. CASE e = "client"
  BY <1>1 DEF RowAt, Row, Rank, Lowest
<1>2. CASE e = "server"
  BY <1>2 DEF RowAt, Row, Rank, Lowest
<1> QED BY <1>1, <1>2 DEF End

\* Group exchange: the request and the group.
LEMMA RowReadsAsk ==
    ASSUME NEW e \in End, NEW m, NEW b, NEW K, NEW L, NEW x,
           RowAt(e, m, "ask", b, K, L), Lowest(x, L)
    PROVE  /\ m = "gex" /\ K = {}
           /\ e = "client" => /\ x = "GEX_GROUP"
                              /\ RowAt(e, m, "key", b, K \union {"GEX_INIT"}, L \ {x})
           /\ e = "server" => /\ x = "GEX_REQUEST"
                              /\ RowAt(e, m, "key", b, K \union {"GEX_GROUP"}, L \ {x})
<1>1. CASE e = "client"
  BY <1>1 DEF RowAt, Row, Rank, Lowest
<1>2. CASE e = "server"
  BY <1>2 DEF RowAt, Row, Rank, Lowest
<1> QED BY <1>1, <1>2 DEF End

\* The message with the key is the one the end waits for.
LEMMA RowReadsKey ==
    ASSUME NEW e \in End, NEW m, NEW b, NEW K, NEW L, NEW x,
           RowAt(e, m, "key", b, K, L), Lowest(x, L)
    PROVE  /\ m \in {"gen", "gex"} /\ K = {}
           /\ e = "client" => /\ x = IF m = "gen" THEN "KEX_REPLY" ELSE "GEX_REPLY"
                              /\ b = "over" /\ "NEWKEYS" \in L
                              /\ RowAt(e, m, "over", b, {"NEWKEYS"}, L \ {x})
           /\ e = "server" =>
                 /\ x = IF m = "gen" THEN "KEX_INIT" ELSE "GEX_INIT"
                 /\ b = "key" /\ L \ {x} = {}
                 /\ RowAt(e, m, "over", b,
                          {IF m = "gen" THEN "KEX_REPLY" ELSE "GEX_REPLY", "NEWKEYS"}, L \ {x})
<1>1. CASE e = "client"
  BY <1>1 DEF RowAt, Row, Rank, Lowest
<1>2. CASE e = "server"
  BY <1>2 DEF RowAt, Row, Rank, Lowest
<1> QED BY <1>1, <1>2 DEF End

\* An end that has sent NEWKEYS reads NEWKEYS next and is at rest.
LEMMA RowReadsNewkeys ==
    ASSUME NEW e \in End, NEW m, NEW b, NEW K, NEW L, NEW x,
           RowAt(e, m, "over", b, K, L), Lowest(x, L)
    PROVE  /\ x = "NEWKEYS" /\ b \in {"rest", "sent", "over"}
           /\ RowAt(e, m, "rest", b, K, L \ {x})
<1>1. CASE e = "client"
  BY <1>1 DEF RowAt, Row, Rank, Lowest
<1>2. CASE e = "server"
  BY <1>2 DEF RowAt, Row, Rank, Lowest
<1> QED BY <1>1, <1>2 DEF End

-----------------------------------------------------------------------------
(* The invariant from the side of one end: e in state a, its peer in b; e  *)
(* has been handed na messages and has read ga, its peer nb and gb.        *)

InStepAt(e, a, b) == IF e = "client" THEN InStep(a, b) ELSE InStep(b, a)

LoginAt(e, a, b, na, nb, ga, gb) ==
    IF e = "client" THEN Login(a, b, na, nb, ga, gb) ELSE Login(b, a, nb, na, gb, ga)

Pair(e, a, b, na, nb, ga, gb) ==
    /\ a \in EndState /\ b \in EndState
    /\ na \in Nat /\ nb \in Nat /\ ga \in Nat /\ gb \in Nat
    /\ Local(e, a, na, ga) /\ Local(Peer(e), b, nb, gb)
    /\ Wire(a, b, na, gb) /\ Wire(b, a, nb, ga)
    /\ Agreed(a, b) /\ Agreed(b, a)
    /\ First(a, b) /\ First(b, a)
    /\ InStepAt(e, a, b)
    /\ LoginAt(e, a, b, na, nb, ga, gb)

\* There are two ends, each the peer of the other.
LEMMA PeerFacts ==
    ASSUME NEW e \in End
    PROVE  Peer(e) \in End /\ Peer(Peer(e)) = e /\ Peer(e) # e /\ End = {e, Peer(e)}
BY DEF Peer, End

\* The invariant is the same from either end.
LEMMA JointIsPair ==
    ASSUME NEW S \in [End -> EndState], NEW n \in [End -> 0 .. MaxData],
           NEW g \in [End -> 0 .. MaxData], NEW e \in End
    PROVE  Joint(S, n, g)
               <=> Pair(e, S[e], S[Peer(e)], n[e], n[Peer(e)], g[e], g[Peer(e)])
<1>1. Peer(e) \in End /\ Peer(Peer(e)) = e /\ End = {e, Peer(e)}
  BY PeerFacts
<1>2. \A o \in End : S[o] \in EndState /\ n[o] \in Nat /\ g[o] \in Nat
  BY TransportAssumption
<1>3. CASE e = "client"
  <2>1. Peer(e) = "server"
    BY <1>3 DEF Peer
  <2> QED BY <1>1, <1>2, <1>3, <2>1, Zenon DEF Joint, Pair, InStepAt, LoginAt
<1>4. CASE e = "server"
  <2>1. Peer(e) = "client" /\ e # "client"
    BY <1>4 DEF Peer
  <2> QED BY <1>1, <1>2, <1>4, <2>1, Zenon DEF Joint, Pair, InStepAt, LoginAt
<1> QED BY <1>3, <1>4 DEF End

\* The row of a pair, from the side of e.
LEMMA PairRow ==
    ASSUME NEW e \in End, NEW a, NEW b, InStepAt(e, a, b)
    PROVE  /\ a.kex_type = b.kex_type
           /\ RowAt(e, a.kex_type, Stage(a), Stage(b), Kex(a.out), Kex(b.out))
BY DEF InStepAt, InStep, RowAt

\* A row of the table makes the two ends be in step.
LEMMA RowPair ==
    ASSUME NEW e \in End, NEW a, NEW b, a.kex_type = b.kex_type,
           RowAt(e, a.kex_type, Stage(a), Stage(b), Kex(a.out), Kex(b.out))
    PROVE  InStepAt(e, a, b)
BY DEF InStepAt, InStep, RowAt

\* What an end sends is compressed as the reader will expect when it gets there.
LEMMA SendsCompressed ==
    ASSUME NEW e \in End, NEW a, NEW b, NEW na, NEW nb, NEW ga, NEW gb,
           Pair(e, a, b, na, nb, ga, gb)
    PROVE  a.snd.comp <=> ((a.auth /\ b.auth) \/ Has(a.out, "SUCCESS"))
<1>1. a.snd.comp = a.auth
  BY DEF Pair, Local, Keys
<1>2. CASE e = "client"
  <2>1. Login(a, b, na, nb, ga, gb)
    BY <1>2 DEF Pair, LoginAt
  <2> QED BY <1>1, <2>1 DEF Login
<1>3. CASE e = "server"
  <2>1. Login(b, a, nb, na, gb, ga)
    BY <1>3 DEF Pair, LoginAt
  <2> QED BY <1>1, <2>1 DEF Login
<1> QED BY <1>2, <1>3 DEF End

\* An end that has seen the user authenticate has a peer that is over its first
\* exchange.
LEMMA AuthPastFirst ==
    ASSUME NEW e \in End, NEW a, NEW b, NEW na, NEW nb, NEW ga, NEW gb,
           Pair(e, a, b, na, nb, ga, gb), a.auth
    PROVE  "INITIAL" \notin a.flags /\ "INITIAL" \notin b.flags
<1>1. Flags(a) /\ Flags(b)
  BY DEF Pair, Local
<1>2. "INITIAL" \notin a.flags
  BY <1>1 DEF Flags
<1>3. b.auth \/ b.phase \in {"auth", "start", "loop"}
  <2>1. CASE e = "client"
    BY <2>1 DEF Pair, LoginAt, Login
  <2>2. CASE e = "server"
    BY <2>2 DEF Pair, LoginAt, Login
  <2> QED BY <2>1, <2>2 DEF End
<1>4. "INITIAL" \notin b.flags
  BY <1>1, <1>3 DEF Flags
<1> QED BY <1>2, <1>4

\* The five stages of an end, and the flags that tell the first ones.
LEMMA StageInSet ==
    ASSUME NEW s
    PROVE  /\ Stage(s) \in {"rest", "sent", "ask", "key", "over"}
           /\ Stage(s) = "rest" <=> "INIT_SENT" \notin s.flags
           /\ "INIT_SENT" \in s.flags =>
                 (Stage(s) = "sent" <=> "INIT_RECVD" \notin s.flags)
BY DEF Stage

\* An end at rest is new, or has no exchange flag set.
LEMMA RestFacts ==
    ASSUME NEW s \in EndState, Flags(s), Stage(s) = "rest"
    PROVE  \/ s.flags = {} /\ s.done /\ ~s.rekeying /\ s.phase # "new"
           \/ s.flags = {"INITIAL"} /\ ~s.done /\ s.rekeying /\ s.phase = "new"
<1>1. s.flags \subseteq {"INITIAL", "INIT_SENT", "INIT_RECVD"}
  BY DEF EndState
<1>2. "INIT_SENT" \notin s.flags /\ "INIT_RECVD" \notin s.flags
  BY StageInSet DEF Flags
<1>3. s.flags = {} \/ s.flags = {"INITIAL"}
  BY <1>1, <1>2
<1>4. CASE s.flags = {}
  <2>1. s.flags # {"INITIAL"}
    BY <1>4
  <2> QED BY <1>4, <2>1 DEF Flags
<1>5. CASE s.flags = {"INITIAL"}
  <2>1. s.flags # {}
    BY <1>5
  <2> QED BY <1>5, <2>1 DEF Flags
<1> QED BY <1>3, <1>4, <1>5

\* What an end sends outside an exchange the reader may read.
LEMMA MaySendPlain ==
    ASSUME NEW e \in End, NEW a, NEW b, NEW na, NEW nb, NEW ga, NEW gb,
           Pair(e, a, b, na, nb, ga, gb), ~a.rekeying
    PROVE  /\ a.snd.key # NoKey /\ "KEXINIT" \notin Kex(a.out)
           /\ Closed(b) => "NEWKEYS" \in Kex(a.out)
           /\ a.outgoing = <<>>
<1>1. Flags(a) /\ Flags(b) /\ Keys(a) /\ Queue(a, na) /\ First(a, b) /\ First(b, a)
  BY DEF Pair, Local
<1>2. RowAt(e, a.kex_type, Stage(a), Stage(b), Kex(a.out), Kex(b.out))
  BY PairRow DEF Pair
<1>3. Stage(a) \in {"rest", "over"}
  BY <1>1 DEF Flags, Stage
<1>4. Stage(a) = "rest" => "INITIAL" \notin a.flags
  BY <1>1, RestFacts DEF Pair
<1>5. /\ "KEXINIT" \notin Kex(a.out)
      /\ Stage(b) \in {"ask", "key", "over"} => "NEWKEYS" \in Kex(a.out)
  BY <1>2, <1>3, RowPlain
<1>6. Closed(b) => Stage(b) \in {"ask", "key", "over"}
  <2>1. "INIT_RECVD" \in b.flags => Stage(b) \in {"ask", "key", "over"}
    BY <1>1, StageInSet DEF Flags
  <2>2. "INITIAL" \in b.flags => Stage(b) \in {"ask", "key", "over"}
    BY <1>1, <1>3, <1>4, StageInSet DEF First
  <2> QED BY <2>1, <2>2 DEF Closed
<1>7. a.snd.key # NoKey
  BY <1>1, <1>3, <1>4 DEF Keys
<1> QED BY <1>1, <1>5, <1>6, <1>7 DEF Queue

\* Wire w is v with a message of type x behind.
Follows(w, v, x) ==
    /\ Extends(w, v) /\ Added(w, v) = {Len(w) + 1}
    /\ v[Len(w) + 1].type = x
    /\ Passed(v, Len(w) + 1, "SUCCESS") <=> Has(w, "SUCCESS")
    /\ x # "SUCCESS" => (Has(v, "SUCCESS") <=> Has(w, "SUCCESS"))
    /\ x # "NEWKEYS" => (Has(v, "NEWKEYS") <=> Has(w, "NEWKEYS"))

\* A packet sent follows everything on the wire.
LEMMA SendFollows ==
    ASSUME NEW s \in EndState, NEW t \in EndState, NEW m \in MsgSet,
           t.out = Append(s.out, Packet(s, s.snd.seq, m))
    PROVE  /\ Follows(s.out, t.out, m.type)
           /\ t.out[Len(s.out) + 1].body = m.body
<1> DEFINE p == Packet(s, s.snd.seq, m)
           w == s.out
           v == Append(w, p)
<1>1. w \in Seq(PacketSet) /\ p \in PacketSet /\ p.type = m.type /\ p.body = m.body
  BY EndTyped, PacketFacts
<1> HIDE DEF p, w
<1>2. /\ Has(v, "SUCCESS") <=> (Has(w, "SUCCESS") \/ p.type = "SUCCESS")
      /\ Has(v, "NEWKEYS") <=> (Has(w, "NEWKEYS") \/ p.type = "NEWKEYS")
  BY <1>1, AppendHas
<1>3. Extends(w, v) /\ Added(w, v) = {Len(w) + 1} /\ v[Len(w) + 1] = p
  BY <1>1, AppendExtends
<1>4. Passed(v, Len(w) + 1, "SUCCESS") <=> Has(w, "SUCCESS")
  BY <1>1, NextPassed
<1>5. t.out = v
  BY DEF p, w
<1> HIDE DEF v
<1>6. Follows(w, v, m.type)
  BY <1>1, <1>2, <1>3, <1>4 DEF Follows
<1> QED BY <1>1, <1>3, <1>5, <1>6 DEF w

\* To r, s sends message m of an exchange, that is not NEWKEYS, and becomes t; x
\* is the body of its replies.
KexSend(s, t, r, n, g, m, x) ==
    /\ s \in EndState /\ t \in EndState /\ r \in EndState
    /\ n \in Nat /\ g \in Nat /\ m \in MsgSet
    /\ Wire(s, r, n, g) /\ m.type \in KexType /\ m.type # "NEWKEYS"
    /\ Behind(Kex(s.out), m.type) /\ Compressed(s, r) /\ BodyFits(m, r)
    /\ Sends(s, t, m) /\ t.auth = s.auth /\ t.outgoing = s.outgoing
    /\ Replies(s.out, x)
    /\ m.type \in {"KEX_REPLY", "GEX_REPLY"} => m.body = x

\* A message of the exchange is sent: the wire keeps its invariant.
LEMMA SendsKex ==
    ASSUME NEW s, NEW t, NEW r, NEW n, NEW g, NEW m, NEW x, KexSend(s, t, r, n, g, m, x)
    PROVE  /\ Wire(t, r, n, g) /\ Kex(t.out) = Kex(s.out) \union {m.type}
           /\ Follows(s.out, t.out, m.type) /\ Replies(t.out, x)
<1>0. /\ s \in EndState /\ t \in EndState /\ r \in EndState
      /\ n \in Nat /\ g \in Nat /\ m \in MsgSet
      /\ Wire(s, r, n, g) /\ m.type \in KexType /\ m.type # "NEWKEYS"
      /\ Behind(Kex(s.out), m.type) /\ Compressed(s, r) /\ BodyFits(m, r)
      /\ Sends(s, t, m) /\ t.auth = s.auth /\ t.outgoing = s.outgoing
  BY DEF KexSend
<1>1. /\ t.out = Append(s.out, Packet(s, s.snd.seq, m))
      /\ t.snd.key = s.snd.key /\ t.snd.seq = (s.snd.seq + 1) % SeqMod
  BY <1>0 DEF Sends
<1>4. Wire(t, r, n, g) /\ Kex(t.out) = Kex(s.out) \union {m.type}
  BY <1>0, WireSendsKex
<1>5. Follows(s.out, t.out, m.type) /\ t.out[Len(s.out) + 1].body = m.body
  BY <1>0, <1>1, SendFollows
<1>6. Replies(t.out, x)
  <2>1. Extends(s.out, t.out)
    BY <1>5 DEF Follows
  <2>2. \A k \in Added(s.out, t.out) :
            t.out[k].type \in {"KEX_REPLY", "GEX_REPLY"} => t.out[k].body = x
    BY <1>5 DEF Follows, KexSend
  <2> QED BY <2>1, <2>2, RepliesExtend DEF KexSend
<1> QED BY <1>4, <1>5, <1>6

\* Login is kept by an end that sends a message of the exchange.
LEMMA LoginSendsKex ==
    ASSUME NEW e \in End, NEW a \in EndState, NEW b \in EndState, NEW t \in EndState,
           NEW na, NEW nb, NEW ga, NEW gb, NEW v,
           LoginAt(e, a, b, na, nb, ga, gb),
           NEW x, Follows(a.out, v, x), x # "SUCCESS",
           t.out = v, t.auth = a.auth,
           e = "client" => a.auth \/ ~b.auth,
           t.phase = a.phase \/ ~b.auth \/ e = "server"
    PROVE  LoginAt(e, t, b, na, nb, ga, gb)
<1>0. /\ Extends(a.out, v)
      /\ \A k \in Added(a.out, v) :
            v[k].type # "SUCCESS" /\ (Has(a.out, "SUCCESS") => Passed(v, k, "SUCCESS"))
  BY DEF Follows
<1>1. Has(v, "SUCCESS") <=> Has(a.out, "SUCCESS")
  BY DEF Follows
<1>2. a.auth \in BOOLEAN /\ b.auth \in BOOLEAN
  BY EndTyped
<1>3. CASE e = "client"
  <2>1. Login(a, b, na, nb, ga, gb)
    BY <1>3 DEF LoginAt
  <2>2. Login(t, b, na, nb, ga, gb)
    BY <1>1, <1>2, <1>3, <2>1 DEF Login
  <2> QED BY <1>3, <2>2 DEF LoginAt
<1>4. CASE e = "server"
  <2>0. e # "client"
    BY <1>4
  <2>1. Login(b, a, nb, na, gb, ga)
    BY <2>0 DEF LoginAt
  <2>2. ASSUME a.auth, ~b.auth, NEW k \in 1 .. Len(v)
        PROVE  /\ v[k].type = "SUCCESS" => v[k].body = gb + 1
               /\ v[k].type \in KexType => Passed(v, k, "SUCCESS")
    <3>1. CASE k \in 1 .. Len(a.out)
      <4>1. v[k] = a.out[k]
        BY <1>0, <3>1 DEF Extends
      <4>2. Passed(v, k, "SUCCESS") <=> Passed(a.out, k, "SUCCESS")
        BY <1>0, <3>1, PassedExtends
      <4> QED BY <2>1, <2>2, <3>1, <4>1, <4>2 DEF Login
    <3>2. CASE k \in Added(a.out, v)
      <4>1. Has(a.out, "SUCCESS")
        BY <2>1, <2>2 DEF Login
      <4> QED BY <1>0, <3>2, <4>1
    <3> QED BY <1>0, <2>2, <3>1, <3>2 DEF Added, Extends
  <2>3. Login(b, t, nb, na, gb, ga)
    BY <1>1, <1>2, <2>1, <2>2 DEF Login
  <2> QED BY <2>0, <2>3 DEF LoginAt
<1> QED BY <1>3, <1>4 DEF End

\* An end sends its KEXINIT: at the beginning, or when it wants new keys.
LEMMA PairStarts ==
    ASSUME NEW e \in End, NEW a, NEW b, NEW na, NEW nb, NEW ga, NEW gb, NEW a2, NEW t,
           Pair(e, a, b, na, nb, ga, gb), a2 \in EndState, Stage(a) = "rest",
           a2.kex_type = a.kex_type, a2.auth = a.auth, a2.flags = a.flags,
           a2.kex_strict = a.kex_strict, a2.exchange = a.exchange,
           a2.newkeys = a.newkeys, a2.rcv = a.rcv, a2.outgoing = a.outgoing,
           a2.out = a.out, a2.snd = a.snd,
           \/ a.auth /\ a2.phase = a.phase /\ a2.disp = a.disp
           \/ a.phase = "new" /\ a2.phase = "kex" /\ a2.disp = {"KEXINIT"},
           Starts(a2, t)
    PROVE  Pair(e, t, b, na, nb, ga, gb) /\ Stage(t) = "sent"
<1> DEFINE init == Kexinit(a)
<1>1. /\ a \in EndState /\ b \in EndState /\ t \in EndState
      /\ na \in Nat /\ nb \in Nat /\ ga \in Nat /\ gb \in Nat
  BY DEF Pair, Starts
<1>2. /\ Flags(a) /\ Handlers(e, a) /\ Keys(a) /\ Counts(a) /\ Queue(a, na)
      /\ a.phase \in {"new", "kex"} => na = 0 /\ ga = 0
      /\ Flags(b)
  BY DEF Pair, Local
<1>3. /\ init \in MsgSet /\ init.type = "KEXINIT"
      /\ init.body = IF "INITIAL" \in a.flags THEN 1 ELSE 0
  BY MsgFacts DEF Kexinit, Type, KexType
<1>4. /\ t.out = Append(a.out, Packet(a, a.snd.seq, init))
      /\ t.snd.key = a.snd.key /\ t.snd.comp = a.snd.comp
      /\ t.snd.seq = (a.snd.seq + 1) % SeqMod
      /\ t.phase = a2.phase /\ t.kex_type = a.kex_type /\ t.auth = a.auth
      /\ t.rekeying = TRUE /\ t.done = FALSE /\ t.flags = a.flags \union {"INIT_SENT"}
      /\ t.kex_strict = a.kex_strict /\ t.disp = a2.disp
      /\ t.newkeys = a.newkeys /\ t.rcv = a.rcv /\ t.outgoing = a.outgoing
  <2>1. Kexinit(a2) = init /\ Packet(a2, a2.snd.seq, init) = Packet(a, a.snd.seq, init)
    BY DEF Kexinit, Packet
  <2> QED BY <2>1 DEF Starts, Sends
<1> HIDE DEF init
<1>5. a.flags = {} \/ (a.flags = {"INITIAL"} /\ a.phase = "new")
  BY <1>1, <1>2, RestFacts
<1>6. a.auth => a.flags = {} /\ "INITIAL" \notin b.flags
  BY <1>5, AuthPastFirst
<1>7. "INIT_RECVD" \notin t.flags /\ Stage(t) = "sent"
  <2>1. "INIT_RECVD" \notin t.flags /\ "INIT_SENT" \in t.flags
    BY <1>4, <1>5
  <2> QED BY <2>1 DEF Stage
<1>8. a.phase = "new" => ~a.auth /\ a.flags = {"INITIAL"}
  BY <1>2 DEF Flags
<1>9. Local(e, t, na, ga)
  <2>1. Flags(t)
    <3>0. "INIT_SENT" \in t.flags
      BY <1>4
    <3>1. t.flags # {} /\ t.flags # {"INITIAL"} /\ t.phase # "new"
      <4>1. t.flags # {} /\ t.flags # {"INITIAL"}
        BY <3>0
      <4>2. t.phase # "new"
        BY <1>4, <1>8
      <4> QED BY <4>1, <4>2
    <3>2. "INITIAL" \in t.flags <=> "INITIAL" \in a.flags
      BY <1>4
    <3>3. t.auth <=> t.phase \in {"start", "loop"}
      BY <1>2, <1>4, <1>8 DEF Flags
    <3>4. "INITIAL" \in t.flags \/ t.auth
      BY <1>4, <1>8
    <3>5. "INITIAL" \in t.flags => t.phase \in {"new", "kex"}
      BY <1>4, <1>5, <1>6, <3>2
    <3> QED BY <1>4, <1>7, <3>1, <3>3, <3>4, <3>5 DEF Flags
  <2>2. Handlers(e, t)
    BY <1>2, <1>4, <1>7 DEF Handlers
  <2>3. Keys(t)
    <3>1. "INITIAL" \in t.flags <=> "INITIAL" \in a.flags
      BY <1>4
    <3>2. "INIT_RECVD" \notin a.flags
      BY <1>5
    <3> QED BY <1>2, <1>4, <1>7, <3>1, <3>2 DEF Keys
  <2>4. Counts(t)
    <3>1. ASSUME "INITIAL" \in t.flags PROVE t.snd.seq <= 1 /\ t.rcv.seq = 0
      <4>1. a.snd.seq = 0 /\ a.rcv.seq = 0
        BY <1>2, <1>4, <3>1 DEF Counts
      <4>2. 1 % SeqMod = 1
        BY TransportAssumption, ModFacts
      <4> QED BY <1>4, <4>1, <4>2
    <3> QED BY <1>7, <3>1 DEF Counts
  <2>5. Queue(t, na)
    BY <1>2, <1>4 DEF Queue
  <2>6. t.phase \in {"new", "kex"} => na = 0 /\ ga = 0
    BY <1>2, <1>4
  <2> QED BY <1>1, <2>1, <2>2, <2>3, <2>4, <2>5, <2>6 DEF Local
<1>10. RowAt(e, a.kex_type, "rest", Stage(b), Kex(a.out), Kex(b.out))
       /\ a.kex_type = b.kex_type
  BY PairRow DEF Pair
<1>11. /\ \A x \in Kex(a.out) : Rank(x) < 2
       /\ RowAt(e, a.kex_type, "sent", Stage(b), Kex(a.out) \union {"KEXINIT"}, Kex(b.out))
  BY <1>10, RowKexinit
<1>12. Compressed(a, b)
  BY SendsCompressed DEF Compressed
<1>13. /\ Wire(t, b, na, gb) /\ Kex(t.out) = Kex(a.out) \union {"KEXINIT"}
       /\ Follows(a.out, t.out, "KEXINIT") /\ Replies(t.out, t.snd.key)
  <2>1. "INITIAL" \in b.flags => init.body = 1
    BY <1>3, <1>5, <1>6, <1>8
  <2>2. Behind(Kex(a.out), init.type)
    BY <1>3, <1>11 DEF Rank, Behind
  <2>3. KexSend(a, t, b, na, gb, init, a.snd.key)
    BY <1>1, <1>3, <1>4, <1>12, <2>1, <2>2 DEF Pair, KexType, Sends, Agreed, BodyFits, KexSend
  <2>4. /\ Wire(t, b, na, gb) /\ Kex(t.out) = Kex(a.out) \union {init.type}
        /\ Follows(a.out, t.out, init.type) /\ Replies(t.out, a.snd.key)
    BY <2>3, SendsKex
  <2> QED BY <1>3, <1>4, <2>4
<1>14. Wire(b, t, nb, ga)
  <2>1. Closed(t) => Closed(a)
    BY <1>4, <1>7 DEF Closed
  <2>2. "INITIAL" \in t.flags => "INITIAL" \in a.flags
    BY <1>4
  <2> QED BY <1>1, <1>4, <2>1, <2>2, WireFrame DEF Pair
<1>16. Agreed(t, b) /\ Agreed(b, t)
  <2>1. Has(t.out, "NEWKEYS") <=> Has(a.out, "NEWKEYS")
    BY <1>13 DEF Follows
  <2> QED BY <1>4, <1>7, <1>13, <2>1 DEF Pair, Agreed
<1>17. First(t, b) /\ First(b, t)
  <2>1. "INITIAL" \in t.flags <=> "INITIAL" \in a.flags
    BY <1>4
  <2>2. First(a, b) /\ First(b, a)
    BY DEF Pair
  <2>3. "INITIAL" \in a.flags => "INITIAL" \in b.flags
    BY <2>2 DEF First
  <2>4. "INITIAL" \notin a.flags => "INITIAL" \notin b.flags
    BY <1>6, <1>8
  <2>5. Stage(b) = "over" => "INITIAL" \notin a.flags
    BY <2>2 DEF First
  <2> QED BY <1>7, <2>1, <2>3, <2>4, <2>5 DEF First
<1>18. InStepAt(e, t, b)
  BY <1>4, <1>7, <1>10, <1>11, <1>13, RowPair
<1>19. LoginAt(e, t, b, na, nb, ga, gb)
  <2>1. LoginAt(e, a, b, na, nb, ga, gb) /\ Follows(a.out, t.out, "KEXINIT")
    BY <1>13 DEF Pair
  <2>2. a.auth \/ ~b.auth \/ e = "server"
    <3>1. CASE a.auth
      BY <3>1
    <3>2. CASE a.phase = "new" /\ e = "client"
      BY <2>1, <3>2 DEF LoginAt, Login
    <3> QED BY <3>1, <3>2 DEF End
  <2>3. t.phase = a.phase \/ ~b.auth \/ e = "server"
    BY <1>4, <1>8, <2>2
  <2> QED BY <1>1, <1>4, <2>1, <2>2, <2>3, LoginSendsKex
<1> QED BY <1>1, <1>7, <1>9, <1>13, <1>14, <1>16, <1>17, <1>18, <1>19 DEF Pair

-----------------------------------------------------------------------------
(* End e in state a reads the first packet of its peer and becomes t; the  *)
(* peer goes from b to b2 by losing that packet.                           *)

\* The first exchange message of a wire ranks lowest.
LEMMA HeadLowest ==
    ASSUME NEW w \in Seq(PacketSet), w # <<>>, InOrder(w), w[1].type \in KexType
    PROVE  Lowest(w[1].type, Kex(w))
BY HeadFirst, KexTail DEF Lowest

\* An end whose first packet is read keeps its own invariant.
LEMMA TailLocal ==
    ASSUME NEW e, NEW b, NEW b2, NEW n, NEW g, Local(e, b, n, g), TailOf(b, b2)
    PROVE  /\ Local(e, b2, n, g) /\ Stage(b2) = Stage(b)
           /\ Closed(b2) <=> Closed(b)
<1>1. /\ b2.flags = b.flags /\ b2.rekeying = b.rekeying /\ b2.disp = b.disp
      /\ b2.phase = b.phase /\ b2.auth = b.auth /\ b2.done = b.done
      /\ b2.kex_type = b.kex_type /\ b2.snd = b.snd /\ b2.rcv = b.rcv
      /\ b2.newkeys = b.newkeys /\ b2.kex_strict = b.kex_strict
      /\ b2.outgoing = b.outgoing /\ b2 \in EndState
  BY DEF TailOf, ButWire
<1>2. Stage(b2) = Stage(b) /\ KeyMessage(e, b2) = KeyMessage(e, b)
  BY <1>1 DEF Stage, KeyMessage
<1>3. Flags(b2)
  BY <1>1, <1>2 DEF Local, Flags
<1>4. Handlers(e, b2)
  BY <1>1, <1>2 DEF Local, Handlers
<1>5. Keys(b2)
  BY <1>1, <1>2 DEF Local, Keys
<1>6. Counts(b2) /\ Queue(b2, n)
  BY <1>1, <1>2 DEF Local, Counts, Queue
<1> QED BY <1>1, <1>2, <1>3, <1>4, <1>5, <1>6 DEF Local, Closed

\* An end in an exchange that has something to read has seen as much of the
\* user's authentication as its peer.
LEMMA SameAuth ==
    ASSUME NEW e \in End, NEW a, NEW b, NEW na, NEW nb, NEW ga, NEW gb,
           Pair(e, a, b, na, nb, ga, gb), Stage(a) # "rest", b.out # <<>>
    PROVE  a.auth = b.auth
<1>1. a.auth \in BOOLEAN /\ b.auth \in BOOLEAN
  BY EndTyped DEF Pair
<1>2. Flags(a)
  BY DEF Pair, Local
<1>3. a.auth \/ a.phase \in {"new", "kex"}
  BY <1>2, StageInSet DEF Flags
<1>4. CASE e = "client"
  BY <1>1, <1>2, <1>3, <1>4 DEF Pair, LoginAt, Login, Flags
<1>5. CASE e = "server"
  BY <1>1, <1>5 DEF Pair, LoginAt, Login
<1> QED BY <1>4, <1>5 DEF End

\* What a step of the exchange leaves of authentication.
LEMMA LoginSame ==
    ASSUME NEW e \in End, NEW a, NEW b, NEW t, NEW b2, NEW na, NEW nb, NEW ga, NEW gb,
           LoginAt(e, a, b, na, nb, ga, gb), a.auth = b.auth,
           t.auth = a.auth, b2.auth = b.auth, t.phase = a.phase, b2.phase = b.phase,
           Has(t.out, "SUCCESS") => Has(a.out, "SUCCESS"),
           Has(b2.out, "SUCCESS") => Has(b.out, "SUCCESS")
    PROVE  LoginAt(e, t, b2, na, nb, ga, gb)
<1>1. CASE e = "client"
  BY <1>1 DEF LoginAt, Login
<1>2. CASE e = "server"
  BY <1>2 DEF LoginAt, Login
<1> QED BY <1>1, <1>2 DEF End

KexRead(e, a, t, b, b2, na, nb, ga, gb) ==
    /\ e \in End /\ Pair(e, a, b, na, nb, ga, gb) /\ TailOf(b, b2)
    /\ b.out[1].type \in KexType /\ Stage(a) # "rest"
    /\ Local(e, t, na, ga) /\ Wire(t, b, na, gb)
    /\ RowAt(e, a.kex_type, Stage(t), Stage(b), Kex(t.out), Kex(b.out) \ {b.out[1].type})
    /\ Replies(t.out, t.snd.key)
    /\ Has(t.out, "NEWKEYS") /\ Stage(b) = "over" => b.newkeys.rcv = t.snd.key
    /\ Has(b2.out, "NEWKEYS") /\ Stage(t) = "over" => t.newkeys.rcv = b.snd.key
    /\ First(t, b) /\ First(b, t)
    /\ Has(t.out, "SUCCESS") => Has(a.out, "SUCCESS")
    /\ t.auth = a.auth /\ t.phase = a.phase /\ t.kex_type = a.kex_type
    /\ t.rcv.key = IF b.out[1].type = "NEWKEYS" THEN b.snd.key ELSE a.rcv.key
    /\ t.rcv.seq = After(b.out[1])
    /\ Closed(t) => \/ Closed(a) /\ b.out[1].type # "NEWKEYS"
                    \/ b.out[1].type = "KEXINIT"
    /\ "INITIAL" \in t.flags => "INITIAL" \in a.flags

\* A message of the exchange is read (KexRead): the pair keeps its invariant.
LEMMA PairReadsKex ==
    ASSUME NEW e, NEW a, NEW t, NEW b, NEW b2, NEW na, NEW nb, NEW ga, NEW gb,
           KexRead(e, a, t, b, b2, na, nb, ga, gb)
    PROVE  Pair(e, t, b2, na, nb, ga, gb)
<1>1. /\ e \in End /\ Pair(e, a, b, na, nb, ga, gb) /\ TailOf(b, b2)
      /\ a \in EndState /\ b \in EndState /\ t \in EndState /\ b2 \in EndState
      /\ na \in Nat /\ nb \in Nat /\ ga \in Nat /\ gb \in Nat
      /\ Local(Peer(e), b, nb, gb) /\ b.out # <<>> /\ Stage(a) # "rest"
  BY DEF KexRead, Pair, Local, TailOf
<1>2. /\ Local(Peer(e), b2, nb, gb) /\ Stage(b2) = Stage(b)
      /\ Closed(b2) <=> Closed(b)
  BY <1>1, TailLocal
<1>3. /\ b2.flags = b.flags /\ b2.auth = b.auth /\ b2.phase = b.phase
      /\ b2.kex_type = b.kex_type /\ b2.snd = b.snd /\ b2.rcv = b.rcv
      /\ b2.newkeys = b.newkeys /\ b2.outgoing = b.outgoing /\ b2.out = Tail(b.out)
  BY <1>1 DEF TailOf, ButWire
<1>4. a.auth = b.auth
  BY <1>1, SameAuth
<1>5. Wire(b2, t, nb, ga) /\ Kex(b2.out) = Kex(b.out) \ {b.out[1].type}
  <2>1. b.out[1].type \notin DataType /\ b.out[1].type # "SUCCESS"
    BY DEF KexRead, KexType, DataType
  <2>2. WireRead(b, b2, a, t, nb, ga, ga)
    BY <1>1, <1>4, <2>1 DEF WireRead, KexRead, Pair
  <2> QED BY <2>2, WireReads
<1>6. Wire(t, b2, na, gb)
  <2>1. Wire(t, b, na, gb)
    BY DEF KexRead
  <2> QED BY <1>1, <1>2, <1>3, <2>1, WireFrame
<1>7. b.out \in Seq(PacketSet)
  BY <1>1, EndTyped
<1>8. Has(b2.out, "SUCCESS") => Has(b.out, "SUCCESS")
  BY <1>1, <1>3, <1>7, HasTail
<1>9. Replies(b2.out, b2.snd.key)
  BY <1>1, <1>3, <1>7, RepliesTail DEF Pair, Agreed
<1>10. Agreed(t, b2) /\ Agreed(b2, t)
  BY <1>2, <1>3, <1>9 DEF Agreed, KexRead
<1>11. First(t, b2) /\ First(b2, t)
  BY <1>2, <1>3 DEF First, KexRead
<1>12. InStepAt(e, t, b2)
  <2>1. a.kex_type = b.kex_type
    BY <1>1, PairRow DEF Pair
  <2>2. t.kex_type = b2.kex_type /\ t.kex_type = a.kex_type
    BY <1>3, <2>1 DEF KexRead
  <2>3. RowAt(e, t.kex_type, Stage(t), Stage(b2), Kex(t.out), Kex(b2.out))
    BY <1>2, <1>5, <2>2 DEF KexRead
  <2> QED BY <1>1, <2>2, <2>3, RowPair
<1>13. LoginAt(e, t, b2, na, nb, ga, gb)
  <2>1. /\ LoginAt(e, a, b, na, nb, ga, gb) /\ t.auth = a.auth /\ t.phase = a.phase
        /\ Has(t.out, "SUCCESS") => Has(a.out, "SUCCESS")
    BY <1>1 DEF KexRead, Pair
  <2> QED BY <1>1, <1>3, <1>4, <1>8, <2>1, LoginSame
<1>14. Local(e, t, na, ga)
  BY DEF KexRead
<1> QED BY <1>1, <1>2, <1>5, <1>6, <1>10, <1>11, <1>12, <1>13, <1>14 DEF Pair

\* The fields that a step of the exchange leaves as they are.
Keeps(a, t) ==
    /\ t.phase = a.phase /\ t.kex_type = a.kex_type /\ t.auth = a.auth

\* KEXINIT, or a message about the group, has been read.
Advance(e, a, t, b, b2, na, nb, ga, gb) ==
    /\ e \in End /\ Pair(e, a, b, na, nb, ga, gb) /\ TailOf(b, b2)
    /\ b.out[1].type \in KexType /\ b.out[1].type # "NEWKEYS"
    /\ Closed(a) \/ b.out[1].type = "KEXINIT"
    /\ Stage(a) \in {"sent", "ask"} /\ Reads(a)
    /\ t \in EndState /\ Keeps(a, t)
    /\ t.flags = a.flags \union {"INIT_RECVD"} /\ t.rekeying = TRUE /\ t.done = FALSE
    /\ t.kex_strict = TRUE /\ t.newkeys = a.newkeys /\ t.outgoing = a.outgoing
    /\ t.snd.key = a.snd.key /\ t.snd.comp = a.snd.comp
    /\ t.rcv.key = a.rcv.key /\ t.rcv.comp = a.rcv.comp /\ t.rcv.seq = After(b.out[1])
    /\ Stage(t) \in {"ask", "key"} /\ Handlers(e, t) /\ Counts(t)
    /\ Wire(t, b, na, gb) /\ Replies(t.out, t.snd.key)
    /\ Has(t.out, "NEWKEYS") <=> Has(a.out, "NEWKEYS")
    /\ Has(t.out, "SUCCESS") <=> Has(a.out, "SUCCESS")
    /\ RowAt(e, a.kex_type, Stage(t), Stage(b), Kex(t.out), Kex(b.out) \ {b.out[1].type})

\* An end reads a message of the exchange and asks for the next (Advance).
LEMMA PairAdvances ==
    ASSUME NEW e, NEW a, NEW t, NEW b, NEW b2, NEW na, NEW nb, NEW ga, NEW gb,
           Advance(e, a, t, b, b2, na, nb, ga, gb)
    PROVE  Pair(e, t, b2, na, nb, ga, gb)
<1>1. /\ e \in End /\ Pair(e, a, b, na, nb, ga, gb) /\ TailOf(b, b2)
      /\ Stage(a) \in {"sent", "ask"} /\ Reads(a) /\ Stage(t) \in {"ask", "key"}
      /\ t.flags = a.flags \union {"INIT_RECVD"} /\ t.rekeying = TRUE /\ t.done = FALSE
      /\ t.kex_strict = TRUE /\ t.newkeys = a.newkeys /\ t.outgoing = a.outgoing
      /\ t.phase = a.phase /\ t.kex_type = a.kex_type /\ t.auth = a.auth
  BY DEF Advance, Keeps
<1>2. /\ Flags(a) /\ Keys(a) /\ Queue(a, na)
      /\ a.phase \in {"new", "kex"} => na = 0 /\ ga = 0
      /\ First(a, b) /\ First(b, a) /\ Agreed(a, b) /\ Agreed(b, a)
  BY <1>1 DEF Pair, Local
<1>3. "INIT_SENT" \in a.flags /\ (Stage(a) = "sent" <=> "INIT_RECVD" \notin a.flags)
  BY <1>1, StageInSet
<1>4. "INITIAL" \in t.flags <=> "INITIAL" \in a.flags
  BY <1>1
<1>5. a.phase \in {"kex", "loop"}
  <2>1. a.phase \in {"kex", "auth", "loop"}
    BY <1>1 DEF Reads
  <2>2. a.auth <=> a.phase \in {"start", "loop"}
    BY <1>2 DEF Flags
  <2>3. CASE Stage(a) = "sent"
    BY <1>2, <2>1, <2>2, <2>3 DEF Flags
  <2>4. CASE Stage(a) = "ask"
    BY <1>2, <1>3, <2>4 DEF Flags
  <2> QED BY <1>1, <2>3, <2>4
<1>6. Flags(t)
  <2>1. t.flags # {} /\ "INIT_SENT" \in t.flags
    BY <1>1, <1>3
  <2>2. t.flags # {"INITIAL"}
    BY <2>1
  <2> QED BY <1>1, <1>2, <1>4, <1>5, <2>1, <2>2 DEF Flags
<1>7. Keys(t)
  <2>1. "INIT_RECVD" \in t.flags
    BY <1>1
  <2>2. /\ a.snd.key = a.rcv.key /\ (a.snd.key = NoKey <=> "INITIAL" \in a.flags)
        /\ a.newkeys = [snd |-> NoKey, rcv |-> NoKey]
        /\ a.snd.comp = a.auth /\ a.rcv.comp = a.auth
    BY <1>1, <1>2 DEF Keys
  <2>3. /\ t.snd.key = a.snd.key /\ t.snd.comp = a.snd.comp
        /\ t.rcv.key = a.rcv.key /\ t.rcv.comp = a.rcv.comp
    BY DEF Advance
  <2> QED BY <1>1, <1>4, <2>1, <2>2, <2>3 DEF Keys
<1>8. Queue(t, na)
  BY <1>1, <1>2, <1>4 DEF Queue
<1>9. Local(e, t, na, ga)
  BY <1>1, <1>2, <1>6, <1>7, <1>8 DEF Local, Advance
<1>10. First(t, b) /\ First(b, t)
  BY <1>1, <1>2, <1>4 DEF First
<1>11. KexRead(e, a, t, b, b2, na, nb, ga, gb)
  <2>1. Has(t.out, "NEWKEYS") /\ Stage(b) = "over" => b.newkeys.rcv = t.snd.key
    BY <1>2 DEF Agreed, Advance
  <2>2. Closed(t) => \/ Closed(a) /\ b.out[1].type # "NEWKEYS"
                     \/ b.out[1].type = "KEXINIT"
    BY DEF Advance
  <2>3. t.rcv.key = IF b.out[1].type = "NEWKEYS" THEN b.snd.key ELSE a.rcv.key
    BY DEF Advance
  <2> QED BY <1>1, <1>4, <1>9, <1>10, <2>1, <2>2, <2>3 DEF KexRead, Advance
<1> QED BY <1>11, PairReadsKex

\* The reply, or the request it answers, has been read; x is the key.
Over(e, a, t, b, b2, na, nb, ga, gb, x) ==
    /\ e \in End /\ Pair(e, a, b, na, nb, ga, gb) /\ TailOf(b, b2)
    /\ b.out[1].type \in KexType
    /\ Stage(a) = "key"
    /\ x \in Key \ {NoKey} /\ (e = "client" => x = b.snd.key)
    /\ t \in EndState /\ Keeps(a, t)
    /\ t.flags = a.flags /\ t.rekeying = FALSE /\ t.done = FALSE
    /\ t.kex_strict = a.kex_strict /\ t.newkeys = [snd |-> NoKey, rcv |-> x]
    /\ t.outgoing = <<>> /\ t.disp = {"NEWKEYS"}
    /\ t.snd.key = x /\ t.snd.comp = a.auth
    /\ t.rcv.key = a.rcv.key /\ t.rcv.comp = a.rcv.comp /\ t.rcv.seq = After(b.out[1])
    /\ "INITIAL" \in a.flags => t.rcv.seq <= 3
    /\ Wire(t, b, na, gb) /\ Replies(t.out, x)
    /\ Has(t.out, "SUCCESS") <=> Has(a.out, "SUCCESS")
    /\ Kex(t.out) = IF e = "client" THEN {"NEWKEYS"}
                    ELSE {IF a.kex_type = "gen" THEN "KEX_REPLY" ELSE "GEX_REPLY", "NEWKEYS"}

\* An end has the keys and goes over to them for sending (Over).
LEMMA PairOver ==
    ASSUME NEW e, NEW a, NEW t, NEW b, NEW b2, NEW na, NEW nb, NEW ga, NEW gb, NEW x,
           Over(e, a, t, b, b2, na, nb, ga, gb, x)
    PROVE  Pair(e, t, b2, na, nb, ga, gb)
<1>1. /\ e \in End /\ Pair(e, a, b, na, nb, ga, gb) /\ TailOf(b, b2)
      /\ b.out[1].type \in KexType /\ Stage(a) = "key"
      /\ t.flags = a.flags /\ t.rekeying = FALSE /\ t.done = FALSE
      /\ t.kex_strict = a.kex_strict /\ t.newkeys = [snd |-> NoKey, rcv |-> x]
      /\ t.outgoing = <<>> /\ t.disp = {"NEWKEYS"}
      /\ t.phase = a.phase /\ t.kex_type = a.kex_type /\ t.auth = a.auth
      /\ t.snd.key = x /\ x # NoKey /\ t.snd.comp = a.auth
      /\ a \in EndState /\ b \in EndState /\ na \in Nat
  BY DEF Over, Keeps, Pair
<1>2. /\ Flags(a) /\ Keys(a) /\ Keys(b)
      /\ a.phase \in {"new", "kex"} => na = 0 /\ ga = 0
      /\ First(a, b) /\ First(b, a)
  BY <1>1 DEF Pair, Local
<1>3. "INIT_SENT" \in a.flags /\ "INIT_RECVD" \in a.flags
  BY <1>1, StageInSet
<1>4. Stage(t) = "over"
  BY <1>1, <1>3 DEF Stage
<1>5. Lowest(b.out[1].type, Kex(b.out))
  <2>1. b.out \in Seq(PacketSet) /\ b.out # <<>> /\ InOrder(b.out)
    BY <1>1, EndTyped DEF Pair, Wire, TailOf
  <2> QED BY <1>1, <2>1, HeadLowest
<1>6. RowAt(e, a.kex_type, "key", Stage(b), Kex(a.out), Kex(b.out))
  BY <1>1, PairRow DEF Pair
<1> DEFINE K == Kex(a.out)
           L == Kex(b.out)
           y == b.out[1].type
           sb == Stage(b)
           mm == a.kex_type
<1>7. /\ y # "NEWKEYS"
      /\ e = "client" => /\ sb = "over"
                         /\ RowAt(e, mm, "over", sb, {"NEWKEYS"}, L \ {y})
      /\ e = "server" =>
            /\ sb = "key" /\ L \ {y} = {}
            /\ RowAt(e, mm, "over", sb,
                     {IF mm = "gen" THEN "KEX_REPLY" ELSE "GEX_REPLY", "NEWKEYS"},
                     L \ {y})
  <2>1. e \in End /\ RowAt(e, mm, "key", sb, K, L) /\ Lowest(y, L)
    BY <1>1, <1>5, <1>6
  <2> HIDE DEF K, L, y, sb, mm
  <2>2. /\ mm \in {"gen", "gex"} /\ K = {}
        /\ e = "client" => /\ y = IF mm = "gen" THEN "KEX_REPLY" ELSE "GEX_REPLY"
                           /\ sb = "over" /\ "NEWKEYS" \in L
                           /\ RowAt(e, mm, "over", sb, {"NEWKEYS"}, L \ {y})
        /\ e = "server" =>
              /\ y = IF mm = "gen" THEN "KEX_INIT" ELSE "GEX_INIT"
              /\ sb = "key" /\ L \ {y} = {}
              /\ RowAt(e, mm, "over", sb,
                       {IF mm = "gen" THEN "KEX_REPLY" ELSE "GEX_REPLY", "NEWKEYS"}, L \ {y})
    BY <2>1, RowReadsKey, Zenon
  <2>3. y # "NEWKEYS"
    BY <2>1, <2>2 DEF End
  <2> QED BY <2>2, <2>3, Zenon
<1>8. RowAt(e, a.kex_type, "over", sb, Kex(t.out), L \ {y})
  <2>1. CASE e = "client"
    BY <1>7, <2>1 DEF Over
  <2>2. CASE e = "server"
    BY <1>7, <2>2 DEF Over
  <2> QED BY <1>1, <2>1, <2>2 DEF End
<1>9. sb \in {"over", "key"}
  BY <1>1, <1>7 DEF End
<1>10. Local(e, t, na, ga)
  <2>1. t.flags # {} /\ t.flags # {"INITIAL"}
    BY <1>1, <1>3
  <2>2. Flags(t)
    BY <1>1, <1>2, <1>3, <1>4, <2>1 DEF Flags
  <2>3. Handlers(e, t)
    BY <1>1, <1>4 DEF Handlers
  <2>4. Keys(t)
    <3>1. t.rcv.comp = a.rcv.comp
      BY DEF Over
    <3> QED BY <1>1, <1>2, <1>3, <1>4, <3>1 DEF Keys
  <2>5. Counts(t)
    BY <1>1, <1>4 DEF Counts, Over
  <2>6. Queue(t, na)
    BY <1>1 DEF Queue
  <2> QED BY <1>1, <1>2, <2>2, <2>3, <2>4, <2>5, <2>6 DEF Local, Over
<1>11. First(t, b) /\ First(b, t)
  BY <1>1, <1>2, <1>4, <1>9 DEF First
<1>12. sb = "over" => b.newkeys.rcv = t.snd.key
  <2>1. sb = "over" => e = "client" /\ b.newkeys.rcv = b.snd.key
    BY <1>1, <1>2, <1>7 DEF Keys, End
  <2> QED BY <1>1, <2>1 DEF Over
<1>13. Has(b2.out, "NEWKEYS") => t.newkeys.rcv = b.snd.key
  <2>1. CASE e = "client"
    BY <1>1, <2>1 DEF Over
  <2>2. CASE e = "server"
    <3>1. b.out \in Seq(PacketSet) /\ b.out # <<>> /\ InOrder(b.out) /\ b2.out = Tail(b.out)
      BY <1>1, EndTyped DEF Pair, Wire, TailOf
    <3>2. Kex(b2.out) = {}
      BY <1>7, <2>2, <3>1, KexTail
    <3>3. ~Has(b2.out, "NEWKEYS")
      BY <3>2 DEF Kex, KexType
    <3> QED BY <3>3
  <2> QED BY <1>1, <2>1, <2>2 DEF End
<1>14. KexRead(e, a, t, b, b2, na, nb, ga, gb)
  <2>1. Closed(t) => Closed(a) /\ b.out[1].type # "NEWKEYS"
    <3>1. b.out[1].type # "NEWKEYS"
      BY <1>7
    <3> QED BY <1>1, <3>1 DEF Closed
  <2>2. t.rcv.key = IF b.out[1].type = "NEWKEYS" THEN b.snd.key ELSE a.rcv.key
    <3>1. b.out[1].type # "NEWKEYS"
      BY <1>7
    <3> QED BY <3>1 DEF Over
  <2> QED BY <1>1, <1>4, <1>8, <1>10, <1>11, <1>12, <1>13, <2>1, <2>2 DEF KexRead, Over
<1> QED BY <1>14, PairReadsKex

\* NEWKEYS has been read.
Done(e, a, t, b, b2, na, nb, ga, gb) ==
    /\ e \in End /\ Pair(e, a, b, na, nb, ga, gb) /\ TailOf(b, b2)
    /\ b.out[1].type \in KexType /\ Stage(a) = "over"
    /\ t \in EndState /\ Keeps(a, t)
    /\ t.flags = {} /\ t.rekeying = a.rekeying /\ t.done = TRUE
    /\ t.kex_strict = a.kex_strict /\ t.newkeys = [snd |-> NoKey, rcv |-> NoKey]
    /\ t.outgoing = a.outgoing /\ t.disp = {"KEXINIT"} /\ t.out = a.out
    /\ t.snd = a.snd
    /\ t.rcv.key = a.newkeys.rcv /\ t.rcv.comp = a.auth /\ t.rcv.seq = 0

\* An end reads NEWKEYS: its exchange is complete (Done).
LEMMA PairDone ==
    ASSUME NEW e, NEW a, NEW t, NEW b, NEW b2, NEW na, NEW nb, NEW ga, NEW gb,
           Done(e, a, t, b, b2, na, nb, ga, gb)
    PROVE  Pair(e, t, b2, na, nb, ga, gb)
<1>1. /\ e \in End /\ Pair(e, a, b, na, nb, ga, gb) /\ TailOf(b, b2)
      /\ b.out[1].type \in KexType /\ Stage(a) = "over" /\ t \in EndState
      /\ t.flags = {} /\ t.rekeying = a.rekeying /\ t.done = TRUE
      /\ t.kex_strict = a.kex_strict /\ t.newkeys = [snd |-> NoKey, rcv |-> NoKey]
      /\ t.outgoing = a.outgoing /\ t.disp = {"KEXINIT"} /\ t.out = a.out
      /\ t.phase = a.phase /\ t.kex_type = a.kex_type /\ t.auth = a.auth
      /\ t.snd = a.snd /\ a \in EndState /\ b \in EndState
      /\ na \in Nat /\ gb \in Nat
  BY DEF Done, Keeps, Pair
<1>2. /\ Flags(a) /\ Keys(a) /\ Queue(a, na)
      /\ a.phase \in {"new", "kex"} => na = 0 /\ ga = 0
      /\ First(a, b) /\ First(b, a) /\ Agreed(a, b) /\ Agreed(b, a)
  BY <1>1 DEF Pair, Local
<1>3. "INIT_SENT" \in a.flags /\ "INIT_RECVD" \in a.flags /\ a.rekeying = FALSE
  <2>1. a.rekeying \in BOOLEAN
    BY <1>1, EndTyped
  <2> QED BY <1>1, <2>1 DEF Stage
<1>4. Stage(t) = "rest" /\ "INITIAL" \notin t.flags /\ ~Closed(t)
  BY <1>1 DEF Stage, Closed
<1>5. b.out \in Seq(PacketSet) /\ b.out # <<>> /\ InOrder(b.out)
  BY <1>1, EndTyped DEF Pair, Wire, TailOf
<1>6. Lowest(b.out[1].type, Kex(b.out))
  BY <1>1, <1>5, HeadLowest
<1>7. RowAt(e, a.kex_type, "over", Stage(b), Kex(a.out), Kex(b.out))
  BY <1>1, PairRow DEF Pair
<1> DEFINE K == Kex(a.out)
           L == Kex(b.out)
           y == b.out[1].type
           sb == Stage(b)
           mm == a.kex_type
<1>8. /\ y = "NEWKEYS" /\ sb \in {"rest", "sent", "over"}
      /\ RowAt(e, mm, "rest", sb, K, L \ {y})
  <2>1. e \in End /\ RowAt(e, mm, "over", sb, K, L) /\ Lowest(y, L)
    BY <1>1, <1>6, <1>7
  <2> HIDE DEF K, L, y, sb, mm
  <2> QED BY <2>1, RowReadsNewkeys, Zenon
<1>9. a.newkeys.rcv = a.snd.key /\ a.newkeys.rcv = b.snd.key
  <2>1. Has(b.out, "NEWKEYS")
    BY <1>6, <1>8 DEF Lowest, Kex
  <2> QED BY <1>1, <1>2, <2>1 DEF Keys, Agreed
<1>10. t.rcv.key = a.snd.key /\ t.rcv.comp = a.auth /\ t.rcv.key = b.snd.key
       /\ t.rcv.seq = After(b.out[1])
  BY <1>8, <1>9 DEF Done, After
<1>11. Local(e, t, na, ga)
  <2>1. t.phase \in {"kex", "loop"}
    BY <1>1, <1>2, <1>3 DEF Flags
  <2>2. t.flags # {"INITIAL"}
    BY <1>4
  <2>3. Flags(t)
    BY <1>1, <1>2, <1>3, <1>4, <2>1, <2>2 DEF Flags
  <2>4. Handlers(e, t)
    BY <1>1, <1>4 DEF Handlers
  <2>5. Keys(t)
    BY <1>1, <1>2, <1>3, <1>4, <1>10 DEF Keys
  <2>6. Counts(t)
    BY <1>4 DEF Counts
  <2>7. Queue(t, na)
    BY <1>1, <1>2, <1>3 DEF Queue
  <2> QED BY <1>1, <1>2, <2>3, <2>4, <2>5, <2>6, <2>7 DEF Local
<1>12. Wire(t, b, na, gb)
  <2>1. Wire(a, b, na, gb)
    BY <1>1 DEF Pair
  <2> QED BY <1>1, <2>1 DEF Wire
<1>13. First(t, b) /\ First(b, t)
  BY <1>1, <1>2, <1>4, <1>8 DEF First
<1>14. KexRead(e, a, t, b, b2, na, nb, ga, gb)
  <2>1. Replies(t.out, t.snd.key)
    BY <1>1, <1>2 DEF Agreed
  <2>2. Has(t.out, "NEWKEYS") /\ Stage(b) = "over" => b.newkeys.rcv = t.snd.key
    BY <1>1, <1>2 DEF Agreed
  <2>3. t.rcv.key = IF b.out[1].type = "NEWKEYS" THEN b.snd.key ELSE a.rcv.key
    BY <1>8, <1>10
  <2> QED BY <1>1, <1>4, <1>8, <1>10, <1>11, <1>12, <1>13, <2>1, <2>2, <2>3 DEF KexRead
<1> QED BY <1>14, PairReadsKex

-----------------------------------------------------------------------------
(* The other steps: phases, the queue, and the messages of the layers      *)
(* above.                                                                  *)

\* Nothing changes on the wire: a phase begins, or a message joins the queue.
Aside(e, a, t, b, na, na2, nb, ga, gb) ==
    /\ e \in End /\ Pair(e, a, b, na, nb, ga, gb) /\ t \in EndState
    /\ na2 \in Nat /\ na2 - Len(t.outgoing) = na - Len(a.outgoing)
    /\ t.kex_type = a.kex_type /\ t.auth = a.auth /\ t.flags = a.flags
    /\ t.newkeys = a.newkeys /\ t.out = a.out
    /\ t.snd.key = a.snd.key /\ t.snd.seq = a.snd.seq
    /\ t.rcv.key = a.rcv.key /\ t.rcv.seq = a.rcv.seq
    /\ Stage(t) = Stage(a)
    /\ Local(e, t, na2, ga) /\ LoginAt(e, t, b, na2, nb, ga, gb)

\* An end changes nothing of the exchange or of what is on the wires (Aside).
LEMMA PairAside ==
    ASSUME NEW e, NEW a, NEW t, NEW b, NEW na, NEW na2, NEW nb, NEW ga, NEW gb,
           Aside(e, a, t, b, na, na2, nb, ga, gb)
    PROVE  Pair(e, t, b, na2, nb, ga, gb)
<1>1. /\ e \in End /\ Pair(e, a, b, na, nb, ga, gb) /\ t \in EndState
      /\ a \in EndState /\ b \in EndState /\ na \in Nat /\ nb \in Nat
      /\ ga \in Nat /\ gb \in Nat /\ na2 \in Nat
      /\ na2 - Len(t.outgoing) = na - Len(a.outgoing)
      /\ t.kex_type = a.kex_type /\ t.auth = a.auth /\ t.flags = a.flags
      /\ t.newkeys = a.newkeys /\ t.out = a.out
      /\ t.snd.key = a.snd.key /\ t.snd.seq = a.snd.seq
      /\ t.rcv.key = a.rcv.key /\ t.rcv.seq = a.rcv.seq
      /\ Stage(t) = Stage(a)
  BY DEF Aside, Pair
<1>2. Closed(t) => Closed(a)
  BY <1>1 DEF Closed
<1>3. Wire(a, b, na, gb) /\ Wire(b, a, nb, ga)
  BY <1>1 DEF Pair
<1>4. Wire(t, b, na2, gb)
  BY <1>1, <1>3 DEF Wire
<1>5. Wire(b, t, nb, ga)
  BY <1>1, <1>3 DEF Wire, Closed
<1>6. Agreed(t, b) /\ Agreed(b, t) /\ First(t, b) /\ First(b, t)
  BY <1>1 DEF Pair, Agreed, First
<1>7. InStepAt(e, t, b)
  BY <1>1 DEF Pair, InStepAt, InStep
<1> QED BY <1>1, <1>4, <1>5, <1>6, <1>7 DEF Pair, Aside

\* q is queue o with the message numbered n + 1 behind.
Joins(o, q, n) == q = Append(o, Msg("DATA", n + 1))

\* The messages of queue o end with the one numbered n.
UpTo(o, n) ==
    /\ Len(o) <= n
    /\ \A i \in 1 .. Len(o) : o[i].type = "DATA" /\ o[i].body = n - Len(o) + i

\* A message that joins the queue is the last one handed over.
LEMMA JoinsFacts ==
    ASSUME NEW o \in Seq(MsgSet), NEW n \in Nat, NEW q, Joins(o, q, n), UpTo(o, n),
           NEW n2, n2 = n + 1
    PROVE  UpTo(q, n2) /\ n2 - Len(q) = n - Len(o)
<1> DEFINE m == Msg("DATA", n + 1)
           v == Append(o, m)
           L == Len(o)
<1>0. n + 1 \in Nat /\ "DATA" \in Type
  BY DEF Type
<1>1. m.type = "DATA" /\ m.body = n + 1 /\ m \in MsgSet
  BY <1>0, MsgFacts
<1>2. q = v
  BY DEF Joins
<1> HIDE DEF m
<1>3. /\ Len(v) = L + 1 /\ v[L + 1] = m /\ L \in Nat
      /\ \A i \in 1 .. L : v[i] = o[i]
  BY <1>1
<1> HIDE DEF v
<1>4. Len(q) = L + 1 /\ q[L + 1] = m /\ \A i \in 1 .. L : q[i] = o[i]
  BY <1>2, <1>3
<1> HIDE DEF L
<1>5. L + 1 <= n + 1 /\ n + 1 - (L + 1) = n - L /\ n - L + (L + 1) = n + 1
  BY <1>3 DEF L, UpTo
<1>6. ASSUME NEW i \in 1 .. L + 1
      PROVE  q[i].type = "DATA" /\ q[i].body = n + 1 - (L + 1) + i
  <2>1. CASE i \in 1 .. L
    BY <1>4, <1>5, <2>1 DEF L, UpTo
  <2>2. CASE i = L + 1
    BY <1>1, <1>4, <1>5, <2>2
  <2> QED BY <1>3, <2>1, <2>2
<1> QED BY <1>4, <1>5, <1>6 DEF L, UpTo

\* A message is queued.
LEMMA PairQueues ==
    ASSUME NEW e \in End, NEW a, NEW t, NEW b, NEW na, NEW nb, NEW ga, NEW gb,
           Pair(e, a, b, na, nb, ga, gb), t \in EndState, a.rekeying, a.auth,
           t.kex_type = a.kex_type, t.auth = a.auth, t.flags = a.flags,
           t.newkeys = a.newkeys, t.out = a.out, t.phase = a.phase, t.disp = a.disp,
           t.rekeying = a.rekeying, t.done = a.done, t.kex_strict = a.kex_strict,
           t.snd.key = a.snd.key, t.snd.seq = a.snd.seq, t.snd.comp = a.snd.comp,
           t.rcv.key = a.rcv.key, t.rcv.seq = a.rcv.seq, t.rcv.comp = a.rcv.comp,
           Joins(a.outgoing, t.outgoing, na)
    PROVE  Pair(e, t, b, na + 1, nb, ga, gb)
<1>1. na \in Nat /\ na + 1 \in Nat /\ ga \in Nat /\ Local(e, a, na, ga)
  BY DEF Pair, Local
<1>2. a.outgoing \in Seq(MsgSet) /\ UpTo(a.outgoing, na)
  BY <1>1, EndTyped DEF Pair, Local, Queue, UpTo
<1>a. PICK na2 \in Nat : na2 = na + 1
  BY <1>1
<1>3. UpTo(t.outgoing, na2) /\ na2 - Len(t.outgoing) = na - Len(a.outgoing)
  BY <1>1, <1>2, <1>a, JoinsFacts
<1>4. na2 \in Nat
  BY <1>1
<1>6. Queue(t, na2)
  <2>2. a.rekeying /\ "INITIAL" \notin a.flags
    BY AuthPastFirst
  <2> QED BY <1>3, <2>2 DEF Queue, UpTo
<1>7. Stage(t) = Stage(a) /\ KeyMessage(e, t) = KeyMessage(e, a)
  BY DEF Stage, KeyMessage
<1>8. Local(e, t, na2, ga)
  <2>1. Flags(t)
    BY <1>1, <1>7 DEF Flags, Local
  <2>2. Handlers(e, t)
    BY <1>1, <1>7 DEF Handlers, Local
  <2>3. Keys(t)
    BY <1>1, <1>7 DEF Keys, Local
  <2>4. Counts(t)
    BY <1>1, <1>7 DEF Counts, Local
  <2>5. t.phase \notin {"new", "kex"}
    BY <1>1 DEF Local, Flags
  <2> QED BY <1>6, <2>1, <2>2, <2>3, <2>4, <2>5 DEF Local
<1>9. LoginAt(e, t, b, na2, nb, ga, gb)
  <2>1. CASE e = "client"
    BY <2>1 DEF Pair, LoginAt, Login
  <2>2. CASE e = "server"
    BY <2>2 DEF Pair, LoginAt, Login
  <2> QED BY <2>1, <2>2 DEF End
<1>10. Aside(e, a, t, b, na, na2, nb, ga, gb)
  BY <1>3, <1>4, <1>7, <1>8, <1>9 DEF Aside
<1>11. Pair(e, t, b, na2, nb, ga, gb)
  BY <1>10, PairAside
<1> QED BY <1>11, <1>a

\* The end goes on to another phase.
LEMMA PairPhase ==
    ASSUME NEW e \in End, NEW a, NEW t, NEW b, NEW na, NEW nb, NEW ga, NEW gb,
           Pair(e, a, b, na, nb, ga, gb), t \in EndState,
           \/ a.phase = "kex" /\ a.done /\ t.phase = "auth"
           \/ a.phase = "start" /\ t.phase = "loop" /\ t.disp = {"KEXINIT"},
           t.kex_type = a.kex_type, t.auth = a.auth, t.flags = a.flags,
           t.newkeys = a.newkeys, t.out = a.out,
           t.rekeying = a.rekeying, t.done = a.done, t.kex_strict = a.kex_strict,
           t.snd = a.snd, t.rcv = a.rcv, t.outgoing = a.outgoing
    PROVE  Pair(e, t, b, na, nb, ga, gb)
<1>1. /\ na \in Nat /\ Local(e, a, na, ga) /\ Flags(a) /\ a \in EndState
  BY DEF Pair, Local
<1>2. Stage(a) \in {"rest", "sent"} /\ "INITIAL" \notin a.flags
  <2>1. CASE a.phase = "kex" /\ a.done
    BY <1>1, <2>1 DEF Flags, Stage
  <2>2. CASE a.phase = "start"
    BY <1>1, <2>2 DEF Flags, Stage
  <2> QED BY <2>1, <2>2
<1>3. Stage(t) = Stage(a)
  BY <1>1, <1>2 DEF Stage, Flags
<1>4. a.auth <=> a.phase \in {"start", "loop"}
  BY <1>1 DEF Flags
<1>5. Local(e, t, na, ga)
  <2>1. t.flags # {"INITIAL"} /\ a.phase # "new" /\ t.phase # "new"
    BY <1>2
  <2>2. "INIT_RECVD" \notin a.flags
    BY <1>1, <1>2, StageInSet DEF Flags
  <2>3. Flags(t)
    BY <1>1, <1>2, <1>3, <1>4, <2>1, <2>2 DEF Flags
  <2>4. Handlers(e, t)
    BY <1>2, <1>3 DEF Handlers
  <2>5. Keys(t)
    BY <1>1, <1>3 DEF Keys, Local
  <2>6. Counts(t) /\ Queue(t, na)
    BY <1>1, <1>2 DEF Counts, Queue, Local
  <2> QED BY <1>1, <2>3, <2>4, <2>5, <2>6 DEF Local
<1>6. LoginAt(e, t, b, na, nb, ga, gb)
  <2>1. CASE e = "client"
    BY <2>1 DEF Pair, LoginAt, Login
  <2>2. CASE e = "server"
    BY <2>2 DEF Pair, LoginAt, Login
  <2> QED BY <2>1, <2>2 DEF End
<1>7. Aside(e, a, t, b, na, na, nb, ga, gb)
  BY <1>1, <1>3, <1>5, <1>6 DEF Aside
<1> QED BY <1>7, PairAside

\* When an end may send: a request follows its answer, an answer its request.
Turn(e, a, na, ga) ==
    \/ a.auth
    \/ e = "client" /\ ga = na
    \/ e = "server" /\ ga > na

\* The end whose turn it is hands over a message.
LEMMA LoginCounts ==
    ASSUME NEW e \in End, NEW a, NEW b, NEW na \in Nat, NEW nb \in Nat,
           NEW ga \in Nat, NEW gb \in Nat, NEW na2, na2 = na + 1,
           LoginAt(e, a, b, na, nb, ga, gb), Turn(e, a, na, ga)
    PROVE  LoginAt(e, a, b, na2, nb, ga, gb)
<1>1. CASE e = "client"
  <2>1. Login(a, b, na, nb, ga, gb) /\ (a.auth \/ ga = na)
    BY <1>1 DEF LoginAt, Turn
  <2>2. Login(a, b, na2, nb, ga, gb)
    BY <2>1 DEF Login
  <2> QED BY <1>1, <2>2 DEF LoginAt
<1>2. CASE e = "server"
  <2>0. e # "client"
    BY <1>2
  <2>1. Login(b, a, nb, na, gb, ga) /\ (a.auth \/ ga > na)
    BY <2>0 DEF LoginAt, Turn
  <2>2. Login(b, a, nb, na2, gb, ga)
    BY <2>1 DEF Login
  <2> QED BY <2>0, <2>2 DEF LoginAt
<1> QED BY <1>1, <1>2 DEF End

\* A message goes out at once.
LEMMA PairSends ==
    ASSUME NEW e \in End, NEW a, NEW t, NEW b, NEW na, NEW na2, NEW nb, NEW ga, NEW gb,
           Pair(e, a, b, na, nb, ga, gb), na2 = na + 1, ~a.rekeying,
           a.phase \in {"auth", "start", "loop"}, Turn(e, a, na, ga),
           t \in EndState, ButWire(a, t), NEW m, m = Msg("DATA", na2), Sends(a, t, m)
    PROVE  Pair(e, t, b, na2, nb, ga, gb)
<1>1. /\ a \in EndState /\ b \in EndState /\ na \in Nat /\ na2 \in Nat
      /\ nb \in Nat /\ ga \in Nat /\ gb \in Nat /\ Local(e, a, na, ga)
  BY DEF Pair
<1>2. m \in MsgSet /\ m.type = "DATA" /\ m.body = na2
  BY <1>1, MsgFacts DEF Type
<1>3. /\ a.snd.key # NoKey /\ "KEXINIT" \notin Kex(a.out)
      /\ Closed(b) => "NEWKEYS" \in Kex(a.out)
      /\ a.outgoing = <<>>
  BY MaySendPlain
<1>4. Compressed(a, b)
  BY SendsCompressed DEF Compressed
<1>5. /\ t.phase = a.phase /\ t.kex_type = a.kex_type /\ t.auth = a.auth
      /\ t.rekeying = a.rekeying /\ t.done = a.done /\ t.flags = a.flags
      /\ t.kex_strict = a.kex_strict /\ t.disp = a.disp
      /\ t.newkeys = a.newkeys /\ t.rcv = a.rcv /\ t.outgoing = <<>>
  BY <1>3 DEF ButWire
<1>6. /\ t.out = Append(a.out, Packet(a, a.snd.seq, m))
      /\ t.snd.key = a.snd.key /\ t.snd.comp = a.snd.comp
      /\ t.snd.seq = (a.snd.seq + 1) % SeqMod
  BY DEF Sends
<1>7. Wire(t, b, na2, gb) /\ Kex(t.out) = Kex(a.out)
  <2>1. m.type \notin KexType /\ m.type \in DataType /\ m.type # "EXT_INFO"
    BY <1>2 DEF KexType, DataType
  <2>2. t.auth /\ b.auth <=> a.auth /\ b.auth
    BY <1>5
  <2>3. PlainSend(a, t, b, na, na2, gb, m)
    BY <1>1, <1>2, <1>3, <1>4, <1>5, <1>6, <2>1, <2>2 DEF PlainSend, Pair
  <2> QED BY <2>3, WireSendsPlain
<1>8. Follows(a.out, t.out, "DATA")
  BY <1>1, <1>2, <1>6, SendFollows
<1>9. Wire(b, t, nb, ga)
  <2>1. Wire(b, a, nb, ga)
    BY DEF Pair
  <2> QED BY <1>5, <2>1 DEF Wire, Closed
<1>10. Stage(t) = Stage(a) /\ KeyMessage(e, t) = KeyMessage(e, a)
  BY <1>5 DEF Stage, KeyMessage
<1>11. Local(e, t, na2, ga)
  <2>1. Flags(t) /\ Handlers(e, t)
    BY <1>1, <1>5, <1>10 DEF Flags, Handlers, Local
  <2>2. Keys(t)
    BY <1>1, <1>5, <1>6, <1>10 DEF Keys, Local
  <2>3. "INITIAL" \notin t.flags
    BY <1>1, <1>5 DEF Flags, Local
  <2>4. Counts(t)
    BY <2>3 DEF Counts
  <2>5. Queue(t, na2)
    BY <1>1, <1>5 DEF Queue
  <2> QED BY <1>5, <2>1, <2>2, <2>4, <2>5 DEF Local
<1>12. Agreed(t, b) /\ Agreed(b, t)
  <2>1. Replies(t.out, t.snd.key)
    <3>1. Replies(a.out, a.snd.key) /\ Extends(a.out, t.out)
      BY <1>8 DEF Pair, Agreed, Follows
    <3>2. \A k \in Added(a.out, t.out) :
             t.out[k].type \in {"KEX_REPLY", "GEX_REPLY"} => t.out[k].body = a.snd.key
      BY <1>8 DEF Follows
    <3>3. Replies(t.out, a.snd.key)
      BY <3>1, <3>2, RepliesExtend
    <3> QED BY <1>6, <3>3
  <2>2. Has(t.out, "NEWKEYS") <=> Has(a.out, "NEWKEYS")
    BY <1>8 DEF Follows
  <2> QED BY <1>5, <1>6, <1>10, <2>1, <2>2 DEF Pair, Agreed
<1>13. First(t, b) /\ First(b, t)
  BY <1>5, <1>10 DEF Pair, First
<1>14. InStepAt(e, t, b)
  BY <1>5, <1>7, <1>10 DEF Pair, InStepAt, InStep
<1>15. LoginAt(e, t, b, na2, nb, ga, gb)
  <2>1. LoginAt(e, a, b, na, nb, ga, gb)
    BY DEF Pair
  <2>2. e = "client" => a.auth \/ ~b.auth
    BY <1>1, <2>1 DEF LoginAt, Login, Turn
  <2>3. LoginAt(e, t, b, na, nb, ga, gb)
    BY <1>1, <1>5, <1>8, <2>1, <2>2, LoginSendsKex
  <2>4. Turn(e, t, na, ga)
    BY <1>5 DEF Turn
  <2> QED BY <1>1, <2>3, <2>4, LoginCounts
<1> QED BY <1>1, <1>7, <1>9, <1>11, <1>12, <1>13, <1>14, <1>15 DEF Pair

\* When the server lets the user in, the client has asked and waits: nothing is
\* on its wire, and neither end is in an exchange.
LEMMA ClientWaits ==
    ASSUME NEW a, NEW b, NEW na, NEW nb, NEW ga, NEW gb,
           Pair("server", a, b, na, nb, ga, gb), a.phase = "auth", ga > na
    PROVE  /\ ~a.auth /\ ~b.auth /\ b.out = <<>> /\ nb = gb + 1 /\ na = gb
           /\ b.phase = "auth" /\ Stage(a) = "rest" /\ Stage(b) = "rest"
           /\ Kex(a.out) = {} /\ ~Has(a.out, "SUCCESS")
<1>1. /\ a \in EndState /\ b \in EndState /\ na \in Nat /\ nb \in Nat
      /\ ga \in Nat /\ gb \in Nat
      /\ Flags(a) /\ Flags(b) /\ First(a, b) /\ First(b, a)
      /\ b.phase \in {"new", "kex"} => nb = 0
      /\ Login(b, a, nb, na, gb, ga) /\ Wire(b, a, nb, ga)
  BY DEF Pair, Local, LoginAt, Peer
<1>2. ~a.auth /\ ~b.auth
  BY <1>1 DEF Flags, Login
<1>3. nb = ga /\ nb = gb + 1 /\ na = gb
  BY <1>1, <1>2 DEF Login
<1>4. b.phase = "auth"
  <2>1. b.phase \in {"new", "kex", "auth", "start", "loop"}
    BY <1>1 DEF EndState
  <2> QED BY <1>1, <1>2, <1>3, <2>1 DEF Flags
<1>5. Stage(a) = "rest" /\ Stage(b) = "rest"
  BY <1>1, <1>2, <1>4, StageInSet DEF Flags
<1>6. Kex(a.out) = {} /\ Kex(b.out) = {}
  <2>1. RowAt("server", a.kex_type, "rest", "rest", Kex(a.out), Kex(b.out))
    BY <1>5, PairRow DEF Pair, End
  <2> QED BY <2>1 DEF RowAt, Row
<1>7. ASSUME NEW k \in 1 .. Len(b.out) PROVE FALSE
  <2>1. b.out \in Seq(PacketSet)
    BY <1>1, EndTyped
  <2>2. b.out[k].type \in Type /\ b.out[k].body \in Nat
    BY <2>1, PacketTyped
  <2>3. b.out[k].type \notin KexType
    BY <1>6, <1>7 DEF Kex, Has
  <2>4. b.out[k].type # "EXT_INFO"
    BY <1>1, <1>3, <1>7 DEF Wire, ExtInfoFirst
  <2>5. b.out[k].type \in DataType
    BY <2>2, <2>3, <2>4 DEF Type, DataType
  <2>6. Len(b.outgoing) \in Nat
    BY <1>1, EndTyped
  <2>7. ga < b.out[k].body /\ b.out[k].body <= nb - Len(b.outgoing)
    BY <1>1, <2>5, <1>7 DEF Wire, Numbered
  <2> QED BY <1>1, <1>3, <2>2, <2>6, <2>7
<1>8. b.out = <<>>
  <2>1. b.out \in Seq(PacketSet)
    BY <1>1, EndTyped
  <2>2. Len(b.out) = 0
    BY <1>7, <2>1
  <2> QED BY <2>1, <2>2
<1>9. ~Has(a.out, "SUCCESS")
  BY <1>1, <1>2 DEF Login
<1> QED BY <1>2, <1>3, <1>4, <1>5, <1>6, <1>8, <1>9

\* The server's answer is that the user has authenticated.
LEMMA PairSuccess ==
    ASSUME NEW a, NEW t, NEW b, NEW na, NEW na2, NEW nb, NEW ga, NEW gb,
           Pair("server", a, b, na, nb, ga, gb), na2 = na + 1,
           a.phase = "auth", ga > na,
           t \in EndState, NEW m, m = Msg("SUCCESS", na2),
           t.out = Append(a.out, Packet(a, a.snd.seq, m)),
           t.snd.key = a.snd.key, t.snd.seq = (a.snd.seq + 1) % SeqMod, t.snd.comp = TRUE,
           t.rcv.key = a.rcv.key, t.rcv.seq = a.rcv.seq, t.rcv.comp = TRUE,
           t.phase = "start", t.auth = TRUE, t.kex_type = a.kex_type,
           t.rekeying = a.rekeying, t.done = a.done, t.flags = a.flags,
           t.kex_strict = a.kex_strict, t.newkeys = a.newkeys, t.outgoing = a.outgoing
    PROVE  Pair("server", t, b, na2, nb, ga, gb)
<1>1. /\ a \in EndState /\ b \in EndState /\ na \in Nat /\ na2 \in Nat
      /\ nb \in Nat /\ ga \in Nat /\ gb \in Nat /\ Local("server", a, na, ga)
      /\ "server" \in End /\ "server" # "client" /\ Login(b, a, nb, na, gb, ga)
  BY DEF Pair, End, LoginAt
<1>2. m \in MsgSet /\ m.type = "SUCCESS" /\ m.body = na2
  <2>1. "SUCCESS" \in Type
    BY DEF Type
  <2> QED BY <1>1, <2>1, MsgFacts, Zenon
<1>3. /\ ~a.auth /\ ~b.auth /\ b.out = <<>> /\ nb = gb + 1 /\ na = gb
      /\ b.phase = "auth" /\ Stage(a) = "rest" /\ Stage(b) = "rest"
      /\ Kex(a.out) = {} /\ ~Has(a.out, "SUCCESS")
  BY ClientWaits
<1>4. a.flags = {} /\ a.done /\ ~a.rekeying
  BY <1>1, <1>3, RestFacts DEF Local
<1>5. /\ a.snd.key # NoKey /\ "KEXINIT" \notin Kex(a.out)
      /\ Closed(b) => "NEWKEYS" \in Kex(a.out)
      /\ a.outgoing = <<>>
  BY <1>1, <1>4, MaySendPlain
<1>6. Compressed(a, b)
  BY <1>1, SendsCompressed DEF Compressed
<1>7. Wire(t, b, na2, gb) /\ Kex(t.out) = {}
  <2>1. m.type \notin KexType /\ m.type \in DataType /\ m.type # "EXT_INFO"
    BY <1>2 DEF KexType, DataType
  <2>2. t.auth /\ b.auth <=> a.auth /\ b.auth
    BY <1>3
  <2>3. PlainSend(a, t, b, na, na2, gb, m)
    BY <1>1, <1>2, <1>5, <1>6, <2>1, <2>2 DEF PlainSend, Pair
  <2>4. Wire(t, b, na2, gb) /\ Kex(t.out) = Kex(a.out)
    BY <2>3, WireSendsPlain
  <2> QED BY <1>3, <2>4
<1>8. Follows(a.out, t.out, "SUCCESS") /\ t.out[Len(a.out) + 1].body = na2
  BY <1>1, <1>2, SendFollows
<1>9. Wire(b, t, nb, ga)
  <2>1. Wire(b, a, nb, ga)
    BY DEF Pair
  <2>2. Quiet(b.out, Closed(t))
    BY <1>3 DEF Quiet
  <2>3. SameCompression(b.out, b.auth /\ t.auth)
    BY <1>3 DEF SameCompression
  <2> QED BY <2>1, <2>2, <2>3 DEF Wire
<1>10. Stage(t) = "rest"
  BY <1>3 DEF Stage
<1>11. Local("server", t, na2, ga)
  <2>1. "INITIAL" \notin a.flags /\ a.flags # {"INITIAL"}
    BY <1>4
  <2>2. Flags(t)
    BY <1>1, <1>4, <1>10, <2>1 DEF Flags, Local
  <2>3. Handlers("server", t)
    BY <1>10 DEF Handlers
  <2>4. Keys(t)
    BY <1>1, <1>3, <1>10 DEF Keys, Local
  <2>5. Counts(t)
    BY <2>1 DEF Counts
  <2>6. Queue(t, na2)
    BY <1>1, <1>5 DEF Queue
  <2> QED BY <2>2, <2>3, <2>4, <2>5, <2>6 DEF Local
<1>12. Agreed(t, b) /\ Agreed(b, t)
  <2>1. Replies(t.out, t.snd.key)
    <3>1. Replies(a.out, a.snd.key) /\ Extends(a.out, t.out)
      BY <1>8 DEF Pair, Agreed, Follows
    <3>2. \A k \in Added(a.out, t.out) :
             t.out[k].type \in {"KEX_REPLY", "GEX_REPLY"} => t.out[k].body = a.snd.key
      BY <1>8 DEF Follows
    <3>3. Replies(t.out, a.snd.key)
      BY <3>1, <3>2, RepliesExtend
    <3> QED BY <3>3
  <2> QED BY <1>3, <1>10, <2>1 DEF Pair, Agreed
<1>13. First(t, b) /\ First(b, t)
  BY <1>3, <1>10 DEF Pair, First
<1>14. InStepAt("server", t, b)
  <2>1. InStep(b, a)
    BY <1>1 DEF Pair, InStepAt
  <2>2. InStep(b, t)
    BY <1>3, <1>7, <1>10, <2>1 DEF InStep
  <2> QED BY <1>1, <2>2 DEF InStepAt
<1>15. LoginAt("server", t, b, na2, nb, ga, gb)
  <2>1. Has(t.out, "SUCCESS") /\ t.auth /\ ~b.auth
    <3>1. Len(a.out) + 1 \in 1 .. Len(t.out)
      BY <1>1, <1>8, EndTyped DEF Follows, Extends, Added
    <3>2. Has(t.out, "SUCCESS")
      BY <1>8, <3>1 DEF Has, Follows
    <3> QED BY <1>3, <3>2
  <2>2. ASSUME NEW k \in 1 .. Len(t.out)
        PROVE  /\ t.out[k].type = "SUCCESS" => t.out[k].body = gb + 1
               /\ t.out[k].type \notin KexType
    <3>1. t.out[k].type \notin KexType
      BY <1>7, <2>2 DEF Kex, Has
    <3>2. CASE k \in 1 .. Len(a.out)
      <4>1. t.out[k] = a.out[k]
        BY <1>8, <3>2 DEF Follows, Extends
      <4> QED BY <1>3, <3>1, <3>2, <4>1 DEF Has
    <3>3. CASE k \in Added(a.out, t.out)
      <4>1. t.out[k].body = na2
        BY <1>8, <3>3 DEF Follows
      <4> QED BY <1>1, <1>3, <3>1, <4>1
    <3> QED BY <1>8, <2>2, <3>2, <3>3 DEF Added, Follows, Extends
  <2>3. Login(b, t, nb, na2, gb, ga)
    BY <1>1, <1>3, <2>1, <2>2 DEF Login
  <2> QED BY <1>1, <2>3 DEF LoginAt
<1> QED BY <1>1, <1>7, <1>9, <1>11, <1>12, <1>13, <1>14, <1>15 DEF Pair

\* Who may meet a message that is not of the exchange.
LEMMA PlainHead ==
    ASSUME NEW e \in End, NEW a, NEW b, NEW na, NEW nb, NEW ga, NEW gb,
           Pair(e, a, b, na, nb, ga, gb), Reads(a), b.out # <<>>,
           b.out[1].type \notin KexType
    PROVE  /\ ~Closed(a) /\ a.phase \in {"auth", "loop"}
           /\ Stage(a) \in {"rest", "sent"}
           /\ b.out[1].type = "SUCCESS" =>
                 /\ e = "client" /\ ~a.auth /\ b.auth /\ Stage(a) = "rest"
                 /\ a.phase = "auth"
<1>1. /\ a \in EndState /\ b \in EndState /\ Flags(a) /\ Wire(b, a, nb, ga)
      /\ b.out \in Seq(PacketSet) /\ 1 \in 1 .. Len(b.out)
  BY EndTyped, TailFacts DEF Pair, Local
<1>2. ~Closed(a)
  <2>1. ~Passed(b.out, 1, "NEWKEYS")
    BY DEF Passed
  <2> QED BY <1>1, <2>1 DEF Wire, Quiet
<1>3. Stage(a) \in {"rest", "sent"}
  BY <1>2 DEF Closed, Stage
<1>4. a.phase \in {"auth", "loop"}
  <2>1. "INITIAL" \notin a.flags
    BY <1>2 DEF Closed
  <2>2. Stage(a) = "rest" => a.done
    BY <1>1, <2>1, RestFacts
  <2>3. Stage(a) = "sent" => a.phase \in {"start", "loop"}
    BY <1>1, <2>1 DEF Flags
  <2> QED BY <1>3, <2>2, <2>3 DEF Reads
<1>5. ASSUME b.out[1].type = "SUCCESS"
      PROVE  /\ e = "client" /\ ~a.auth /\ b.auth /\ Stage(a) = "rest"
             /\ a.phase = "auth"
  <2>1. Has(b.out, "SUCCESS")
    BY <1>1, <1>5 DEF Has
  <2>2. e = "client"
    BY <2>1 DEF Pair, LoginAt, Login, End
  <2>3. b.auth /\ ~a.auth
    BY <2>1, <2>2 DEF Pair, LoginAt, Login
  <2>4. a.phase = "auth" /\ Stage(a) = "rest"
    BY <1>1, <1>2, <1>3, <1>4, <2>3 DEF Flags, Closed
  <2> QED BY <2>2, <2>3, <2>4
<1> QED BY <1>2, <1>3, <1>4, <1>5

PlainRead(e, a, t, b, b2, na, nb, ga, ga2, gb) ==
    /\ e \in End /\ Pair(e, a, b, na, nb, ga, gb) /\ TailOf(b, b2) /\ Reads(a)
    /\ b.out[1].type \notin KexType
    /\ ga2 = IF b.out[1].type \in DataType THEN ga + 1 ELSE ga
    /\ t \in EndState
    /\ t.rcv.key = a.rcv.key /\ t.rcv.seq = After(b.out[1]) /\ t.rcv.comp = t.auth
    /\ t.snd.key = a.snd.key /\ t.snd.seq = a.snd.seq /\ t.snd.comp = t.auth
    /\ t.kex_type = a.kex_type /\ t.rekeying = a.rekeying /\ t.done = a.done
    /\ t.flags = a.flags /\ t.kex_strict = a.kex_strict /\ t.disp = a.disp
    /\ t.newkeys = a.newkeys /\ t.outgoing = a.outgoing /\ t.out = a.out
    /\ b.out[1].type = "SUCCESS" => t.auth = TRUE /\ t.phase = "start"
    /\ b.out[1].type # "SUCCESS" => t.auth = a.auth /\ t.phase = a.phase

\* Login is kept by an end that reads, here at the client ...
ClientReads(c, s, t, s2, nc, ns, gc, gs, gc2, m, w) ==
    /\ nc \in Nat /\ ns \in Nat /\ gc \in Nat /\ gs \in Nat /\ gc2 \in Nat
    /\ Login(c, s, nc, ns, gc, gs) /\ c.auth \in BOOLEAN /\ s.auth \in BOOLEAN
    /\ w \in Seq(PacketSet) /\ w # <<>> /\ s.out = w /\ s2.out = Tail(w)
    /\ s2.auth = s.auth /\ t.out = c.out
    /\ Numbered(w, m, gc) /\ w[1].type \notin KexType
    /\ gc2 = (IF w[1].type \in DataType THEN gc + 1 ELSE gc) /\ gc2 <= ns
    /\ w[1].type \in DataType => w[1].body = gc + 1
    /\ w[1].type = "SUCCESS" => t.auth = TRUE /\ t.phase = "start"
    /\ w[1].type # "SUCCESS" => t.auth = c.auth /\ t.phase = c.phase

\* Login when the client reads an answer or a later message.
LEMMA LoginClientReads ==
    ASSUME NEW c, NEW s, NEW t, NEW s2, NEW nc, NEW ns, NEW gc, NEW gs, NEW gc2, NEW m,
           NEW w, ClientReads(c, s, t, s2, nc, ns, gc, gs, gc2, m, w)
    PROVE  Login(t, s2, nc, ns, gc2, gs)
<1> USE DEF ClientReads
<1>1. \A x : Has(w, x) <=> (w[1].type = x \/ Has(Tail(w), x))
  BY HasTail
<1>2. 1 \in 1 .. Len(w) /\ Len(w) \in Nat /\ "SUCCESS" \in DataType
  BY TailFacts DEF DataType
<1>3. ASSUME w[1].type \in DataType, s.auth, ~c.auth, Has(Tail(w), "SUCCESS")
      PROVE  FALSE
  <2>1. PICK k \in 1 .. Len(Tail(w)) : Tail(w)[k].type = "SUCCESS"
    BY <1>3 DEF Has
  <2>2. k + 1 \in 1 .. Len(w) /\ Tail(w)[k] = w[k + 1]
    BY PassedTail
  <2>3. w[k + 1].type = "SUCCESS" /\ w[k + 1].body = gc + 1
    BY <1>3, <2>1, <2>2 DEF Login
  <2>4. 1 \in 1 .. (k + 1) - 1
    BY <2>2
  <2>5. w[1].body < w[k + 1].body
    BY <1>2, <1>3, <2>2, <2>3, <2>4 DEF Numbered
  <2> QED BY <1>3, <2>3, <2>5
<1>4. CASE w[1].type = "SUCCESS"
  <2>1. Has(w, "SUCCESS")
    BY <1>2, <1>4 DEF Has
  <2>2. s.auth /\ ~c.auth
    BY <2>1 DEF Login
  <2>3. ~Has(Tail(w), "SUCCESS")
    BY <1>2, <1>3, <1>4, <2>2
  <2> QED BY <1>4, <2>2, <2>3 DEF Login
<1>5. CASE w[1].type # "SUCCESS"
  <2>1. Has(Tail(w), "SUCCESS") <=> Has(w, "SUCCESS")
    BY <1>1, <1>5
  <2>2. ASSUME s.auth, ~c.auth
        PROVE  /\ gc2 = gc
               /\ \A k \in 1 .. Len(Tail(w)) :
                     /\ Tail(w)[k].type = "SUCCESS" => Tail(w)[k].body = gc + 1
                     /\ Tail(w)[k].type \in KexType => Passed(Tail(w), k, "SUCCESS")
    <3>1. w[1].type \notin DataType
      BY <1>3, <2>1, <2>2 DEF Login
    <3>2. ASSUME NEW k \in 1 .. Len(Tail(w))
          PROVE  /\ Tail(w)[k].type = "SUCCESS" => Tail(w)[k].body = gc + 1
                 /\ Tail(w)[k].type \in KexType => Passed(Tail(w), k, "SUCCESS")
      <4>1. /\ k + 1 \in 1 .. Len(w) /\ Tail(w)[k] = w[k + 1]
            /\ Passed(w, k + 1, "SUCCESS") => Passed(Tail(w), k, "SUCCESS")
        BY <1>5, PassedTail
      <4> QED BY <2>2, <4>1 DEF Login
    <3> QED BY <3>1, <3>2
  <2>3. gc <= gc2
    OBVIOUS
  <2> QED BY <1>5, <2>1, <2>2, <2>3 DEF Login
<1> QED BY <1>4, <1>5

\* ... and here at the server.
ServerReads(c, s, t, c2, nc, ns, gc, gs, gs2, w) ==
    /\ nc \in Nat /\ ns \in Nat /\ gc \in Nat /\ gs \in Nat /\ gs2 \in Nat
    /\ Login(c, s, nc, ns, gc, gs) /\ c.auth \in BOOLEAN /\ s.auth \in BOOLEAN
    /\ w \in Seq(PacketSet) /\ w # <<>> /\ c.out = w /\ c2.out = Tail(w)
    /\ c2.auth = c.auth /\ c2.phase = c.phase /\ t.out = s.out
    /\ gs <= gs2 /\ gs2 <= nc /\ t.auth = s.auth

\* Login when the server reads a request or a later message.
LEMMA LoginServerReads ==
    ASSUME NEW c, NEW s, NEW t, NEW c2, NEW nc, NEW ns, NEW gc, NEW gs, NEW gs2,
           NEW w, ServerReads(c, s, t, c2, nc, ns, gc, gs, gs2, w)
    PROVE  Login(c2, t, nc, ns, gc, gs2)
<1> USE DEF ServerReads
<1>1. Has(Tail(w), "SUCCESS") => Has(w, "SUCCESS")
  BY HasTail
<1> QED BY <1>1 DEF Login

\* A message that is not of the exchange is read: a message of the layers
\* above is the next one.
LEMMA PairReadsPlain ==
    ASSUME NEW e, NEW a, NEW t, NEW b, NEW b2, NEW na, NEW nb, NEW ga, NEW ga2, NEW gb,
           PlainRead(e, a, t, b, b2, na, nb, ga, ga2, gb)
    PROVE  /\ Pair(e, t, b2, na, nb, ga2, gb) /\ ga2 <= nb
           /\ b.out[1].type \in DataType => b.out[1].body = ga + 1
<1>1. /\ e \in End /\ Pair(e, a, b, na, nb, ga, gb) /\ TailOf(b, b2) /\ Reads(a)
      /\ a \in EndState /\ b \in EndState /\ t \in EndState /\ b2 \in EndState
      /\ na \in Nat /\ nb \in Nat /\ ga \in Nat /\ gb \in Nat /\ ga2 \in Nat
      /\ Local(e, a, na, ga) /\ Local(Peer(e), b, nb, gb)
      /\ b.out # <<>> /\ b.out \in Seq(PacketSet) /\ b.out[1].type \notin KexType
  BY EndTyped DEF PlainRead, Pair, TailOf
<1>2. /\ t.kex_type = a.kex_type /\ t.rekeying = a.rekeying /\ t.done = a.done
      /\ t.flags = a.flags /\ t.kex_strict = a.kex_strict /\ t.disp = a.disp
      /\ t.newkeys = a.newkeys /\ t.outgoing = a.outgoing /\ t.out = a.out
      /\ t.rcv.key = a.rcv.key /\ t.rcv.seq = After(b.out[1]) /\ t.rcv.comp = t.auth
      /\ t.snd.key = a.snd.key /\ t.snd.seq = a.snd.seq /\ t.snd.comp = t.auth
  BY DEF PlainRead
<1>3. /\ b.out[1].type = "SUCCESS" => t.auth = TRUE /\ t.phase = "start"
      /\ b.out[1].type # "SUCCESS" => t.auth = a.auth /\ t.phase = a.phase
      /\ ga2 = IF b.out[1].type \in DataType THEN ga + 1 ELSE ga
  BY DEF PlainRead
<1>4. /\ ~Closed(a) /\ a.phase \in {"auth", "loop"}
      /\ Stage(a) \in {"rest", "sent"}
      /\ b.out[1].type = "SUCCESS" =>
            /\ e = "client" /\ ~a.auth /\ b.auth /\ Stage(a) = "rest"
            /\ a.phase = "auth"
  BY <1>1, PlainHead
<1>5. /\ Local(Peer(e), b2, nb, gb) /\ Stage(b2) = Stage(b)
      /\ Closed(b2) <=> Closed(b)
  BY <1>1, TailLocal
<1>6. /\ b2.flags = b.flags /\ b2.auth = b.auth /\ b2.phase = b.phase
      /\ b2.kex_type = b.kex_type /\ b2.snd = b.snd /\ b2.rcv = b.rcv
      /\ b2.newkeys = b.newkeys /\ b2.outgoing = b.outgoing /\ b2.out = Tail(b.out)
  BY <1>1 DEF TailOf, ButWire
<1>7. Stage(t) = Stage(a) /\ KeyMessage(e, t) = KeyMessage(e, a)
  BY <1>2 DEF Stage, KeyMessage
<1>8. ~Closed(t)
  BY <1>2, <1>4 DEF Closed
<1>9. a.auth \in BOOLEAN /\ b.auth \in BOOLEAN /\ t.auth \in BOOLEAN
  BY <1>1, EndTyped
<1>10. /\ Wire(b2, t, nb, ga2) /\ Kex(b2.out) = Kex(b.out) \ {b.out[1].type}
       /\ b.out[1].type \in DataType => b.out[1].body = ga + 1
       /\ ga2 <= nb
  <2>1. (b.auth /\ t.auth) <=> ((b.auth /\ a.auth) \/ b.out[1].type = "SUCCESS")
    BY <1>3, <1>4, <1>9
  <2>2. b.out[1].type # "NEWKEYS"
    BY <1>1 DEF KexType
  <2>3. WireRead(b, b2, a, t, nb, ga, ga2)
    BY <1>1, <1>2, <1>3, <1>8, <2>1, <2>2 DEF WireRead, Pair
  <2> QED BY <2>3, WireReads
<1>11. Kex(b2.out) = Kex(b.out)
  <2>1. b.out[1].type \notin Kex(b.out)
    BY <1>1 DEF Kex
  <2> QED BY <1>10, <2>1
<1>12. b.out[1].type = "SUCCESS" => a.out = <<>>
  <2>1. ASSUME b.out[1].type = "SUCCESS" PROVE a.out = <<>>
    BY <1>1, <1>4, <2>1 DEF Pair, LoginAt, Login
  <2> QED BY <2>1
<1>13. Wire(t, b2, na, gb)
  <2>1. Wire(a, b, na, gb)
    BY <1>1 DEF Pair
  <2>2. SameCompression(t.out, t.auth /\ b2.auth)
    <3>1. CASE b.out[1].type = "SUCCESS"
      <4>1. t.out = <<>>
        BY <1>2, <1>12, <3>1
      <4> QED BY <4>1 DEF SameCompression
    <3>2. CASE b.out[1].type # "SUCCESS"
      BY <1>2, <1>3, <1>6, <2>1, <3>2 DEF Wire
    <3> QED BY <3>1, <3>2
  <2>3. Quiet(t.out, Closed(b2))
    BY <1>2, <1>6, <2>1 DEF Wire, Closed
  <2> QED BY <1>2, <1>6, <2>1, <2>2, <2>3 DEF Wire
<1>14. Local(e, t, na, ga2)
  <2>1. Flags(a) /\ Handlers(e, a) /\ Keys(a) /\ Queue(a, na)
    BY <1>1 DEF Local
  <2>2. "INITIAL" \notin t.flags /\ "INIT_RECVD" \notin t.flags
    BY <1>8 DEF Closed
  <2>3. t.flags # {"INITIAL"}
    BY <2>2
  <2>4. t.auth <=> t.phase \in {"start", "loop"}
    BY <1>3, <2>1 DEF Flags
  <2>5. t.phase \in {"auth", "start", "loop"}
    BY <1>3, <1>4
  <2>6. Stage(t) = "sent" => t.auth
    BY <1>3, <1>7, <1>9, <2>1, <2>2, <1>2 DEF Flags
  <2>7. Flags(t)
    BY <1>2, <1>4, <1>7, <2>1, <2>2, <2>3, <2>4, <2>5, <2>6 DEF Flags
  <2>8. Handlers(e, t)
    BY <1>2, <1>3, <1>4, <1>7, <2>1, <2>5 DEF Handlers
  <2>9. Keys(t)
    BY <1>2, <1>4, <1>7, <2>1 DEF Keys
  <2>10. Counts(t)
    BY <2>2 DEF Counts
  <2>11. Queue(t, na)
    BY <1>2, <2>1 DEF Queue
  <2> QED BY <1>1, <2>5, <2>7, <2>8, <2>9, <2>10, <2>11 DEF Local
<1>15. Agreed(t, b2) /\ Agreed(b2, t)
  <2>1. Agreed(a, b) /\ Agreed(b, a)
    BY <1>1 DEF Pair
  <2>2. Replies(b2.out, b2.snd.key)
    BY <1>1, <1>6, <2>1, RepliesTail DEF Agreed
  <2>3. Stage(t) # "over"
    BY <1>4, <1>7
  <2> QED BY <1>2, <1>5, <1>6, <2>1, <2>2, <2>3 DEF Agreed
<1>16. First(t, b2) /\ First(b2, t)
  BY <1>1, <1>2, <1>5, <1>6, <1>7 DEF Pair, First
<1>17. InStepAt(e, t, b2)
  BY <1>1, <1>2, <1>5, <1>6, <1>7, <1>11 DEF Pair, InStepAt, InStep
<1>18. LoginAt(e, t, b2, na, nb, ga2, gb)
  <2>1. CASE e = "client"
    <3>1. Login(a, b, na, nb, ga, gb)
      BY <1>1, <2>1 DEF Pair, LoginAt
    <3> DEFINE m0 == nb - Len(b.outgoing)
    <3>2. Numbered(b.out, m0, ga)
      BY <1>1 DEF Pair, Wire
    <3> HIDE DEF m0
    <3>3. ClientReads(a, b, t, b2, na, nb, ga, gb, ga2, m0, b.out)
      BY <1>1, <1>2, <1>3, <1>6, <1>9, <1>10, <3>1, <3>2 DEF ClientReads
    <3>4. Login(t, b2, na, nb, ga2, gb)
      BY <3>3, LoginClientReads
    <3> QED BY <2>1, <3>4 DEF LoginAt
  <2>2. CASE e = "server"
    <3>0. e # "client"
      BY <2>2
    <3>1. Login(b, a, nb, na, gb, ga)
      BY <1>1, <3>0 DEF Pair, LoginAt
    <3>2. b.out[1].type # "SUCCESS" /\ ga <= ga2
      BY <1>1, <1>3, <1>4, <3>0
    <3>3. ServerReads(b, a, t, b2, nb, na, gb, ga, ga2, b.out)
      BY <1>1, <1>2, <1>3, <1>6, <1>9, <1>10, <3>1, <3>2 DEF ServerReads
    <3>4. Login(b2, t, nb, na, gb, ga2)
      BY <3>3, LoginServerReads
    <3> QED BY <3>0, <3>4 DEF LoginAt
  <2> QED BY <1>1, <2>1, <2>2 DEF End
<1>19. Pair(e, t, b2, na, nb, ga2, gb)
  BY <1>1, <1>5, <1>10, <1>13, <1>14, <1>15, <1>16, <1>17, <1>18 DEF Pair
<1> QED BY <1>10, <1>19

-----------------------------------------------------------------------------
(* The operations of the module, one by one.                               *)

\* kex_setup.
LEMMA SetupKeeps ==
    ASSUME NEW e \in End, NEW a, NEW b, NEW na, NEW nb, NEW ga, NEW gb,
           Pair(e, a, b, na, nb, ga, gb), a.phase = "new"
    PROVE  Pair(e, kex_send_kexinit([a EXCEPT !.phase = "kex", !.disp = {"KEXINIT"}]),
                b, na, nb, ga, gb)
<1> DEFINE a2 == [a EXCEPT !.phase = "kex", !.disp = {"KEXINIT"}]
           t == kex_send_kexinit(a2)
<1>1. a \in EndState /\ Flags(a) /\ Counts(a)
  BY DEF Pair, Local
<1>2. a.flags = {"INITIAL"} /\ Stage(a) = "rest"
  BY <1>1 DEF Flags, Stage
<1>3. /\ a2 \in EndState /\ a2.phase = "kex" /\ a2.disp = {"KEXINIT"}
      /\ a2.kex_type = a.kex_type /\ a2.auth = a.auth /\ a2.flags = a.flags
      /\ a2.kex_strict = a.kex_strict /\ a2.exchange = a.exchange
      /\ a2.newkeys = a.newkeys /\ a2.rcv = a.rcv /\ a2.outgoing = a.outgoing
      /\ a2.out = a.out /\ a2.snd = a.snd
  BY <1>1 DEF EndState, KexType
<1> HIDE DEF a2
<1>4. a2.snd.seq <= 3
  BY <1>1, <1>2, <1>3 DEF Counts
<1>5. Starts(a2, t)
  BY <1>2, <1>3, <1>4, KexinitFacts
<1> HIDE DEF t
<1>6. Pair(e, t, b, na, nb, ga, gb)
  BY <1>2, <1>3, <1>5, PairStarts
<1> QED BY <1>6 DEF t, a2

\* BeginAuth.
LEMMA BeginAuthKeeps ==
    ASSUME NEW e \in End, NEW a, NEW b, NEW na, NEW nb, NEW ga, NEW gb,
           Pair(e, a, b, na, nb, ga, gb), a.phase = "kex", a.done
    PROVE  Pair(e, [a EXCEPT !.phase = "auth", !.disp = {}], b, na, nb, ga, gb)
<1> DEFINE t == [a EXCEPT !.phase = "auth", !.disp = {}]
<1>1. a \in EndState
  BY DEF Pair
<1>2. /\ t \in EndState /\ t.phase = "auth"
      /\ t.kex_type = a.kex_type /\ t.auth = a.auth /\ t.flags = a.flags
      /\ t.newkeys = a.newkeys /\ t.out = a.out
      /\ t.rekeying = a.rekeying /\ t.done = a.done /\ t.kex_strict = a.kex_strict
      /\ t.snd = a.snd /\ t.rcv = a.rcv /\ t.outgoing = a.outgoing
  BY <1>1 DEF EndState
<1> HIDE DEF t
<1>3. Pair(e, t, b, na, nb, ga, gb)
  BY <1>2, PairPhase
<1> QED BY <1>3 DEF t

\* init_dispatch.
LEMMA DispatchKeeps ==
    ASSUME NEW e \in End, NEW a, NEW b, NEW na, NEW nb, NEW ga, NEW gb,
           Pair(e, a, b, na, nb, ga, gb), a.phase = "start"
    PROVE  Pair(e, [a EXCEPT !.phase = "loop", !.disp = {"KEXINIT"}], b, na, nb, ga, gb)
<1> DEFINE t == [a EXCEPT !.phase = "loop", !.disp = {"KEXINIT"}]
<1>1. a \in EndState
  BY DEF Pair
<1>2. /\ t \in EndState /\ t.phase = "loop" /\ t.disp = {"KEXINIT"}
      /\ t.kex_type = a.kex_type /\ t.auth = a.auth /\ t.flags = a.flags
      /\ t.newkeys = a.newkeys /\ t.out = a.out
      /\ t.rekeying = a.rekeying /\ t.done = a.done /\ t.kex_strict = a.kex_strict
      /\ t.snd = a.snd /\ t.rcv = a.rcv /\ t.outgoing = a.outgoing
  BY <1>1 DEF EndState, KexType
<1> HIDE DEF t
<1>3. Pair(e, t, b, na, nb, ga, gb)
  BY <1>2, PairPhase
<1> QED BY <1>3 DEF t

\* An end that is not in an exchange is at rest.
LEMMA NotRekeying ==
    ASSUME NEW e \in End, NEW a, NEW b, NEW na, NEW nb, NEW ga, NEW gb,
           Pair(e, a, b, na, nb, ga, gb), ~ssh_packet_is_rekeying(a)
    PROVE  /\ a \in EndState /\ a.done /\ ~a.rekeying /\ a.flags = {}
           /\ Stage(a) = "rest"
<1>1. a \in EndState /\ Flags(a) /\ a.done \in BOOLEAN /\ a.rekeying \in BOOLEAN
  BY EndTyped DEF Pair, Local
<1>2. a.done /\ ~a.rekeying
  BY <1>1 DEF ssh_packet_is_rekeying
<1>3. a.flags = {}
  BY <1>1, <1>2 DEF Flags
<1> QED BY <1>1, <1>2, <1>3 DEF Stage

\* kex_start_rekex of an end that is not in an exchange.
LEMMA RekexKeeps ==
    ASSUME NEW e \in End, NEW a, NEW b, NEW na, NEW nb, NEW ga, NEW gb,
           Pair(e, a, b, na, nb, ga, gb), ~ssh_packet_is_rekeying(a), a.auth
    PROVE  /\ Starts(a, kex_start_rekex(a))
           /\ Pair(e, kex_start_rekex(a), b, na, nb, ga, gb)
           /\ Stage(kex_start_rekex(a)) = "sent"
<1> DEFINE t == kex_start_rekex(a)
<1>1. a \in EndState /\ a.done /\ a.flags = {} /\ Stage(a) = "rest"
  BY NotRekeying
<1>2. Starts(a, t)
  BY <1>1, RekexFacts
<1> HIDE DEF t
<1>3. Pair(e, t, b, na, nb, ga, gb) /\ Stage(t) = "sent"
  BY <1>1, <1>2, PairStarts
<1> QED BY <1>2, <1>3 DEF t

\* ssh_packet_send2 of a message of the layers above.
LEMMA SendKeeps ==
    ASSUME NEW e \in End, NEW a, NEW b, NEW na, NEW na2, NEW nb, NEW ga, NEW gb, NEW due,
           Pair(e, a, b, na, nb, ga, gb), na2 = na + 1,
           a.phase \in {"auth", "start", "loop"}, Turn(e, a, na, ga)
    PROVE  Pair(e, ssh_packet_send2(a, Msg("DATA", na2), due), b, na2, nb, ga, gb)
<1> DEFINE m == Msg("DATA", na2)
           v == Append(a.outgoing, m)
           q == [a EXCEPT !.outgoing = v]
           need == ssh_packet_need_rekeying(a, due)
<1>1. a \in EndState /\ na \in Nat /\ na2 \in Nat /\ Flags(a) /\ a.rekeying \in BOOLEAN
  BY EndTyped DEF Pair, Local
<1>2. m \in MsgSet /\ m.type = "DATA"
  <2>1. "DATA" \in Type
    BY DEF Type
  <2> QED BY <1>1, <2>1, MsgFacts, Zenon
<1>3. v \in Seq(MsgSet) /\ Joins(a.outgoing, v, na)
  <2>1. Joins(a.outgoing, v, na)
    BY DEF Joins
  <2>2. a.outgoing \in Seq(MsgSet)
    BY <1>1, EndTyped
  <2> QED BY <1>2, <2>1, <2>2
<1>4. ssh_packet_send2(a, m, due) = IF need THEN kex_start_rekex(q)
                                    ELSE IF a.rekeying THEN q
                                    ELSE ssh_packet_send2_wrapped(a, m)
  BY DEF ssh_packet_send2
<1> HIDE DEF m, v
<1>5. /\ q \in EndState /\ q.outgoing = v
      /\ q.phase = a.phase /\ q.kex_type = a.kex_type /\ q.auth = a.auth
      /\ q.rekeying = a.rekeying /\ q.done = a.done /\ q.flags = a.flags
      /\ q.kex_strict = a.kex_strict /\ q.disp = a.disp /\ q.exchange = a.exchange
      /\ q.newkeys = a.newkeys /\ q.rcv = a.rcv /\ q.snd = a.snd /\ q.out = a.out
  BY <1>1, <1>3 DEF EndState
<1> HIDE DEF q, need
<1>6. CASE need
  <2> DEFINE a1 == kex_start_rekex(a)
             t == kex_start_rekex(q)
  <2>1. a.auth /\ ~ssh_packet_is_rekeying(a)
    BY <1>6 DEF need, ssh_packet_need_rekeying
  <2>2. Starts(a, a1) /\ Pair(e, a1, b, na, nb, ga, gb)
    BY <2>1, RekexKeeps
  <2>3. a.done /\ a.flags = {}
    BY <2>1, NotRekeying
  <2>4. Starts(q, t)
    BY <1>5, <2>3, RekexFacts
  <2> HIDE DEF a1, t
  <2>5. Kexinit(q) = Kexinit(a)
    BY <1>5 DEF Kexinit
  <2>6. Packet(q, q.snd.seq, Kexinit(a)) = Packet(a, a.snd.seq, Kexinit(a))
    BY <1>5 DEF Packet
  <2>7. /\ t \in EndState /\ t.out = a1.out /\ t.outgoing = v /\ a1.outgoing = a.outgoing
        /\ t.kex_type = a1.kex_type /\ t.auth = a1.auth /\ t.flags = a1.flags
        /\ t.newkeys = a1.newkeys /\ t.phase = a1.phase /\ t.disp = a1.disp
        /\ t.rekeying = a1.rekeying /\ t.done = a1.done /\ t.kex_strict = a1.kex_strict
        /\ t.snd.key = a1.snd.key /\ t.snd.seq = a1.snd.seq /\ t.snd.comp = a1.snd.comp
        /\ t.rcv = a1.rcv /\ a1.auth /\ a1.rekeying
    BY <1>5, <2>1, <2>2, <2>4, <2>5, <2>6 DEF Starts, Sends
  <2>8. Joins(a1.outgoing, t.outgoing, na)
    BY <1>3, <2>7
  <2>9. Pair(e, t, b, na + 1, nb, ga, gb)
    BY <2>2, <2>7, <2>8, PairQueues
  <2> QED BY <1>4, <1>6, <2>9 DEF t, m
<1>7. CASE ~need /\ a.rekeying
  <2>1. a.auth
    BY <1>1, <1>7, StageInSet DEF Flags
  <2>2. Joins(a.outgoing, q.outgoing, na)
    BY <1>3, <1>5
  <2>3. Pair(e, q, b, na + 1, nb, ga, gb)
    BY <1>5, <1>7, <2>1, <2>2, PairQueues
  <2> QED BY <1>4, <1>7, <2>3 DEF m
<1>8. CASE ~need /\ ~a.rekeying
  <2> DEFINE t == ssh_packet_send2_wrapped(a, m)
  <2>1. "INITIAL" \notin a.flags
    BY <1>1 DEF Flags
  <2>2. t \in EndState /\ ButWire(a, t) /\ Sends(a, t, m)
    BY <1>1, <1>2, <2>1, SendFacts
  <2> HIDE DEF t
  <2>3. m = Msg("DATA", na2)
    BY DEF m
  <2>4. Pair(e, t, b, na2, nb, ga, gb)
    BY <1>8, <2>2, <2>3, PairSends
  <2> QED BY <1>4, <1>8, <2>4 DEF t, m
<1> QED BY <1>6, <1>7, <1>8

\* userauth_finish: SUCCESS is sent and the server leaves authentication.
LEMMA FinishKeeps ==
    ASSUME NEW a, NEW b, NEW na, NEW na2, NEW nb, NEW ga, NEW gb,
           Pair("server", a, b, na, nb, ga, gb), na2 = na + 1,
           a.phase = "auth", ga > na
    PROVE  Pair("server",
                [ssh_packet_send2(a, Msg("SUCCESS", na2), FALSE) EXCEPT !.phase = "start"],
                b, na2, nb, ga, gb)
<1> DEFINE m == Msg("SUCCESS", na2)
           v == Append(a.out, Packet(a, a.snd.seq, m))
           q == (a.snd.seq + 1) % SeqMod
           s == [a EXCEPT !.out = v, !.snd.seq = q, !.snd.used = TRUE]
           t == [s EXCEPT !.auth = TRUE, !.snd.comp = @ \/ s.snd.key # NoKey,
                          !.rcv.comp = @ \/ s.rcv.key # NoKey]
           u == [t EXCEPT !.phase = "start"]
<1>1. /\ a \in EndState /\ na \in Nat /\ na2 \in Nat /\ Flags(a) /\ Keys(a)
      /\ a.snd.seq \in Seq32
  BY EndTyped DEF Pair, Local
<1>2. m \in MsgSet /\ m.type = "SUCCESS"
  <2>1. "SUCCESS" \in Type
    BY DEF Type
  <2> QED BY <1>1, <2>1, MsgFacts, Zenon
<1>3. Stage(a) = "rest"
  BY ClientWaits
<1>4. a.flags = {} /\ ~a.rekeying
  BY <1>1, <1>3, RestFacts
<1>5. a.snd.key # NoKey /\ a.rcv.key # NoKey
  BY <1>1, <1>3, <1>4 DEF Keys
<1>6. v \in Seq(PacketSet) /\ q \in Seq32
  BY <1>1, <1>2, AppendTyped
<1>7. ssh_packet_send2(a, m, FALSE) = ssh_packet_send2_wrapped(a, m)
  BY <1>4 DEF ssh_packet_send2, ssh_packet_need_rekeying
<1>8. ssh_packet_send2_wrapped(a, m) = ssh_packet_enable_delayed_compress(s)
  BY <1>2, <1>4 DEF ssh_packet_send2_wrapped, NextSeq, WrapsInFirstExchange
<1>9. ssh_packet_enable_delayed_compress(s) = t
  BY DEF ssh_packet_enable_delayed_compress
<1> HIDE DEF m, v, q
<1>10. /\ s \in EndState /\ s.out = v /\ s.snd.key = a.snd.key /\ s.snd.seq = q
       /\ s.rcv = a.rcv /\ s.kex_type = a.kex_type
       /\ s.rekeying = a.rekeying /\ s.done = a.done /\ s.flags = a.flags
       /\ s.kex_strict = a.kex_strict /\ s.newkeys = a.newkeys /\ s.outgoing = a.outgoing
  BY <1>1, <1>6 DEF EndState, Direction
<1> HIDE DEF s
<1>11. /\ t \in EndState /\ t.out = s.out /\ t.snd.key = s.snd.key /\ t.snd.seq = s.snd.seq
       /\ t.snd.comp = TRUE /\ t.auth = TRUE /\ t.rcv.comp = TRUE
       /\ t.rcv.key = s.rcv.key /\ t.rcv.seq = s.rcv.seq /\ t.kex_type = s.kex_type
       /\ t.rekeying = s.rekeying /\ t.done = s.done /\ t.flags = s.flags
       /\ t.kex_strict = s.kex_strict /\ t.newkeys = s.newkeys /\ t.outgoing = s.outgoing
  BY <1>5, <1>10 DEF EndState, Direction
<1> HIDE DEF t
<1>12. /\ u \in EndState /\ u.phase = "start" /\ u.out = t.out /\ u.snd = t.snd
       /\ u.rcv = t.rcv /\ u.auth = t.auth /\ u.kex_type = t.kex_type
       /\ u.rekeying = t.rekeying /\ u.done = t.done /\ u.flags = t.flags
       /\ u.kex_strict = t.kex_strict /\ u.newkeys = t.newkeys /\ u.outgoing = t.outgoing
  BY <1>11 DEF EndState
<1>13. [ssh_packet_send2(a, m, FALSE) EXCEPT !.phase = "start"] = u
  BY <1>7, <1>8, <1>9
<1> HIDE DEF u
<1>14. /\ u.out = Append(a.out, Packet(a, a.snd.seq, m))
       /\ u.snd.key = a.snd.key /\ u.snd.seq = (a.snd.seq + 1) % SeqMod
       /\ u.snd.comp = TRUE /\ u.rcv.key = a.rcv.key /\ u.rcv.seq = a.rcv.seq
       /\ u.rcv.comp = TRUE /\ u.phase = "start" /\ u.auth = TRUE
       /\ u.kex_type = a.kex_type
       /\ u.rekeying = a.rekeying /\ u.done = a.done /\ u.flags = a.flags
       /\ u.kex_strict = a.kex_strict /\ u.newkeys = a.newkeys /\ u.outgoing = a.outgoing
  BY <1>10, <1>11, <1>12 DEF v, q
<1>15. m = Msg("SUCCESS", na2)
  BY DEF m
<1>16. Pair("server", u, b, na2, nb, ga, gb)
  BY <1>12, <1>14, <1>15, PairSuccess
<1> QED BY <1>13, <1>16 DEF m
=============================================================================
