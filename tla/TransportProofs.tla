-------------------------- MODULE TransportProofs ---------------------------
(***************************************************************************)
(* The steps of the packet layer keep its invariant, and the theorems that *)
(* follow from it: neither end ever fails, nothing but the exchange passes *)
(* during one, an end at rest has completed its exchange, and what the     *)
(* packet layer delivers is an ordered stream.                             *)
(***************************************************************************)
EXTENDS TransportPair

-----------------------------------------------------------------------------
(* What an end does with the packet it reads.                              *)

\* The stage of an end that waits for a message of type w.
Target(w) == IF w \in {"GEX_GROUP", "GEX_REQUEST"} THEN "ask" ELSE "key"

Waits(e, s, w) ==
    \/ w = "GEX_GROUP" /\ e = "client" /\ s.kex_type = "gex"
    \/ w = "GEX_REQUEST" /\ e = "server" /\ s.kex_type = "gex"
    \/ w \notin {"GEX_GROUP", "GEX_REQUEST"} /\ w = KeyMessage(e, s)

\* s is a when it has read KEXINIT, or a message about the group, and expects
\* nothing yet.
Taking(e, a, s, b, b2, na, nb, ga, gb) ==
    /\ e \in End /\ Pair(e, a, b, na, nb, ga, gb) /\ TailOf(b, b2)
    /\ b.out[1].type \in {"KEXINIT", "GEX_REQUEST", "GEX_GROUP"}
    /\ Stage(a) = "ask" \/ b.out[1].type = "KEXINIT"
    /\ Stage(a) \in {"sent", "ask"} /\ Reads(a)
    /\ s \in EndState /\ Keeps(a, s)
    /\ s.flags = a.flags \union {"INIT_RECVD"} /\ s.rekeying = TRUE /\ s.done = FALSE
    /\ s.kex_strict = TRUE /\ s.newkeys = a.newkeys /\ s.outgoing = a.outgoing
    /\ s.out = a.out /\ s.disp = {}
    /\ s.snd.key = a.snd.key /\ s.snd.comp = a.snd.comp /\ s.snd.seq = a.snd.seq
    /\ s.rcv.key = a.rcv.key /\ s.rcv.comp = a.rcv.comp /\ s.rcv.seq = After(b.out[1])

\* ... and t is s that has moved on and expects w.
Moves(e, a, s, t, b, b2, na, nb, ga, gb, w) ==
    /\ Taking(e, a, s, b, b2, na, nb, ga, gb)
    /\ t \in EndState /\ Keeps(s, t) /\ t.flags = s.flags
    /\ t.rekeying = s.rekeying /\ t.done = s.done /\ t.kex_strict = s.kex_strict
    /\ t.newkeys = s.newkeys /\ t.outgoing = s.outgoing
    /\ t.snd.key = s.snd.key /\ t.snd.comp = s.snd.comp /\ t.rcv = s.rcv
    /\ t.snd.seq = s.snd.seq \/ t.snd.seq = (s.snd.seq + 1) % SeqMod
    /\ t.disp = {w} /\ Waits(e, s, w)
    /\ Stage(a) = "ask" => Target(w) = "key"
    /\ Wire(t, b, na, gb) /\ Replies(t.out, t.snd.key)
    /\ Has(t.out, "NEWKEYS") <=> Has(a.out, "NEWKEYS")
    /\ Has(t.out, "SUCCESS") <=> Has(a.out, "SUCCESS")
    /\ RowAt(e, a.kex_type, Target(w), Stage(b), Kex(t.out), Kex(b.out) \ {b.out[1].type})

\* A sequence number that is small does not wrap.
LEMMA SmallStep ==
    ASSUME NEW d \in Seq32, d <= 3 PROVE (d + 1) % SeqMod = d + 1
<1>1. d \in Nat /\ d + 1 \in Nat /\ d + 1 < SeqMod
  BY TransportAssumption DEF Seq32
<1> QED BY <1>1, ModFacts

\* The first packet of a wire has its type.
LEMMA HeadTyped ==
    ASSUME NEW b \in EndState, b.out # <<>>
    PROVE  /\ b.out[1] \in PacketSet /\ b.out[1].seq \in Seq32 /\ b.out[1].body \in Nat
           /\ b.out[1].type \in Type /\ 1 \in 1 .. Len(b.out)
           /\ b.out \in Seq(PacketSet)
<1>1. b.out \in Seq(PacketSet) /\ 1 \in 1 .. Len(b.out)
  BY EndTyped, TailFacts
<1>2. b.out[1] \in PacketSet
  BY <1>1, PacketTyped
<1> QED BY <1>1, <1>2 DEF PacketSet

\* The next packet is the one the reader expects.
LEMMA HeadExpected ==
    ASSUME NEW e \in End, NEW a, NEW b, NEW na, NEW nb, NEW ga, NEW gb,
           Pair(e, a, b, na, nb, ga, gb), b.out # <<>>
    PROVE  /\ b.out[1].key = a.rcv.key /\ b.out[1].seq = a.rcv.seq
           /\ b.out[1].comp = a.rcv.comp
<1>1. /\ a \in EndState /\ b \in EndState /\ Keys(a) /\ Wire(b, a, nb, ga)
      /\ a.auth \in BOOLEAN /\ b.auth \in BOOLEAN
  BY EndTyped DEF Pair, Local
<1>2. /\ b.out[1].key = a.rcv.key /\ b.out[1].seq = a.rcv.seq
      /\ b.out[1].comp <=> b.auth /\ a.auth
  <2>1. /\ SameKeys(b.out, b.snd.key, a.rcv.key) /\ SameCounts(b.out, b.snd.seq, a.rcv.seq)
        /\ SameCompression(b.out, b.auth /\ a.auth) /\ b.out \in Seq(PacketSet)
    BY <1>1, HeadTyped DEF Wire
  <2> DEFINE both == b.auth /\ a.auth
  <2>2. SameCompression(b.out, both)
    BY <2>1
  <2> HIDE DEF both
  <2>3. /\ b.out[1].key = a.rcv.key /\ b.out[1].seq = a.rcv.seq
        /\ b.out[1].comp <=> both
    BY <2>1, <2>2, HeadMatches
  <2> QED BY <2>3 DEF both
<1>3. a.auth => b.auth
  <2>1. CASE e = "client"
    BY <2>1 DEF Pair, LoginAt, Login
  <2>2. CASE e = "server"
    BY <2>2 DEF Pair, LoginAt, Login
  <2> QED BY <2>1, <2>2 DEF End
<1>4. b.out[1].comp \in BOOLEAN
  BY <1>1, HeadTyped DEF PacketSet
<1> QED BY <1>1, <1>2, <1>3, <1>4 DEF Keys

\* Reading a message and going on to wait for the next one, w (Moves).
LEMMA PairMoves ==
    ASSUME NEW e, NEW a, NEW s, NEW t, NEW b, NEW b2, NEW na, NEW nb, NEW ga, NEW gb, NEW w,
           Moves(e, a, s, t, b, b2, na, nb, ga, gb, w)
    PROVE  Pair(e, t, b2, na, nb, ga, gb)
<1>1. /\ Taking(e, a, s, b, b2, na, nb, ga, gb)
      /\ e \in End /\ Pair(e, a, b, na, nb, ga, gb) /\ TailOf(b, b2)
      /\ a \in EndState /\ b \in EndState /\ s \in EndState /\ t \in EndState
      /\ b.out # <<>> /\ Flags(a) /\ Counts(a)
  BY DEF Moves, Taking, Pair, Local, TailOf
<1>2. /\ b.out[1].type \in KexType /\ b.out[1].type # "NEWKEYS"
      /\ Stage(a) \in {"sent", "ask"} /\ (Stage(a) = "ask" \/ b.out[1].type = "KEXINIT")
  BY DEF Moves, Taking, KexType
<1>3. Stage(a) = "ask" => Closed(a)
  BY StageInSet DEF Closed
<1>4. /\ t.flags = a.flags \union {"INIT_RECVD"} /\ t.rekeying = TRUE /\ t.done = FALSE
      /\ t.kex_strict = TRUE /\ t.newkeys = a.newkeys /\ t.outgoing = a.outgoing
      /\ t.snd.key = a.snd.key /\ t.snd.comp = a.snd.comp
      /\ t.rcv.key = a.rcv.key /\ t.rcv.comp = a.rcv.comp /\ t.rcv.seq = After(b.out[1])
      /\ t.phase = a.phase /\ t.kex_type = a.kex_type /\ t.auth = a.auth
      /\ s.kex_type = a.kex_type /\ s.snd.seq = a.snd.seq
      /\ t.snd.seq = a.snd.seq \/ t.snd.seq = (a.snd.seq + 1) % SeqMod
      /\ t.disp = {w} /\ Waits(e, s, w)
      /\ Stage(a) = "ask" => Target(w) = "key"
  BY DEF Moves, Taking, Keeps
<1>5. "INIT_SENT" \in t.flags /\ "INIT_RECVD" \in t.flags
      /\ ("INITIAL" \in t.flags <=> "INITIAL" \in a.flags)
  BY <1>2, <1>4, StageInSet
<1>6. Stage(t) = Target(w)
  BY <1>4, <1>5 DEF Stage, Target
<1>7. KeyMessage(e, t) = KeyMessage(e, s)
  BY <1>4 DEF KeyMessage
<1>8. Handlers(e, t)
  BY <1>1, <1>4, <1>6, <1>7 DEF Handlers, Target, Waits, End
<1>9. Counts(t)
  <2> SUFFICES ASSUME "INITIAL" \in a.flags
               PROVE  /\ Stage(t) = "ask" => t.snd.seq <= 2 /\ t.rcv.seq <= 1
                      /\ Stage(t) = "key" => t.snd.seq <= 3 /\ t.rcv.seq <= 2
    BY <1>5, <1>6 DEF Counts, Target
  <2>1. a.snd.seq \in Seq32 /\ a.rcv.seq \in Seq32
    BY <1>1, EndTyped
  <2>2. a.snd.seq \in Nat /\ a.rcv.seq \in Nat
    BY <2>1, TransportAssumption DEF Seq32
  <2>3. /\ Stage(a) = "sent" => a.snd.seq <= 1 /\ a.rcv.seq = 0
        /\ Stage(a) = "ask" => a.snd.seq <= 2 /\ a.rcv.seq <= 1
    BY <1>1 DEF Counts
  <2>4. a.snd.seq <= 3 /\ a.rcv.seq <= 3
    BY <1>2, <2>2, <2>3
  <2>5. (a.snd.seq + 1) % SeqMod = a.snd.seq + 1 /\ (a.rcv.seq + 1) % SeqMod = a.rcv.seq + 1
    BY <2>1, <2>4, SmallStep
  <2>6. t.rcv.seq = a.rcv.seq + 1
    BY <1>1, <1>2, <1>4, <2>5, HeadExpected DEF After
  <2>7. t.snd.seq = a.snd.seq \/ t.snd.seq = a.snd.seq + 1
    BY <1>4, <2>5
  <2> QED BY <1>2, <1>4, <1>6, <2>2, <2>3, <2>6, <2>7
<1>10. Advance(e, a, t, b, b2, na, nb, ga, gb)
  <2>1. Reads(a)
    BY <1>1 DEF Taking
  <2>2. Stage(t) \in {"ask", "key"}
    BY <1>6 DEF Target
  <2>3. RowAt(e, a.kex_type, Stage(t), Stage(b), Kex(t.out), Kex(b.out) \ {b.out[1].type})
    BY <1>6 DEF Moves
  <2>4. /\ Wire(t, b, na, gb) /\ Replies(t.out, t.snd.key)
        /\ Has(t.out, "NEWKEYS") <=> Has(a.out, "NEWKEYS")
        /\ Has(t.out, "SUCCESS") <=> Has(a.out, "SUCCESS")
    BY DEF Moves
  <2> QED BY <1>1, <1>2, <1>3, <1>4, <1>8, <1>9, <2>1, <2>2, <2>3, <2>4 DEF Advance, Keeps
<1> QED BY <1>10, PairAdvances

\* The server waits for the client to move.
LEMMA TakingWaits ==
    ASSUME NEW e, NEW a, NEW s, NEW b, NEW b2, NEW na, NEW nb, NEW ga, NEW gb, NEW w,
           Taking(e, a, s, b, b2, na, nb, ga, gb), w \in KexType, Waits(e, s, w),
           Stage(a) = "sent",
           RowAt(e, a.kex_type, Target(w), Stage(b), Kex(a.out), Kex(b.out) \ {b.out[1].type})
    PROVE  Pair(e, Expect(s, w), b2, na, nb, ga, gb)
<1> DEFINE t == Expect(s, w)
<1>1. /\ s \in EndState /\ s.disp = {} /\ Pair(e, a, b, na, nb, ga, gb)
      /\ s.out = a.out /\ s.snd.key = a.snd.key /\ s.snd.seq = a.snd.seq
      /\ s.auth = a.auth /\ s.outgoing = a.outgoing
  BY DEF Taking, Keeps
<1>2. /\ t \in EndState /\ t.disp = {w}
      /\ t.phase = s.phase /\ t.kex_type = s.kex_type /\ t.auth = s.auth
      /\ t.flags = s.flags /\ t.rekeying = s.rekeying /\ t.done = s.done
      /\ t.kex_strict = s.kex_strict /\ t.newkeys = s.newkeys
      /\ t.outgoing = s.outgoing /\ t.out = s.out /\ t.snd = s.snd /\ t.rcv = s.rcv
  BY <1>1 DEF Expect, EndState
<1> HIDE DEF t
<1>3. Wire(t, b, na, gb)
  <2>1. Wire(a, b, na, gb)
    BY <1>1 DEF Pair
  <2> QED BY <1>1, <1>2, <2>1 DEF Wire
<1>4. Replies(t.out, t.snd.key)
  BY <1>1, <1>2 DEF Pair, Agreed
<1>5. Moves(e, a, s, t, b, b2, na, nb, ga, gb, w)
  BY <1>1, <1>2, <1>3, <1>4 DEF Moves, Keeps
<1> QED BY <1>5, PairMoves DEF t

\* The end sends message m of the exchange, and waits for an answer.
Asks(e, a, s, b, b2, na, nb, ga, gb, m, w) ==
    /\ Taking(e, a, s, b, b2, na, nb, ga, gb) /\ w \in KexType /\ Waits(e, s, w)
    /\ Stage(a) = "ask" => Target(w) = "key"
    /\ m \in MsgSet /\ m.type \in {"KEX_INIT", "GEX_REQUEST", "GEX_GROUP", "GEX_INIT"}
    /\ m.type \in {"KEX_INIT", "GEX_INIT"} => m.body \in Key \ {NoKey}
    /\ Behind(Kex(a.out), m.type)
    /\ RowAt(e, a.kex_type, Target(w), Stage(b), Kex(a.out) \union {m.type},
             Kex(b.out) \ {b.out[1].type})

\* Reading a message of the exchange, sending m and waiting for w.
LEMMA TakingAsks ==
    ASSUME NEW e, NEW a, NEW s, NEW b, NEW b2, NEW na, NEW nb, NEW ga, NEW gb, NEW m, NEW w,
           Asks(e, a, s, b, b2, na, nb, ga, gb, m, w)
    PROVE  Pair(e, Expect(ssh_packet_send2_wrapped(s, m), w), b2, na, nb, ga, gb)
<1> DEFINE u == ssh_packet_send2_wrapped(s, m)
           t == Expect(u, w)
<1>1. /\ s \in EndState /\ s.disp = {} /\ Pair(e, a, b, na, nb, ga, gb) /\ e \in End
      /\ s.out = a.out /\ s.snd.key = a.snd.key /\ s.snd.seq = a.snd.seq
      /\ s.snd.comp = a.snd.comp /\ s.auth = a.auth /\ s.outgoing = a.outgoing
      /\ s.flags = a.flags \union {"INIT_RECVD"} /\ Stage(a) \in {"sent", "ask"}
  BY DEF Asks, Taking, Keeps
<1>2. /\ a \in EndState /\ b \in EndState /\ na \in Nat /\ gb \in Nat /\ Counts(a)
      /\ Wire(a, b, na, gb) /\ Replies(a.out, a.snd.key)
  BY <1>1 DEF Pair, Local, Agreed
<1>3. /\ m \in MsgSet /\ m.type # "NEWKEYS" /\ m.type # "SUCCESS" /\ m.type \in KexType
      /\ m.type \notin {"KEX_REPLY", "GEX_REPLY"} /\ m.type # "KEXINIT"
  BY DEF Asks, KexType
<1>4. "INITIAL" \in s.flags => s.snd.seq <= 3
  <2>1. a.snd.seq \in Nat
    BY <1>2, EndTyped, TransportAssumption DEF Seq32
  <2>2. "INITIAL" \in a.flags => a.snd.seq <= 1 \/ a.snd.seq <= 2
    BY <1>1, <1>2 DEF Counts
  <2> QED BY <1>1, <2>1, <2>2
<1>5. u \in EndState /\ ButWire(s, u) /\ Sends(s, u, m)
  BY <1>1, <1>3, <1>4, SendFacts
<1> HIDE DEF u
<1>6. KexSend(s, u, b, na, gb, m, s.snd.key)
  <2>1. Wire(s, b, na, gb)
    BY <1>1, <1>2 DEF Wire
  <2>2. Compressed(s, b)
    BY <1>1, SendsCompressed DEF Compressed
  <2>3. BodyFits(m, b)
    BY <1>3 DEF BodyFits, Asks
  <2>4. Behind(Kex(s.out), m.type)
    BY <1>1 DEF Asks
  <2>5. u.auth = s.auth /\ u.outgoing = s.outgoing
    BY <1>5 DEF ButWire
  <2> QED BY <1>1, <1>2, <1>3, <1>5, <2>1, <2>2, <2>3, <2>4, <2>5 DEF KexSend
<1>7. /\ Wire(u, b, na, gb) /\ Kex(u.out) = Kex(s.out) \union {m.type}
      /\ Follows(s.out, u.out, m.type) /\ Replies(u.out, s.snd.key)
  BY <1>6, SendsKex
<1>8. w \in KexType /\ u.disp = {}
  BY <1>1, <1>5 DEF Asks, ButWire
<1>9. /\ t \in EndState /\ t.disp = {w}
      /\ t.phase = u.phase /\ t.kex_type = u.kex_type /\ t.auth = u.auth
      /\ t.flags = u.flags /\ t.rekeying = u.rekeying /\ t.done = u.done
      /\ t.kex_strict = u.kex_strict /\ t.newkeys = u.newkeys
      /\ t.outgoing = u.outgoing /\ t.out = u.out /\ t.snd = u.snd /\ t.rcv = u.rcv
  BY <1>5, <1>8 DEF Expect, EndState
<1> HIDE DEF t
<1>10. Wire(t, b, na, gb)
  BY <1>7, <1>9 DEF Wire
<1>11. Moves(e, a, s, t, b, b2, na, nb, ga, gb, w)
  <2>1. /\ t.phase = s.phase /\ t.kex_type = s.kex_type /\ t.auth = s.auth
        /\ t.flags = s.flags /\ t.rekeying = s.rekeying /\ t.done = s.done
        /\ t.kex_strict = s.kex_strict /\ t.newkeys = s.newkeys
        /\ t.outgoing = s.outgoing /\ t.rcv = s.rcv
    BY <1>5, <1>9 DEF ButWire
  <2>2. /\ t.snd.key = s.snd.key /\ t.snd.comp = s.snd.comp
        /\ t.snd.seq = (s.snd.seq + 1) % SeqMod
    BY <1>5, <1>9 DEF Sends
  <2>3. /\ Replies(t.out, t.snd.key) /\ Kex(t.out) = Kex(a.out) \union {m.type}
        /\ Has(t.out, "NEWKEYS") <=> Has(a.out, "NEWKEYS")
        /\ Has(t.out, "SUCCESS") <=> Has(a.out, "SUCCESS")
    BY <1>1, <1>3, <1>7, <1>9, <2>2 DEF Follows
  <2>4. /\ Taking(e, a, s, b, b2, na, nb, ga, gb) /\ Waits(e, s, w)
        /\ Stage(a) = "ask" => Target(w) = "key"
        /\ RowAt(e, a.kex_type, Target(w), Stage(b), Kex(t.out), Kex(b.out) \ {b.out[1].type})
    BY <2>3 DEF Asks
  <2> QED BY <1>9, <1>10, <2>1, <2>2, <2>3, <2>4 DEF Moves, Keeps
<1> QED BY <1>11, PairMoves DEF t, u

\* A fresh ephemeral key has a name.
LEMMA NextExchangeTyped ==
    ASSUME NEW s \in EndState
    PROVE  NextExchange(s) \in Key \ {NoKey} /\ NextExchange(s) \in Nat
<1>1. KeyMod \in Nat /\ KeyMod > 2 /\ s.exchange \in Nat
  BY EndTyped, TransportAssumption DEF Key, NoKey
<1>2. s.exchange % KeyMod \in 0 .. KeyMod - 1
  BY <1>1, ModRange
<1> QED BY <1>1, <1>2 DEF NextExchange, Key, NoKey

\* The client sends its ephemeral key.
LEMMA EphemeralKeeps ==
    ASSUME NEW e, NEW a, NEW s, NEW b, NEW b2, NEW na, NEW nb, NEW ga, NEW gb, NEW x, NEW w,
           Taking(e, a, s, b, b2, na, nb, ga, gb), w \in KexType, Waits(e, s, w),
           Target(w) = "key", x \in {"KEX_INIT", "GEX_INIT"},
           Behind(Kex(a.out), x),
           RowAt(e, a.kex_type, "key", Stage(b), Kex(a.out) \union {x},
                 Kex(b.out) \ {b.out[1].type})
    PROVE  Pair(e, Expect(Ephemeral(s, x), w), b2, na, nb, ga, gb)
<1> DEFINE y == NextExchange(s)
           r == [s EXCEPT !.exchange = y]
           m == Msg(x, y)
<1>1. s \in EndState
  BY DEF Taking
<1>2. y \in Key \ {NoKey} /\ y \in Nat
  BY <1>1, NextExchangeTyped
<1>3. Ephemeral(s, x) = ssh_packet_send2_wrapped(r, m)
  BY DEF Ephemeral
<1> HIDE DEF y
<1>4. m \in MsgSet /\ m.type = x /\ m.body = y
  <2>1. x \in Type
    BY DEF Type, KexType
  <2> QED BY <1>2, <2>1, MsgFacts, Zenon
<1>5. /\ r \in EndState
      /\ r.phase = s.phase /\ r.kex_type = s.kex_type /\ r.auth = s.auth
      /\ r.flags = s.flags /\ r.rekeying = s.rekeying /\ r.done = s.done
      /\ r.kex_strict = s.kex_strict /\ r.newkeys = s.newkeys /\ r.disp = s.disp
      /\ r.outgoing = s.outgoing /\ r.out = s.out /\ r.snd = s.snd /\ r.rcv = s.rcv
  BY <1>1, <1>2 DEF EndState
<1> HIDE DEF r, m
<1>6. Taking(e, a, r, b, b2, na, nb, ga, gb) /\ Waits(e, r, w)
  <2>1. Taking(e, a, r, b, b2, na, nb, ga, gb)
    BY <1>5 DEF Taking, Keeps
  <2>2. Waits(e, r, w)
    BY <1>5 DEF Waits, KeyMessage
  <2> QED BY <2>1, <2>2
<1>7. Asks(e, a, r, b, b2, na, nb, ga, gb, m, w)
  BY <1>2, <1>4, <1>6 DEF Asks
<1>8. Pair(e, Expect(ssh_packet_send2_wrapped(r, m), w), b2, na, nb, ga, gb)
  BY <1>7, TakingAsks
<1> QED BY <1>3, <1>8

\* What the wires are like when an end that has sent its KEXINIT reads.
LEMMA KexinitRow ==
    ASSUME NEW e \in End, NEW a, NEW b, NEW na, NEW nb, NEW ga, NEW gb,
           Pair(e, a, b, na, nb, ga, gb), Stage(a) = "sent", b.out # <<>>,
           b.out[1].type \in KexType
    PROVE  LET x == b.out[1].type
               K == Kex(a.out)
               L == Kex(b.out)
               m == a.kex_type IN
           /\ x = "KEXINIT"
           /\ e = "client" => Behind(K, "KEX_INIT") /\ Behind(K, "GEX_REQUEST")
           /\ e = "client" /\ m = "gen" =>
                 RowAt(e, m, "key", Stage(b), K \union {"KEX_INIT"}, L \ {x})
           /\ e = "client" /\ m = "gex" =>
                 RowAt(e, m, "ask", Stage(b), K \union {"GEX_REQUEST"}, L \ {x})
           /\ e = "server" /\ m = "gen" => RowAt(e, m, "key", Stage(b), K, L \ {x})
           /\ e = "server" /\ m = "gex" => RowAt(e, m, "ask", Stage(b), K, L \ {x})
<1> DEFINE K == Kex(a.out)
           L == Kex(b.out)
           y == b.out[1].type
           sb == Stage(b)
           mm == a.kex_type
<1>1. b \in EndState /\ InOrder(b.out) /\ InStepAt(e, a, b)
  BY DEF Pair, Wire
<1>2. Lowest(y, L)
  BY <1>1, HeadTyped, HeadLowest
<1>3. RowAt(e, mm, "sent", sb, K, L)
  BY <1>1, PairRow
<1> HIDE DEF K, L, y, sb, mm
<1>4. /\ y = "KEXINIT"
      /\ e = "client" => \A z \in K : Rank(z) < 3
      /\ e = "client" /\ mm = "gen" =>
            RowAt(e, mm, "key", sb, K \union {"KEX_INIT"}, L \ {y})
      /\ e = "client" /\ mm = "gex" =>
            RowAt(e, mm, "ask", sb, K \union {"GEX_REQUEST"}, L \ {y})
      /\ e = "server" /\ mm = "gen" => RowAt(e, mm, "key", sb, K, L \ {y})
      /\ e = "server" /\ mm = "gex" => RowAt(e, mm, "ask", sb, K, L \ {y})
  BY <1>2, <1>3, RowReadsKexinit, Zenon
<1>5. e = "client" => Behind(K, "KEX_INIT") /\ Behind(K, "GEX_REQUEST")
  <2>1. Rank("KEX_INIT") = 3 /\ Rank("GEX_REQUEST") = 3
    BY DEF Rank
  <2> QED BY <1>4, <2>1 DEF Behind
<1> QED BY <1>4, <1>5, Zenon DEF K, L, y, sb, mm

\* RunMethod, at the end of kex_input_kexinit.
LEMMA MethodKeeps ==
    ASSUME NEW e, NEW a, NEW s, NEW b, NEW b2, NEW na, NEW nb, NEW ga, NEW gb,
           Taking(e, a, s, b, b2, na, nb, ga, gb), Stage(a) = "sent"
    PROVE  Pair(e, RunMethod(e, s), b2, na, nb, ga, gb)
<1>1. /\ e \in End /\ Pair(e, a, b, na, nb, ga, gb) /\ b.out # <<>>
      /\ b.out[1].type \in KexType /\ s \in EndState /\ s.kex_type = a.kex_type
  BY DEF Taking, KexType, Keeps, TailOf
<1>2. s.kex_type \in {"gen", "gex"}
  BY <1>1, EndTyped, TransportAssumption
<1> DEFINE K == Kex(a.out)
           L == Kex(b.out) \ {b.out[1].type}
           sb == Stage(b)
           mm == a.kex_type
<1>3. /\ e = "client" => Behind(K, "KEX_INIT") /\ Behind(K, "GEX_REQUEST")
      /\ e = "client" /\ mm = "gen" =>
            RowAt(e, mm, "key", sb, K \union {"KEX_INIT"}, L)
      /\ e = "client" /\ mm = "gex" =>
            RowAt(e, mm, "ask", sb, K \union {"GEX_REQUEST"}, L)
      /\ e = "server" /\ mm = "gen" => RowAt(e, mm, "key", sb, K, L)
      /\ e = "server" /\ mm = "gex" => RowAt(e, mm, "ask", sb, K, L)
  BY <1>1, KexinitRow, Zenon
<1>4. /\ {"KEX_REPLY", "KEX_INIT", "GEX_GROUP", "GEX_REQUEST"} \subseteq KexType
      /\ Target("KEX_REPLY") = "key" /\ Target("KEX_INIT") = "key"
      /\ Target("GEX_GROUP") = "ask" /\ Target("GEX_REQUEST") = "ask"
  BY DEF KexType, Target
<1> HIDE DEF K, L, sb, mm
<1>5. CASE e = "client" /\ mm = "gen"
  <2>1. RunMethod(e, s) = Expect(Ephemeral(s, "KEX_INIT"), "KEX_REPLY")
    BY <1>1, <1>5 DEF RunMethod, kex_gen_client, mm
  <2>2. Waits(e, s, "KEX_REPLY")
    BY <1>1, <1>5 DEF Waits, KeyMessage, mm
  <2> QED BY <1>3, <1>4, <1>5, <2>1, <2>2, EphemeralKeeps DEF K, L, sb, mm
<1>6. CASE e = "server" /\ mm = "gen"
  <2>1. RunMethod(e, s) = Expect(s, "KEX_INIT")
    BY <1>1, <1>6 DEF RunMethod, kex_gen_server, mm
  <2>2. Waits(e, s, "KEX_INIT")
    BY <1>1, <1>6 DEF Waits, KeyMessage, mm
  <2> QED BY <1>3, <1>4, <1>6, <2>1, <2>2, TakingWaits DEF K, L, sb, mm
<1>7. CASE e = "client" /\ mm = "gex"
  <2> DEFINE m == Msg("GEX_REQUEST", 0)
  <2>1. RunMethod(e, s) = Expect(ssh_packet_send2_wrapped(s, m), "GEX_GROUP")
    BY <1>1, <1>7 DEF RunMethod, kexgex_client, mm
  <2>2. Waits(e, s, "GEX_GROUP")
    BY <1>1, <1>7 DEF Waits, mm
  <2>3. m \in MsgSet /\ m.type = "GEX_REQUEST"
    <3>1. "GEX_REQUEST" \in Type /\ 0 \in Nat
      BY DEF Type, KexType
    <3> QED BY <3>1, MsgFacts, Zenon
  <2> HIDE DEF m
  <2>4. Asks(e, a, s, b, b2, na, nb, ga, gb, m, "GEX_GROUP")
    BY <1>3, <1>4, <1>7, <2>2, <2>3 DEF Asks, K, L, sb, mm
  <2> QED BY <2>1, <2>4, TakingAsks
<1>8. CASE e = "server" /\ mm = "gex"
  <2>1. RunMethod(e, s) = Expect(s, "GEX_REQUEST")
    BY <1>1, <1>8 DEF RunMethod, kexgex_server, mm
  <2>2. Waits(e, s, "GEX_REQUEST")
    BY <1>1, <1>8 DEF Waits, mm
  <2> QED BY <1>3, <1>4, <1>8, <2>1, <2>2, TakingWaits DEF K, L, sb, mm
<1> QED BY <1>1, <1>2, <1>5, <1>6, <1>7, <1>8 DEF mm, End

\* a when it has decrypted and counted packet p.
Counted(a, p) == [a EXCEPT !.rcv.seq = After(p), !.rcv.used = TRUE]

\* The count after a packet is a sequence number.
LEMMA AfterTyped ==
    ASSUME NEW p \in PacketSet PROVE After(p) \in Seq32
<1>1. p.seq \in Seq32
  BY DEF PacketSet
<1>2. (p.seq + 1) % SeqMod \in Seq32
  BY <1>1, SumInSeq DEF Seq32
<1>3. 0 \in Seq32
  BY TransportAssumption DEF Seq32
<1> QED BY <1>2, <1>3 DEF After

\* The reader counts a packet and changes nothing else.
LEMMA CountedFacts ==
    ASSUME NEW a \in EndState, NEW p \in PacketSet
    PROVE  LET t == Counted(a, p) IN
           /\ t \in EndState /\ t.rcv.key = a.rcv.key /\ t.rcv.comp = a.rcv.comp
           /\ t.rcv.seq = After(p) /\ t.snd = a.snd /\ t.out = a.out
           /\ t.phase = a.phase /\ t.kex_type = a.kex_type /\ t.auth = a.auth
           /\ t.rekeying = a.rekeying /\ t.done = a.done /\ t.flags = a.flags
           /\ t.kex_strict = a.kex_strict /\ t.disp = a.disp /\ t.exchange = a.exchange
           /\ t.newkeys = a.newkeys /\ t.outgoing = a.outgoing
<1> DEFINE q == After(p)
<1>1. q \in Seq32
  BY AfterTyped
<1> HIDE DEF q
<1>2. Counted(a, p) = [a EXCEPT !.rcv.seq = q, !.rcv.used = TRUE]
  BY DEF Counted, q
<1> DEFINE t == [a EXCEPT !.rcv.seq = q, !.rcv.used = TRUE]
<1>3. /\ t \in EndState /\ t.rcv.key = a.rcv.key /\ t.rcv.comp = a.rcv.comp
      /\ t.rcv.seq = q /\ t.snd = a.snd /\ t.out = a.out
      /\ t.phase = a.phase /\ t.kex_type = a.kex_type /\ t.auth = a.auth
      /\ t.rekeying = a.rekeying /\ t.done = a.done /\ t.flags = a.flags
      /\ t.kex_strict = a.kex_strict /\ t.disp = a.disp /\ t.exchange = a.exchange
      /\ t.newkeys = a.newkeys /\ t.outgoing = a.outgoing
  BY <1>1 DEF EndState, Direction
<1> QED BY <1>2, <1>3 DEF q

\* A rekey limit that is reached starts an exchange, and nothing else.
LEMMA CheckFacts ==
    ASSUME NEW s \in EndState, s.done => s.flags = {}, NEW due
    PROVE  LET t == ssh_packet_check_rekey(s, due) IN
           \/ t = s
           \/ s.auth /\ s.done /\ ~s.rekeying /\ s.flags = {} /\ Starts(s, t)
<1>1. CASE ssh_packet_need_rekeying(s, due)
  <2>1. s.auth /\ s.done /\ ~s.rekeying /\ s.flags = {}
    BY <1>1, EndTyped DEF ssh_packet_need_rekeying, ssh_packet_is_rekeying
  <2>2. Starts(s, kex_start_rekex(s))
    BY <2>1, RekexFacts
  <2> QED BY <1>1, <2>1, <2>2 DEF ssh_packet_check_rekey
<1>2. CASE ~ssh_packet_need_rekeying(s, due)
  BY <1>2 DEF ssh_packet_check_rekey
<1> QED BY <1>1, <1>2

\* In the first exchange the reader is far from wrapping.
LEMMA SmallCounts ==
    ASSUME NEW e \in End, NEW a, NEW b, NEW na, NEW nb, NEW ga, NEW gb,
           Pair(e, a, b, na, nb, ga, gb), "INITIAL" \in a.flags
    PROVE  a.rcv.seq <= 3
<1>1. a \in EndState /\ Counts(a) /\ Stage(a) \in {"rest", "sent", "ask", "key", "over"}
  BY StageInSet DEF Pair, Local
<1>2. a.rcv.seq \in Nat
  BY <1>1, EndTyped, TransportAssumption DEF Seq32
<1> QED BY <1>1, <1>2 DEF Counts

\* p is the next packet that e reads.
Arrives(e, a, b, na, nb, ga, gb, p) ==
    e \in End /\ Pair(e, a, b, na, nb, ga, gb) /\ b.out # <<>> /\ p = b.out[1]

\* The next packet is read: it is decrypted, counted, and a limit is looked at.
LEMMA PollFacts ==
    ASSUME NEW e, NEW a, NEW b, NEW na, NEW nb, NEW ga, NEW gb, NEW due, NEW p,
           Arrives(e, a, b, na, nb, ga, gb, p)
    PROVE  LET t == Counted(a, p) IN
           /\ p.type # "SUCCESS" =>
                 ssh_packet_read_poll2(e, a, p, due) = ssh_packet_check_rekey(t, due)
           /\ p.type = "SUCCESS" /\ e = "client" =>
                 ssh_packet_read_poll2(e, a, p, due)
                     = ssh_packet_check_rekey(ssh_packet_enable_delayed_compress(t), due)
<1> DEFINE t == Counted(a, p)
<1>a. e \in End /\ Pair(e, a, b, na, nb, ga, gb) /\ b.out # <<>> /\ p = b.out[1]
  BY DEF Arrives
<1> USE <1>a
<1>1. /\ a \in EndState /\ b \in EndState /\ InStepAt(e, a, b) /\ Keys(a) /\ Flags(a)
      /\ a.rcv.seq \in Seq32
  BY EndTyped DEF Pair, Local
<1>2. p.key = a.rcv.key /\ p.seq = a.rcv.seq /\ p.comp = a.rcv.comp
  BY HeadExpected
<1>3. ~Corrupt(a, p)
  BY <1>2 DEF Corrupt
<1>4. ~WrapsInFirstExchange(a, "rcv")
  BY <1>1, SmallCounts, NoWrap DEF WrapsInFirstExchange
<1>5. p.type = "NEWKEYS" => a.kex_strict
  <2> SUFFICES ASSUME p.type = "NEWKEYS" PROVE a.kex_strict
    OBVIOUS
  <2>1. "NEWKEYS" \in Kex(b.out)
    BY <1>1, HeadTyped DEF Kex, Has, KexType
  <2>2. RowAt(e, a.kex_type, Stage(a), Stage(b), Kex(a.out), Kex(b.out))
    BY <1>1, PairRow
  <2>3. Stage(a) \in {"over", "key"}
    <3>1. CASE e = "client"
      BY <2>1, <2>2, <3>1 DEF RowAt, Row
    <3>2. CASE e = "server"
      BY <2>1, <2>2, <3>2 DEF RowAt, Row
    <3> QED BY <3>1, <3>2 DEF End
  <2>4. "INIT_RECVD" \in a.flags
    BY <2>3, StageInSet
  <2> QED BY <1>1, <2>4 DEF Keys
<1>6. NextSeq(a, "rcv", p.type) = After(p)
  BY <1>2, <1>5 DEF NextSeq, After
<1>7. t = [a EXCEPT !.rcv.seq = NextSeq(a, "rcv", p.type), !.rcv.used = TRUE]
  BY <1>6 DEF Counted
<1> HIDE <1>a
<1> DEFINE v == [a EXCEPT !.rcv.seq = NextSeq(a, "rcv", p.type), !.rcv.used = TRUE]
<1>8. ssh_packet_read_poll2(e, a, p, due) =
          ssh_packet_check_rekey(IF p.type = "SUCCESS" /\ e = "client"
                                 THEN ssh_packet_enable_delayed_compress(v) ELSE v, due)
  BY <1>3, <1>4 DEF ssh_packet_read_poll2
<1>9. v = t
  BY <1>7
<1> HIDE DEF v, t
<1> QED BY <1>8, <1>9 DEF t

\* End e in state a reads packet p and handles it.
Handled(e, a, p, due) ==
    ssh_dispatch_run(e, ssh_packet_read_poll_seqnr(ssh_packet_read_poll2(e, a, p, due), p),
                     p, due)

\* A limit that is reached when a packet has been read starts an exchange.
LEMMA CheckKeeps ==
    ASSUME NEW e \in End, NEW a, NEW b, NEW na, NEW nb, NEW ga, NEW gb,
           Pair(e, a, b, na, nb, ga, gb), NEW t,
           t = a \/ (a.auth /\ a.flags = {} /\ Starts(a, t))
    PROVE  Pair(e, t, b, na, nb, ga, gb)
<1>1. CASE t = a
  BY <1>1
<1>2. CASE a.auth /\ a.flags = {} /\ Starts(a, t)
  <2>1. Stage(a) = "rest" /\ a \in EndState
    BY <1>2 DEF Stage, Pair
  <2> QED BY <1>2, <2>1, PairStarts
<1> QED BY <1>1, <1>2

\* An end reads data or EXT_INFO.
LEMMA OtherRead ==
    ASSUME NEW e \in End, NEW a, NEW b, NEW b2, NEW na, NEW nb, NEW ga, NEW gb, NEW ga2, NEW due,
           Pair(e, a, b, na, nb, ga, gb), TailOf(b, b2), Reads(a),
           b.out[1].type \notin KexType, b.out[1].type # "SUCCESS",
           ga2 = IF b.out[1].type \in DataType THEN ga + 1 ELSE ga
    PROVE  /\ Pair(e, Handled(e, a, b.out[1], due), b2, na, nb, ga2, gb) /\ ga2 <= nb
           /\ b.out[1].type \in DataType => b.out[1].body = ga + 1
<1> DEFINE p == b.out[1]
           t == Counted(a, p)
           z == ssh_packet_check_rekey(t, due)
<1>1. /\ a \in EndState /\ b \in EndState /\ b.out # <<>> /\ Keys(a) /\ Flags(a)
      /\ p \in PacketSet /\ p.type \in Type
  BY HeadTyped DEF Pair, Local, TailOf
<1>2. ~Closed(a)
  BY <1>1, PlainHead
<1>3. ssh_packet_read_poll2(e, a, p, due) = z
  <2>1. Arrives(e, a, b, na, nb, ga, gb, p) /\ p.type # "SUCCESS"
    BY <1>1 DEF Arrives
  <2> HIDE DEF p
  <2> QED BY <2>1, PollFacts
<1>4. /\ t \in EndState /\ t.rcv.key = a.rcv.key /\ t.rcv.comp = a.rcv.comp
      /\ t.rcv.seq = After(p) /\ t.snd = a.snd /\ t.out = a.out
      /\ t.phase = a.phase /\ t.kex_type = a.kex_type /\ t.auth = a.auth
      /\ t.rekeying = a.rekeying /\ t.done = a.done /\ t.flags = a.flags
      /\ t.kex_strict = a.kex_strict /\ t.disp = a.disp /\ t.exchange = a.exchange
      /\ t.newkeys = a.newkeys /\ t.outgoing = a.outgoing
  BY <1>1, CountedFacts
<1> HIDE DEF t
<1>5. PlainRead(e, a, t, b, b2, na, nb, ga, ga2, gb)
  BY <1>1, <1>4 DEF PlainRead, Keys
<1>6. /\ Pair(e, t, b2, na, nb, ga2, gb) /\ ga2 <= nb
      /\ b.out[1].type \in DataType => b.out[1].body = ga + 1
  BY <1>5, PairReadsPlain
<1>7. t.done => t.flags = {}
  BY <1>1, <1>4 DEF Flags
<1>8. z = t \/ (t.auth /\ t.flags = {} /\ Starts(t, z))
  BY <1>4, <1>7, CheckFacts
<1> HIDE DEF z
<1>9. Pair(e, z, b2, na, nb, ga2, gb)
  BY <1>6, <1>8, CheckKeeps
<1>10. "INIT_RECVD" \notin z.flags /\ z.err = "none"
  <2>1. "INIT_RECVD" \notin t.flags
    BY <1>2, <1>4 DEF Closed
  <2>2. z.err = "none"
    BY <1>9, EndTyped DEF Pair
  <2> QED BY <1>8, <2>1, <2>2 DEF Starts
<1>11. Handled(e, a, p, due) = z
  <2>1. ssh_packet_read_poll_seqnr(z, p) = z
    BY <1>10 DEF ssh_packet_read_poll_seqnr
  <2>2. ssh_dispatch_run(e, z, p, due) = z
    BY <1>10 DEF ssh_dispatch_run, KexType
  <2> QED BY <1>3, <2>1, <2>2 DEF Handled
<1> QED BY <1>6, <1>9, <1>11

\* The client reads that the user has authenticated.
LEMMA SuccessRead ==
    ASSUME NEW e \in End, NEW a, NEW b, NEW b2, NEW na, NEW nb, NEW ga, NEW gb, NEW ga2, NEW due,
           Pair(e, a, b, na, nb, ga, gb), TailOf(b, b2), Reads(a),
           b.out[1].type = "SUCCESS", ga2 = ga + 1
    PROVE  /\ Pair(e, Handled(e, a, b.out[1], due), b2, na, nb, ga2, gb) /\ ga2 <= nb
           /\ b.out[1].body = ga + 1
<1> DEFINE p == b.out[1]
           s == Counted(a, p)
           w == [s EXCEPT !.auth = TRUE, !.snd.comp = @ \/ s.snd.key # NoKey,
                          !.rcv.comp = @ \/ s.rcv.key # NoKey]
           t == [w EXCEPT !.phase = "start"]
           z == ssh_packet_check_rekey(w, due)
           y == [z EXCEPT !.phase = "start"]
<1>1. /\ a \in EndState /\ b \in EndState /\ b.out # <<>> /\ Keys(a) /\ Flags(a)
      /\ p \in PacketSet /\ p.type \in Type /\ p.type \notin KexType
  BY HeadTyped DEF Pair, Local, TailOf, KexType
<1>2. e = "client" /\ ~Closed(a) /\ Stage(a) = "rest"
  BY <1>1, PlainHead
<1>3. a.snd.key # NoKey /\ a.rcv.key # NoKey
  BY <1>1, <1>2 DEF Keys, Closed
<1>4. ssh_packet_read_poll2(e, a, p, due) = z
  <2>1. ssh_packet_read_poll2(e, a, p, due)
            = ssh_packet_check_rekey(ssh_packet_enable_delayed_compress(s), due)
    <3>1. Arrives(e, a, b, na, nb, ga, gb, p) /\ p.type = "SUCCESS"
      BY <1>1 DEF Arrives
    <3> HIDE DEF p
    <3> QED BY <1>2, <3>1, PollFacts
  <2>2. ssh_packet_enable_delayed_compress(s) = w
    BY DEF ssh_packet_enable_delayed_compress
  <2> QED BY <2>1, <2>2
<1>5. /\ s \in EndState /\ s.rcv.key = a.rcv.key /\ s.rcv.comp = a.rcv.comp
      /\ s.rcv.seq = After(p) /\ s.snd = a.snd /\ s.out = a.out
      /\ s.kex_type = a.kex_type
      /\ s.rekeying = a.rekeying /\ s.done = a.done /\ s.flags = a.flags
      /\ s.kex_strict = a.kex_strict /\ s.disp = a.disp /\ s.exchange = a.exchange
      /\ s.newkeys = a.newkeys /\ s.outgoing = a.outgoing
  BY <1>1, CountedFacts
<1> HIDE DEF s
<1>6. /\ w \in EndState /\ w.out = s.out /\ w.snd.key = s.snd.key /\ w.snd.seq = s.snd.seq
      /\ w.snd.comp = TRUE /\ w.auth = TRUE /\ w.rcv.comp = TRUE
      /\ w.rcv.key = s.rcv.key /\ w.rcv.seq = s.rcv.seq /\ w.kex_type = s.kex_type
      /\ w.rekeying = s.rekeying /\ w.done = s.done /\ w.flags = s.flags
      /\ w.kex_strict = s.kex_strict /\ w.newkeys = s.newkeys /\ w.outgoing = s.outgoing
      /\ w.disp = s.disp /\ w.exchange = s.exchange
  BY <1>3, <1>5 DEF EndState, Direction
<1> HIDE DEF w
<1>7. /\ t \in EndState /\ t.phase = "start" /\ t.out = w.out /\ t.snd = w.snd
      /\ t.rcv = w.rcv /\ t.auth = w.auth /\ t.kex_type = w.kex_type
      /\ t.rekeying = w.rekeying /\ t.done = w.done /\ t.flags = w.flags
      /\ t.kex_strict = w.kex_strict /\ t.newkeys = w.newkeys /\ t.outgoing = w.outgoing
      /\ t.disp = w.disp /\ t.exchange = w.exchange
  BY <1>6 DEF EndState
<1>8. w.done => w.flags = {}
  BY <1>1, <1>5, <1>6 DEF Flags
<1>9. z = w \/ (w.auth /\ w.flags = {} /\ Starts(w, z))
  BY <1>6, <1>8, CheckFacts
<1>10. z \in EndState
  BY <1>6, <1>9 DEF Starts
<1>11. z = w => y = t
  OBVIOUS
<1> HIDE DEF z, t
<1>12. /\ y \in EndState /\ y.phase = "start" /\ y.out = z.out /\ y.snd = z.snd
       /\ y.rcv = z.rcv /\ y.auth = z.auth /\ y.kex_type = z.kex_type
       /\ y.rekeying = z.rekeying /\ y.done = z.done /\ y.flags = z.flags
       /\ y.kex_strict = z.kex_strict /\ y.newkeys = z.newkeys /\ y.outgoing = z.outgoing
       /\ y.disp = z.disp /\ y.exchange = z.exchange
  BY <1>10 DEF EndState
<1> HIDE DEF y
<1>13. Starts(w, z) => Starts(t, y)
  <2>1. Kexinit(t) = Kexinit(w)
    BY <1>7 DEF Kexinit
  <2>2. Packet(t, t.snd.seq, Kexinit(w)) = Packet(w, w.snd.seq, Kexinit(w))
    BY <1>7 DEF Packet
  <2> QED BY <1>7, <1>12, <2>1, <2>2 DEF Starts, Sends
<1>14. PlainRead(e, a, t, b, b2, na, nb, ga, ga2, gb)
  <2>1. p.type \in DataType
    BY DEF DataType
  <2>2. /\ t.rcv.key = a.rcv.key /\ t.rcv.seq = After(p) /\ t.rcv.comp = TRUE
        /\ t.snd.key = a.snd.key /\ t.snd.seq = a.snd.seq /\ t.snd.comp = TRUE
        /\ t.kex_type = a.kex_type /\ t.rekeying = a.rekeying /\ t.done = a.done
        /\ t.flags = a.flags /\ t.kex_strict = a.kex_strict /\ t.disp = a.disp
        /\ t.newkeys = a.newkeys /\ t.outgoing = a.outgoing /\ t.out = a.out
        /\ t.auth = TRUE
    BY <1>5, <1>6, <1>7
  <2> QED BY <1>1, <1>7, <2>1, <2>2 DEF PlainRead
<1>15. Pair(e, t, b2, na, nb, ga2, gb) /\ ga2 <= nb /\ p.body = ga + 1
  <2>1. p.type \in DataType
    BY DEF DataType
  <2>2. /\ Pair(e, t, b2, na, nb, ga2, gb) /\ ga2 <= nb
        /\ p.type \in DataType => p.body = ga + 1
    BY <1>14, PairReadsPlain
  <2> QED BY <2>1, <2>2
<1>16. y = t \/ (t.auth /\ t.flags = {} /\ Starts(t, y))
  BY <1>7, <1>9, <1>11, <1>13
<1>17. Pair(e, y, b2, na, nb, ga2, gb)
  BY <1>15, <1>16, CheckKeeps
<1>18. "INIT_RECVD" \notin z.flags /\ z.err = "none"
  <2>1. "INIT_RECVD" \notin w.flags
    BY <1>2, <1>5, <1>6 DEF Closed
  <2>2. z.err = "none"
    BY <1>10, EndTyped
  <2> QED BY <1>9, <2>1, <2>2 DEF Starts
<1>19. Handled(e, a, p, due) = y
  <2>1. ssh_packet_read_poll_seqnr(z, p) = z
    BY <1>18 DEF ssh_packet_read_poll_seqnr
  <2>2. ssh_dispatch_run(e, z, p, due) = y
    BY <1>18 DEF ssh_dispatch_run, KexType, y
  <2> QED BY <1>4, <2>1, <2>2 DEF Handled
<1> QED BY <1>15, <1>17, <1>19

\* x is a when it has read the peer's KEXINIT, p, and sent its own.
Primed(a, x, p) ==
    /\ x \in EndState /\ Keeps(a, x)
    /\ x.flags = a.flags \union {"INIT_RECVD"} /\ x.rekeying = TRUE /\ x.done = FALSE
    /\ x.kex_strict = a.kex_strict /\ x.newkeys = a.newkeys /\ x.outgoing = a.outgoing
    /\ x.out = a.out /\ x.disp = {}
    /\ x.snd.key = a.snd.key /\ x.snd.comp = a.snd.comp /\ x.snd.seq = a.snd.seq
    /\ x.rcv.key = a.rcv.key /\ x.rcv.comp = a.rcv.comp /\ x.rcv.seq = After(p)

\* kex_choose_conf settles strict key exchange without failing, and the method
\* starts.
LEMMA ConfKeeps ==
    ASSUME NEW e, NEW a, NEW x, NEW b, NEW b2, NEW na, NEW nb, NEW ga, NEW gb, NEW p,
           Arrives(e, a, b, na, nb, ga, gb, p), p.type \in KexType, Stage(a) = "sent",
           Reads(a), TailOf(b, b2), Primed(a, x, p)
    PROVE  LET u == kex_choose_conf(x, p) IN
           /\ u.err = "none" /\ Pair(e, RunMethod(e, u), b2, na, nb, ga, gb)
<1> DEFINE u == kex_choose_conf(x, p)
<1>1. /\ e \in End /\ Pair(e, a, b, na, nb, ga, gb) /\ b.out # <<>> /\ p = b.out[1]
      /\ a \in EndState /\ b \in EndState /\ x \in EndState
      /\ Keys(a) /\ Counts(a) /\ Wire(b, a, nb, ga)
      /\ "INITIAL" \in x.flags <=> "INITIAL" \in a.flags
  BY DEF Arrives, Pair, Local, Primed
<1>2. p.type = "KEXINIT"
  BY <1>1, KexinitRow
<1>3. "INITIAL" \in a.flags => p.body = 1 /\ p.seq = 0
  <2>1. "INITIAL" \in a.flags => p.body = 1
    BY <1>1, <1>2, HeadTyped DEF Wire, Bodies
  <2>2. "INITIAL" \in a.flags => p.seq = 0
    BY <1>1, HeadExpected DEF Counts
  <2> QED BY <2>1, <2>2
<1>4. "INITIAL" \notin a.flags => x.kex_strict = TRUE
  <2>1. x.kex_strict = a.kex_strict /\ a.kex_strict \in BOOLEAN
    BY <1>1, EndTyped DEF Primed
  <2> QED BY <1>1, <2>1 DEF Keys
<1>5. /\ u \in EndState /\ u.kex_strict = TRUE
      /\ u.phase = x.phase /\ u.kex_type = x.kex_type /\ u.auth = x.auth
      /\ u.flags = x.flags /\ u.rekeying = x.rekeying /\ u.done = x.done
      /\ u.newkeys = x.newkeys /\ u.outgoing = x.outgoing /\ u.out = x.out
      /\ u.disp = x.disp /\ u.snd = x.snd /\ u.rcv = x.rcv
  <2>1. CASE "INITIAL" \notin a.flags
    <3>1. u = x
      BY <1>1, <2>1 DEF kex_choose_conf
    <3> QED BY <1>1, <1>4, <2>1, <3>1
  <2>2. CASE "INITIAL" \in a.flags
    <3>1. u = [x EXCEPT !.kex_strict = TRUE]
      BY <1>1, <1>3, <2>2 DEF kex_choose_conf
    <3> QED BY <1>1, <3>1 DEF EndState
  <2> QED BY <2>1, <2>2
<1> HIDE DEF u
<1>6. Taking(e, a, u, b, b2, na, nb, ga, gb)
  BY <1>1, <1>2, <1>5 DEF Taking, Primed, Keeps
<1>7. Pair(e, RunMethod(e, u), b2, na, nb, ga, gb)
  BY <1>6, MethodKeeps
<1> QED BY <1>5, <1>7, EndTyped DEF u

\* ... and so z, which e is in when it has read a KEXINIT, keeps the invariant
\* when it handles it.
LEMMA InputKexinit ==
    ASSUME NEW e, NEW a, NEW z, NEW b, NEW b2, NEW na, NEW nb, NEW ga, NEW gb, NEW p, NEW due,
           Arrives(e, a, b, na, nb, ga, gb, p), p.type = "KEXINIT", Stage(a) = "sent",
           Reads(a), TailOf(b, b2), z \in EndState, "INIT_RECVD" \notin z.flags,
           z.disp = {"KEXINIT"},
           Primed(a, kex_send_kexinit([z EXCEPT !.flags = @ \union {"INIT_RECVD"},
                                                !.disp = @ \ {"KEXINIT"}]), p)
    PROVE  Pair(e, ssh_dispatch_run(e, z, p, due), b2, na, nb, ga, gb)
<1> DEFINE x == kex_send_kexinit([z EXCEPT !.flags = @ \union {"INIT_RECVD"},
                                           !.disp = @ \ {"KEXINIT"}])
           u == kex_choose_conf(x, p)
<1>1. p.type \in KexType /\ z.err = "none"
  BY EndTyped DEF KexType
<1>2. ssh_dispatch_run(e, z, p, due) = kex_input_kexinit(e, z, p)
  BY <1>1 DEF ssh_dispatch_run
<1>3. kex_input_kexinit(e, z, p) = IF u.err # "none" THEN u ELSE RunMethod(e, u)
  BY DEF kex_input_kexinit
<1>4. Primed(a, x, p)
  OBVIOUS
<1> HIDE DEF x
<1>5. u.err = "none" /\ Pair(e, RunMethod(e, u), b2, na, nb, ga, gb)
  BY <1>1, <1>4, ConfKeeps
<1> HIDE DEF u
<1> QED BY <1>2, <1>3, <1>5

\* In an exchange a limit that is reached does nothing.
LEMMA KexHandled ==
    ASSUME NEW e, NEW a, NEW b, NEW na, NEW nb, NEW ga, NEW gb, NEW p, NEW due,
           Arrives(e, a, b, na, nb, ga, gb, p), p.type \in KexType, Stage(a) # "rest"
    PROVE  /\ Handled(e, a, p, due) = ssh_dispatch_run(e, Counted(a, p), p, due)
           /\ Counted(a, p) \in EndState
<1> DEFINE t == Counted(a, p)
<1>1. /\ e \in End /\ a \in EndState /\ b \in EndState /\ p \in PacketSet /\ Flags(a)
      /\ p.type # "SUCCESS"
  BY HeadTyped DEF Arrives, Pair, Local, KexType
<1>2. t \in EndState /\ t.flags = a.flags /\ t.done = a.done
  BY <1>1, CountedFacts
<1>3. ssh_packet_read_poll2(e, a, p, due) = ssh_packet_check_rekey(t, due)
  BY <1>1, PollFacts
<1>4. ~t.done
  <2>1. a.flags # {}
    BY StageInSet
  <2> QED BY <1>1, <1>2, <2>1 DEF Flags
<1> HIDE DEF t
<1>5. ssh_packet_check_rekey(t, due) = t
  BY <1>4 DEF ssh_packet_check_rekey, ssh_packet_need_rekeying, ssh_packet_is_rekeying
<1>6. ssh_packet_read_poll_seqnr(t, p) = t
  BY DEF ssh_packet_read_poll_seqnr, ssh_packet_type_is_kex
<1> QED BY <1>2, <1>3, <1>5, <1>6 DEF Handled, t

\* An end that has sent its KEXINIT reads a message of the exchange.
LEMMA SentReads ==
    ASSUME NEW e, NEW a, NEW b, NEW b2, NEW na, NEW nb, NEW ga, NEW gb, NEW p, NEW due,
           Arrives(e, a, b, na, nb, ga, gb, p), TailOf(b, b2), Reads(a),
           p.type \in KexType, Stage(a) = "sent"
    PROVE  Pair(e, Handled(e, a, p, due), b2, na, nb, ga, gb)
<1> DEFINE z == Counted(a, p)
           r == [z EXCEPT !.flags = @ \union {"INIT_RECVD"}, !.disp = @ \ {"KEXINIT"}]
<1>1. /\ e \in End /\ Pair(e, a, b, na, nb, ga, gb) /\ b.out # <<>> /\ p = b.out[1]
      /\ a \in EndState /\ b \in EndState /\ p \in PacketSet
      /\ Flags(a) /\ Handlers(e, a)
  BY HeadTyped DEF Arrives, Pair, Local
<1>2. p.type = "KEXINIT"
  BY <1>1, KexinitRow
<1>3. Handled(e, a, p, due) = ssh_dispatch_run(e, z, p, due)
  BY KexHandled
<1>4. /\ z \in EndState /\ z.rcv.key = a.rcv.key /\ z.rcv.comp = a.rcv.comp
      /\ z.rcv.seq = After(p) /\ z.snd = a.snd /\ z.out = a.out
      /\ z.phase = a.phase /\ z.kex_type = a.kex_type /\ z.auth = a.auth
      /\ z.rekeying = a.rekeying /\ z.done = a.done /\ z.flags = a.flags
      /\ z.kex_strict = a.kex_strict /\ z.disp = a.disp
      /\ z.newkeys = a.newkeys /\ z.outgoing = a.outgoing
  BY <1>1, CountedFacts
<1>5. /\ "INIT_SENT" \in a.flags /\ "INIT_RECVD" \notin a.flags
      /\ a.rekeying = TRUE /\ a.done = FALSE
  <2>1. "INIT_SENT" \in a.flags /\ "INIT_RECVD" \notin a.flags /\ a.flags # {}
    BY StageInSet
  <2>2. a.rekeying \in BOOLEAN /\ a.done \in BOOLEAN
    BY <1>1, EndTyped
  <2> QED BY <1>1, <2>1, <2>2 DEF Flags
<1>6. a.disp = {"KEXINIT"}
  <2>1. a.phase \in {"kex", "loop"}
    BY <1>1, <1>5 DEF Reads, Flags
  <2> QED BY <1>1, <2>1 DEF Handlers
<1> HIDE DEF z
<1>7. /\ r \in EndState /\ r.flags = z.flags \union {"INIT_RECVD"}
      /\ r.disp = z.disp \ {"KEXINIT"}
      /\ r.phase = z.phase /\ r.kex_type = z.kex_type /\ r.auth = z.auth
      /\ r.rekeying = z.rekeying /\ r.done = z.done /\ r.out = z.out
      /\ r.kex_strict = z.kex_strict /\ r.newkeys = z.newkeys
      /\ r.outgoing = z.outgoing /\ r.snd = z.snd /\ r.rcv = z.rcv
  BY <1>4 DEF EndState
<1> HIDE DEF r
<1>8. kex_send_kexinit(r) = r
  BY <1>4, <1>5, <1>7 DEF kex_send_kexinit
<1>9. Primed(a, r, p)
  BY <1>4, <1>5, <1>6, <1>7 DEF Primed, Keeps
<1>10. Pair(e, ssh_dispatch_run(e, z, p, due), b2, na, nb, ga, gb)
  <2>1. Primed(a, kex_send_kexinit(r), p)
    BY <1>8, <1>9
  <2>2. /\ z \in EndState /\ "INIT_RECVD" \notin z.flags /\ z.disp = {"KEXINIT"}
    BY <1>4, <1>5, <1>6
  <2> QED BY <1>2, <2>1, <2>2, InputKexinit DEF r
<1> QED BY <1>3, <1>10

\* A KEXINIT that comes to an end at rest is a later one: the end is in its
\* main loop.
LEMMA RestHead ==
    ASSUME NEW e, NEW a, NEW b, NEW na, NEW nb, NEW ga, NEW gb, NEW p,
           Arrives(e, a, b, na, nb, ga, gb, p), Reads(a),
           p.type \in KexType, Stage(a) = "rest"
    PROVE  p.type = "KEXINIT" /\ a.auth /\ a.phase = "loop" /\ a.flags = {} /\ a.done /\ ~a.rekeying
<1>1. /\ e \in End /\ Pair(e, a, b, na, nb, ga, gb) /\ b.out # <<>> /\ p = b.out[1]
      /\ a \in EndState /\ b \in EndState /\ Flags(a) /\ Flags(b)
      /\ First(a, b) /\ First(b, a) /\ InStepAt(e, a, b)
      /\ a.auth \in BOOLEAN /\ b.auth \in BOOLEAN
      /\ b.out \in Seq(PacketSet) /\ 1 \in 1 .. Len(b.out)
  BY EndTyped, HeadTyped DEF Arrives, Pair, Local
<1>2. p.type \in Kex(b.out)
  BY <1>1 DEF Kex, Has
<1>3. RowAt(e, a.kex_type, "rest", Stage(b), Kex(a.out), Kex(b.out))
  BY <1>1, PairRow
<1>4. p.type = "KEXINIT" /\ Stage(b) = "sent"
  <2>1. CASE e = "client"
    BY <1>2, <1>3, <2>1 DEF RowAt, Row
  <2>2. CASE e = "server"
    BY <1>2, <1>3, <2>2 DEF RowAt, Row
  <2> QED BY <1>1, <2>1, <2>2 DEF End
<1>5. a.flags = {} /\ a.done /\ ~a.rekeying
  <2>1. a.phase # "new"
    BY DEF Reads
  <2> QED BY <1>1, <2>1, RestFacts
<1>6. b.auth
  BY <1>1, <1>4, <1>5 DEF Flags, First
<1>7. a.auth
  <2>1. CASE e = "client"
    <3>1. Login(a, b, na, nb, ga, gb) /\ ~Passed(b.out, 1, "SUCCESS")
      BY <1>1, <2>1 DEF Pair, LoginAt, Passed
    <3> QED BY <1>1, <1>6, <3>1 DEF Login
  <2>2. CASE e = "server"
    BY <1>1, <1>6, <2>2 DEF Pair, LoginAt, Login
  <2> QED BY <1>1, <2>1, <2>2 DEF End
<1>8. a.phase = "loop"
  BY <1>1, <1>5, <1>7 DEF Flags, Reads
<1> QED BY <1>4, <1>5, <1>7, <1>8

\* An end at rest reads a message of the exchange, and sends its own KEXINIT.
LEMMA RestReads ==
    ASSUME NEW e, NEW a, NEW b, NEW b2, NEW na, NEW nb, NEW ga, NEW gb, NEW p, NEW due,
           Arrives(e, a, b, na, nb, ga, gb, p), TailOf(b, b2), Reads(a),
           p.type \in KexType, Stage(a) = "rest"
    PROVE  Pair(e, Handled(e, a, p, due), b2, na, nb, ga, gb)
<1> DEFINE a1 == kex_start_rekex(a)
           c == Counted(a, p)
           z == ssh_packet_check_rekey(c, due)
           r == [z EXCEPT !.flags = @ \union {"INIT_RECVD"}, !.disp = @ \ {"KEXINIT"}]
           x == kex_send_kexinit(r)
<1>1. /\ e \in End /\ Pair(e, a, b, na, nb, ga, gb) /\ b.out # <<>> /\ p = b.out[1]
      /\ a \in EndState /\ b \in EndState /\ p \in PacketSet
      /\ Flags(a) /\ Handlers(e, a)
  BY HeadTyped DEF Arrives, Pair, Local
<1>2. /\ p.type = "KEXINIT" /\ a.auth /\ a.phase = "loop" /\ a.flags = {}
      /\ a.done /\ ~a.rekeying
  BY RestHead
<1>3. a.disp = {"KEXINIT"}
  BY <1>1, <1>2 DEF Handlers
<1>4. /\ Starts(a, a1) /\ Pair(e, a1, b, na, nb, ga, gb) /\ Stage(a1) = "sent"
  BY <1>1, <1>2, RekexKeeps DEF ssh_packet_is_rekeying
<1> HIDE DEF a1
<1>5. Reads(a1) /\ Arrives(e, a1, b, na, nb, ga, gb, p)
  <2>1. a1.phase = "loop" /\ a1.err = "none"
    BY <1>2, <1>4, EndTyped DEF Starts
  <2>2. Reads(a1)
    BY <2>1 DEF Reads
  <2> QED BY <1>1, <1>4, <2>2 DEF Arrives
<1>6. /\ c \in EndState /\ c.rcv.key = a.rcv.key /\ c.rcv.comp = a.rcv.comp
      /\ c.rcv.seq = After(p) /\ c.snd = a.snd /\ c.out = a.out
      /\ c.phase = a.phase /\ c.kex_type = a.kex_type /\ c.auth = a.auth
      /\ c.rekeying = a.rekeying /\ c.done = a.done /\ c.flags = a.flags
      /\ c.kex_strict = a.kex_strict /\ c.disp = a.disp
      /\ c.newkeys = a.newkeys /\ c.outgoing = a.outgoing
  BY <1>1, CountedFacts
<1>7. ssh_packet_read_poll2(e, a, p, due) = z
  BY <1>2, PollFacts
<1> HIDE DEF c
<1>8. z = c \/ Starts(c, z)
  BY <1>2, <1>6, CheckFacts
<1>9. z \in EndState /\ "INIT_RECVD" \notin z.flags /\ "INITIAL" \notin z.flags
      /\ z.disp = {"KEXINIT"}
  BY <1>2, <1>3, <1>6, <1>8 DEF Starts
<1> HIDE DEF z
<1>10. /\ r \in EndState /\ r.flags = z.flags \union {"INIT_RECVD"} /\ r.disp = {}
       /\ r.phase = z.phase /\ r.kex_type = z.kex_type /\ r.auth = z.auth
       /\ r.rekeying = z.rekeying /\ r.done = z.done /\ r.out = z.out
       /\ r.kex_strict = z.kex_strict /\ r.newkeys = z.newkeys
       /\ r.outgoing = z.outgoing /\ r.snd = z.snd /\ r.rcv = z.rcv
  BY <1>9 DEF EndState
<1> HIDE DEF r
<1>11. Kexinit(c) = Kexinit(a) /\ Packet(c, c.snd.seq, Kexinit(a)) = Packet(a, a.snd.seq, Kexinit(a))
  BY <1>6 DEF Kexinit, Packet
<1>12. Primed(a1, x, p)
  <2>1. CASE z = c
    <3>1. "INIT_SENT" \notin r.flags /\ "INITIAL" \notin r.flags
      BY <1>2, <1>6, <1>10, <2>1
    <3>2. Starts(r, x)
      BY <1>10, <3>1, KexinitFacts
    <3> HIDE DEF x
    <3>3. Kexinit(r) = Kexinit(a) /\ Packet(r, r.snd.seq, Kexinit(a)) = Packet(a, a.snd.seq, Kexinit(a))
      <4>1. Kexinit(r) = Kexinit(a)
        BY <1>2, <3>1 DEF Kexinit
      <4> QED BY <1>6, <1>10, <2>1, <4>1 DEF Packet
    <3>4. x.flags = a1.flags \union {"INIT_RECVD"}
      BY <1>2, <1>4, <1>6, <1>10, <2>1, <3>2 DEF Starts
    <3> QED BY <1>4, <1>6, <1>10, <2>1, <3>2, <3>3, <3>4 DEF Primed, Keeps, Starts, Sends
  <2>2. CASE Starts(c, z)
    <3>1. "INIT_SENT" \in r.flags
      BY <1>10, <2>2 DEF Starts
    <3>2. x = r
      BY <3>1 DEF kex_send_kexinit
    <3> HIDE DEF x
    <3> QED BY <1>4, <1>6, <1>10, <1>11, <2>2, <3>2 DEF Primed, Keeps, Starts, Sends
  <2> QED BY <1>8, <2>1, <2>2
<1>13. Pair(e, ssh_dispatch_run(e, z, p, due), b2, na, nb, ga, gb)
  BY <1>2, <1>4, <1>5, <1>9, <1>12, InputKexinit DEF r, x
<1>14. ssh_packet_read_poll_seqnr(z, p) = z
  BY DEF ssh_packet_read_poll_seqnr, ssh_packet_type_is_kex
<1> QED BY <1>7, <1>13, <1>14 DEF Handled

\* What the wires are like when an end that has asked for a group reads.
LEMMA AskRow ==
    ASSUME NEW e \in End, NEW a, NEW b, NEW na, NEW nb, NEW ga, NEW gb,
           Pair(e, a, b, na, nb, ga, gb), Stage(a) = "ask", b.out # <<>>,
           b.out[1].type \in KexType
    PROVE  LET x == b.out[1].type
               K == Kex(a.out)
               L == Kex(b.out)
               m == a.kex_type IN
           /\ m = "gex" /\ K = {}
           /\ e = "client" => /\ x = "GEX_GROUP"
                              /\ RowAt(e, m, "key", Stage(b), K \union {"GEX_INIT"}, L \ {x})
           /\ e = "server" => /\ x = "GEX_REQUEST"
                              /\ RowAt(e, m, "key", Stage(b), K \union {"GEX_GROUP"}, L \ {x})
<1> DEFINE K == Kex(a.out)
           L == Kex(b.out)
           y == b.out[1].type
           sb == Stage(b)
           mm == a.kex_type
<1>1. b \in EndState /\ InOrder(b.out) /\ InStepAt(e, a, b)
  BY DEF Pair, Wire
<1>2. Lowest(y, L)
  BY <1>1, HeadTyped, HeadLowest
<1>3. RowAt(e, mm, "ask", sb, K, L)
  BY <1>1, PairRow
<1> HIDE DEF K, L, y, sb, mm
<1>4. /\ mm = "gex" /\ K = {}
      /\ e = "client" => /\ y = "GEX_GROUP"
                         /\ RowAt(e, mm, "key", sb, K \union {"GEX_INIT"}, L \ {y})
      /\ e = "server" => /\ y = "GEX_REQUEST"
                         /\ RowAt(e, mm, "key", sb, K \union {"GEX_GROUP"}, L \ {y})
  BY <1>2, <1>3, RowReadsAsk, Zenon
<1> QED BY <1>4, Zenon DEF K, L, y, sb, mm

\* An end that waits for the group or the request for it reads.
LEMMA AskReads ==
    ASSUME NEW e, NEW a, NEW b, NEW b2, NEW na, NEW nb, NEW ga, NEW gb, NEW p, NEW due,
           Arrives(e, a, b, na, nb, ga, gb, p), TailOf(b, b2), Reads(a),
           p.type \in KexType, Stage(a) = "ask"
    PROVE  Pair(e, Handled(e, a, p, due), b2, na, nb, ga, gb)
<1> DEFINE z == Counted(a, p)
           s == Taken(z, p)
           K == Kex(a.out)
           L == Kex(b.out) \ {p.type}
           sb == Stage(b)
<1>1. /\ e \in End /\ Pair(e, a, b, na, nb, ga, gb) /\ b.out # <<>> /\ p = b.out[1]
      /\ a \in EndState /\ b \in EndState /\ p \in PacketSet
      /\ Flags(a) /\ Handlers(e, a) /\ Keys(a)
  BY HeadTyped DEF Arrives, Pair, Local
<1>2. Handled(e, a, p, due) = ssh_dispatch_run(e, z, p, due)
  BY KexHandled
<1>3. /\ z \in EndState /\ z.rcv.key = a.rcv.key /\ z.rcv.comp = a.rcv.comp
      /\ z.rcv.seq = After(p) /\ z.snd = a.snd /\ z.out = a.out
      /\ z.phase = a.phase /\ z.kex_type = a.kex_type /\ z.auth = a.auth
      /\ z.rekeying = a.rekeying /\ z.done = a.done /\ z.flags = a.flags
      /\ z.kex_strict = a.kex_strict /\ z.disp = a.disp /\ z.err = "none"
      /\ z.newkeys = a.newkeys /\ z.outgoing = a.outgoing
  BY <1>1, CountedFacts, EndTyped
<1> HIDE DEF z
<1>4. /\ a.kex_type = "gex" /\ K = {}
      /\ e = "client" => /\ p.type = "GEX_GROUP"
                         /\ RowAt(e, a.kex_type, "key", sb, K \union {"GEX_INIT"}, L)
      /\ e = "server" => /\ p.type = "GEX_REQUEST"
                         /\ RowAt(e, a.kex_type, "key", sb, K \union {"GEX_GROUP"}, L)
  BY <1>1, AskRow
<1>5. a.disp = {p.type}
  BY <1>1, <1>4 DEF Handlers, End
<1>6. /\ a.rekeying = TRUE /\ a.done = FALSE /\ a.kex_strict = TRUE
      /\ a.flags = a.flags \union {"INIT_RECVD"}
  <2>1. "INIT_SENT" \in a.flags /\ "INIT_RECVD" \in a.flags /\ a.flags # {}
    BY StageInSet
  <2>2. a.rekeying \in BOOLEAN /\ a.done \in BOOLEAN /\ a.kex_strict \in BOOLEAN
    BY <1>1, EndTyped
  <2>3. a.rekeying
    BY <2>1 DEF Stage
  <2> QED BY <1>1, <2>1, <2>2, <2>3 DEF Flags, Keys
<1>7. /\ s \in EndState /\ s.disp = {}
      /\ s.phase = z.phase /\ s.kex_type = z.kex_type /\ s.auth = z.auth
      /\ s.flags = z.flags /\ s.rekeying = z.rekeying /\ s.done = z.done
      /\ s.kex_strict = z.kex_strict /\ s.newkeys = z.newkeys
      /\ s.outgoing = z.outgoing /\ s.out = z.out /\ s.snd = z.snd /\ s.rcv = z.rcv
  BY <1>3, <1>5 DEF Taken, EndState
<1> HIDE DEF s
<1>8. Taking(e, a, s, b, b2, na, nb, ga, gb)
  <2>1. p.type \in {"GEX_REQUEST", "GEX_GROUP"}
    BY <1>1, <1>4 DEF End
  <2> QED BY <1>1, <1>3, <1>6, <1>7, <2>1 DEF Taking, Keeps
<1>9. Behind(K, "GEX_INIT") /\ Behind(K, "GEX_GROUP")
  BY <1>4 DEF Behind
<1>10. CASE e = "client"
  <2>1. ssh_dispatch_run(e, z, p, due) = Expect(Ephemeral(s, "GEX_INIT"), "GEX_REPLY")
    BY <1>3, <1>4, <1>5, <1>10 DEF ssh_dispatch_run, input_kex_dh_gex_group, s
  <2>2. Waits(e, s, "GEX_REPLY") /\ "GEX_REPLY" \in KexType /\ Target("GEX_REPLY") = "key"
    BY <1>3, <1>4, <1>7, <1>10 DEF Waits, KeyMessage, KexType, Target
  <2> HIDE DEF K, sb
  <2>3. RowAt(e, a.kex_type, "key", sb, K \union {"GEX_INIT"}, Kex(b.out) \ {b.out[1].type})
    BY <1>1, <1>4, <1>10
  <2> QED BY <1>2, <1>8, <1>9, <2>1, <2>2, <2>3, EphemeralKeeps DEF K, sb
<1>11. CASE e = "server"
  <2> DEFINE m == Msg("GEX_GROUP", 0)
  <2>1. ssh_dispatch_run(e, z, p, due) = Expect(ssh_packet_send2_wrapped(s, m), "GEX_INIT")
    BY <1>3, <1>4, <1>5, <1>11 DEF ssh_dispatch_run, input_kex_dh_gex_request, s
  <2>2. Waits(e, s, "GEX_INIT") /\ "GEX_INIT" \in KexType /\ Target("GEX_INIT") = "key"
    BY <1>3, <1>4, <1>7, <1>11 DEF Waits, KeyMessage, KexType, Target
  <2>3. m \in MsgSet /\ m.type = "GEX_GROUP"
    <3>1. "GEX_GROUP" \in Type /\ 0 \in Nat
      BY DEF Type, KexType
    <3> QED BY <3>1, MsgFacts, Zenon
  <2> HIDE DEF m
  <2>4. Asks(e, a, s, b, b2, na, nb, ga, gb, m, "GEX_INIT")
    BY <1>1, <1>4, <1>8, <1>9, <1>11, <2>2, <2>3 DEF Asks
  <2> QED BY <1>2, <2>1, <2>4, TakingAsks
<1> QED BY <1>1, <1>10, <1>11 DEF End

ReplyType(m) == IF m = "gen" THEN "KEX_REPLY" ELSE "GEX_REPLY"

\* v is a when it has the keys, x: it has read the reply, or has sent it.
Ready(e, a, v, b, b2, na, nb, ga, gb, p, x) ==
    /\ Arrives(e, a, b, na, nb, ga, gb, p) /\ TailOf(b, b2)
    /\ Stage(a) = "key" /\ p.type \in KexType /\ p.type # "NEWKEYS"
    /\ x \in Key \ {NoKey} /\ (e = "client" => x = b.snd.key)
    /\ v \in EndState /\ Keeps(a, v) /\ v.flags = a.flags /\ v.done = a.done
    /\ v.kex_strict = a.kex_strict /\ v.rekeying = a.rekeying /\ v.outgoing = a.outgoing
    /\ v.newkeys = [snd |-> x, rcv |-> x] /\ v.snd.comp = a.snd.comp
    /\ v.rcv.key = a.rcv.key /\ v.rcv.comp = a.rcv.comp /\ v.rcv.seq = After(p)
    /\ Wire(v, b, na, gb) /\ Replies(v.out, x)
    /\ "INITIAL" \in a.flags => v.snd.seq <= 3
    /\ Has(v.out, "SUCCESS") <=> Has(a.out, "SUCCESS")
    /\ Kex(v.out) = IF e = "client" THEN {} ELSE {ReplyType(a.kex_type)}

\* An end that has derived the keys sends NEWKEYS and what follows it.
LEMMA ReadyKeeps ==
    ASSUME NEW e, NEW a, NEW v, NEW b, NEW b2, NEW na, NEW nb, NEW ga, NEW gb, NEW p, NEW x,
           NEW due, Ready(e, a, v, b, b2, na, nb, ga, gb, p, x)
    PROVE  Pair(e, kex_send_newkeys(v, due), b2, na, nb, ga, gb)
<1> DEFINE t == kex_send_newkeys(v, due)
<1>1. /\ e \in End /\ Pair(e, a, b, na, nb, ga, gb) /\ b.out # <<>> /\ p = b.out[1]
      /\ a \in EndState /\ b \in EndState /\ v \in EndState /\ p \in PacketSet
      /\ na \in Nat /\ gb \in Nat /\ TailOf(b, b2) /\ Stage(a) = "key"
      /\ Flags(a) /\ Keys(a) /\ Counts(a) /\ Queue(a, na)
      /\ a.phase \in {"new", "kex"} => na = 0
  BY HeadTyped DEF Ready, Arrives, Pair, Local
<1>2. /\ x \in Key \ {NoKey} /\ (e = "client" => x = b.snd.key)
      /\ v.phase = a.phase /\ v.kex_type = a.kex_type /\ v.auth = a.auth
      /\ v.flags = a.flags /\ v.done = a.done
      /\ v.kex_strict = a.kex_strict /\ v.rekeying = a.rekeying /\ v.outgoing = a.outgoing
      /\ v.newkeys = [snd |-> x, rcv |-> x] /\ v.snd.comp = a.snd.comp
      /\ v.rcv.key = a.rcv.key /\ v.rcv.comp = a.rcv.comp /\ v.rcv.seq = After(p)
      /\ Wire(v, b, na, gb) /\ Replies(v.out, x)
      /\ "INITIAL" \in a.flags => v.snd.seq <= 3
      /\ Has(v.out, "SUCCESS") <=> Has(a.out, "SUCCESS")
      /\ Kex(v.out) = IF e = "client" THEN {} ELSE {ReplyType(a.kex_type)}
      /\ p.type \in KexType /\ p.type # "NEWKEYS"
  BY DEF Ready, Keeps
<1>3. "INIT_SENT" \in a.flags /\ "INIT_RECVD" \in a.flags /\ a.flags # {}
  BY <1>1, StageInSet
<1>4. v.kex_strict /\ ~v.done
  BY <1>1, <1>2, <1>3 DEF Keys, Flags
<1>5. "INITIAL" \in v.flags => v.snd.seq <= 3 /\ na = 0
  BY <1>1, <1>2 DEF Flags
<1>6. \A y \in Kex(v.out) : Rank(y) < 1
  <2>1. Rank("KEX_REPLY") = 0 /\ Rank("GEX_REPLY") = 0
    BY DEF Rank
  <2> QED BY <1>2, <2>1 DEF ReplyType
<1>7. v.snd.comp = v.auth
  BY <1>1, <1>2 DEF Keys
<1>8. v.snd.comp <=> ((v.auth /\ b.auth) \/ Has(v.out, "SUCCESS"))
  BY <1>1, <1>2, SendsCompressed
<1>9. Queue(v, na)
  BY <1>1, <1>2 DEF Queue
<1>10. /\ t \in EndState
       /\ Wire(t, b, na, gb) /\ Replies(t.out, x)
       /\ Kex(t.out) = Kex(v.out) \union {"NEWKEYS"}
       /\ Has(t.out, "SUCCESS") <=> Has(v.out, "SUCCESS")
       /\ t.disp = {"NEWKEYS"} /\ t.rekeying = FALSE /\ t.done = FALSE
       /\ t.flags = v.flags /\ t.phase = v.phase /\ t.kex_type = v.kex_type
       /\ t.auth = v.auth /\ t.kex_strict = v.kex_strict
       /\ t.rcv = v.rcv /\ t.outgoing = <<>>
       /\ t.snd.key = x /\ t.snd.comp = v.auth
       /\ t.newkeys = [snd |-> NoKey, rcv |-> x]
  <2>1. HasKeys(v, b, na, gb, x)
    BY <1>1, <1>2, <1>4, <1>5, <1>6, <1>7, <1>8, <1>9 DEF HasKeys
  <2>2. GoesOver(v, t, b, na, gb, x)
    BY <2>1, OverFacts
  <2> HIDE DEF t
  <2> QED BY <2>2 DEF GoesOver
<1> HIDE DEF t
<1>11. "INITIAL" \in a.flags => t.rcv.seq <= 3
  <2> SUFFICES ASSUME "INITIAL" \in a.flags PROVE t.rcv.seq <= 3
    OBVIOUS
  <2>1. a.rcv.seq \in Seq32 /\ a.rcv.seq \in Nat
    BY <1>1, EndTyped, TransportAssumption DEF Seq32
  <2>2. a.rcv.seq <= 2
    BY <1>1 DEF Counts
  <2>3. (a.rcv.seq + 1) % SeqMod = a.rcv.seq + 1
    BY <2>1, <2>2, SmallStep
  <2>4. t.rcv.seq = a.rcv.seq + 1
    BY <1>1, <1>2, <1>10, <2>3, HeadExpected DEF After
  <2> QED BY <2>1, <2>2, <2>4
<1>12. Kex(t.out) = IF e = "client" THEN {"NEWKEYS"}
                    ELSE {IF a.kex_type = "gen" THEN "KEX_REPLY" ELSE "GEX_REPLY", "NEWKEYS"}
  BY <1>2, <1>10 DEF ReplyType
<1>13. Over(e, a, t, b, b2, na, nb, ga, gb, x)
  BY <1>1, <1>2, <1>10, <1>11, <1>12 DEF Over, Keeps
<1> QED BY <1>13, PairOver DEF t

\* A wire without exchange messages holds no reply.
LEMMA NoReplies ==
    ASSUME NEW w, NEW x, Kex(w) = {} PROVE Replies(w, x)
BY DEF Kex, Has, Replies, KexType

\* What the wires are like when an end that has asked for the key reads.
LEMMA KeyRow ==
    ASSUME NEW e \in End, NEW a, NEW b, NEW na, NEW nb, NEW ga, NEW gb,
           Pair(e, a, b, na, nb, ga, gb), Stage(a) = "key", b.out # <<>>,
           b.out[1].type \in KexType
    PROVE  LET x == b.out[1].type
               m == a.kex_type IN
           /\ m \in {"gen", "gex"} /\ Kex(a.out) = {}
           /\ e = "client" => x = ReplyType(m) /\ Stage(b) = "over"
           /\ e = "server" => /\ x = IF m = "gen" THEN "KEX_INIT" ELSE "GEX_INIT"
                              /\ Stage(b) = "key"
<1> DEFINE K == Kex(a.out)
           L == Kex(b.out)
           y == b.out[1].type
           sb == Stage(b)
           mm == a.kex_type
<1>1. b \in EndState /\ InOrder(b.out) /\ InStepAt(e, a, b)
  BY DEF Pair, Wire
<1>2. Lowest(y, L)
  BY <1>1, HeadTyped, HeadLowest
<1>3. RowAt(e, mm, "key", sb, K, L)
  BY <1>1, PairRow
<1> HIDE DEF K, L, y, sb, mm
<1>4. /\ mm \in {"gen", "gex"} /\ K = {}
      /\ e = "client" => /\ y = IF mm = "gen" THEN "KEX_REPLY" ELSE "GEX_REPLY"
                         /\ sb = "over"
      /\ e = "server" => /\ y = IF mm = "gen" THEN "KEX_INIT" ELSE "GEX_INIT"
                         /\ sb = "key"
  BY <1>2, <1>3, RowReadsKey, Zenon
<1> QED BY <1>4, Zenon DEF K, L, y, sb, mm, ReplyType

\* s is a when it has read p, the reply or the request for it.
KeyTaken(a, s, p) ==
    /\ s \in EndState /\ Keeps(a, s) /\ s.flags = a.flags /\ s.done = a.done
    /\ s.kex_strict = a.kex_strict /\ s.rekeying = a.rekeying /\ s.outgoing = a.outgoing
    /\ s.snd = a.snd /\ s.out = a.out
    /\ s.rcv.key = a.rcv.key /\ s.rcv.comp = a.rcv.comp /\ s.rcv.seq = After(p)

\* kex_derive_keys sets the keys for both directions and nothing else.
LEMMA DeriveFacts ==
    ASSUME NEW s \in EndState, NEW x \in Key
    PROVE  LET v == kex_derive_keys(s, x) IN
           /\ v \in EndState /\ v.newkeys = [snd |-> x, rcv |-> x]
           /\ v.phase = s.phase /\ v.kex_type = s.kex_type /\ v.auth = s.auth
           /\ v.flags = s.flags /\ v.rekeying = s.rekeying /\ v.done = s.done
           /\ v.kex_strict = s.kex_strict /\ v.outgoing = s.outgoing /\ v.out = s.out
           /\ v.snd = s.snd /\ v.rcv = s.rcv
BY DEF kex_derive_keys, EndState

\* The client has read the reply.
LEMMA ClientKey ==
    ASSUME NEW e, NEW a, NEW s, NEW b, NEW b2, NEW na, NEW nb, NEW ga, NEW gb, NEW p, NEW due,
           Arrives(e, a, b, na, nb, ga, gb, p), TailOf(b, b2), p.type \in KexType,
           Stage(a) = "key", e = "client", KeyTaken(a, s, p)
    PROVE  Pair(e, kex_send_newkeys(kex_derive_keys(s, p.body), due), b2, na, nb, ga, gb)
<1> DEFINE x == p.body
           v == kex_derive_keys(s, x)
<1>1. /\ e \in End /\ Pair(e, a, b, na, nb, ga, gb) /\ b.out # <<>> /\ p = b.out[1]
      /\ a \in EndState /\ b \in EndState /\ s \in EndState
      /\ b.out \in Seq(PacketSet) /\ 1 \in 1 .. Len(b.out)
      /\ Counts(a) /\ Keys(b) /\ Wire(a, b, na, gb) /\ Replies(b.out, b.snd.key)
  BY HeadTyped DEF Arrives, Pair, Local, Agreed, KeyTaken
<1>2. Kex(a.out) = {} /\ p.type \in {"KEX_REPLY", "GEX_REPLY"} /\ Stage(b) = "over"
  BY <1>1, KeyRow DEF ReplyType
<1>3. x = b.snd.key /\ x \in Key \ {NoKey}
  <2>1. x = b.snd.key
    BY <1>1, <1>2 DEF Replies
  <2> QED BY <1>1, <1>2, <2>1, EndTyped DEF Keys
<1> HIDE DEF x
<1>4. /\ v \in EndState /\ v.newkeys = [snd |-> x, rcv |-> x]
      /\ v.phase = s.phase /\ v.kex_type = s.kex_type /\ v.auth = s.auth
      /\ v.flags = s.flags /\ v.rekeying = s.rekeying /\ v.done = s.done
      /\ v.kex_strict = s.kex_strict /\ v.outgoing = s.outgoing /\ v.out = s.out
      /\ v.snd = s.snd /\ v.rcv = s.rcv
  BY <1>1, <1>3, DeriveFacts
<1> HIDE DEF v
<1>5. Ready(e, a, v, b, b2, na, nb, ga, gb, p, x)
  <2>1. /\ v.phase = a.phase /\ v.kex_type = a.kex_type /\ v.auth = a.auth
        /\ v.flags = a.flags /\ v.rekeying = a.rekeying /\ v.done = a.done
        /\ v.kex_strict = a.kex_strict /\ v.outgoing = a.outgoing /\ v.out = a.out
        /\ v.snd = a.snd
        /\ v.rcv.key = a.rcv.key /\ v.rcv.comp = a.rcv.comp /\ v.rcv.seq = After(p)
    BY <1>4 DEF KeyTaken, Keeps
  <2>2. Wire(v, b, na, gb)
    BY <1>1, <2>1 DEF Wire
  <2>3. Replies(v.out, x) /\ Kex(v.out) = {}
    BY <1>2, <2>1, NoReplies
  <2>4. "INITIAL" \in a.flags => v.snd.seq <= 3
    BY <1>1, <2>1 DEF Counts
  <2> QED BY <1>2, <1>3, <1>4, <2>1, <2>2, <2>3, <2>4 DEF Ready, Keeps
<1> QED BY <1>5, ReadyKeeps DEF v, x

\* The wire of a server that the client waits for is empty.
LEMMA ServerWireEmpty ==
    ASSUME NEW e \in End, NEW a, NEW b, NEW na, NEW nb, NEW ga, NEW gb,
           Pair(e, a, b, na, nb, ga, gb), Stage(b) = "key", Stage(a) = "key", Kex(a.out) = {}
    PROVE  "INITIAL" \in a.flags => a.snd.seq <= 2
<1>1. /\ a \in EndState /\ b \in EndState /\ Wire(a, b, na, gb) /\ Counts(b)
      /\ First(a, b) /\ a.out \in Seq(PacketSet)
  BY EndTyped DEF Pair, Local
<1>2. Closed(b)
  BY StageInSet DEF Closed
<1>3. ASSUME NEW k \in 1 .. Len(a.out) PROVE FALSE
  <2>1. a.out[k].type \notin KexType
    BY <1>3 DEF Kex, Has
  <2>2. Passed(a.out, k, "NEWKEYS")
    BY <1>1, <1>2, <1>3, <2>1 DEF Wire, Quiet
  <2>3. PICK j \in 1 .. k - 1 : a.out[j].type = "NEWKEYS"
    BY <2>2 DEF Passed
  <2>4. j \in 1 .. Len(a.out) /\ "NEWKEYS" \in KexType
    BY <1>1, <1>3 DEF KexType
  <2>5. Has(a.out, "NEWKEYS")
    BY <2>3, <2>4 DEF Has
  <2>6. "NEWKEYS" \in Kex(a.out)
    BY <2>4, <2>5 DEF Kex
  <2> QED BY <2>6
<1>4. 1 \notin 1 .. Len(a.out)
  BY <1>3
<1>5. a.snd.seq = b.rcv.seq
  BY <1>1, <1>4 DEF Wire, SameCounts, SeqAt
<1>6. "INITIAL" \in a.flags => "INITIAL" \in b.flags
  BY <1>1 DEF First
<1> QED BY <1>1, <1>5, <1>6 DEF Counts

\* The server has read the request and replies.
LEMMA ServerKey ==
    ASSUME NEW e, NEW a, NEW s, NEW b, NEW b2, NEW na, NEW nb, NEW ga, NEW gb, NEW p, NEW due,
           Arrives(e, a, b, na, nb, ga, gb, p), TailOf(b, b2), p.type \in KexType,
           Stage(a) = "key", e = "server", KeyTaken(a, s, p),
           NEW y, y = ReplyType(a.kex_type)
    PROVE  Pair(e, kex_send_newkeys(kex_derive_keys(
                       ssh_packet_send2_wrapped(s, Msg(y, p.body)), p.body), due),
                b2, na, nb, ga, gb)
<1> DEFINE x == p.body
           m == Msg(y, x)
           u == ssh_packet_send2_wrapped(s, m)
           v == kex_derive_keys(u, x)
<1>1. /\ e \in End /\ Pair(e, a, b, na, nb, ga, gb) /\ b.out # <<>> /\ p = b.out[1]
      /\ a \in EndState /\ b \in EndState /\ s \in EndState /\ na \in Nat /\ gb \in Nat
      /\ b.out \in Seq(PacketSet) /\ 1 \in 1 .. Len(b.out) /\ x \in Nat
      /\ Counts(a) /\ Keys(b) /\ Wire(a, b, na, gb) /\ Wire(b, a, nb, ga)
  BY HeadTyped DEF Arrives, Pair, Local, Agreed, KeyTaken
<1>2. Kex(a.out) = {} /\ p.type \in {"KEX_INIT", "GEX_INIT"} /\ Stage(b) = "key"
  BY <1>1, KeyRow
<1>3. x \in Key \ {NoKey}
  BY <1>1, <1>2 DEF Wire, Bodies
<1>4. m \in MsgSet /\ m.type = y /\ m.body = x
  <2>1. y \in Type
    BY DEF ReplyType, Type, KexType
  <2> QED BY <1>1, <2>1, MsgFacts, Zenon
<1>5. y \in {"KEX_REPLY", "GEX_REPLY"}
  BY DEF ReplyType
<1>6. "INITIAL" \in a.flags => a.snd.seq <= 2
  BY <1>1, <1>2, ServerWireEmpty
<1>7. a.snd.seq \in Seq32 /\ a.snd.seq \in Nat
  BY <1>1, EndTyped, TransportAssumption DEF Seq32
<1>8. /\ s.phase = a.phase /\ s.kex_type = a.kex_type /\ s.auth = a.auth
      /\ s.flags = a.flags /\ s.rekeying = a.rekeying /\ s.done = a.done
      /\ s.kex_strict = a.kex_strict /\ s.outgoing = a.outgoing /\ s.out = a.out
      /\ s.snd = a.snd
      /\ s.rcv.key = a.rcv.key /\ s.rcv.comp = a.rcv.comp /\ s.rcv.seq = After(p)
  BY DEF KeyTaken, Keeps
<1> HIDE DEF x, m
<1>9. u \in EndState /\ ButWire(s, u) /\ Sends(s, u, m)
  BY <1>1, <1>4, <1>5, <1>6, <1>7, <1>8, SendFacts
<1> HIDE DEF u
<1>10. /\ u.phase = a.phase /\ u.kex_type = a.kex_type /\ u.auth = a.auth
       /\ u.flags = a.flags /\ u.rekeying = a.rekeying /\ u.done = a.done
       /\ u.kex_strict = a.kex_strict /\ u.outgoing = a.outgoing
       /\ u.snd.comp = a.snd.comp /\ u.snd.seq = (a.snd.seq + 1) % SeqMod
       /\ u.rcv.key = a.rcv.key /\ u.rcv.comp = a.rcv.comp /\ u.rcv.seq = After(p)
  BY <1>8, <1>9 DEF ButWire, Sends
<1>11. KexSend(s, u, b, na, gb, m, x)
  <2>1. Wire(s, b, na, gb)
    BY <1>1, <1>8 DEF Wire
  <2>2. Compressed(s, b)
    BY <1>1, <1>8, SendsCompressed DEF Compressed
  <2>3. BodyFits(m, b) /\ Behind(Kex(s.out), m.type)
    BY <1>2, <1>4, <1>5, <1>8 DEF BodyFits, Behind
  <2>4. Replies(s.out, x)
    BY <1>2, <1>8, NoReplies
  <2>5. y \in KexType /\ y # "NEWKEYS"
    BY <1>5 DEF KexType
  <2> QED BY <1>1, <1>4, <1>8, <1>9, <1>10, <2>1, <2>2, <2>3, <2>4, <2>5 DEF KexSend
<1>12. /\ Wire(u, b, na, gb) /\ Kex(u.out) = {y} /\ Replies(u.out, x)
       /\ Has(u.out, "SUCCESS") <=> Has(a.out, "SUCCESS")
  <2>1. /\ Wire(u, b, na, gb) /\ Kex(u.out) = Kex(s.out) \union {m.type}
        /\ Follows(s.out, u.out, m.type) /\ Replies(u.out, x)
    BY <1>11, SendsKex
  <2> QED BY <1>2, <1>4, <1>5, <1>8, <2>1 DEF Follows
<1>13. "INITIAL" \in a.flags => u.snd.seq <= 3
  <2> SUFFICES ASSUME "INITIAL" \in a.flags PROVE u.snd.seq <= 3
    OBVIOUS
  <2>1. (a.snd.seq + 1) % SeqMod = a.snd.seq + 1
    BY <1>6, <1>7, SmallStep
  <2> QED BY <1>6, <1>7, <1>10, <2>1
<1>14. /\ v \in EndState /\ v.newkeys = [snd |-> x, rcv |-> x]
       /\ v.phase = u.phase /\ v.kex_type = u.kex_type /\ v.auth = u.auth
       /\ v.flags = u.flags /\ v.rekeying = u.rekeying /\ v.done = u.done
       /\ v.kex_strict = u.kex_strict /\ v.outgoing = u.outgoing /\ v.out = u.out
       /\ v.snd = u.snd /\ v.rcv = u.rcv
  BY <1>3, <1>9, DeriveFacts
<1> HIDE DEF v
<1>15. Ready(e, a, v, b, b2, na, nb, ga, gb, p, x)
  <2>1. Wire(v, b, na, gb)
    BY <1>12, <1>14 DEF Wire
  <2>2. p.type # "NEWKEYS" /\ e # "client"
    BY <1>2
  <2> QED BY <1>3, <1>10, <1>12, <1>13, <1>14, <2>1, <2>2 DEF Ready, Keeps
<1> QED BY <1>15, ReadyKeeps DEF v, u, m, x

\* An end that waits for the key reads it and goes over to the new keys.
LEMMA KeyReads ==
    ASSUME NEW e, NEW a, NEW b, NEW b2, NEW na, NEW nb, NEW ga, NEW gb, NEW p, NEW due,
           Arrives(e, a, b, na, nb, ga, gb, p), TailOf(b, b2),
           p.type \in KexType, Stage(a) = "key"
    PROVE  Pair(e, Handled(e, a, p, due), b2, na, nb, ga, gb)
<1> DEFINE z == Counted(a, p)
           s == Taken(z, p)
           y == ReplyType(a.kex_type)
<1>1. /\ e \in End /\ Pair(e, a, b, na, nb, ga, gb) /\ b.out # <<>> /\ p = b.out[1]
      /\ a \in EndState /\ b \in EndState /\ p \in PacketSet /\ Handlers(e, a)
  BY HeadTyped DEF Arrives, Pair, Local
<1>2. Handled(e, a, p, due) = ssh_dispatch_run(e, z, p, due)
  BY KexHandled
<1>3. /\ z \in EndState /\ z.rcv.key = a.rcv.key /\ z.rcv.comp = a.rcv.comp
      /\ z.rcv.seq = After(p) /\ z.snd = a.snd /\ z.out = a.out
      /\ z.phase = a.phase /\ z.kex_type = a.kex_type /\ z.auth = a.auth
      /\ z.rekeying = a.rekeying /\ z.done = a.done /\ z.flags = a.flags
      /\ z.kex_strict = a.kex_strict /\ z.disp = a.disp /\ z.err = "none"
      /\ z.outgoing = a.outgoing
  BY <1>1, CountedFacts, EndTyped
<1> HIDE DEF z
<1>4. /\ a.kex_type \in {"gen", "gex"}
      /\ e = "client" => p.type = ReplyType(a.kex_type)
      /\ e = "server" => p.type = IF a.kex_type = "gen" THEN "KEX_INIT" ELSE "GEX_INIT"
  BY <1>1, KeyRow
<1>5. z.disp = {p.type}
  BY <1>1, <1>3, <1>4 DEF Handlers, KeyMessage, End, ReplyType
<1>6. /\ s \in EndState
      /\ s.phase = z.phase /\ s.kex_type = z.kex_type /\ s.auth = z.auth
      /\ s.flags = z.flags /\ s.rekeying = z.rekeying /\ s.done = z.done
      /\ s.kex_strict = z.kex_strict
      /\ s.outgoing = z.outgoing /\ s.out = z.out /\ s.snd = z.snd /\ s.rcv = z.rcv
  BY <1>3 DEF Taken, EndState
<1> HIDE DEF s
<1>7. KeyTaken(a, s, p)
  BY <1>3, <1>6 DEF KeyTaken, Keeps
<1>8. CASE e = "client"
  <2>1. p.type \in {"KEX_REPLY", "GEX_REPLY"}
    BY <1>4, <1>8 DEF ReplyType
  <2>2. ssh_dispatch_run(e, z, p, due) = kex_send_newkeys(kex_derive_keys(s, p.body), due)
    BY <1>3, <1>5, <2>1 DEF ssh_dispatch_run, input_kex_gen_reply, input_kex_dh_gex_reply, s
  <2> QED BY <1>2, <1>7, <1>8, <2>2, ClientKey
<1>9. CASE e = "server"
  <2>1. /\ p.type \in {"KEX_INIT", "GEX_INIT"}
        /\ p.type = "KEX_INIT" => y = "KEX_REPLY"
        /\ p.type = "GEX_INIT" => y = "GEX_REPLY"
    BY <1>4, <1>9 DEF ReplyType
  <2> HIDE DEF y
  <2>2. ssh_dispatch_run(e, z, p, due) = Reply(z, p, y, due)
    BY <1>3, <1>5, <2>1 DEF ssh_dispatch_run, input_kex_gen_init, input_kex_dh_gex_init
  <2>3. Reply(z, p, y, due) = kex_send_newkeys(kex_derive_keys(
                                  ssh_packet_send2_wrapped(s, Msg(y, p.body)), p.body), due)
    BY DEF Reply, s
  <2>4. y = ReplyType(a.kex_type)
    BY DEF y
  <2> QED BY <1>2, <1>7, <1>9, <2>2, <2>3, <2>4, ServerKey
<1> QED BY <1>1, <1>8, <1>9 DEF End

\* An end that has sent NEWKEYS reads NEWKEYS.
LEMMA OverReads ==
    ASSUME NEW e, NEW a, NEW b, NEW b2, NEW na, NEW nb, NEW ga, NEW gb, NEW p, NEW due,
           Arrives(e, a, b, na, nb, ga, gb, p), TailOf(b, b2),
           p.type \in KexType, Stage(a) = "over"
    PROVE  Pair(e, Handled(e, a, p, due), b2, na, nb, ga, gb)
<1> DEFINE z == Counted(a, p)
           r == [z EXCEPT !.disp = (@ \ {"NEWKEYS"}) \union {"KEXINIT"}]
           d == [key |-> r.newkeys["rcv"], seq |-> r["rcv"].seq, used |-> FALSE, comp |-> r.auth]
           u == [r EXCEPT !["rcv"] = d, !.newkeys["rcv"] = NoKey]
           t == [u EXCEPT !.done = TRUE, !.flags = {}]
<1>1. /\ e \in End /\ Pair(e, a, b, na, nb, ga, gb) /\ b.out # <<>> /\ p = b.out[1]
      /\ a \in EndState /\ b \in EndState /\ p \in PacketSet /\ Handlers(e, a) /\ Keys(a)
      /\ InOrder(b.out)
  BY HeadTyped DEF Arrives, Pair, Local, Wire
<1>2. Handled(e, a, p, due) = ssh_dispatch_run(e, z, p, due)
  BY KexHandled
<1>3. /\ z \in EndState /\ z.rcv.key = a.rcv.key /\ z.rcv.comp = a.rcv.comp
      /\ z.rcv.seq = After(p) /\ z.snd = a.snd /\ z.out = a.out
      /\ z.phase = a.phase /\ z.kex_type = a.kex_type /\ z.auth = a.auth
      /\ z.rekeying = a.rekeying /\ z.done = a.done /\ z.flags = a.flags
      /\ z.kex_strict = a.kex_strict /\ z.disp = a.disp /\ z.err = "none"
      /\ z.outgoing = a.outgoing /\ z.newkeys = a.newkeys
  BY <1>1, CountedFacts, EndTyped, SMTT(30)
<1> HIDE DEF z
<1>4. p.type = "NEWKEYS"
  <2> DEFINE K == Kex(a.out)
             L == Kex(b.out)
             y == b.out[1].type
             sb == Stage(b)
             mm == a.kex_type
  <2>1. Lowest(y, L)
    BY <1>1, HeadTyped, HeadLowest
  <2>2. RowAt(e, mm, "over", sb, K, L) /\ e \in End
    BY <1>1, PairRow DEF Pair
  <2> HIDE DEF K, L, y, sb, mm
  <2>3. y = "NEWKEYS"
    BY <2>1, <2>2, RowReadsNewkeys, Zenon
  <2> QED BY <1>1, <2>3 DEF y
<1>5. z.disp = {"NEWKEYS"}
  BY <1>1, <1>3 DEF Handlers
<1>6. z.rcv.seq = 0
  BY <1>3, <1>4 DEF After
<1>7. /\ a.newkeys = [snd |-> NoKey, rcv |-> a.snd.key] /\ a.snd.key # NoKey
      /\ a.snd.key \in Key /\ NoKey \in Key
  BY <1>1, EndTyped, TransportAssumption DEF Keys, Key, NoKey
<1>8. /\ r \in EndState /\ r.disp = {"KEXINIT"} /\ r.newkeys = z.newkeys /\ r.rcv = z.rcv
      /\ r.phase = z.phase /\ r.kex_type = z.kex_type /\ r.auth = z.auth
      /\ r.flags = z.flags /\ r.rekeying = z.rekeying /\ r.done = z.done
      /\ r.kex_strict = z.kex_strict
      /\ r.outgoing = z.outgoing /\ r.out = z.out /\ r.snd = z.snd
  BY <1>3, <1>5 DEF EndState, KexType
<1>9. ssh_dispatch_run(e, z, p, due) = kex_input_newkeys(z)
  BY <1>3, <1>4, <1>5 DEF ssh_dispatch_run
<1>10. ssh_set_newkeys(r, "rcv") = u
  BY <1>3, <1>7, <1>8 DEF ssh_set_newkeys
<1>11. kex_input_newkeys(z) = IF u.err # "none" THEN u ELSE t
  BY <1>10 DEF kex_input_newkeys
<1> HIDE DEF r
<1>12. d \in Direction /\ d.key = a.newkeys.rcv /\ d.seq = 0 /\ d.comp = a.auth
  <2>1. /\ r.newkeys["rcv"] = a.newkeys.rcv /\ r["rcv"].seq = 0 /\ r.auth = a.auth
        /\ a.newkeys.rcv \in Key /\ 0 \in Seq32 /\ a.auth \in BOOLEAN
    BY <1>1, <1>3, <1>6, <1>7, <1>8, EndTyped, TransportAssumption DEF Seq32
  <2> QED BY <2>1 DEF Direction
<1> HIDE DEF d
<1>13. /\ u \in EndState /\ u.rcv = d /\ u.newkeys = [snd |-> NoKey, rcv |-> NoKey]
       /\ u.phase = r.phase /\ u.kex_type = r.kex_type /\ u.auth = r.auth
       /\ u.flags = r.flags /\ u.rekeying = r.rekeying /\ u.done = r.done
       /\ u.kex_strict = r.kex_strict /\ u.disp = r.disp
       /\ u.outgoing = r.outgoing /\ u.out = r.out /\ u.snd = r.snd
  <2>1. /\ r \in EndState /\ d \in Direction /\ NoKey \in Key
        /\ r.newkeys \in [snd : Key, rcv : Key] /\ r.newkeys.snd = NoKey
    BY <1>3, <1>7, <1>8, <1>12, EndTyped
  <2>2. u \in EndState /\ u.rcv = d /\ u.newkeys = [snd |-> NoKey, rcv |-> NoKey]
    BY <2>1 DEF EndState
  <2>3. /\ u.phase = r.phase /\ u.kex_type = r.kex_type /\ u.auth = r.auth
        /\ u.flags = r.flags /\ u.rekeying = r.rekeying /\ u.done = r.done
        /\ u.kex_strict = r.kex_strict /\ u.disp = r.disp
        /\ u.outgoing = r.outgoing /\ u.out = r.out /\ u.snd = r.snd
    BY <2>1 DEF EndState
  <2> QED BY <2>2, <2>3
<1>14. u.err = "none"
  BY <1>13, EndTyped
<1> HIDE DEF u
<1>15. /\ t \in EndState /\ t.done = TRUE /\ t.flags = {} /\ t.rcv = u.rcv
       /\ t.newkeys = u.newkeys
       /\ t.phase = u.phase /\ t.kex_type = u.kex_type /\ t.auth = u.auth
       /\ t.rekeying = u.rekeying /\ t.disp = u.disp
       /\ t.kex_strict = u.kex_strict
       /\ t.outgoing = u.outgoing /\ t.out = u.out /\ t.snd = u.snd
  BY <1>13 DEF EndState
<1> HIDE DEF t
<1>16. Done(e, a, t, b, b2, na, nb, ga, gb)
  BY <1>1, <1>3, <1>8, <1>12, <1>13, <1>15 DEF Done, Keeps
<1>17. Pair(e, t, b2, na, nb, ga, gb)
  BY <1>16, PairDone
<1> QED BY <1>2, <1>9, <1>11, <1>14, <1>17

\* End e reads the next packet of its peer and handles it.
LEMMA ReadKeeps ==
    ASSUME NEW e, NEW a, NEW b, NEW b2, NEW na, NEW nb, NEW ga, NEW gb, NEW p, NEW due,
           Arrives(e, a, b, na, nb, ga, gb, p), TailOf(b, b2), Reads(a)
    PROVE  /\ p.type \notin DataType => Pair(e, Handled(e, a, p, due), b2, na, nb, ga, gb)
           /\ p.type \in DataType =>
                 /\ Pair(e, Handled(e, a, p, due), b2, na, nb, p.body, gb)
                 /\ p.body = ga + 1 /\ p.body <= nb
<1>1. /\ e \in End /\ Pair(e, a, b, na, nb, ga, gb) /\ p = b.out[1] /\ ga \in Nat
  BY DEF Arrives, Pair
<1>2. CASE p.type \in KexType
  <2>1. p.type \notin DataType
    BY <1>2 DEF KexType, DataType
  <2>2. Stage(a) \in {"rest", "sent", "ask", "key", "over"}
    BY StageInSet
  <2>3. Pair(e, Handled(e, a, p, due), b2, na, nb, ga, gb)
    BY <1>2, <2>2, RestReads, SentReads, AskReads, KeyReads, OverReads
  <2> QED BY <2>1, <2>3
<1>3. CASE p.type \notin KexType /\ p.type # "SUCCESS"
  <2> DEFINE g2 == IF p.type \in DataType THEN ga + 1 ELSE ga
  <2>1. g2 = IF b.out[1].type \in DataType THEN ga + 1 ELSE ga
    BY <1>1
  <2> HIDE DEF g2
  <2>2. /\ Pair(e, Handled(e, a, b.out[1], due), b2, na, nb, g2, gb) /\ g2 <= nb
        /\ b.out[1].type \in DataType => b.out[1].body = ga + 1
    BY <1>1, <1>3, <2>1, OtherRead
  <2> QED BY <1>1, <2>1, <2>2
<1>4. CASE p.type = "SUCCESS"
  <2> DEFINE g2 == ga + 1
  <2>1. g2 = ga + 1 /\ p.type \in DataType
    BY <1>4 DEF DataType
  <2> HIDE DEF g2
  <2>2. /\ Pair(e, Handled(e, a, b.out[1], due), b2, na, nb, g2, gb) /\ g2 <= nb
        /\ b.out[1].body = ga + 1
    BY <1>1, <1>4, <2>1, SuccessRead
  <2> QED BY <1>1, <2>1, <2>2
<1> QED BY <1>2, <1>3, <1>4

-----------------------------------------------------------------------------
(* The actions.                                                            *)

\* The invariant, from the side of end e.
LEMMA JointPair ==
    ASSUME NEW S, NEW n, NEW g, NEW e \in End, Joint(S, n, g)
    PROVE  /\ S \in [End -> EndState]
           /\ n \in [End -> 0 .. MaxData] /\ g \in [End -> 0 .. MaxData]
           /\ Pair(e, S[e], S[Peer(e)], n[e], n[Peer(e)], g[e], g[Peer(e)])
<1>1. /\ S \in [End -> EndState]
      /\ n \in [End -> 0 .. MaxData] /\ g \in [End -> 0 .. MaxData]
  BY DEF Joint
<1> QED BY <1>1, JointIsPair

\* An end changes its own state.
LEMMA EndMoves ==
    ASSUME Inv, NEW e \in End, NEW t, NEW n2,
           Pair(e, t, st[Peer(e)], n2, sent[Peer(e)], got[e], got[Peer(e)]),
           Becomes(e, t), n2 \in 0 .. MaxData,
           sent' = [sent EXCEPT ![e] = n2], got' = got
    PROVE  Inv'
<1>1. /\ st \in [End -> EndState] /\ sent \in [End -> 0 .. MaxData]
      /\ got \in [End -> 0 .. MaxData]
  BY DEF Inv, Joint
<1>2. t \in EndState
  BY DEF Pair
<1>3. Peer(e) \in End /\ Peer(e) # e
  BY PeerFacts
<1>4. /\ st' \in [End -> EndState] /\ st'[e] = t /\ st'[Peer(e)] = st[Peer(e)]
      /\ sent' \in [End -> 0 .. MaxData] /\ sent'[e] = n2 /\ sent'[Peer(e)] = sent[Peer(e)]
      /\ got' \in [End -> 0 .. MaxData]
  BY <1>1, <1>2, <1>3 DEF Becomes
<1>5. Pair(e, st'[e], st'[Peer(e)], sent'[e], sent'[Peer(e)], got'[e], got'[Peer(e)])
  BY <1>4
<1>6. Joint(st', sent', got')
  BY <1>4, <1>5, JointIsPair
<1> QED BY <1>6 DEF Inv

\* The same when no message is handed over.
LEMMA EndChanges ==
    ASSUME Inv, NEW e \in End, NEW t,
           Pair(e, t, st[Peer(e)], sent[e], sent[Peer(e)], got[e], got[Peer(e)]),
           Becomes(e, t), sent' = sent, got' = got
    PROVE  Inv'
<1>1. sent \in [End -> 0 .. MaxData]
  BY DEF Inv, Joint
<1>2. sent' = [sent EXCEPT ![e] = sent[e]] /\ sent[e] \in 0 .. MaxData
  BY <1>1
<1> QED BY <1>2, EndMoves

\* The invariant of the present state, from the side of end e.
LEMMA InvAtEnd ==
    ASSUME Inv, NEW e \in End
    PROVE  Pair(e, st[e], st[Peer(e)], sent[e], sent[Peer(e)], got[e], got[Peer(e)])
BY JointPair DEF Inv

\* kex_setup keeps the invariant.
LEMMA SetupStep == ASSUME Inv, NEW e \in End, kex_setup(e) PROVE Inv'
BY InvAtEnd, SetupKeeps, EndChanges DEF kex_setup

\* BeginAuth keeps the invariant.
LEMMA BeginAuthStep == ASSUME Inv, NEW e \in End, BeginAuth(e) PROVE Inv'
BY InvAtEnd, BeginAuthKeeps, EndChanges DEF BeginAuth

\* init_dispatch keeps the invariant.
LEMMA DispatchStep == ASSUME Inv, NEW e \in End, init_dispatch(e) PROVE Inv'
BY InvAtEnd, DispatchKeeps, EndChanges DEF init_dispatch

\* RekeyTimeout keeps the invariant.
LEMMA TimeoutStep == ASSUME Inv, NEW e \in End, RekeyTimeout(e) PROVE Inv'
<1>1. st[e].auth /\ ~ssh_packet_is_rekeying(st[e])
  BY DEF RekeyTimeout, ssh_packet_need_rekeying
<1>2. ssh_packet_check_rekey(st[e], TRUE) = kex_start_rekex(st[e])
  BY DEF RekeyTimeout, ssh_packet_check_rekey
<1>3. Becomes(e, kex_start_rekex(st[e])) /\ sent' = sent /\ got' = got
  BY <1>2 DEF RekeyTimeout
<1> QED BY <1>1, <1>3, InvAtEnd, RekexKeeps, EndChanges

\* RekeyRequest keeps the invariant.
LEMMA RequestStep == ASSUME Inv, RekeyRequest PROVE Inv'
<1> DEFINE e == "client"
<1>1. e \in End
  BY DEF End
<1>2. /\ ~ssh_packet_is_rekeying(st[e]) /\ st[e].phase = "loop"
      /\ Becomes(e, kex_start_rekex(st[e])) /\ sent' = sent /\ got' = got
  BY DEF RekeyRequest
<1> HIDE DEF e
<1>3. Pair(e, st[e], st[Peer(e)], sent[e], sent[Peer(e)], got[e], got[Peer(e)])
  BY <1>1, InvAtEnd
<1>4. st[e].auth
  BY <1>2, <1>3 DEF Pair, Local, Flags
<1> QED BY <1>1, <1>2, <1>3, <1>4, RekexKeeps, EndChanges

\* Send keeps the invariant.
LEMMA SendStep == ASSUME Inv, NEW e \in End, NEW due, Send(e, due) PROVE Inv'
<1> DEFINE n2 == sent[e] + 1
           t == ssh_packet_send2(st[e], Msg("DATA", n2), due)
<1>1. /\ MaySend(e) /\ Becomes(e, t)
      /\ sent' = [sent EXCEPT ![e] = n2] /\ got' = got
  BY DEF Send
<1>2. Pair(e, st[e], st[Peer(e)], sent[e], sent[Peer(e)], got[e], got[Peer(e)])
  BY InvAtEnd
<1>3. n2 = sent[e] + 1 /\ n2 \in 0 .. MaxData
  <2>1. sent[e] \in 0 .. MaxData
    BY DEF Inv, Joint
  <2> QED BY <1>1, <2>1, TransportAssumption DEF MaySend
<1>4. st[e].phase \in {"auth", "start", "loop"}
  BY <1>1 DEF MaySend
<1>5. Turn(e, st[e], sent[e], got[e])
  BY <1>1, <1>2 DEF MaySend, Turn, Pair, Local, Flags
<1> HIDE DEF n2
<1>6. Pair(e, t, st[Peer(e)], n2, sent[Peer(e)], got[e], got[Peer(e)])
  BY <1>2, <1>3, <1>4, <1>5, SendKeeps
<1> HIDE DEF t
<1> QED BY <1>1, <1>3, <1>6, EndMoves

\* userauth_finish keeps the invariant.
LEMMA FinishStep == ASSUME Inv, userauth_finish PROVE Inv'
<1> DEFINE e == "server"
           n2 == sent[e] + 1
           t == [ssh_packet_send2(st[e], Msg("SUCCESS", n2), FALSE) EXCEPT !.phase = "start"]
<1>1. /\ MaySend(e) /\ st[e].phase = "auth" /\ Becomes(e, t)
      /\ sent' = [sent EXCEPT ![e] = n2] /\ got' = got
  BY DEF userauth_finish
<1>2. e \in End
  BY DEF End
<1>3. Pair(e, st[e], st[Peer(e)], sent[e], sent[Peer(e)], got[e], got[Peer(e)])
  BY <1>2, InvAtEnd
<1>4. n2 = sent[e] + 1 /\ n2 \in 0 .. MaxData
  <2>1. sent[e] \in 0 .. MaxData
    BY <1>2 DEF Inv, Joint
  <2> QED BY <1>1, <2>1, TransportAssumption DEF MaySend
<1>5. got[e] > sent[e]
  BY <1>1 DEF MaySend
<1> HIDE DEF n2
<1>6. Pair(e, t, st[Peer(e)], n2, sent[Peer(e)], got[e], got[Peer(e)])
  BY <1>1, <1>3, <1>4, <1>5, FinishKeeps
<1> HIDE DEF t, e
<1> QED BY <1>1, <1>2, <1>4, <1>6, EndMoves

\* The peer of a reader loses its first packet and nothing else.
LEMMA TailFrame ==
    ASSUME NEW b \in EndState, b.out # <<>>
    PROVE  TailOf(b, [b EXCEPT !.out = Tail(@)])
<1> DEFINE w == Tail(b.out)
           t == [b EXCEPT !.out = w]
<1>1. w \in Seq(PacketSet)
  <2>1. b.out \in Seq(PacketSet)
    BY EndTyped
  <2> QED BY <2>1
<1>2. t = [b EXCEPT !.out = Tail(@)]
  OBVIOUS
<1> HIDE DEF w
<1>3. /\ t \in EndState /\ t.out = w /\ t.snd = b.snd
      /\ t.phase = b.phase /\ t.kex_type = b.kex_type /\ t.auth = b.auth
      /\ t.rekeying = b.rekeying /\ t.done = b.done /\ t.flags = b.flags
      /\ t.kex_strict = b.kex_strict /\ t.disp = b.disp /\ t.exchange = b.exchange
      /\ t.newkeys = b.newkeys /\ t.rcv = b.rcv /\ t.outgoing = b.outgoing
  BY <1>1 DEF EndState
<1> HIDE DEF t
<1>4. TailOf(b, t)
  BY <1>3 DEF TailOf, ButWire, w
<1> QED BY <1>2, <1>4

\* What a read does: the message is handled, and counted when it is one of the
\* layers above, the next of the peer.
LEMMA ReadFacts ==
    ASSUME Inv, NEW e \in End, NEW due, Read(e, due)
    PROVE  /\ Inv' /\ sent' = sent
           /\ \/ got' = got
              \/ got[e] < sent[Peer(e)] /\ got' = [got EXCEPT ![e] = got[e] + 1]
<1> DEFINE o == Peer(e)
           a == st[e]
           b == st[o]
           p == b.out[1]
           t == Handled(e, a, p, due)
           b2 == [b EXCEPT !.out = Tail(@)]
           take == p.type \in DataType
<1>1. Pair(e, a, b, sent[e], sent[o], got[e], got[o])
  BY InvAtEnd
<1>2. o \in End /\ o # e
  BY PeerFacts
<1>3. /\ st \in [End -> EndState] /\ sent \in [End -> 0 .. MaxData]
      /\ got \in [End -> 0 .. MaxData]
  BY DEF Inv, Joint
<1>4. b \in EndState /\ a \in EndState /\ b.out # <<>> /\ Reads(a)
  BY <1>2, <1>3 DEF Read, CanRead
<1>5. Head(b.out) = p
  <2>1. b.out \in Seq(PacketSet)
    BY <1>4, EndTyped
  <2> QED BY <1>4, <2>1
<1>6. /\ st' = [st EXCEPT ![e] = t, ![o].out = Tail(@)]
      /\ got' = IF take /\ t.err = "none" THEN [got EXCEPT ![e] = p.body] ELSE got
      /\ sent' = sent
  BY <1>5, Zenon DEF Read, Handled, DataType
<1>7. Arrives(e, a, b, sent[e], sent[o], got[e], got[o], p)
  BY <1>1, <1>4 DEF Arrives
<1>8. TailOf(b, b2)
  BY <1>4, TailFrame
<1>a. t = Handled(e, a, p, due) /\ (take <=> p.type \in DataType)
  OBVIOUS
<1> HIDE DEF b2, a, b, o, p, t, take
<1>9. /\ ~take => Pair(e, t, b2, sent[e], sent[o], got[e], got[o])
      /\ take => /\ Pair(e, t, b2, sent[e], sent[o], p.body, got[o])
                 /\ p.body = got[e] + 1 /\ p.body <= sent[o]
  BY <1>4, <1>7, <1>8, <1>a, ReadKeeps
<1>10. t \in EndState /\ b2 \in EndState
  BY <1>8, <1>9 DEF Pair, TailOf
<1>11. t.err = "none"
  BY <1>10 DEF EndState
<1>12. st' \in [End -> EndState] /\ st'[e] = t /\ st'[o] = b2
  <2>1. st' = [st EXCEPT ![e] = t, ![o] = b2]
    BY <1>2, <1>3, <1>6 DEF b2, b
  <2> QED BY <1>2, <1>3, <1>10, <2>1
<1>13. CASE take
  <2>1. got' = [got EXCEPT ![e] = p.body]
    BY <1>6, <1>11, <1>13
  <2>2. sent[o] \in 0 .. MaxData /\ got[e] \in 0 .. MaxData
    BY <1>2, <1>3
  <2>3. p.body \in 0 .. MaxData /\ got[e] < sent[o]
    BY <1>9, <1>13, <2>2, TransportAssumption
  <2>4. got' \in [End -> 0 .. MaxData] /\ got'[e] = p.body /\ got'[o] = got[o]
    BY <1>2, <1>3, <2>1, <2>3
  <2>5. Pair(e, st'[e], st'[o], sent'[e], sent'[o], got'[e], got'[o])
    BY <1>6, <1>9, <1>12, <1>13, <2>4
  <2>6. Joint(st', sent', got')
    <3>1. Pair(e, st'[e], st'[Peer(e)], sent'[e], sent'[Peer(e)], got'[e], got'[Peer(e)])
      BY <2>5 DEF o
    <3>2. sent' \in [End -> 0 .. MaxData]
      BY <1>3, <1>6
    <3> QED BY <1>12, <2>4, <3>1, <3>2, JointIsPair
  <2> QED BY <1>6, <1>9, <1>13, <2>1, <2>3, <2>6 DEF Inv, o
<1>14. CASE ~take
  <2>1. got' = got
    BY <1>6, <1>14
  <2>2. Pair(e, st'[e], st'[o], sent'[e], sent'[o], got'[e], got'[o])
    BY <1>6, <1>9, <1>12, <1>14, <2>1
  <2>3. Joint(st', sent', got')
    <3>1. Pair(e, st'[e], st'[Peer(e)], sent'[e], sent'[Peer(e)], got'[e], got'[Peer(e)])
      BY <2>2 DEF o
    <3>2. sent' \in [End -> 0 .. MaxData] /\ got' \in [End -> 0 .. MaxData]
      BY <1>3, <1>6, <2>1
    <3> QED BY <1>12, <3>1, <3>2, JointIsPair
  <2> QED BY <1>6, <2>1, <2>3 DEF Inv
<1> QED BY <1>13, <1>14

-----------------------------------------------------------------------------
(* The first state.                                                        *)

\* An end before its first exchange.
Fresh(s, m) ==
    /\ s \in EndState /\ s.kex_type = m /\ s.phase = "new" /\ s.auth = FALSE
    /\ s.rekeying = TRUE /\ s.done = FALSE /\ s.kex_strict = FALSE
    /\ s.flags = {"INITIAL"}
    /\ s.newkeys = [snd |-> NoKey, rcv |-> NoKey]
    /\ s.snd = NewDirection /\ s.rcv = NewDirection
    /\ s.outgoing = <<>> /\ s.out = <<>>

\* Both ends start fresh.
LEMMA FreshEnd ==
    ASSUME NEW m \in Methods
    PROVE  Fresh([NewEnd EXCEPT !.kex_type = m], m)
<1> DEFINE S == [phase : {"new"}, kex_type : {"gen", "gex"},
                 auth : {FALSE}, rekeying : {TRUE}, done : {FALSE},
                 flags : {{"INITIAL"}}, kex_strict : {FALSE}, disp : {{}},
                 exchange : {NoKey}, newkeys : {[snd |-> NoKey, rcv |-> NoKey]},
                 snd : {NewDirection}, rcv : {NewDirection},
                 outgoing : {<<>>}, out : {<<>>}, err : {"none"}]
           t == [NewEnd EXCEPT !.kex_type = m]
<1>1. NewEnd \in S
  BY DEF NewEnd
<1>2. m \in {"gen", "gex"}
  BY TransportAssumption
<1>3. /\ t \in S /\ t.kex_type = m
  BY <1>1, <1>2
<1> HIDE DEF t
<1>4. NoKey \in Key /\ NewDirection \in Direction
  BY TransportAssumption DEF NoKey, Key, NewDirection, Direction, Seq32
<1>5. [snd |-> NoKey, rcv |-> NoKey] \in [snd : Key, rcv : Key]
  BY <1>4
<1>a. /\ <<>> \in Seq(MsgSet) /\ <<>> \in Seq(PacketSet) /\ {} \in SUBSET KexType
      /\ {"INITIAL"} \in SUBSET {"INITIAL", "INIT_SENT", "INIT_RECVD"}
  OBVIOUS
<1>6. t \in EndState
  BY <1>2, <1>3, <1>4, <1>5, <1>a DEF EndState
<1>7. Fresh(t, m)
  BY <1>3, <1>6 DEF Fresh
<1> QED BY <1>7 DEF t

\* A fresh end has its own invariant.
LEMMA FreshLocal ==
    ASSUME NEW e \in End, NEW s, NEW m, Fresh(s, m)
    PROVE  Local(e, s, 0, 0)
<1>1. Stage(s) = "rest" /\ Len(s.outgoing) = 0
  BY DEF Fresh, Stage
<1>2. Flags(s) /\ Handlers(e, s)
  BY <1>1 DEF Fresh, Flags, Handlers
<1>a. /\ s.snd.key = NoKey /\ s.rcv.key = NoKey /\ s.snd.seq = 0 /\ s.rcv.seq = 0
      /\ s.snd.comp = FALSE /\ s.rcv.comp = FALSE
  BY DEF Fresh, NewDirection
<1>3. Keys(s) /\ Counts(s)
  BY <1>1, <1>a DEF Fresh, Keys, Counts
<1>4. Queue(s, 0)
  BY <1>1 DEF Fresh, Queue
<1> QED BY <1>2, <1>3, <1>4 DEF Local, Fresh

\* Between two fresh ends nothing is on its way.
LEMMA FreshWire ==
    ASSUME NEW s, NEW r, NEW m, Fresh(s, m), Fresh(r, m)
    PROVE  Wire(s, r, 0, 0) /\ Agreed(s, r) /\ First(s, r) /\ Kex(s.out) = {}
<1>1. s.out = <<>> /\ Len(s.out) = 0 /\ Len(s.outgoing) = 0
  BY DEF Fresh
<1>2. s.snd.key = r.rcv.key /\ s.snd.seq = r.rcv.seq
  BY DEF Fresh, NewDirection
<1>3. \A x : ~Has(s.out, x)
  BY <1>1 DEF Has
<1>4. InOrder(s.out) /\ Shielded(s.out) /\ Quiet(s.out, Closed(r))
  BY <1>1 DEF InOrder, Shielded, Quiet
<1>5. SameKeys(s.out, s.snd.key, r.rcv.key) /\ SameCounts(s.out, s.snd.seq, r.rcv.seq)
  BY <1>1, <1>2 DEF SameKeys, SameCounts, SeqAt
<1>6. /\ SameCompression(s.out, s.auth /\ r.auth) /\ Bodies(s.out, "INITIAL" \in r.flags)
      /\ Numbered(s.out, 0 - Len(s.outgoing), 0) /\ ExtInfoFirst(s.out, 0)
      /\ 0 <= 0 - Len(s.outgoing)
  BY <1>1 DEF SameCompression, Bodies, Numbered, ExtInfoFirst
<1>7. Wire(s, r, 0, 0)
  BY <1>4, <1>5, <1>6 DEF Wire
<1>8. Agreed(s, r) /\ Kex(s.out) = {}
  BY <1>1, <1>3 DEF Agreed, Replies, Kex
<1>9. First(s, r)
  BY DEF First, Fresh, Stage
<1> QED BY <1>7, <1>8, <1>9

\* The invariant holds in the first state.
LEMMA InitInv == Init => Inv
<1> SUFFICES ASSUME Init PROVE Inv
  OBVIOUS
<1>1. PICK m \in Methods : st = [e \in End |-> [NewEnd EXCEPT !.kex_type = m]]
  BY DEF Init
<1>2. sent = [e \in End |-> 0] /\ got = [e \in End |-> 0]
  BY DEF Init
<1> DEFINE t == [NewEnd EXCEPT !.kex_type = m]
<1>3. Fresh(t, m)
  BY FreshEnd
<1>4. \A e \in End : st[e] = t
  BY <1>1
<1> HIDE DEF t
<1>5. t \in EndState /\ Stage(t) = "rest" /\ t.kex_type = m
      /\ t.out = <<>> /\ ~t.auth
  BY <1>3 DEF Fresh, Stage
<1>6. /\ st \in [End -> EndState] /\ sent \in [End -> 0 .. MaxData]
      /\ got \in [End -> 0 .. MaxData]
  BY <1>1, <1>2, <1>4, <1>5, TransportAssumption
<1>7. "client" \in End /\ "server" \in End
  BY DEF End
<1>8. Wire(t, t, 0, 0) /\ Agreed(t, t) /\ First(t, t) /\ Kex(t.out) = {}
  BY <1>3, FreshWire
<1>9. InStep(t, t)
  BY <1>5, <1>8 DEF InStep, Row
<1>10. Login(t, t, 0, 0, 0, 0)
  BY <1>5 DEF Login, Has
<1>11. \A e \in End : Local(e, t, 0, 0)
  BY <1>3, FreshLocal
<1>12. \A e \in End : Peer(e) \in End
  BY PeerFacts
<1>13. \A e \in End : sent[e] = 0 /\ got[e] = 0
  BY <1>2
<1> QED BY <1>4, <1>6, <1>7, <1>8, <1>9, <1>10, <1>11, <1>12, <1>13, Zenon DEF Inv, Joint

-----------------------------------------------------------------------------
(* The theorems.                                                           *)

\* Every step keeps the invariant.
LEMMA NextInv == Inv /\ [Next]_vars => Inv'
<1> SUFFICES ASSUME Inv, [Next]_vars PROVE Inv'
  OBVIOUS
<1>1. ASSUME NEW e \in End, kex_setup(e) PROVE Inv'
  BY <1>1, SetupStep
<1>2. ASSUME NEW e \in End, BeginAuth(e) PROVE Inv'
  BY <1>2, BeginAuthStep
<1>3. ASSUME NEW e \in End, init_dispatch(e) PROVE Inv'
  BY <1>3, DispatchStep
<1>4. ASSUME NEW e \in End, ReadSome(e) PROVE Inv'
  BY <1>4, ReadFacts DEF ReadSome
<1>5. ASSUME NEW e \in End, NEW due \in BOOLEAN, Send(e, due) PROVE Inv'
  BY <1>5, SendStep
<1>6. ASSUME NEW e \in End, RekeyTimeout(e) PROVE Inv'
  BY <1>6, TimeoutStep
<1>7. CASE userauth_finish
  BY <1>7, FinishStep
<1>8. CASE RekeyRequest
  BY <1>8, RequestStep
<1>9. CASE UNCHANGED vars
  BY <1>9 DEF vars, Inv
<1> QED BY <1>1, <1>2, <1>3, <1>4, <1>5, <1>6, <1>7, <1>8, <1>9 DEF Next

\* The two ends and what is on its way between them stay in step (Joint), from
\* the first exchange through any number of later ones.
THEOREM Inductive == Spec => []Inv
BY InitInv, NextInv, PTL DEF Spec

\* Every sequence number stays within its width and every packet, queue and
\* dispatch table has its type, for any number of exchanges.
THEOREM TypeCorrect == Spec => []TypeOK
<1>1. Inv => TypeOK
  <2> SUFFICES ASSUME Inv PROVE TypeOK
    OBVIOUS
  <2>1. /\ st \in [End -> EndState] /\ sent \in [End -> 0 .. MaxData]
        /\ got \in [End -> 0 .. MaxData]
    BY DEF Inv, Joint
  <2>2. ASSUME NEW e \in End, NEW i \in 1 .. Len(st[e].out)
        PROVE  IsPacket(st[e].out[i])
    <3>1. st[e].out \in Seq(PacketSet)
      BY <2>1, EndTyped
    <3>2. st[e].out[i] \in PacketSet
      BY <3>1
    <3> QED BY <3>2 DEF PacketSet, IsPacket
  <2>3. ASSUME NEW e \in End, NEW i \in 1 .. Len(st[e].outgoing)
        PROVE  st[e].outgoing[i].type \in Type \ KexType
    <3>1. Queue(st[e], sent[e])
      BY DEF Inv, Joint, Local
    <3>2. st[e].outgoing[i].type = "DATA"
      BY <3>1 DEF Queue
    <3> QED BY <3>2 DEF Type, KexType
  <2>4. ASSUME NEW e \in End
        PROVE  LET s == st[e] IN
               /\ s.phase \in {"new", "kex", "auth", "start", "loop"}
               /\ s.kex_type \in Methods
               /\ s.auth \in BOOLEAN /\ s.rekeying \in BOOLEAN /\ s.done \in BOOLEAN
               /\ s.kex_strict \in BOOLEAN
               /\ s.flags \subseteq {"INITIAL", "INIT_SENT", "INIT_RECVD"}
               /\ s.disp \subseteq KexType
               /\ s.exchange \in Key /\ s.newkeys \in [snd : Key, rcv : Key]
               /\ s.snd \in Direction /\ s.rcv \in Direction
    <3>1. st[e] \in EndState
      BY <2>1
    <3> QED BY <3>1 DEF EndState
  <2> QED BY <2>1, <2>2, <2>3, <2>4, Zenon DEF TypeOK
<1> QED BY <1>1, Inductive, PTL

\* Neither end ever gives up the connection over a key exchange, asks twice for
\* one, or finds a packet that its keys, count or compression do not fit
\* (packet.c, kex.c), for any number of exchanges and any width of the count.
THEOREM ExchangeNeverFails == Spec => []NeverFails
<1>1. Inv => NeverFails
  BY DEF Inv, Joint, EndState, NeverFails
<1> QED BY <1>1, Inductive, PTL

\* Only messages of the exchange go out between an end's KEXINIT and its
\* NEWKEYS, and nothing else is ever sent in the clear (ssh_packet_send2).
THEOREM OnlyKexWhileRekeying == Spec => []OnlyKexInKex
<1>1. Inv => OnlyKexInKex
  <2> SUFFICES ASSUME Inv, NEW e \in End PROVE Shielded(st[e].out)
    BY Zenon DEF OnlyKexInKex, Shielded, ssh_packet_type_is_kex
  <2> QED BY DEF Inv, Joint, Wire
<1> QED BY <1>1, Inductive, PTL

\* An end outside an exchange uses one exchange's keys both ways and has left
\* nothing in its queue and no keys unused.
THEOREM RestIsComplete == Spec => []AtRest
<1>1. Inv => AtRest
  <2> SUFFICES ASSUME Inv, NEW e \in End, ~ssh_packet_is_rekeying(st[e])
               PROVE  /\ st[e].snd.key = st[e].rcv.key /\ st[e].snd.key # NoKey
                      /\ st[e].outgoing = <<>>
                      /\ st[e].newkeys = [snd |-> NoKey, rcv |-> NoKey]
    BY DEF AtRest
  <2>1. Pair(e, st[e], st[Peer(e)], sent[e], sent[Peer(e)], got[e], got[Peer(e)])
    BY InvAtEnd
  <2>2. Stage(st[e]) = "rest" /\ st[e].flags = {} /\ ~st[e].rekeying
    BY <2>1, NotRekeying
  <2>3. Keys(st[e]) /\ Queue(st[e], sent[e])
    BY <2>1 DEF Pair, Local
  <2> QED BY <2>2, <2>3 DEF Keys, Queue
<1> QED BY <1>1, Inductive, PTL

\* The safety part of the refinement: whatever exchanges it runs, the packet
\* layer delivers to the layers above each message once, in order, and none
\* that was not handed over.
THEOREM StreamSafety == Spec => Stream!Safety
<1>1. Init => Stream!Init
  BY DEF Init, Stream!Init
<1>2. Inv /\ [Next]_vars => [Stream!Next]_<<sent, got>>
  <2> SUFFICES ASSUME Inv, [Next]_vars, <<sent, got>>' # <<sent, got>>
               PROVE  Stream!Next
    OBVIOUS
  <2>1. ASSUME NEW e \in End, NEW due, Send(e, due) PROVE Stream!Next
    <3>1. Stream!Send(e)
      BY <2>1 DEF Send, Stream!Send
    <3> QED BY <3>1 DEF Stream!Next
  <2>2. CASE userauth_finish
    <3>1. Stream!Send("server") /\ "server" \in End
      BY <2>2 DEF userauth_finish, Stream!Send, End
    <3> QED BY <3>1 DEF Stream!Next
  <2>3. ASSUME NEW e \in End, ReadSome(e) PROVE Stream!Next
    <3>1. PICK due \in BOOLEAN : Read(e, due)
      BY <2>3 DEF ReadSome
    <3>2. Stream!Deliver(e)
      BY <3>1, ReadFacts DEF Stream!Deliver
    <3> QED BY <3>2 DEF Stream!Next
  <2>4. ASSUME NEW e \in End, kex_setup(e) \/ BeginAuth(e) \/ init_dispatch(e)
                              \/ RekeyTimeout(e)
        PROVE  FALSE
    BY <2>4 DEF kex_setup, BeginAuth, init_dispatch, RekeyTimeout
  <2>5. ~RekeyRequest
    BY DEF RekeyRequest
  <2>6. ~UNCHANGED vars
    BY DEF vars
  <2> QED BY <2>1, <2>2, <2>3, <2>4, <2>5, <2>6 DEF Next
<1> QED BY <1>1, <1>2, Inductive, PTL DEF Spec, Stream!Safety
=============================================================================
