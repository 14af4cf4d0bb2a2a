--------------------------- MODULE TransportWire ----------------------------
(***************************************************************************)
(* The inductive invariant of the packet layer, and what one direction of  *)
(* a connection does under it: the packets on a wire when some are added   *)
(* behind or the first is read, and the operations of packet.c and kex.c   *)
(* on the state of the end that sends them. TransportPair puts two         *)
(* directions together, TransportProofs has the steps and the theorems.    *)
(***************************************************************************)
EXTENDS Transport, SequenceTheorems, TLAPS

-----------------------------------------------------------------------------
(* The inductive invariant.                                                *)

\* A message in the queue, and a packet on the wire.
MsgSet == [type : Type, body : Nat]

PacketSet == [type : Type, body : Nat, key : Key, seq : Seq32, comp : BOOLEAN]

\* The states of an end; err is "none", so it has not failed.
EndState ==
    [phase : {"new", "kex", "auth", "start", "loop"}, kex_type : Methods,
     auth : BOOLEAN, rekeying : BOOLEAN, done : BOOLEAN,
     flags : SUBSET {"INITIAL", "INIT_SENT", "INIT_RECVD"},
     kex_strict : BOOLEAN, disp : SUBSET KexType, exchange : Key,
     newkeys : [snd : Key, rcv : Key], snd : Direction, rcv : Direction,
     outgoing : Seq(MsgSet), out : Seq(PacketSet), err : {"none"}]

\* How far an end is in an exchange: before it, its KEXINIT sent, a group asked
\* for, the key asked for, its NEWKEYS sent.
Stage(s) ==
    IF "INIT_SENT" \notin s.flags THEN "rest"
    ELSE IF "INIT_RECVD" \notin s.flags THEN "sent"
    ELSE IF ~s.rekeying THEN "over"
    ELSE IF "GEX_GROUP" \in s.disp \/ "GEX_REQUEST" \in s.disp THEN "ask"
    ELSE "key"

\* The message an end waits for when it has asked for the key.
KeyMessage(e, s) ==
    IF s.kex_type = "gen"
    THEN IF e = "client" THEN "KEX_REPLY" ELSE "KEX_INIT"
    ELSE IF e = "client" THEN "GEX_REPLY" ELSE "GEX_INIT"

\* The exchange flags against the phase of the process and the two tests the
\* code makes of them (rekeying, done).
Flags(s) ==
    /\ "INIT_RECVD" \in s.flags => "INIT_SENT" \in s.flags
    /\ s.phase = "new" <=> s.flags = {"INITIAL"}
    /\ "INITIAL" \in s.flags => s.phase \in {"new", "kex"}
    /\ s.auth <=> s.phase \in {"start", "loop"}
    /\ s.done <=> s.flags = {}
    /\ Stage(s) = "rest" => (s.rekeying <=> s.phase = "new")
    /\ Stage(s) = "sent" => s.rekeying /\ ("INITIAL" \in s.flags \/ s.auth)
    /\ "INIT_RECVD" \in s.flags => s.phase \in {"kex", "loop"}

\* The dispatch table has exactly the handler for the message that comes next.
Handlers(e, s) ==
    /\ Stage(s) \in {"rest", "sent"} /\ s.phase \in {"kex", "loop"}
          => s.disp = {"KEXINIT"}
    /\ Stage(s) = "ask" => /\ s.kex_type = "gex"
                           /\ s.disp = {IF e = "client" THEN "GEX_GROUP" ELSE "GEX_REQUEST"}
    /\ Stage(s) = "key" => s.disp = {KeyMessage(e, s)}
    /\ Stage(s) = "over" => s.disp = {"NEWKEYS"}

\* One key both ways but between NEWKEYS sent and NEWKEYS read; compression
\* with authentication, strict key exchange since the first KEXINIT was read.
Keys(s) ==
    /\ Stage(s) # "over" => /\ s.snd.key = s.rcv.key
                            /\ s.snd.key = NoKey <=> "INITIAL" \in s.flags
                            /\ s.newkeys = [snd |-> NoKey, rcv |-> NoKey]
    /\ Stage(s) = "over" => /\ s.snd.key # NoKey
                            /\ s.newkeys = [snd |-> NoKey, rcv |-> s.snd.key]
    /\ s.snd.comp = s.auth /\ s.rcv.comp = s.auth
    /\ s.kex_strict <=> "INITIAL" \notin s.flags \/ "INIT_RECVD" \in s.flags

\* In the first exchange neither sequence number comes near its end.
Counts(s) ==
    "INITIAL" \in s.flags =>
        /\ Stage(s) = "rest" => s.snd.seq = 0 /\ s.rcv.seq = 0
        /\ Stage(s) = "sent" => s.snd.seq <= 1 /\ s.rcv.seq = 0
        /\ Stage(s) = "ask" => s.snd.seq <= 2 /\ s.rcv.seq <= 1
        /\ Stage(s) = "key" => s.snd.seq <= 3 /\ s.rcv.seq <= 2
        /\ Stage(s) = "over" => s.rcv.seq <= 3

\* The queue is empty but in a later exchange, and ends with the last message
\* handed over.
Queue(s, n) ==
    /\ s.outgoing # <<>> => s.rekeying /\ "INITIAL" \notin s.flags
    /\ Len(s.outgoing) <= n
    /\ \A i \in 1 .. Len(s.outgoing) :
          s.outgoing[i].type = "DATA" /\ s.outgoing[i].body = n - Len(s.outgoing) + i

\* What holds of end e alone: n messages handed to it, g read by it.
Local(e, s, n, g) ==
    /\ s \in EndState
    /\ Flags(s) /\ Handlers(e, s) /\ Keys(s) /\ Counts(s) /\ Queue(s, n)
    /\ s.phase \in {"new", "kex"} => n = 0 /\ g = 0

\* A message of type t lies before packet k of wire w, or somewhere on it; and
\* the exchange messages that do.
Passed(w, k, t) == \E j \in 1 .. k - 1 : w[j].type = t

Has(w, t) == \E j \in 1 .. Len(w) : w[j].type = t

Kex(w) == {t \in KexType : Has(w, t)}

\* The order in which messages of an exchange can be on the wire together: the
\* reply and NEWKEYS end one, KEXINIT and the first request begin the next.
Rank(t) == IF t \in {"KEX_REPLY", "GEX_REPLY"} THEN 0
           ELSE IF t = "NEWKEYS" THEN 1
           ELSE IF t = "KEXINIT" THEN 2 ELSE 3

\* The messages of the layers above.
DataType == {"DATA", "SUCCESS"}

\* The exchange messages of a wire in their order, none twice.
InOrder(w) ==
    \A k \in 1 .. Len(w) : \A j \in 1 .. k - 1 :
        w[j].type \in KexType /\ w[k].type \in KexType
            => Rank(w[j].type) < Rank(w[k].type)

\* OnlyKexInKex, for one wire.
Shielded(w) ==
    \A k \in 1 .. Len(w) : w[k].type \notin KexType =>
        /\ w[k].key # NoKey
        /\ \A i \in 1 .. k - 1 : w[i].type = "KEXINIT" =>
              \E j \in i + 1 .. k - 1 : w[j].type = "NEWKEYS"

\* A reader in its first exchange, or that has read a KEXINIT, meets nothing
\* but the exchange before NEWKEYS.
Closed(r) == "INITIAL" \in r.flags \/ "INIT_RECVD" \in r.flags

Quiet(w, closed) ==
    closed => \A k \in 1 .. Len(w) : w[k].type \notin KexType => Passed(w, k, "NEWKEYS")

\* sk is the key of the sender now, rk that of the reader.
SameKeys(w, sk, rk) ==
    /\ \A k \in 1 .. Len(w) : w[k].key = IF Passed(w, k, "NEWKEYS") THEN sk ELSE rk
    /\ ~Has(w, "NEWKEYS") => sk = rk

\* sq is the sequence number the sender uses next, rq the one the reader expects.
SeqAt(w, sq, k) == IF k \in 1 .. Len(w) THEN w[k].seq ELSE sq

After(p) == IF p.type = "NEWKEYS" THEN 0 ELSE (p.seq + 1) % SeqMod

SameCounts(w, sq, rq) ==
    /\ SeqAt(w, sq, 1) = rq
    /\ \A k \in 1 .. Len(w) : SeqAt(w, sq, k + 1) = After(w[k])

\* both: the two ends have seen the user authenticate.
SameCompression(w, both) ==
    \A k \in 1 .. Len(w) : w[k].comp <=> (both \/ Passed(w, k, "SUCCESS"))

\* What the bodies of the exchange carry: the number of an exchange, and, to a
\* reader in its first exchange, the offer of strict key exchange.
Bodies(w, initial) ==
    \A k \in 1 .. Len(w) :
        /\ w[k].type \in {"KEX_INIT", "GEX_INIT"} => w[k].body \in Key \ {NoKey}
        /\ w[k].type = "KEXINIT" => (initial => w[k].body = 1)

Replies(w, sk) ==
    \A k \in 1 .. Len(w) : w[k].type \in {"KEX_REPLY", "GEX_REPLY"} => w[k].body = sk

\* The messages of the layers above on the wire are those after the last one
\* read (g) up to the last one that has left the queue (m), in their order.
Numbered(w, m, g) ==
    /\ \A k \in 1 .. Len(w) : w[k].type \in DataType => g < w[k].body /\ w[k].body <= m
    /\ \A k \in 1 .. Len(w) : \A j \in 1 .. k - 1 :
          w[j].type \in DataType /\ w[k].type \in DataType => w[j].body < w[k].body
    /\ \A b \in g + 1 .. m :
          \E k \in 1 .. Len(w) : w[k].type \in DataType /\ w[k].body = b

\* EXT_INFO comes before any message of the layers above.
ExtInfoFirst(w, g) ==
    \A k \in 1 .. Len(w) : w[k].type = "EXT_INFO" =>
        /\ g = 0
        /\ \A j \in 1 .. k - 1 : w[j].type \notin DataType

\* Everything about one direction but the replies: s sends, r reads, n messages
\* have been handed to s and g read by r.
Wire(s, r, n, g) ==
    /\ InOrder(s.out)
    /\ Shielded(s.out)
    /\ Quiet(s.out, Closed(r))
    /\ SameKeys(s.out, s.snd.key, r.rcv.key)
    /\ SameCounts(s.out, s.snd.seq, r.rcv.seq)
    /\ SameCompression(s.out, s.auth /\ r.auth)
    /\ Bodies(s.out, "INITIAL" \in r.flags)
    /\ g <= n - Len(s.outgoing)
    /\ Numbered(s.out, n - Len(s.outgoing), g)
    /\ ExtInfoFirst(s.out, g)

\* The keys a reader has ready are those of the NEWKEYS on its way.
Agreed(s, r) ==
    /\ Replies(s.out, s.snd.key)
    /\ Has(s.out, "NEWKEYS") /\ Stage(r) = "over" => r.newkeys.rcv = s.snd.key

\* The stage of the client, that of the server, and the messages of the
\* exchange that are on their way from each.
Row(m, a, b, K, L) ==
    \/ a = "rest" /\ b = "rest" /\ K = {} /\ L = {}
    \/ a = "sent" /\ b = "rest" /\ K = {"KEXINIT"} /\ L = {}
    \/ a = "rest" /\ b = "sent" /\ K = {} /\ L = {"KEXINIT"}
    \/ a = "sent" /\ b = "sent" /\ K = {"KEXINIT"} /\ L = {"KEXINIT"}
    \/ a = "over" /\ b = "over" /\ K = {"NEWKEYS"} /\ L = {"NEWKEYS"}
    \/ a = "rest" /\ b = "over" /\ K = {"NEWKEYS"} /\ L = {}
    \/ a = "over" /\ b = "rest" /\ K = {} /\ L = {"NEWKEYS"}
    \/ a = "sent" /\ b = "over" /\ K = {"NEWKEYS", "KEXINIT"} /\ L = {}
    \/ a = "over" /\ b = "sent" /\ K = {} /\ L = {"NEWKEYS", "KEXINIT"}
    \/ /\ m = "gen"
       /\ \/ a = "sent" /\ b = "key" /\ K = {} /\ L = {"KEXINIT"}
          \/ a = "key" /\ b = "sent" /\ K = {"KEXINIT", "KEX_INIT"} /\ L = {}
          \/ a = "key" /\ b = "key" /\ K = {"KEX_INIT"} /\ L = {}
          \/ a = "key" /\ b = "over" /\ K = {} /\ L = {"KEX_REPLY", "NEWKEYS"}
    \/ /\ m = "gex"
       /\ \/ a = "sent" /\ b = "ask" /\ K = {} /\ L = {"KEXINIT"}
          \/ a = "ask" /\ b = "sent" /\ K = {"KEXINIT", "GEX_REQUEST"} /\ L = {}
          \/ a = "ask" /\ b = "ask" /\ K = {"GEX_REQUEST"} /\ L = {}
          \/ a = "ask" /\ b = "key" /\ K = {} /\ L = {"GEX_GROUP"}
          \/ a = "key" /\ b = "key" /\ K = {"GEX_INIT"} /\ L = {}
          \/ a = "key" /\ b = "over" /\ K = {} /\ L = {"GEX_REPLY", "NEWKEYS"}

\* The client and the server are in one row of the table.
InStep(c, s) ==
    /\ c.kex_type = s.kex_type
    /\ Row(c.kex_type, Stage(c), Stage(s), Kex(c.out), Kex(s.out))

\* Who is still in the first exchange.
First(s, r) ==
    /\ "INITIAL" \in s.flags /\ "INITIAL" \notin r.flags
          => Stage(s) = "over" /\ Stage(r) = "rest"
    /\ Stage(s) = "over" /\ Stage(r) \in {"rest", "sent"} => "INITIAL" \notin r.flags

\* Authentication: the client waits for each answer, and reads that it has
\* succeeded before anything of a further exchange.
Login(c, s, nc, ns, gc, gs) ==
    /\ c.auth => s.auth
    /\ s.auth => c.phase \in {"auth", "start", "loop"}
    /\ ~s.auth => ns <= gs /\ gc <= ns /\ gs <= nc /\ nc <= gc + 1
    /\ ~Has(c.out, "SUCCESS")
    /\ Has(s.out, "SUCCESS") <=> s.auth /\ ~c.auth
    /\ s.auth /\ ~c.auth =>
          /\ c.out = <<>> /\ nc = gc + 1
          /\ \A k \in 1 .. Len(s.out) :
                /\ s.out[k].type = "SUCCESS" => s.out[k].body = gc + 1
                /\ s.out[k].type \in KexType => Passed(s.out, k, "SUCCESS")

\* The inductive invariant, of states S, messages handed over n and read g.
Joint(S, n, g) ==
    /\ S \in [End -> EndState]
    /\ n \in [End -> 0 .. MaxData] /\ g \in [End -> 0 .. MaxData]
    /\ \A e \in End :
          /\ Local(e, S[e], n[e], g[e])
          /\ Wire(S[e], S[Peer(e)], n[e], g[Peer(e)])
          /\ Agreed(S[e], S[Peer(e)])
          /\ First(S[e], S[Peer(e)])
    /\ InStep(S["client"], S["server"])
    /\ Login(S["client"], S["server"], n["client"], n["server"], g["client"], g["server"])

Inv == Joint(st, sent, got)

-----------------------------------------------------------------------------
(* Arithmetic modulo M.                                                    *)

\* A remainder is below its modulus.
LEMMA ModRange ==
    ASSUME NEW M \in Nat, M > 0, NEW a \in Nat
    PROVE  a % M \in 0 .. M - 1
BY SMT

\* A number below the modulus is its own remainder.
LEMMA ModSmall ==
    ASSUME NEW M \in Nat, M > 0, NEW a \in Nat, a < M
    PROVE  a % M = a
BY SMT

\* A number is a multiple of the modulus and its remainder.
LEMMA ModDef ==
    ASSUME NEW M \in Nat, M > 0, NEW a \in Nat
    PROVE  \E q \in Nat : a = M * q + (a % M)
BY SMT

\* The remainder is the only number below the modulus that does this.
LEMMA ModUniq ==
    ASSUME NEW M \in Nat, M > 0, NEW a \in Nat, NEW q \in Nat, NEW r \in 0 .. M - 1,
           a = M * q + r
    PROVE  a % M = r
BY SMT

\* The count may be reduced before or after one is added.
LEMMA ModSucc ==
    ASSUME NEW M \in Nat, M > 0, NEW a \in Nat
    PROVE  ((a % M) + 1) % M = (a + 1) % M
<1>1. PICK q \in Nat : a = M * q + (a % M)
  BY ModDef
<1>2. DEFINE r == a % M
<1>3. r \in 0 .. M - 1
  BY ModRange
<1>4. CASE r + 1 < M
  <2>1. (r + 1) % M = r + 1
    BY <1>3, <1>4, ModSmall
  <2>2. a + 1 = M * q + (r + 1) /\ r + 1 \in 0 .. M - 1
    BY <1>1, <1>3, <1>4
  <2>3. (a + 1) % M = r + 1
    BY <2>2, ModUniq
  <2> QED BY <2>1, <2>3
<1>5. CASE r + 1 = M
  <2>1. (r + 1) % M = 0
    <3>1. r + 1 = M * 1 + 0 BY <1>5, <1>3
    <3> QED BY <3>1, ModUniq
  <2>2. a + 1 = M * (q + 1) + 0
    <3>1. M * (q + 1) = M * q + M
      BY SMT
    <3>2. M * q \in Nat
      BY SMT
    <3>3. DEFINE x == M * q
          y == M * (q + 1)
    <3>4. a = x + r /\ y = x + M /\ x \in Nat
      BY <1>1, <3>1, <3>2
    <3> HIDE DEF x, y
    <3>5. a + 1 = y + 0
      BY <3>4, <1>3, <1>5
    <3> QED BY <3>5 DEF y
  <2>3. a + 1 \in Nat /\ q + 1 \in Nat /\ 0 \in 0 .. M - 1
    OBVIOUS
  <2>4. (a + 1) % M = 0
    BY <2>2, <2>3, ModUniq, Zenon
  <2> QED BY <2>1, <2>4
<1> QED BY <1>3, <1>4, <1>5

-----------------------------------------------------------------------------
(* What happens to a wire when packets are added behind.                   *)

Extends(w, v) ==
    /\ w \in Seq(PacketSet) /\ v \in Seq(PacketSet) /\ Len(w) <= Len(v)
    /\ \A k \in 1 .. Len(w) : v[k] = w[k]

Added(w, v) == Len(w) + 1 .. Len(v)

\* A packet of a wire and its fields have their types.
LEMMA PacketTyped ==
    ASSUME NEW w \in Seq(PacketSet), NEW k \in 1 .. Len(w)
    PROVE  /\ w[k] \in PacketSet
           /\ w[k].type \in Type /\ w[k].body \in Nat /\ w[k].key \in Key
           /\ w[k].seq \in Seq32 /\ w[k].comp \in BOOLEAN
<1>1. w[k] \in PacketSet
  OBVIOUS
<1> QED BY <1>1 DEF PacketSet

\* A wire with one packet more extends the wire.
LEMMA AppendExtends ==
    ASSUME NEW w \in Seq(PacketSet), NEW p \in PacketSet
    PROVE  /\ Extends(w, Append(w, p))
           /\ Len(Append(w, p)) = Len(w) + 1
           /\ Append(w, p)[Len(w) + 1] = p
           /\ Added(w, Append(w, p)) = {Len(w) + 1}
BY DEF Extends, Added

\* What lies before an old packet is as it was.
LEMMA PassedExtends ==
    ASSUME NEW w, NEW v, Extends(w, v), NEW k \in 1 .. Len(w), NEW t
    PROVE  Passed(v, k, t) <=> Passed(w, k, t)
<1>1. Len(w) \in Nat
  BY DEF Extends
<1>2. \A j \in 1 .. k - 1 : j \in 1 .. Len(w)
  BY <1>1
<1>3. \A j \in 1 .. k - 1 : v[j] = w[j]
  BY <1>2 DEF Extends
<1> QED BY <1>3 DEF Passed

\* The messages on an extended wire are the old ones and the new ones.
LEMMA HasExtends ==
    ASSUME NEW w, NEW v, Extends(w, v), NEW t
    PROVE  Has(v, t) <=> (Has(w, t) \/ \E k \in Added(w, v) : v[k].type = t)
<1>1. Len(w) \in Nat /\ Len(v) \in Nat /\ Len(w) <= Len(v)
  BY DEF Extends
<1>2. \A k \in 1 .. Len(w) : k \in 1 .. Len(v) /\ v[k] = w[k]
  BY <1>1 DEF Extends
<1>3. \A k \in 1 .. Len(v) : k \in 1 .. Len(w) \/ k \in Added(w, v)
  BY <1>1 DEF Added
<1>4. \A k \in Added(w, v) : k \in 1 .. Len(v)
  BY <1>1 DEF Added
<1> QED BY <1>2, <1>3, <1>4, Zenon DEF Has

\* Every old message lies before every new packet.
LEMMA HasIsPassed ==
    ASSUME NEW w, NEW v, Extends(w, v), NEW k \in Added(w, v), NEW t, Has(w, t)
    PROVE  Passed(v, k, t)
<1>1. PICK j \in 1 .. Len(w) : w[j].type = t
  BY DEF Has
<1>2. j \in 1 .. k - 1 /\ v[j] = w[j]
  BY DEF Extends, Added
<1> QED BY <1>1, <1>2 DEF Passed

\* What lies before a packet sent last is what was on the wire.
LEMMA NextPassed ==
    ASSUME NEW w \in Seq(PacketSet), NEW p \in PacketSet, NEW t
    PROVE  Passed(Append(w, p), Len(w) + 1, t) <=> Has(w, t)
<1>1. \A j \in 1 .. Len(w) : Append(w, p)[j] = w[j]
  OBVIOUS
<1>2. 1 .. (Len(w) + 1) - 1 = 1 .. Len(w)
  OBVIOUS
<1> QED BY <1>1, <1>2 DEF Passed, Has

\* A packet sent adds its type to the types on the wire.
LEMMA AppendHas ==
    ASSUME NEW w \in Seq(PacketSet), NEW p \in PacketSet, NEW t
    PROVE  Has(Append(w, p), t) <=> (Has(w, t) \/ p.type = t)
<1> DEFINE v == Append(w, p)
<1>1. Extends(w, v) /\ Added(w, v) = {Len(w) + 1} /\ v[Len(w) + 1] = p
  BY AppendExtends
<1> HIDE DEF v
<1>2. Has(v, t) <=> (Has(w, t) \/ \E k \in Added(w, v) : v[k].type = t)
  BY <1>1, HasExtends
<1>3. Has(v, t) <=> (Has(w, t) \/ p.type = t)
  BY <1>1, <1>2, Zenon
<1> QED BY <1>3 DEF v

\* A packet sent adds its type when it is of the exchange.
LEMMA AppendKex ==
    ASSUME NEW w \in Seq(PacketSet), NEW p \in PacketSet
    PROVE  Kex(Append(w, p)) = Kex(w) \union ({p.type} \cap KexType)
BY AppendHas DEF Kex

\* InOrder when each new message of the exchange ranks behind the earlier
\* ones.
LEMMA InOrderExtends ==
    ASSUME NEW w, NEW v, Extends(w, v), InOrder(w),
           \A k \in Added(w, v) : v[k].type \in KexType =>
               \A j \in 1 .. k - 1 :
                   v[j].type \in KexType => Rank(v[j].type) < Rank(v[k].type)
    PROVE  InOrder(v)
<1> SUFFICES ASSUME NEW k \in 1 .. Len(v), NEW j \in 1 .. k - 1,
                    v[j].type \in KexType, v[k].type \in KexType
             PROVE  Rank(v[j].type) < Rank(v[k].type)
  BY DEF InOrder
<1>1. CASE k \in Added(w, v)
  BY <1>1
<1>2. CASE k \in 1 .. Len(w)
  <2>1. j \in 1 .. Len(w)
    BY <1>2 DEF Extends
  <2>2. v[k] = w[k] /\ v[j] = w[j]
    BY <1>2, <2>1 DEF Extends
  <2> QED BY <1>2, <2>2 DEF InOrder
<1> QED BY <1>1, <1>2 DEF Added, Extends

\* Shielded when each new message of the layers above is shielded.
LEMMA ShieldedExtends ==
    ASSUME NEW w, NEW v, Extends(w, v), Shielded(w),
           \A k \in Added(w, v) : v[k].type \notin KexType =>
               /\ v[k].key # NoKey
               /\ \A i \in 1 .. k - 1 : v[i].type = "KEXINIT" =>
                     \E j \in i + 1 .. k - 1 : v[j].type = "NEWKEYS"
    PROVE  Shielded(v)
<1> SUFFICES ASSUME NEW k \in 1 .. Len(v), v[k].type \notin KexType
             PROVE  /\ v[k].key # NoKey
                    /\ \A i \in 1 .. k - 1 : v[i].type = "KEXINIT" =>
                          \E j \in i + 1 .. k - 1 : v[j].type = "NEWKEYS"
  BY DEF Shielded
<1>1. CASE k \in Added(w, v)
  BY <1>1
<1>2. CASE k \in 1 .. Len(w)
  <2>1. \A i \in 1 .. k - 1 : i \in 1 .. Len(w) /\ v[i] = w[i]
    BY <1>2 DEF Extends
  <2>2. v[k] = w[k]
    BY <1>2 DEF Extends
  <2>3. \A i \in 1 .. k - 1 : \A j \in i + 1 .. k - 1 : j \in 1 .. k - 1
    BY <1>2
  <2> QED BY <1>2, <2>1, <2>2, <2>3 DEF Shielded
<1> QED BY <1>1, <1>2 DEF Added, Extends

\* Quiet when each new message of the layers above is behind a NEWKEYS.
LEMMA QuietExtends ==
    ASSUME NEW w, NEW v, Extends(w, v), NEW closed, Quiet(w, closed),
           \A k \in Added(w, v) :
               v[k].type \notin KexType /\ closed => Passed(v, k, "NEWKEYS")
    PROVE  Quiet(v, closed)
<1> SUFFICES ASSUME closed, NEW k \in 1 .. Len(v), v[k].type \notin KexType
             PROVE  Passed(v, k, "NEWKEYS")
  BY DEF Quiet
<1>1. CASE k \in Added(w, v)
  BY <1>1
<1>2. CASE k \in 1 .. Len(w)
  <2>1. v[k] = w[k]
    BY <1>2 DEF Extends
  <2> QED BY <1>2, <2>1, PassedExtends DEF Quiet
<1> QED BY <1>1, <1>2 DEF Added, Extends

\* SameKeys when the new packets carry the sender's key.
LEMMA KeysExtend ==
    ASSUME NEW w, NEW v, Extends(w, v), NEW sk, NEW rk, SameKeys(w, sk, rk),
           \A k \in Added(w, v) : v[k].type # "NEWKEYS" /\ v[k].key = sk
    PROVE  SameKeys(v, sk, rk)
<1>1. Has(v, "NEWKEYS") <=> Has(w, "NEWKEYS")
  BY HasExtends
<1>2. ASSUME NEW k \in 1 .. Len(v)
      PROVE  v[k].key = IF Passed(v, k, "NEWKEYS") THEN sk ELSE rk
  <2>1. CASE k \in 1 .. Len(w)
    <3>1. v[k] = w[k]
      BY <2>1 DEF Extends
    <3> QED BY <2>1, <3>1, PassedExtends DEF SameKeys
  <2>2. CASE k \in Added(w, v)
    <3>1. v[k].key = sk
      BY <2>2
    <3>2. Has(w, "NEWKEYS") => Passed(v, k, "NEWKEYS")
      BY <2>2, HasIsPassed
    <3>3. ~Has(w, "NEWKEYS") => sk = rk
      BY DEF SameKeys
    <3> QED BY <3>1, <3>2, <3>3
  <2> QED BY <1>2, <2>1, <2>2 DEF Added, Extends
<1> QED BY <1>1, <1>2 DEF SameKeys

\* SameKeys when NEWKEYS is sent under the old key and the sender changes to
\* x.
LEMMA KeysChange ==
    ASSUME NEW w \in Seq(PacketSet), NEW p \in PacketSet, NEW sk, NEW rk, NEW x,
           SameKeys(w, sk, rk), ~Has(w, "NEWKEYS"),
           p.type = "NEWKEYS", p.key = sk
    PROVE  SameKeys(Append(w, p), x, rk)
<1> DEFINE v == Append(w, p)
<1>1. Extends(w, v) /\ Len(v) = Len(w) + 1 /\ v[Len(w) + 1] = p
  BY AppendExtends
<1>2. Has(v, "NEWKEYS")
  BY AppendHas
<1>3. Passed(v, Len(w) + 1, "NEWKEYS") <=> Has(w, "NEWKEYS")
  BY NextPassed
<1> HIDE DEF v
<1>4. ASSUME NEW k \in 1 .. Len(v)
      PROVE  v[k].key = IF Passed(v, k, "NEWKEYS") THEN x ELSE rk
  <2>1. CASE k \in 1 .. Len(w)
    <3>1. v[k] = w[k]
      BY <1>1, <2>1 DEF Extends
    <3>2. ~Passed(w, k, "NEWKEYS")
      <4>1. \A j \in 1 .. k - 1 : j \in 1 .. Len(w)
        BY <2>1
      <4> QED BY <4>1 DEF Passed, Has
    <3>3. ~Passed(v, k, "NEWKEYS")
      BY <1>1, <2>1, <3>2, PassedExtends
    <3> QED BY <2>1, <3>1, <3>2, <3>3 DEF SameKeys
  <2>2. CASE k = Len(w) + 1
    BY <1>1, <1>3, <2>2 DEF SameKeys
  <2> QED BY <1>1, <1>4, <2>1, <2>2
<1>5. SameKeys(v, x, rk)
  BY <1>2, <1>4 DEF SameKeys
<1> QED BY <1>5 DEF v

\* SameCounts when the packet sent carries the sender's next number.
LEMMA CountsAppend ==
    ASSUME NEW w \in Seq(PacketSet), NEW p \in PacketSet, NEW sq, NEW rq,
           SameCounts(w, sq, rq), p.seq = sq
    PROVE  SameCounts(Append(w, p), After(p), rq)
<1> DEFINE v == Append(w, p)
           z == After(p)
<1>1. /\ Len(v) = Len(w) + 1 /\ v[Len(w) + 1] = p /\ Len(w) \in Nat
      /\ \A k \in 1 .. Len(w) : v[k] = w[k]
  OBVIOUS
<1> HIDE DEF v
<1>2. \A k \in 1 .. Len(w) + 1 : SeqAt(v, z, k) = SeqAt(w, sq, k)
  <2> SUFFICES ASSUME NEW k \in 1 .. Len(w) + 1
               PROVE  SeqAt(v, z, k) = SeqAt(w, sq, k)
    OBVIOUS
  <2>1. k \in 1 .. Len(v)
    BY <1>1
  <2>2. CASE k \in 1 .. Len(w)
    BY <1>1, <2>1, <2>2 DEF SeqAt
  <2>3. CASE k = Len(w) + 1
    <3>1. k \notin 1 .. Len(w)
      BY <2>3, <1>1
    <3> QED BY <1>1, <2>1, <2>3, <3>1 DEF SeqAt
  <2> QED BY <2>2, <2>3, <1>1
<1>3. SeqAt(v, z, 1) = rq
  <2>1. 1 \in 1 .. Len(w) + 1
    BY <1>1
  <2> QED BY <1>2, <2>1 DEF SameCounts
<1>4. ASSUME NEW k \in 1 .. Len(v) PROVE SeqAt(v, z, k + 1) = After(v[k])
  <2>1. CASE k \in 1 .. Len(w)
    <3>1. k + 1 \in 1 .. Len(w) + 1
      BY <2>1, <1>1
    <3>2. v[k] = w[k]
      BY <1>1, <2>1
    <3> QED BY <1>2, <2>1, <3>1, <3>2 DEF SameCounts
  <2>2. CASE k = Len(w) + 1
    <3>1. k + 1 \notin 1 .. Len(v)
      BY <1>1, <2>2
    <3> QED BY <1>1, <2>2, <3>1 DEF SeqAt
  <2> QED BY <1>1, <1>4, <2>1, <2>2
<1>5. SameCounts(v, z, rq)
  BY <1>3, <1>4 DEF SameCounts
<1> QED BY <1>5 DEF v

\* SameCompression when the new packets are compressed as they should be.
LEMMA CompressionExtends ==
    ASSUME NEW w, NEW v, Extends(w, v), NEW both, SameCompression(w, both),
           \A k \in Added(w, v) : v[k].comp <=> (both \/ Passed(v, k, "SUCCESS"))
    PROVE  SameCompression(v, both)
<1> SUFFICES ASSUME NEW k \in 1 .. Len(v)
             PROVE  v[k].comp <=> (both \/ Passed(v, k, "SUCCESS"))
  BY DEF SameCompression
<1>1. CASE k \in Added(w, v)
  BY <1>1
<1>2. CASE k \in 1 .. Len(w)
  <2>1. v[k] = w[k]
    BY <1>2 DEF Extends
  <2>2. Passed(v, k, "SUCCESS") <=> Passed(w, k, "SUCCESS")
    BY <1>2, PassedExtends
  <2> QED BY <1>2, <2>1, <2>2, Zenon DEF SameCompression
<1> QED BY <1>1, <1>2 DEF Added, Extends

\* Bodies when the new messages of the exchange carry what they should.
LEMMA BodiesExtend ==
    ASSUME NEW w, NEW v, Extends(w, v), NEW initial, Bodies(w, initial),
           \A k \in Added(w, v) :
               /\ v[k].type \in {"KEX_INIT", "GEX_INIT"} => v[k].body \in Key \ {NoKey}
               /\ v[k].type = "KEXINIT" => (initial => v[k].body = 1)
    PROVE  Bodies(v, initial)
<1> SUFFICES ASSUME NEW k \in 1 .. Len(v)
             PROVE  /\ v[k].type \in {"KEX_INIT", "GEX_INIT"} => v[k].body \in Key \ {NoKey}
                    /\ v[k].type = "KEXINIT" => (initial => v[k].body = 1)
  BY Zenon DEF Bodies
<1>1. CASE k \in Added(w, v)
  BY <1>1
<1>2. CASE k \in 1 .. Len(w)
  <2>1. v[k] = w[k]
    BY <1>2 DEF Extends
  <2> QED BY <1>2, <2>1 DEF Bodies
<1> QED BY <1>1, <1>2 DEF Added, Extends

\* Replies when the new replies name the sender's key.
LEMMA RepliesExtend ==
    ASSUME NEW w, NEW v, Extends(w, v), NEW sk, Replies(w, sk),
           \A k \in Added(w, v) :
               v[k].type \in {"KEX_REPLY", "GEX_REPLY"} => v[k].body = sk
    PROVE  Replies(v, sk)
<1> SUFFICES ASSUME NEW k \in 1 .. Len(v), v[k].type \in {"KEX_REPLY", "GEX_REPLY"}
             PROVE  v[k].body = sk
  BY DEF Replies
<1>1. CASE k \in Added(w, v)
  BY <1>1
<1>2. CASE k \in 1 .. Len(w)
  <2>1. v[k] = w[k]
    BY <1>2 DEF Extends
  <2> QED BY <1>2, <2>1 DEF Replies
<1> QED BY <1>1, <1>2 DEF Added, Extends

\* ExtInfoFirst when a new EXT_INFO has no data before it.
LEMMA ExtInfoExtends ==
    ASSUME NEW w, NEW v, Extends(w, v), NEW g, ExtInfoFirst(w, g),
           \A k \in Added(w, v) : v[k].type = "EXT_INFO" =>
               g = 0 /\ \A j \in 1 .. k - 1 : v[j].type \notin DataType
    PROVE  ExtInfoFirst(v, g)
<1> SUFFICES ASSUME NEW k \in 1 .. Len(v), v[k].type = "EXT_INFO"
             PROVE  g = 0 /\ \A j \in 1 .. k - 1 : v[j].type \notin DataType
  BY DEF ExtInfoFirst
<1>1. CASE k \in Added(w, v)
  BY <1>1
<1>2. CASE k \in 1 .. Len(w)
  <2>1. v[k] = w[k]
    BY <1>2 DEF Extends
  <2>2. \A j \in 1 .. k - 1 : v[j] = w[j]
    BY <1>2 DEF Extends
  <2> QED BY <1>2, <2>1, <2>2 DEF ExtInfoFirst
<1> QED BY <1>1, <1>2 DEF Added, Extends

\* Numbered when the new messages continue the old ones up to m2.
LEMMA NumberedExtends ==
    ASSUME NEW w, NEW v, Extends(w, v), NEW m \in Nat, NEW m2 \in Nat, NEW g \in Nat,
           Numbered(w, m, g), m <= m2, g <= m,
           \A k \in Added(w, v) : v[k].type \in DataType =>
               /\ m < v[k].body /\ v[k].body <= m2
               /\ \A j \in Added(w, v) :
                     j < k /\ v[j].type \in DataType => v[j].body < v[k].body,
           \A b \in m + 1 .. m2 :
               \E k \in Added(w, v) : v[k].type \in DataType /\ v[k].body = b
    PROVE  Numbered(v, m2, g)
<1>0. /\ Len(w) \in Nat /\ Len(v) \in Nat /\ Len(w) <= Len(v)
      /\ \A k \in 1 .. Len(w) : v[k] = w[k]
      /\ \A k \in 1 .. Len(v) : v[k].body \in Nat
      /\ \A k \in 1 .. Len(w) : w[k].body \in Nat
  <2>1. w \in Seq(PacketSet) /\ v \in Seq(PacketSet)
    BY DEF Extends
  <2>2. /\ \A k \in 1 .. Len(v) : v[k].body \in Nat
        /\ \A k \in 1 .. Len(w) : w[k].body \in Nat
    BY <2>1, PacketTyped
  <2> QED BY <2>1, <2>2 DEF Extends
<1>1. \A k \in 1 .. Len(v) : k \in 1 .. Len(w) \/ k \in Added(w, v)
  BY <1>0 DEF Added
<1>2. \A k \in 1 .. Len(w) : k \in 1 .. Len(v)
  BY <1>0
<1>3. \A k \in Added(w, v) : k \in 1 .. Len(v)
  BY <1>0 DEF Added
<1>4. ASSUME NEW k \in 1 .. Len(v), v[k].type \in DataType
      PROVE  g < v[k].body /\ v[k].body <= m2
  <2>1. CASE k \in 1 .. Len(w)
    <3>1. g < w[k].body /\ w[k].body <= m
      BY <1>0, <1>4, <2>1 DEF Numbered
    <3> QED BY <1>0, <2>1, <3>1
  <2>2. CASE k \in Added(w, v)
    BY <1>0, <1>4, <2>2
  <2> QED BY <1>1, <2>1, <2>2
<1>5. ASSUME NEW k \in 1 .. Len(v), NEW j \in 1 .. k - 1,
             v[j].type \in DataType, v[k].type \in DataType
      PROVE  v[j].body < v[k].body
  <2>1. CASE k \in 1 .. Len(w)
    <3>1. j \in 1 .. Len(w)
      BY <2>1, <1>0
    <3>2. w[j].body < w[k].body
      BY <1>0, <1>5, <2>1, <3>1 DEF Numbered
    <3> QED BY <1>0, <2>1, <3>1, <3>2
  <2>2. CASE k \in Added(w, v)
    <3>1. j \in 1 .. Len(v) /\ j < k
      BY <1>5
    <3>2. CASE j \in 1 .. Len(w)
      <4>1. w[j].body <= m
        BY <1>0, <1>5, <3>2 DEF Numbered
      <4>2. m < v[k].body
        BY <1>5, <2>2
      <4>3. v[j] = w[j] /\ w[j].body \in Nat /\ v[k].body \in Nat
        BY <1>0, <3>2
      <4> QED BY <4>1, <4>2, <4>3
    <3>3. CASE j \in Added(w, v)
      BY <1>5, <2>2, <3>1, <3>3
    <3> QED BY <1>1, <3>1, <3>2, <3>3
  <2> QED BY <1>1, <2>1, <2>2
<1>6. ASSUME NEW b \in g + 1 .. m2
      PROVE  \E k \in 1 .. Len(v) : v[k].type \in DataType /\ v[k].body = b
  <2>1. CASE b \in g + 1 .. m
    <3>1. PICK k \in 1 .. Len(w) : w[k].type \in DataType /\ w[k].body = b
      BY <2>1 DEF Numbered
    <3> QED BY <1>0, <1>2, <3>1
  <2>2. CASE b \in m + 1 .. m2
    BY <1>3, <2>2
  <2> QED BY <1>6, <2>1, <2>2
<1> QED BY <1>4, <1>5, <1>6 DEF Numbered

-----------------------------------------------------------------------------
(* What happens to a wire when its first packet is read.                   *)

\* The rest of a wire when its first packet is read.
LEMMA TailFacts ==
    ASSUME NEW w \in Seq(PacketSet), w # <<>>
    PROVE  /\ Tail(w) \in Seq(PacketSet) /\ Head(w) = w[1]
           /\ Len(w) \in Nat /\ Len(w) >= 1 /\ Len(Tail(w)) = Len(w) - 1
           /\ \A k \in 1 .. Len(w) - 1 : Tail(w)[k] = w[k + 1]
           /\ 1 \in 1 .. Len(w) /\ w[1] \in PacketSet
OBVIOUS

\* What lies before a packet of the rest, and the packet read.
LEMMA PassedTail ==
    ASSUME NEW w \in Seq(PacketSet), w # <<>>, NEW k \in 1 .. Len(Tail(w)), NEW t
    PROVE  /\ k + 1 \in 1 .. Len(w) /\ Tail(w)[k] = w[k + 1]
           /\ Passed(w, k + 1, t) <=> (w[1].type = t \/ Passed(Tail(w), k, t))
<1> DEFINE v == Tail(w)
<1>1. /\ Len(w) \in Nat /\ Len(w) >= 1 /\ Len(v) = Len(w) - 1
      /\ \A j \in 1 .. Len(w) - 1 : v[j] = w[j + 1]
  BY TailFacts
<1> HIDE DEF v
<1>2. k + 1 \in 1 .. Len(w) /\ v[k] = w[k + 1]
  BY <1>1 DEF v
<1>3. ASSUME Passed(w, k + 1, t) PROVE w[1].type = t \/ Passed(v, k, t)
  <2>1. PICK j \in 1 .. (k + 1) - 1 : w[j].type = t
    BY <1>3 DEF Passed
  <2>2. CASE j = 1
    BY <2>1, <2>2
  <2>3. CASE j # 1
    <3>1. j - 1 \in 1 .. k - 1 /\ j - 1 \in 1 .. Len(w) - 1 /\ (j - 1) + 1 = j
      BY <1>2, <2>3
    <3>2. v[j - 1].type = t
      BY <1>1, <2>1, <3>1
    <3> QED BY <3>1, <3>2 DEF Passed
  <2> QED BY <2>2, <2>3
<1>4. ASSUME w[1].type = t PROVE Passed(w, k + 1, t)
  <2>1. 1 \in 1 .. (k + 1) - 1
    BY <1>2
  <2> QED BY <1>4, <2>1 DEF Passed
<1>5. ASSUME Passed(v, k, t) PROVE Passed(w, k + 1, t)
  <2>1. PICK j \in 1 .. k - 1 : v[j].type = t
    BY <1>5 DEF Passed
  <2>2. j \in 1 .. Len(w) - 1 /\ j + 1 \in 1 .. (k + 1) - 1
    BY <1>2
  <2>3. w[j + 1].type = t
    BY <1>1, <2>1, <2>2
  <2> QED BY <2>2, <2>3 DEF Passed
<1> QED BY <1>2, <1>3, <1>4, <1>5 DEF v

\* The messages on a wire are the first one and those of the rest.
LEMMA HasTail ==
    ASSUME NEW w \in Seq(PacketSet), w # <<>>, NEW t
    PROVE  Has(w, t) <=> (w[1].type = t \/ Has(Tail(w), t))
<1> DEFINE v == Tail(w)
<1>1. /\ Len(w) \in Nat /\ Len(w) >= 1 /\ Len(v) = Len(w) - 1
      /\ \A j \in 1 .. Len(w) - 1 : v[j] = w[j + 1]
  BY TailFacts
<1> HIDE DEF v
<1>2. ASSUME Has(w, t) PROVE w[1].type = t \/ Has(v, t)
  <2>1. PICK j \in 1 .. Len(w) : w[j].type = t
    BY <1>2 DEF Has
  <2>2. CASE j = 1
    BY <2>1, <2>2
  <2>3. CASE j # 1
    <3>1. j - 1 \in 1 .. Len(v) /\ j - 1 \in 1 .. Len(w) - 1 /\ (j - 1) + 1 = j
      BY <1>1, <2>3
    <3>2. v[j - 1].type = t
      BY <1>1, <2>1, <3>1
    <3> QED BY <3>1, <3>2 DEF Has
  <2> QED BY <2>2, <2>3
<1>3. ASSUME w[1].type = t PROVE Has(w, t)
  <2>1. 1 \in 1 .. Len(w)
    BY <1>1
  <2> QED BY <1>3, <2>1 DEF Has
<1>4. ASSUME Has(v, t) PROVE Has(w, t)
  <2>1. PICK j \in 1 .. Len(v) : v[j].type = t
    BY <1>4 DEF Has
  <2>2. j \in 1 .. Len(w) - 1 /\ j + 1 \in 1 .. Len(w)
    BY <1>1
  <2>3. w[j + 1].type = t
    BY <1>1, <2>1, <2>2
  <2> QED BY <2>2, <2>3 DEF Has
<1> QED BY <1>2, <1>3, <1>4 DEF v

\* The first message of the exchange on a wire comes before the others.
LEMMA HeadFirst ==
    ASSUME NEW w \in Seq(PacketSet), w # <<>>, InOrder(w), w[1].type \in KexType
    PROVE  /\ w[1].type \in Kex(w)
           /\ \A t \in Kex(Tail(w)) : Rank(w[1].type) < Rank(t)
<1>1. Len(w) \in Nat /\ Len(w) >= 1 /\ Len(Tail(w)) = Len(w) - 1
  BY TailFacts
<1>2. w[1].type \in Kex(w)
  BY HasTail DEF Kex
<1>3. ASSUME NEW t \in Kex(Tail(w)) PROVE Rank(w[1].type) < Rank(t)
  <2>1. PICK k \in 1 .. Len(Tail(w)) : Tail(w)[k].type = t
    BY <1>3 DEF Kex, Has
  <2>2. k + 1 \in 1 .. Len(w) /\ w[k + 1].type = t
    BY <2>1, PassedTail
  <2>3. 1 \in 1 .. (k + 1) - 1
    BY <1>1
  <2>4. t \in KexType
    BY DEF Kex
  <2> QED BY <2>2, <2>3, <2>4 DEF InOrder
<1> QED BY <1>2, <1>3

\* The exchange messages of the rest: types are not repeated on a wire.
LEMMA KexTail ==
    ASSUME NEW w \in Seq(PacketSet), w # <<>>, InOrder(w)
    PROVE  Kex(Tail(w)) = Kex(w) \ {w[1].type}
<1>1. \A t : Has(w, t) <=> (w[1].type = t \/ Has(Tail(w), t))
  BY HasTail
<1>2. w[1].type \notin Kex(Tail(w))
  <2>1. CASE w[1].type \in KexType
    <3>1. \A t \in Kex(Tail(w)) : Rank(w[1].type) < Rank(t)
      BY <2>1, HeadFirst
    <3>2. ~(Rank(w[1].type) < Rank(w[1].type))
      BY DEF Rank
    <3> QED BY <3>1, <3>2
  <2>2. CASE w[1].type \notin KexType
    BY <2>2 DEF Kex
  <2> QED BY <2>1, <2>2
<1> QED BY <1>1, <1>2, Zenon DEF Kex

\* The first packet fits the key, the count and the compression of its reader.
LEMMA HeadMatches ==
    ASSUME NEW w \in Seq(PacketSet), w # <<>>, NEW sk, NEW rk, NEW sq, NEW rq, NEW both,
           SameKeys(w, sk, rk), SameCounts(w, sq, rq), SameCompression(w, both)
    PROVE  w[1].key = rk /\ w[1].seq = rq /\ (w[1].comp <=> both)
<1>1. 1 \in 1 .. Len(w)
  BY TailFacts
<1>2. \A t : ~Passed(w, 1, t)
  BY DEF Passed
<1>3. w[1].key = rk
  BY <1>1, <1>2 DEF SameKeys
<1>4. w[1].seq = rq
  BY <1>1 DEF SameCounts, SeqAt
<1>5. w[1].comp <=> both
  BY <1>1, <1>2, Zenon DEF SameCompression
<1> QED BY <1>3, <1>4, <1>5

\* InOrder for the rest of a wire.
LEMMA InOrderTail ==
    ASSUME NEW w \in Seq(PacketSet), w # <<>>, InOrder(w)
    PROVE  InOrder(Tail(w))
<1> DEFINE v == Tail(w)
<1>1. /\ Len(w) \in Nat /\ Len(w) >= 1 /\ Len(v) = Len(w) - 1
      /\ \A j \in 1 .. Len(w) - 1 : v[j] = w[j + 1]
  BY TailFacts
<1> HIDE DEF v
<1>2. ASSUME NEW k \in 1 .. Len(v), NEW j \in 1 .. k - 1,
             v[j].type \in KexType, v[k].type \in KexType
      PROVE  Rank(v[j].type) < Rank(v[k].type)
  <2>1. /\ k \in 1 .. Len(w) - 1 /\ j \in 1 .. Len(w) - 1
        /\ k + 1 \in 1 .. Len(w) /\ j + 1 \in 1 .. (k + 1) - 1
    <3>1. Len(w) \in Nat /\ Len(v) = Len(w) - 1
      BY <1>1
    <3> DEFINE n == Len(w)
               l == Len(v)
    <3>2. n \in Nat /\ l = n - 1 /\ k \in 1 .. l /\ j \in 1 .. k - 1
      BY <3>1
    <3> HIDE DEF n, l
    <3>3. /\ k \in 1 .. n - 1 /\ j \in 1 .. n - 1
          /\ k + 1 \in 1 .. n /\ j + 1 \in 1 .. (k + 1) - 1
      BY <3>2
    <3> QED BY <3>3 DEF n
  <2>2. v[k] = w[k + 1] /\ v[j] = w[j + 1]
    BY <1>1, <2>1
  <2> QED BY <1>2, <2>1, <2>2 DEF InOrder
<1>3. InOrder(v)
  BY <1>2 DEF InOrder
<1> QED BY <1>3 DEF v

\* Shielded for the rest of a wire.
LEMMA ShieldedTail ==
    ASSUME NEW w \in Seq(PacketSet), w # <<>>, Shielded(w)
    PROVE  Shielded(Tail(w))
<1> DEFINE v == Tail(w)
<1>1. /\ Len(w) \in Nat /\ Len(w) >= 1 /\ Len(v) = Len(w) - 1
      /\ \A j \in 1 .. Len(w) - 1 : v[j] = w[j + 1]
  BY TailFacts
<1> HIDE DEF v
<1>2. ASSUME NEW k \in 1 .. Len(v), v[k].type \notin KexType
      PROVE  /\ v[k].key # NoKey
             /\ \A i \in 1 .. k - 1 : v[i].type = "KEXINIT" =>
                   \E j \in i + 1 .. k - 1 : v[j].type = "NEWKEYS"
  <2>1. k + 1 \in 1 .. Len(w) /\ v[k] = w[k + 1]
    BY <1>1
  <2>2. v[k].key # NoKey
    BY <1>2, <2>1 DEF Shielded
  <2>3. ASSUME NEW i \in 1 .. k - 1, v[i].type = "KEXINIT"
        PROVE  \E j \in i + 1 .. k - 1 : v[j].type = "NEWKEYS"
    <3>1. i + 1 \in 1 .. (k + 1) - 1 /\ v[i] = w[i + 1]
      BY <1>1
    <3>2. PICK j \in (i + 1) + 1 .. (k + 1) - 1 : w[j].type = "NEWKEYS"
      BY <1>2, <2>1, <2>3, <3>1 DEF Shielded
    <3>3. j - 1 \in i + 1 .. k - 1 /\ j - 1 \in 1 .. Len(w) - 1 /\ (j - 1) + 1 = j
      BY <2>1
    <3>4. v[j - 1] = w[j]
      BY <1>1, <3>3
    <3> QED BY <3>2, <3>3, <3>4
  <2> QED BY <2>2, <2>3
<1>3. Shielded(v)
  BY <1>2 DEF Shielded
<1> QED BY <1>3 DEF v

\* Quiet for the rest: a reader closes by reading KEXINIT, opens by NEWKEYS.
LEMMA QuietTail ==
    ASSUME NEW w \in Seq(PacketSet), w # <<>>, Shielded(w),
           NEW closed, NEW then, Quiet(w, closed),
           then => \/ closed /\ w[1].type # "NEWKEYS"
                   \/ w[1].type = "KEXINIT"
    PROVE  Quiet(Tail(w), then)
<1> SUFFICES ASSUME then, NEW k \in 1 .. Len(Tail(w)), Tail(w)[k].type \notin KexType
             PROVE  Passed(Tail(w), k, "NEWKEYS")
  BY DEF Quiet
<1>1. /\ k + 1 \in 1 .. Len(w) /\ Tail(w)[k] = w[k + 1]
      /\ Passed(w, k + 1, "NEWKEYS") <=> (w[1].type = "NEWKEYS" \/ Passed(Tail(w), k, "NEWKEYS"))
  BY PassedTail
<1>2. CASE closed /\ w[1].type # "NEWKEYS"
  BY <1>1, <1>2 DEF Quiet
<1>3. CASE w[1].type = "KEXINIT"
  <2>1. 1 \in 1 .. (k + 1) - 1 /\ Len(w) \in Nat
    BY <1>1
  <2>2. \E j \in 1 + 1 .. (k + 1) - 1 : w[j].type = "NEWKEYS"
    BY <1>1, <1>3, <2>1 DEF Shielded
  <2>3. Passed(w, k + 1, "NEWKEYS")
    BY <2>2 DEF Passed
  <2> QED BY <1>1, <1>3, <2>3
<1> QED BY <1>2, <1>3

\* SameKeys for the rest: the reader goes over to the new key at NEWKEYS.
LEMMA KeysTail ==
    ASSUME NEW w \in Seq(PacketSet), w # <<>>, NEW sk, NEW rk, NEW rk2,
           SameKeys(w, sk, rk), InOrder(w),
           rk2 = IF w[1].type = "NEWKEYS" THEN sk ELSE rk
    PROVE  SameKeys(Tail(w), sk, rk2)
<1>1. w[1].type = "NEWKEYS" => ~Has(Tail(w), "NEWKEYS")
  BY KexTail DEF Kex, KexType
<1>2. Has(w, "NEWKEYS") <=> (w[1].type = "NEWKEYS" \/ Has(Tail(w), "NEWKEYS"))
  BY HasTail
<1>3. ASSUME NEW k \in 1 .. Len(Tail(w))
      PROVE  Tail(w)[k].key = IF Passed(Tail(w), k, "NEWKEYS") THEN sk ELSE rk2
  <2>1. /\ k + 1 \in 1 .. Len(w) /\ Tail(w)[k] = w[k + 1]
        /\ Passed(w, k + 1, "NEWKEYS")
              <=> (w[1].type = "NEWKEYS" \/ Passed(Tail(w), k, "NEWKEYS"))
    BY PassedTail
  <2>2. w[k + 1].key = IF Passed(w, k + 1, "NEWKEYS") THEN sk ELSE rk
    BY <2>1 DEF SameKeys
  <2> QED BY <2>1, <2>2
<1>4. ~Has(Tail(w), "NEWKEYS") => sk = rk2
  BY <1>2 DEF SameKeys
<1> QED BY <1>3, <1>4 DEF SameKeys

\* SameCounts for the rest: the reader counts the packet it has read.
LEMMA CountsTail ==
    ASSUME NEW w \in Seq(PacketSet), w # <<>>, NEW sq, NEW rq, SameCounts(w, sq, rq)
    PROVE  SameCounts(Tail(w), sq, After(w[1]))
<1> DEFINE v == Tail(w)
<1>1. /\ Len(w) \in Nat /\ Len(w) >= 1 /\ Len(v) = Len(w) - 1
      /\ \A j \in 1 .. Len(w) - 1 : v[j] = w[j + 1]
  BY TailFacts
<1> HIDE DEF v
<1>2. \A k \in 1 .. Len(w) : SeqAt(v, sq, k) = SeqAt(w, sq, k + 1)
  <2> SUFFICES ASSUME NEW k \in 1 .. Len(w)
               PROVE  SeqAt(v, sq, k) = SeqAt(w, sq, k + 1)
    OBVIOUS
  <2>1. CASE k \in 1 .. Len(v)
    <3>1. k + 1 \in 1 .. Len(w) /\ v[k] = w[k + 1]
      BY <1>1, <2>1
    <3> QED BY <2>1, <3>1 DEF SeqAt
  <2>2. CASE k \notin 1 .. Len(v)
    <3>1. k + 1 \notin 1 .. Len(w)
      BY <1>1, <2>2
    <3> QED BY <2>2, <3>1 DEF SeqAt
  <2> QED BY <2>1, <2>2
<1>3. SeqAt(v, sq, 1) = After(w[1])
  <2>1. 1 \in 1 .. Len(w)
    BY <1>1
  <2> QED BY <1>2, <2>1 DEF SameCounts
<1>4. ASSUME NEW k \in 1 .. Len(v) PROVE SeqAt(v, sq, k + 1) = After(v[k])
  <2>1. k + 1 \in 1 .. Len(w) /\ v[k] = w[k + 1]
    BY <1>1
  <2> QED BY <1>2, <2>1 DEF SameCounts
<1>5. SameCounts(v, sq, After(w[1]))
  BY <1>3, <1>4 DEF SameCounts
<1> QED BY <1>5 DEF v

\* SameCompression for the rest: SUCCESS turns compression on at its reader.
LEMMA CompressionTail ==
    ASSUME NEW w \in Seq(PacketSet), w # <<>>, NEW both, NEW then,
           SameCompression(w, both),
           then <=> (both \/ w[1].type = "SUCCESS")
    PROVE  SameCompression(Tail(w), then)
<1> SUFFICES ASSUME NEW k \in 1 .. Len(Tail(w))
             PROVE  Tail(w)[k].comp <=> (then \/ Passed(Tail(w), k, "SUCCESS"))
  BY DEF SameCompression
<1>1. /\ k + 1 \in 1 .. Len(w) /\ Tail(w)[k] = w[k + 1]
      /\ Passed(w, k + 1, "SUCCESS") <=> (w[1].type = "SUCCESS" \/ Passed(Tail(w), k, "SUCCESS"))
  BY PassedTail
<1>2. w[k + 1].comp <=> (both \/ Passed(w, k + 1, "SUCCESS"))
  BY <1>1, Zenon DEF SameCompression
<1> QED BY <1>1, <1>2, Zenon

\* Bodies for the rest of a wire.
LEMMA BodiesTail ==
    ASSUME NEW w \in Seq(PacketSet), w # <<>>, NEW initial, NEW then,
           Bodies(w, initial), then => initial
    PROVE  Bodies(Tail(w), then)
<1> SUFFICES ASSUME NEW k \in 1 .. Len(Tail(w))
             PROVE  LET p == Tail(w)[k] IN
                    /\ p.type \in {"KEX_INIT", "GEX_INIT"} => p.body \in Key \ {NoKey}
                    /\ p.type = "KEXINIT" => (then => p.body = 1)
  BY Zenon DEF Bodies
<1>1. k + 1 \in 1 .. Len(w) /\ Tail(w)[k] = w[k + 1]
  BY PassedTail
<1> QED BY <1>1 DEF Bodies

\* Replies for the rest of a wire.
LEMMA RepliesTail ==
    ASSUME NEW w \in Seq(PacketSet), w # <<>>, NEW sk, Replies(w, sk)
    PROVE  Replies(Tail(w), sk)
<1> SUFFICES ASSUME NEW k \in 1 .. Len(Tail(w)),
                    Tail(w)[k].type \in {"KEX_REPLY", "GEX_REPLY"}
             PROVE  Tail(w)[k].body = sk
  BY DEF Replies
<1>1. k + 1 \in 1 .. Len(w) /\ Tail(w)[k] = w[k + 1]
  BY PassedTail
<1> QED BY <1>1 DEF Replies

\* The first message of the layers above on a wire is the next one to be read.
LEMMA NumberedTail ==
    ASSUME NEW w \in Seq(PacketSet), w # <<>>, NEW m \in Nat, NEW g \in Nat,
           Numbered(w, m, g), g <= m, NEW g2 \in Nat,
           g2 = IF w[1].type \in DataType THEN g + 1 ELSE g
    PROVE  /\ w[1].type \in DataType => w[1].body = g + 1
           /\ g2 <= m
           /\ Numbered(Tail(w), m, g2)
<1> DEFINE v == Tail(w)
<1>1. /\ Len(w) \in Nat /\ Len(w) >= 1 /\ Len(v) = Len(w) - 1
      /\ \A j \in 1 .. Len(w) - 1 : v[j] = w[j + 1]
  BY TailFacts
<1>2. \A k \in 1 .. Len(w) : w[k].body \in Nat
  BY PacketTyped
<1> HIDE DEF v
<1>3. 1 \in 1 .. Len(w)
  BY <1>1
<1>4. \A k \in 1 .. Len(w) : k # 1 => 1 \in 1 .. k - 1
  BY <1>1
<1>5. ASSUME w[1].type \in DataType
      PROVE  w[1].body = g + 1 /\ g + 1 <= m
  <2>1. g < w[1].body /\ w[1].body <= m
    BY <1>3, <1>5 DEF Numbered
  <2>2. g + 1 \in g + 1 .. m /\ w[1].body \in Nat
    BY <2>1, <1>2, <1>3
  <2>3. PICK k \in 1 .. Len(w) : w[k].type \in DataType /\ w[k].body = g + 1
    BY <2>2 DEF Numbered
  <2>4. CASE k = 1
    BY <2>1, <2>2, <2>3, <2>4
  <2>5. CASE k # 1
    <3>1. w[1].body < w[k].body
      BY <1>4, <1>5, <2>3, <2>5 DEF Numbered
    <3> QED BY <2>1, <2>2, <2>3, <3>1
  <2> QED BY <2>4, <2>5
<1>6. ASSUME NEW k \in 1 .. Len(v), v[k].type \in DataType
      PROVE  g2 < v[k].body /\ v[k].body <= m
  <2>1. k + 1 \in 1 .. Len(w) /\ v[k] = w[k + 1] /\ k + 1 # 1
    BY <1>1
  <2>2. g < w[k + 1].body /\ w[k + 1].body <= m /\ w[k + 1].body \in Nat
    BY <1>2, <1>6, <2>1 DEF Numbered
  <2>3. CASE w[1].type \in DataType
    <3>1. w[1].body < w[k + 1].body
      BY <1>4, <1>6, <2>1, <2>3 DEF Numbered
    <3> QED BY <1>5, <2>1, <2>2, <2>3, <3>1
  <2>4. CASE w[1].type \notin DataType
    BY <2>1, <2>2, <2>4
  <2> QED BY <2>3, <2>4
<1>7. ASSUME NEW k \in 1 .. Len(v), NEW j \in 1 .. k - 1,
             v[j].type \in DataType, v[k].type \in DataType
      PROVE  v[j].body < v[k].body
  <2>1. /\ k + 1 \in 1 .. Len(w) /\ j + 1 \in 1 .. (k + 1) - 1
        /\ v[k] = w[k + 1] /\ v[j] = w[j + 1]
    BY <1>1
  <2> QED BY <1>7, <2>1 DEF Numbered
<1>8. ASSUME NEW b \in g2 + 1 .. m
      PROVE  \E k \in 1 .. Len(v) : v[k].type \in DataType /\ v[k].body = b
  <2>1. b \in g + 1 .. m
    OBVIOUS
  <2>2. PICK k \in 1 .. Len(w) : w[k].type \in DataType /\ w[k].body = b
    BY <2>1 DEF Numbered
  <2>3. k # 1
    <3> SUFFICES ASSUME k = 1 PROVE FALSE
      OBVIOUS
    <3>1. w[1].type \in DataType /\ b = g + 1 /\ g2 = g + 1
      BY <1>5, <2>2
    <3> QED BY <3>1
  <2>4. k - 1 \in 1 .. Len(v) /\ k - 1 \in 1 .. Len(w) - 1 /\ (k - 1) + 1 = k
    BY <1>1, <2>3
  <2>5. v[k - 1] = w[k]
    BY <1>1, <2>4
  <2> QED BY <2>2, <2>4, <2>5
<1>9. Numbered(v, m, g2)
  BY <1>6, <1>7, <1>8 DEF Numbered
<1>10. g2 <= m
  BY <1>5
<1> QED BY <1>5, <1>9, <1>10 DEF v

\* ExtInfoFirst for the rest of a wire.
LEMMA ExtInfoTail ==
    ASSUME NEW w \in Seq(PacketSet), w # <<>>, NEW g, NEW g2, ExtInfoFirst(w, g),
           w[1].type \in DataType \/ g2 = g
    PROVE  ExtInfoFirst(Tail(w), g2)
<1> SUFFICES ASSUME NEW k \in 1 .. Len(Tail(w)), Tail(w)[k].type = "EXT_INFO"
             PROVE  g2 = 0 /\ \A j \in 1 .. k - 1 : Tail(w)[j].type \notin DataType
  BY DEF ExtInfoFirst
<1>0. /\ Len(w) \in Nat /\ Len(Tail(w)) = Len(w) - 1
      /\ \A j \in 1 .. Len(w) - 1 : Tail(w)[j] = w[j + 1]
  BY TailFacts
<1>1. k + 1 \in 1 .. Len(w) /\ Tail(w)[k] = w[k + 1] /\ 1 \in 1 .. (k + 1) - 1
  BY <1>0
<1>2. g = 0 /\ \A j \in 1 .. (k + 1) - 1 : w[j].type \notin DataType
  BY <1>1 DEF ExtInfoFirst
<1>3. g2 = g
  BY <1>1, <1>2
<1>4. \A j \in 1 .. k - 1 : j + 1 \in 1 .. (k + 1) - 1 /\ Tail(w)[j] = w[j + 1]
  BY <1>0
<1> QED BY <1>2, <1>3, <1>4

-----------------------------------------------------------------------------
(* The same for a direction: s sends, r reads.                             *)

\* Sequence numbers are counted modulo SeqMod.
LEMMA ModFacts ==
    ASSUME NEW a \in Nat
    PROVE  /\ SeqMod \in Nat /\ SeqMod > 4 /\ a % SeqMod \in Seq32
           /\ ((a % SeqMod) + 1) % SeqMod = (a + 1) % SeqMod
           /\ a < SeqMod => a % SeqMod = a
<1>1. SeqMod \in Nat /\ SeqMod > 4 /\ SeqMod > 0
  BY TransportAssumption
<1>2. a % SeqMod \in 0 .. SeqMod - 1
  BY <1>1, ModRange, Zenon
<1>3. ((a % SeqMod) + 1) % SeqMod = (a + 1) % SeqMod
  BY <1>1, ModSucc, Zenon
<1>4. a < SeqMod => a % SeqMod = a
  BY <1>1, ModSmall, Zenon
<1> QED BY <1>1, <1>2, <1>3, <1>4 DEF Seq32

\* The fields of the state of an end have their types.
LEMMA EndTyped ==
    ASSUME NEW s \in EndState
    PROVE  /\ s.out \in Seq(PacketSet) /\ s.outgoing \in Seq(MsgSet)
           /\ Len(s.out) \in Nat /\ Len(s.outgoing) \in Nat
           /\ s.snd \in Direction /\ s.rcv \in Direction
           /\ s.snd.key \in Key /\ s.snd.seq \in Seq32 /\ s.snd.comp \in BOOLEAN
           /\ s.rcv.key \in Key /\ s.rcv.seq \in Seq32 /\ s.rcv.comp \in BOOLEAN
           /\ s.snd.used \in BOOLEAN /\ s.rcv.used \in BOOLEAN
           /\ s.auth \in BOOLEAN /\ s.rekeying \in BOOLEAN /\ s.done \in BOOLEAN
           /\ s.kex_strict \in BOOLEAN /\ s.err = "none"
           /\ s.newkeys \in [snd : Key, rcv : Key] /\ s.exchange \in Key
           /\ s.kex_type \in Methods
<1>1. /\ s.out \in Seq(PacketSet) /\ s.outgoing \in Seq(MsgSet)
      /\ s.snd \in Direction /\ s.rcv \in Direction
      /\ s.auth \in BOOLEAN /\ s.rekeying \in BOOLEAN /\ s.done \in BOOLEAN
      /\ s.kex_strict \in BOOLEAN /\ s.err = "none"
      /\ s.newkeys \in [snd : Key, rcv : Key] /\ s.exchange \in Key
      /\ s.kex_type \in Methods
  BY DEF EndState
<1>2. /\ s.snd.key \in Key /\ s.snd.seq \in Seq32 /\ s.snd.comp \in BOOLEAN
      /\ s.rcv.key \in Key /\ s.rcv.seq \in Seq32 /\ s.rcv.comp \in BOOLEAN
      /\ s.snd.used \in BOOLEAN /\ s.rcv.used \in BOOLEAN
  BY <1>1 DEF Direction
<1>3. Len(s.out) \in Nat /\ Len(s.outgoing) \in Nat
  BY <1>1
<1> QED BY <1>1, <1>2, <1>3

\* A packet carries its message and the sender's key, count and compression.
LEMMA PacketFacts ==
    ASSUME NEW s \in EndState, NEW m \in MsgSet, NEW q \in Seq32
    PROVE  LET p == Packet(s, q, m) IN
           /\ p \in PacketSet
           /\ p.type = m.type /\ p.body = m.body /\ p.key = s.snd.key
           /\ p.seq = q /\ p.comp = s.snd.comp
<1>1. m.type \in Type /\ m.body \in Nat
  BY DEF MsgSet
<1>2. s.snd.key \in Key /\ s.snd.comp \in BOOLEAN
  BY EndTyped
<1> QED BY <1>1, <1>2 DEF Packet, PacketSet

\* t is s with message m sent.
Sends(s, t, m) ==
    /\ t.out = Append(s.out, Packet(s, s.snd.seq, m))
    /\ t.snd.key = s.snd.key /\ t.snd.comp = s.snd.comp
    /\ t.snd.seq = (s.snd.seq + 1) % SeqMod

\* What s sends now is compressed as r expects when it gets there.
Compressed(s, r) == s.snd.comp <=> ((s.auth /\ r.auth) \/ Has(s.out, "SUCCESS"))

Behind(K, x) == \A y \in K : Rank(y) < Rank(x)

\* The body of a message of the exchange is what r can use.
BodyFits(m, r) ==
    /\ m.type \in {"KEX_INIT", "GEX_INIT"} => m.body \in Key \ {NoKey}
    /\ m.type = "KEXINIT" => ("INITIAL" \in r.flags => m.body = 1)

\* A message of the exchange, other than NEWKEYS, is sent.
LEMMA WireSendsKex ==
    ASSUME NEW s \in EndState, NEW t \in EndState, NEW r \in EndState,
           NEW n \in Nat, NEW g \in Nat, NEW m \in MsgSet,
           Wire(s, r, n, g), m.type \in KexType, m.type # "NEWKEYS",
           Behind(Kex(s.out), m.type), Compressed(s, r), BodyFits(m, r),
           Sends(s, t, m), t.auth = s.auth, t.outgoing = s.outgoing
    PROVE  Wire(t, r, n, g) /\ Kex(t.out) = Kex(s.out) \union {m.type}
<1> DEFINE w == s.out
           p == Packet(s, s.snd.seq, m)
           v == Append(w, p)
           N == Len(w) + 1
<1>1. /\ w \in Seq(PacketSet) /\ s.snd.seq \in Seq32
      /\ Len(s.outgoing) \in Nat /\ Len(w) \in Nat
  BY EndTyped
<1>2. /\ p \in PacketSet /\ p.type = m.type /\ p.body = m.body
      /\ p.key = s.snd.key /\ p.seq = s.snd.seq /\ p.comp = s.snd.comp
  BY <1>1, PacketFacts
<1>3. /\ Extends(w, v) /\ Len(v) = N /\ v[N] = p /\ Added(w, v) = {N}
  BY <1>1, <1>2, AppendExtends
<1>4. \A x : Passed(v, N, x) <=> Has(w, x)
  BY <1>1, <1>2, NextPassed
<1>5. After(p) = (s.snd.seq + 1) % SeqMod
  BY <1>2 DEF After
<1>6. Kex(v) = Kex(w) \union {m.type}
  <2>1. {p.type} \cap KexType = {m.type}
    BY <1>2
  <2> QED BY <1>1, <1>2, <2>1, AppendKex
<1>7. SameCounts(v, After(p), r.rcv.seq)
  BY <1>1, <1>2, CountsAppend DEF Wire
<1> HIDE DEF p, v
<1>8. InOrder(v)
  <2>1. ASSUME NEW j \in 1 .. N - 1, v[j].type \in KexType
        PROVE  Rank(v[j].type) < Rank(m.type)
    <3>1. j \in 1 .. Len(w) /\ v[j] = w[j]
      BY <1>1, <1>3 DEF Extends
    <3>2. v[j].type \in Kex(w)
      BY <2>1, <3>1 DEF Kex, Has
    <3> QED BY <3>2 DEF Behind
  <2> QED BY <1>2, <1>3, <2>1, InOrderExtends DEF Wire
<1>9. Shielded(v)
  BY <1>2, <1>3, ShieldedExtends DEF Wire
<1>10. Quiet(v, Closed(r))
  BY <1>2, <1>3, QuietExtends DEF Wire
<1>11. SameKeys(v, s.snd.key, r.rcv.key)
  BY <1>2, <1>3, KeysExtend DEF Wire
<1>12. SameCompression(v, s.auth /\ r.auth)
  <2> DEFINE both == s.auth /\ r.auth
  <2>1. v[N].comp <=> (both \/ Passed(v, N, "SUCCESS"))
    BY <1>2, <1>3, <1>4, Zenon DEF Compressed
  <2>2. SameCompression(w, both)
    BY DEF Wire
  <2> HIDE DEF both
  <2>3. SameCompression(v, both)
    BY <1>3, <2>1, <2>2, CompressionExtends
  <2> QED BY <2>3 DEF both
<1>13. Bodies(v, "INITIAL" \in r.flags)
  <2> DEFINE initial == "INITIAL" \in r.flags
  <2>1. Bodies(w, initial)
    BY DEF Wire
  <2>2. /\ v[N].type \in {"KEX_INIT", "GEX_INIT"} => v[N].body \in Key \ {NoKey}
        /\ v[N].type = "KEXINIT" => (initial => v[N].body = 1)
    BY <1>2, <1>3 DEF BodyFits
  <2> HIDE DEF initial
  <2>3. Bodies(v, initial)
    BY <1>3, <2>1, <2>2, BodiesExtend
  <2> QED BY <2>3 DEF initial
<1>14. ExtInfoFirst(v, g)
  BY <1>2, <1>3, ExtInfoExtends DEF Wire, KexType
<1>15. Numbered(v, n - Len(s.outgoing), g)
  <2>1. g <= n - Len(s.outgoing) /\ n - Len(s.outgoing) \in Nat
    BY <1>1 DEF Wire
  <2>2. \A k \in Added(w, v) : v[k].type \notin DataType
    BY <1>2, <1>3 DEF DataType, KexType
  <2> DEFINE m0 == n - Len(s.outgoing)
  <2>3. Numbered(w, m0, g) /\ g <= m0 /\ m0 \in Nat
    BY <2>1 DEF Wire
  <2> HIDE DEF m0
  <2>4. m0 + 1 .. m0 = {} /\ m0 <= m0
    BY <2>3
  <2>5. Numbered(v, m0, g)
    BY <1>3, <2>2, <2>3, <2>4, NumberedExtends
  <2> QED BY <2>5 DEF m0
<1>16. t.out = v /\ g <= n - Len(t.outgoing)
  BY DEF v, p, Wire, Sends
<1>17. t.snd.key = s.snd.key /\ t.snd.seq = (s.snd.seq + 1) % SeqMod
  BY DEF Sends
<1> QED BY <1>17, <1>5, <1>6, <1>7, <1>8, <1>9, <1>10, <1>11, <1>12, <1>13, <1>14, <1>15, <1>16
     DEF Wire

\* NEWKEYS is sent.
LEMMA WireSendsNewkeys ==
    ASSUME NEW s \in EndState, NEW t \in EndState, NEW r \in EndState,
           NEW n \in Nat, NEW g \in Nat, NEW m \in MsgSet,
           Wire(s, r, n, g), m.type = "NEWKEYS",
           \A x \in Kex(s.out) : Rank(x) < 1,
           s.snd.comp <=> ((s.auth /\ r.auth) \/ Has(s.out, "SUCCESS")),
           t.out = Append(s.out, Packet(s, s.snd.seq, m)),
           t.snd.seq = 0, t.auth = s.auth, t.outgoing = s.outgoing
    PROVE  Wire(t, r, n, g) /\ Kex(t.out) = Kex(s.out) \union {"NEWKEYS"}
<1> DEFINE w == s.out
           p == Packet(s, s.snd.seq, m)
           v == Append(w, p)
           N == Len(w) + 1
<1>1. /\ w \in Seq(PacketSet) /\ s.snd.seq \in Seq32
      /\ Len(s.outgoing) \in Nat /\ Len(w) \in Nat
  BY EndTyped
<1>2. /\ p \in PacketSet /\ p.type = m.type /\ p.body = m.body
      /\ p.key = s.snd.key /\ p.seq = s.snd.seq /\ p.comp = s.snd.comp
  BY <1>1, PacketFacts
<1>3. /\ Extends(w, v) /\ Len(v) = N /\ v[N] = p /\ Added(w, v) = {N}
  BY <1>1, <1>2, AppendExtends
<1>4. \A x : Passed(v, N, x) <=> Has(w, x)
  BY <1>1, <1>2, NextPassed
<1>5. After(p) = 0
  BY <1>2 DEF After
<1>6. Kex(v) = Kex(w) \union {"NEWKEYS"}
  <2>1. {p.type} \cap KexType = {"NEWKEYS"}
    BY <1>2 DEF KexType
  <2> QED BY <1>1, <1>2, <2>1, AppendKex
<1>7. SameCounts(v, After(p), r.rcv.seq)
  BY <1>1, <1>2, CountsAppend DEF Wire
<1>8. ~Has(w, "NEWKEYS")
  BY DEF Kex, Rank, KexType
<1>9. SameKeys(v, t.snd.key, r.rcv.key)
  BY <1>1, <1>2, <1>8, KeysChange DEF Wire
<1> HIDE DEF p, v
<1>10. InOrder(v)
  <2>1. ASSUME NEW j \in 1 .. N - 1, v[j].type \in KexType
        PROVE  Rank(v[j].type) < Rank(m.type)
    <3>1. j \in 1 .. Len(w) /\ v[j] = w[j]
      BY <1>1, <1>3 DEF Extends
    <3>2. v[j].type \in Kex(w)
      BY <2>1, <3>1 DEF Kex, Has
    <3>3. Rank(m.type) = 1
      BY DEF Rank
    <3> QED BY <3>2, <3>3
  <2> QED BY <1>2, <1>3, <2>1, InOrderExtends DEF Wire
<1>11. Shielded(v)
  BY <1>2, <1>3, ShieldedExtends DEF Wire, KexType
<1>12. Quiet(v, Closed(r))
  BY <1>2, <1>3, QuietExtends DEF Wire, KexType
<1>13. SameCompression(v, s.auth /\ r.auth)
  <2> DEFINE both == s.auth /\ r.auth
  <2>1. v[N].comp <=> (both \/ Passed(v, N, "SUCCESS"))
    BY <1>2, <1>3, <1>4, Zenon
  <2>2. SameCompression(w, both)
    BY DEF Wire
  <2> HIDE DEF both
  <2>3. SameCompression(v, both)
    BY <1>3, <2>1, <2>2, CompressionExtends
  <2> QED BY <2>3 DEF both
<1>14. Bodies(v, "INITIAL" \in r.flags)
  <2> DEFINE initial == "INITIAL" \in r.flags
  <2>1. Bodies(w, initial)
    BY DEF Wire
  <2>2. /\ v[N].type \in {"KEX_INIT", "GEX_INIT"} => v[N].body \in Key \ {NoKey}
        /\ v[N].type = "KEXINIT" => (initial => v[N].body = 1)
    BY <1>2, <1>3
  <2> HIDE DEF initial
  <2>3. Bodies(v, initial)
    BY <1>3, <2>1, <2>2, BodiesExtend
  <2> QED BY <2>3 DEF initial
<1>15. ExtInfoFirst(v, g)
  BY <1>2, <1>3, ExtInfoExtends DEF Wire
<1>16. Numbered(v, n - Len(s.outgoing), g)
  <2>1. g <= n - Len(s.outgoing) /\ n - Len(s.outgoing) \in Nat
    BY <1>1 DEF Wire
  <2>2. \A k \in Added(w, v) : v[k].type \notin DataType
    BY <1>2, <1>3 DEF DataType
  <2> DEFINE m0 == n - Len(s.outgoing)
  <2>3. Numbered(w, m0, g) /\ g <= m0 /\ m0 \in Nat
    BY <2>1 DEF Wire
  <2> HIDE DEF m0
  <2>4. m0 + 1 .. m0 = {} /\ m0 <= m0
    BY <2>3
  <2>5. Numbered(v, m0, g)
    BY <1>3, <2>2, <2>3, <2>4, NumberedExtends
  <2> QED BY <2>5 DEF m0
<1>17. t.out = v /\ g <= n - Len(t.outgoing)
  BY DEF v, p, Wire
<1> QED BY <1>5, <1>6, <1>7, <1>9, <1>10, <1>11, <1>12, <1>13, <1>14, <1>15, <1>16, <1>17
     DEF Wire

\* To r, s sends message m that is not of the exchange, outside one.
PlainSend(s, t, r, n, n2, g, m) ==
    /\ s \in EndState /\ t \in EndState /\ r \in EndState
    /\ n \in Nat /\ n2 \in Nat /\ g \in Nat /\ m \in MsgSet
    /\ Wire(s, r, n, g) /\ m.type \notin KexType
    /\ s.snd.key # NoKey /\ "KEXINIT" \notin Kex(s.out)
    /\ Closed(r) => "NEWKEYS" \in Kex(s.out)
    /\ Compressed(s, r) /\ s.outgoing = <<>> /\ t.outgoing = <<>>
    /\ m.type \in DataType => n2 = n + 1 /\ m.body = n + 1
    /\ m.type \notin DataType => n2 = n
    /\ m.type = "EXT_INFO" => n = 0
    /\ t.out = Append(s.out, Packet(s, s.snd.seq, m))
    /\ t.snd.key = s.snd.key /\ t.snd.seq = (s.snd.seq + 1) % SeqMod
    /\ t.auth /\ r.auth <=> s.auth /\ r.auth

\* A message other than the exchange's is sent. n2 messages have then been
\* handed over.
LEMMA WireSendsPlain ==
    ASSUME NEW s, NEW t, NEW r, NEW n, NEW n2, NEW g, NEW m,
           PlainSend(s, t, r, n, n2, g, m)
    PROVE  Wire(t, r, n2, g) /\ Kex(t.out) = Kex(s.out)
<1>a. /\ s \in EndState /\ t \in EndState /\ r \in EndState
      /\ n \in Nat /\ n2 \in Nat /\ g \in Nat /\ m \in MsgSet
      /\ Wire(s, r, n, g) /\ m.type \notin KexType
      /\ s.snd.key # NoKey /\ "KEXINIT" \notin Kex(s.out)
      /\ Closed(r) => "NEWKEYS" \in Kex(s.out)
      /\ s.outgoing = <<>> /\ t.outgoing = <<>>
      /\ m.type \in DataType => n2 = n + 1 /\ m.body = n + 1
      /\ m.type \notin DataType => n2 = n
      /\ m.type = "EXT_INFO" => n = 0
      /\ t.out = Append(s.out, Packet(s, s.snd.seq, m))
      /\ t.snd.key = s.snd.key /\ t.snd.seq = (s.snd.seq + 1) % SeqMod
  BY DEF PlainSend
<1>b. s.snd.comp <=> ((s.auth /\ r.auth) \/ Has(s.out, "SUCCESS"))
  BY DEF PlainSend, Compressed
<1>c. t.auth /\ r.auth <=> s.auth /\ r.auth
  BY DEF PlainSend
<1> USE <1>a, <1>b, <1>c
<1> DEFINE w == s.out
           p == Packet(s, s.snd.seq, m)
           v == Append(w, p)
           N == Len(w) + 1
           both == s.auth /\ r.auth
           initial == "INITIAL" \in r.flags
<1>0. Len(s.outgoing) = 0 /\ Len(t.outgoing) = 0 /\ n - 0 = n /\ n2 - 0 = n2
  OBVIOUS
<1>1. /\ w \in Seq(PacketSet) /\ s.snd.seq \in Seq32 /\ Len(w) \in Nat
  BY EndTyped
<1>2. /\ p \in PacketSet /\ p.type = m.type /\ p.body = m.body
      /\ p.key = s.snd.key /\ p.seq = s.snd.seq /\ p.comp = s.snd.comp
  BY <1>1, PacketFacts
<1>3. /\ Extends(w, v) /\ Len(v) = N /\ v[N] = p /\ Added(w, v) = {N}
  BY <1>1, <1>2, AppendExtends
<1>4. \A x : Passed(v, N, x) <=> Has(w, x)
  BY <1>1, <1>2, NextPassed
<1>5. After(p) = (s.snd.seq + 1) % SeqMod
  BY <1>2 DEF After, KexType
<1>6. Kex(v) = Kex(w)
  <2>1. {p.type} \cap KexType = {}
    BY <1>2
  <2> QED BY <1>1, <1>2, <2>1, AppendKex
<1>7. SameCounts(v, After(p), r.rcv.seq)
  BY <1>1, <1>2, CountsAppend DEF Wire
<1> HIDE DEF p, v
<1>8. InOrder(v)
  BY <1>2, <1>3, InOrderExtends DEF Wire
<1>9. Shielded(v)
  <2>1. ASSUME NEW i \in 1 .. N - 1 PROVE v[i].type # "KEXINIT"
    <3>1. i \in 1 .. Len(w) /\ v[i] = w[i]
      BY <1>1, <1>3 DEF Extends
    <3> QED BY <3>1 DEF Kex, Has, KexType
  <2> QED BY <1>2, <1>3, <2>1, ShieldedExtends DEF Wire
<1>10. Quiet(v, Closed(r))
  <2> DEFINE closed == Closed(r)
  <2>1. Quiet(w, closed)
    BY DEF Wire
  <2>2. closed => Passed(v, N, "NEWKEYS")
    BY <1>4 DEF Kex
  <2> HIDE DEF closed
  <2>3. Quiet(v, closed)
    BY <1>3, <2>1, <2>2, QuietExtends
  <2> QED BY <2>3 DEF closed
<1>11. SameKeys(v, s.snd.key, r.rcv.key)
  <2>1. \A k \in Added(w, v) : v[k].type # "NEWKEYS" /\ v[k].key = s.snd.key
    BY <1>2, <1>3 DEF KexType
  <2> QED BY <1>3, <2>1, KeysExtend DEF Wire
<1>12. SameCompression(v, both)
  <2>1. v[N].comp <=> (both \/ Passed(v, N, "SUCCESS"))
    BY <1>2, <1>3, <1>4, Zenon
  <2>2. SameCompression(w, both)
    BY DEF Wire
  <2> HIDE DEF both
  <2> QED BY <1>3, <2>1, <2>2, CompressionExtends
<1>13. Bodies(v, initial)
  <2>1. Bodies(w, initial)
    BY DEF Wire
  <2>2. /\ v[N].type \in {"KEX_INIT", "GEX_INIT"} => v[N].body \in Key \ {NoKey}
        /\ v[N].type = "KEXINIT" => (initial => v[N].body = 1)
    BY <1>2, <1>3 DEF KexType
  <2> HIDE DEF initial
  <2> QED BY <1>3, <2>1, <2>2, BodiesExtend
<1>14. Numbered(w, n, g) /\ g <= n /\ ExtInfoFirst(w, g)
  BY <1>0 DEF Wire
<1>15. ExtInfoFirst(v, g)
  <2>1. ASSUME m.type = "EXT_INFO"
        PROVE  g = 0 /\ \A j \in 1 .. N - 1 : v[j].type \notin DataType
    <3>1. n = 0 /\ g = 0
      BY <1>14, <2>1
    <3>2. ASSUME NEW j \in 1 .. N - 1, v[j].type \in DataType PROVE FALSE
      <4>1. j \in 1 .. Len(w) /\ v[j] = w[j]
        BY <1>1, <1>3 DEF Extends
      <4>2. w[j].body \in Nat
        BY <1>1, <4>1, PacketTyped
      <4>3. g < w[j].body /\ w[j].body <= n
        BY <1>14, <3>2, <4>1 DEF Numbered
      <4> QED BY <3>1, <4>2, <4>3
    <3> QED BY <3>1, <3>2
  <2>2. \A k \in Added(w, v) : v[k].type = "EXT_INFO" =>
            g = 0 /\ \A j \in 1 .. k - 1 : v[j].type \notin DataType
    BY <1>2, <1>3, <2>1
  <2> QED BY <1>3, <1>14, <2>2, ExtInfoExtends
<1>16. Numbered(v, n2, g) /\ g <= n2
  <2>1. CASE m.type \in DataType
    <3>1. n2 = n + 1 /\ v[N].body = n + 1 /\ v[N].type \in DataType
      BY <1>2, <1>3, <2>1
    <3>2. \A b \in n + 1 .. n2 : b = n + 1
      BY <3>1
    <3>3. /\ n <= n2 /\ n < v[N].body /\ v[N].body <= n2 /\ ~(N < N)
      BY <3>1, <1>1
    <3>4. \A k \in Added(w, v) : v[k].type \in DataType =>
               /\ n < v[k].body /\ v[k].body <= n2
               /\ \A j \in Added(w, v) :
                     j < k /\ v[j].type \in DataType => v[j].body < v[k].body
      BY <1>3, <3>3
    <3>5. \A b \in n + 1 .. n2 :
               \E k \in Added(w, v) : v[k].type \in DataType /\ v[k].body = b
      BY <1>3, <3>1, <3>2
    <3>6. Numbered(v, n2, g)
      BY <1>3, <1>14, <3>3, <3>4, <3>5, NumberedExtends
    <3> QED BY <1>14, <3>1, <3>6
  <2>2. CASE m.type \notin DataType
    <3>1. n2 = n /\ \A k \in Added(w, v) : v[k].type \notin DataType
      BY <1>2, <1>3, <2>2
    <3>2. n + 1 .. n2 = {} /\ n <= n2
      BY <3>1
    <3>3. Numbered(v, n2, g)
      BY <1>3, <1>14, <3>1, <3>2, NumberedExtends
    <3> QED BY <1>14, <3>1, <3>3
  <2> QED BY <2>1, <2>2
<1>17. t.out = v
  BY DEF v, p
<1>18. SameCompression(v, t.auth /\ r.auth)
  BY <1>12, Zenon DEF SameCompression
<1> QED BY <1>0, <1>5, <1>6, <1>7, <1>8, <1>9, <1>10, <1>11, <1>13, <1>15, <1>16, <1>17, <1>18
     DEF Wire

ButWire(s, t) ==
    /\ t.phase = s.phase /\ t.kex_type = s.kex_type /\ t.auth = s.auth
    /\ t.rekeying = s.rekeying /\ t.done = s.done /\ t.flags = s.flags
    /\ t.kex_strict = s.kex_strict /\ t.disp = s.disp /\ t.exchange = s.exchange
    /\ t.newkeys = s.newkeys /\ t.rcv = s.rcv /\ t.outgoing = s.outgoing

TailOf(b, b2) ==
    /\ b2 \in EndState /\ b.out # <<>> /\ b2.out = Tail(b.out)
    /\ b2.snd = b.snd /\ ButWire(b, b2)

\* r reads the first packet of s.
WireRead(s, s2, r, r2, n, g, g2) ==
    /\ s \in EndState /\ r \in EndState /\ r2 \in EndState /\ TailOf(s, s2)
    /\ n \in Nat /\ g \in Nat /\ g2 \in Nat /\ Wire(s, r, n, g)
    /\ r2.rcv.key = IF s.out[1].type = "NEWKEYS" THEN s.snd.key ELSE r.rcv.key
    /\ r2.rcv.seq = After(s.out[1])
    /\ Closed(r2) => \/ Closed(r) /\ s.out[1].type # "NEWKEYS"
                     \/ s.out[1].type = "KEXINIT"
    /\ "INITIAL" \in r2.flags => "INITIAL" \in r.flags
    /\ (s.auth /\ r2.auth) <=> ((s.auth /\ r.auth) \/ s.out[1].type = "SUCCESS")
    /\ g2 = IF s.out[1].type \in DataType THEN g + 1 ELSE g

\* The reader reads a packet: from r it becomes r2, and has read g2 messages.
LEMMA WireReads ==
    ASSUME NEW s, NEW s2, NEW r, NEW r2, NEW n, NEW g, NEW g2,
           WireRead(s, s2, r, r2, n, g, g2)
    PROVE  /\ Wire(s2, r2, n, g2) /\ Kex(s2.out) = Kex(s.out) \ {s.out[1].type}
           /\ s.out[1].type \in DataType => s.out[1].body = g + 1
           /\ g2 <= n
<1>0. /\ s \in EndState /\ s2 \in EndState /\ r \in EndState /\ r2 \in EndState
      /\ n \in Nat /\ g \in Nat /\ g2 \in Nat /\ Wire(s, r, n, g) /\ s.out # <<>>
      /\ s2.out = Tail(s.out) /\ s2.snd = s.snd /\ s2.auth = s.auth
      /\ s2.outgoing = s.outgoing
      /\ r2.rcv.key = IF s.out[1].type = "NEWKEYS" THEN s.snd.key ELSE r.rcv.key
      /\ r2.rcv.seq = After(s.out[1])
      /\ Closed(r2) => \/ Closed(r) /\ s.out[1].type # "NEWKEYS"
                       \/ s.out[1].type = "KEXINIT"
      /\ "INITIAL" \in r2.flags => "INITIAL" \in r.flags
      /\ g2 = IF s.out[1].type \in DataType THEN g + 1 ELSE g
  BY DEF WireRead, TailOf, ButWire
<1>a. (s.auth /\ r2.auth) <=> ((s.auth /\ r.auth) \/ s.out[1].type = "SUCCESS")
  BY DEF WireRead
<1> USE <1>0, <1>a
<1> DEFINE w == s.out
           m0 == n - Len(s.outgoing)
           closed == Closed(r)
           closed2 == Closed(r2)
           initial == "INITIAL" \in r.flags
           initial2 == "INITIAL" \in r2.flags
           both == s.auth /\ r.auth
           both2 == s.auth /\ r2.auth
<1>1. w \in Seq(PacketSet) /\ w # <<>> /\ Len(s.outgoing) \in Nat
  BY EndTyped
<1>2. /\ InOrder(w) /\ Shielded(w) /\ Quiet(w, closed) /\ SameCompression(w, both)
      /\ SameKeys(w, s.snd.key, r.rcv.key) /\ SameCounts(w, s.snd.seq, r.rcv.seq)
      /\ Bodies(w, initial) /\ g <= m0 /\ Numbered(w, m0, g) /\ ExtInfoFirst(w, g)
  BY DEF Wire
<1>3. m0 \in Nat /\ m0 <= n
  BY <1>1, <1>2
<1>4. /\ closed2 => \/ closed /\ w[1].type # "NEWKEYS"
                    \/ w[1].type = "KEXINIT"
      /\ initial2 => initial
      /\ both2 <=> (both \/ w[1].type = "SUCCESS")
  OBVIOUS
<1> HIDE DEF m0, closed, closed2, initial, initial2, both, both2
<1>5. InOrder(Tail(w)) /\ Shielded(Tail(w)) /\ Kex(Tail(w)) = Kex(w) \ {w[1].type}
  BY <1>1, <1>2, InOrderTail, ShieldedTail, KexTail
<1>6. Quiet(Tail(w), closed2)
  BY <1>1, <1>2, <1>4, QuietTail
<1>7. SameKeys(Tail(w), s.snd.key, r2.rcv.key)
  BY <1>1, <1>2, KeysTail
<1>8. SameCounts(Tail(w), s.snd.seq, r2.rcv.seq)
  BY <1>1, <1>2, CountsTail
<1>9. SameCompression(Tail(w), both2)
  BY <1>1, <1>2, <1>4, CompressionTail
<1>10. Bodies(Tail(w), initial2)
  BY <1>1, <1>2, <1>4, BodiesTail
<1>11. /\ w[1].type \in DataType => w[1].body = g + 1
       /\ g2 <= m0 /\ Numbered(Tail(w), m0, g2)
  BY <1>1, <1>2, <1>3, NumberedTail
<1>12. ExtInfoFirst(Tail(w), g2)
  BY <1>1, <1>2, ExtInfoTail
<1>13. g2 <= n
  BY <1>3, <1>11
<1> QED BY <1>5, <1>6, <1>7, <1>8, <1>9, <1>10, <1>11, <1>12, <1>13
     DEF Wire, m0, closed2, initial2, both2

\* Changes at the two ends that a direction does not notice.
LEMMA WireFrame ==
    ASSUME NEW s \in EndState, NEW s2 \in EndState,
           NEW r \in EndState, NEW r2 \in EndState, NEW n, NEW n2, NEW g,
           Wire(s, r, n, g),
           s2.out = s.out, s2.snd.key = s.snd.key, s2.snd.seq = s.snd.seq,
           s2.auth = s.auth, n2 - Len(s2.outgoing) = n - Len(s.outgoing),
           r2.rcv.key = r.rcv.key, r2.rcv.seq = r.rcv.seq, r2.auth = r.auth,
           Closed(r2) => Closed(r),
           "INITIAL" \in r2.flags => "INITIAL" \in r.flags
    PROVE  Wire(s2, r2, n2, g)
<1>1. Quiet(s.out, Closed(r2))
  BY DEF Wire, Quiet
<1>2. Bodies(s.out, "INITIAL" \in r2.flags)
  BY DEF Wire, Bodies
<1> QED BY <1>1, <1>2 DEF Wire

\* SameCounts when a whole queue is sent, numbered from the sender's count.
LEMMA CountsFlush ==
    ASSUME NEW w, NEW v, Extends(w, v), NEW sq \in Seq32, NEW rq, SameCounts(w, sq, rq),
           \A k \in Added(w, v) :
               v[k].type # "NEWKEYS" /\ v[k].seq = (sq + (k - Len(w) - 1)) % SeqMod
    PROVE  SameCounts(v, (sq + (Len(v) - Len(w))) % SeqMod, rq)
<1> DEFINE z == (sq + (Len(v) - Len(w))) % SeqMod
           at(k) == (sq + (k - Len(w) - 1)) % SeqMod
<1>1. /\ Len(w) \in Nat /\ Len(v) \in Nat /\ Len(w) <= Len(v)
      /\ \A k \in 1 .. Len(w) : v[k] = w[k]
  BY DEF Extends
<1>2. sq \in Nat /\ sq < SeqMod /\ SeqMod \in Nat
  BY TransportAssumption DEF Seq32
<1>3. \A k \in Len(w) + 1 .. Len(v) + 1 : SeqAt(v, z, k) = at(k)
  <2> SUFFICES ASSUME NEW k \in Len(w) + 1 .. Len(v) + 1
               PROVE  SeqAt(v, z, k) = at(k)
    OBVIOUS
  <2>1. CASE k \in Added(w, v)
    <3>1. k \in 1 .. Len(v)
      BY <1>1, <2>1 DEF Added
    <3> QED BY <2>1, <3>1 DEF SeqAt
  <2>2. CASE k = Len(v) + 1
    <3>1. k \notin 1 .. Len(v) /\ k - Len(w) - 1 = Len(v) - Len(w)
      BY <1>1, <2>2
    <3> QED BY <3>1 DEF SeqAt
  <2> QED BY <1>1, <2>1, <2>2 DEF Added
<1>4. at(Len(w) + 1) = sq
  <2>1. sq + (Len(w) + 1 - Len(w) - 1) = sq
    BY <1>1, <1>2
  <2>2. sq % SeqMod = sq
    BY <1>2, ModFacts
  <2> QED BY <2>1, <2>2
<1>5. \A k \in 1 .. Len(w) + 1 : SeqAt(v, z, k) = SeqAt(w, sq, k)
  <2> SUFFICES ASSUME NEW k \in 1 .. Len(w) + 1
               PROVE  SeqAt(v, z, k) = SeqAt(w, sq, k)
    OBVIOUS
  <2>1. CASE k \in 1 .. Len(w)
    <3>1. k \in 1 .. Len(v)
      BY <1>1, <2>1
    <3> QED BY <1>1, <2>1, <3>1 DEF SeqAt
  <2>2. CASE k = Len(w) + 1
    <3>1. k \notin 1 .. Len(w) /\ k \in Len(w) + 1 .. Len(v) + 1
      BY <1>1, <2>2
    <3>2. SeqAt(v, z, k) = sq
      BY <1>3, <1>4, <2>2, <3>1
    <3> QED BY <3>1, <3>2 DEF SeqAt
  <2> QED BY <1>1, <2>1, <2>2
<1>6. SeqAt(v, z, 1) = rq
  <2>1. 1 \in 1 .. Len(w) + 1
    BY <1>1
  <2> QED BY <1>5, <2>1 DEF SameCounts
<1>7. ASSUME NEW k \in 1 .. Len(v) PROVE SeqAt(v, z, k + 1) = After(v[k])
  <2>1. CASE k \in 1 .. Len(w)
    <3>1. k + 1 \in 1 .. Len(w) + 1
      BY <1>1, <2>1
    <3> QED BY <1>1, <1>5, <2>1, <3>1 DEF SameCounts
  <2>2. CASE k \in Added(w, v)
    <3>1. k + 1 \in Len(w) + 1 .. Len(v) + 1
      BY <1>1, <2>2 DEF Added
    <3>2. SeqAt(v, z, k + 1) = at(k + 1)
      BY <1>3, <3>1
    <3> DEFINE d == sq + (k - Len(w) - 1)
    <3>3. d \in Nat /\ d + 1 = sq + (k + 1 - Len(w) - 1)
      BY <1>1, <1>2, <2>2 DEF Added
    <3>4. After(v[k]) = ((d % SeqMod) + 1) % SeqMod
      BY <2>2 DEF After
    <3> HIDE DEF d
    <3>5. ((d % SeqMod) + 1) % SeqMod = (d + 1) % SeqMod
      BY <3>3, ModFacts
    <3> QED BY <3>2, <3>3, <3>4, <3>5
  <2> QED BY <1>1, <2>1, <2>2 DEF Added
<1> QED BY <1>6, <1>7 DEF SameCounts

\* A count modulo SeqMod is a sequence number.
LEMMA SumInSeq ==
    ASSUME NEW a \in Nat, NEW b \in Nat
    PROVE  (a + b) % SeqMod \in Seq32
<1> DEFINE c == a + b
<1>1. c \in Nat
  OBVIOUS
<1> HIDE DEF c
<1>2. c % SeqMod \in Seq32
  BY <1>1, ModFacts
<1> QED BY <1>2 DEF c

\* The packets of two wires, one behind the other.
LEMMA ConcatFacts ==
    ASSUME NEW w \in Seq(PacketSet), NEW z \in Seq(PacketSet)
    PROVE  /\ w \o z \in Seq(PacketSet) /\ Len(w \o z) = Len(w) + Len(z)
           /\ \A k \in 1 .. Len(w) : (w \o z)[k] = w[k]
           /\ \A k \in Len(w) + 1 .. Len(w) + Len(z) : (w \o z)[k] = z[k - Len(w)]
<1>1. /\ w \o z \in Seq(PacketSet) /\ Len(w \o z) = Len(w) + Len(z)
      /\ \A k \in 1 .. Len(w) + Len(z) :
            (w \o z)[k] = IF k <= Len(w) THEN w[k] ELSE z[k - Len(w)]
  BY ConcatProperties
<1>2. Len(w) \in Nat /\ Len(z) \in Nat
  OBVIOUS
<1>3. \A k \in 1 .. Len(w) : k <= Len(w) /\ k \in 1 .. Len(w) + Len(z)
  BY <1>2
<1>4. \A k \in Len(w) + 1 .. Len(w) + Len(z) :
          ~(k <= Len(w)) /\ k \in 1 .. Len(w) + Len(z)
  BY <1>2
<1> QED BY <1>1, <1>3, <1>4

\* What Flush does to the state of its end.
LEMMA FlushFacts ==
    ASSUME NEW s \in EndState
    PROVE  LET t == Flush(s)
               L == Len(s.outgoing) IN
           /\ t \in EndState
           /\ t.snd.key = s.snd.key /\ t.snd.comp = s.snd.comp
           /\ t.snd.seq = (s.snd.seq + L) % SeqMod /\ t.outgoing = <<>>
           /\ t.rcv = s.rcv /\ t.auth = s.auth /\ t.flags = s.flags
           /\ t.phase = s.phase /\ t.kex_type = s.kex_type /\ t.rekeying = s.rekeying
           /\ t.done = s.done /\ t.kex_strict = s.kex_strict /\ t.disp = s.disp
           /\ t.exchange = s.exchange /\ t.newkeys = s.newkeys /\ t.err = s.err
           /\ Extends(s.out, t.out) /\ Len(t.out) = Len(s.out) + L
           /\ \A k \in Added(s.out, t.out) :
                 /\ k - Len(s.out) \in 1 .. L
                 /\ t.out[k] = Packet(s, (s.snd.seq + (k - Len(s.out) - 1)) % SeqMod,
                                      s.outgoing[k - Len(s.out)])
<1> DEFINE w == s.out
           L == Len(s.outgoing)
           q(i) == (s.snd.seq + i) % SeqMod
           z == [i \in 1 .. L |-> Packet(s, q(i - 1), s.outgoing[i])]
           v == w \o z
           used == s.snd.used \/ L > 0
<1>1. /\ w \in Seq(PacketSet) /\ s.outgoing \in Seq(MsgSet) /\ L \in Nat
      /\ s.snd.seq \in Nat /\ Len(w) \in Nat /\ s.snd.used \in BOOLEAN
      /\ s.snd \in Direction
  BY EndTyped DEF Seq32
<1>2. \A i \in Nat : q(i) \in Seq32
  BY <1>1, SumInSeq
<1>3. \A i \in 1 .. L : Packet(s, q(i - 1), s.outgoing[i]) \in PacketSet
  <2> SUFFICES ASSUME NEW i \in 1 .. L
               PROVE  Packet(s, q(i - 1), s.outgoing[i]) \in PacketSet
    OBVIOUS
  <2>1. s.outgoing[i] \in MsgSet
    BY <1>1
  <2>2. i - 1 \in Nat
    OBVIOUS
  <2>3. q(i - 1) \in Seq32
    BY <1>2, <2>2
  <2> HIDE DEF q
  <2> QED BY <2>1, <2>3, PacketFacts
<1>4. q(L) \in Seq32 /\ used \in BOOLEAN
  BY <1>1, <1>2
<1>5. z \in Seq(PacketSet) /\ Len(z) = L
  <2> DEFINE pk(i) == Packet(s, q(i - 1), s.outgoing[i])
  <2>1. \A i \in 1 .. L : pk(i) \in PacketSet
    BY <1>3
  <2>2. z = [i \in 1 .. L |-> pk(i)]
    OBVIOUS
  <2> HIDE DEF pk, z
  <2> QED BY <1>1, <2>1, <2>2
<1>6. \A i \in 1 .. L : z[i] = Packet(s, q(i - 1), s.outgoing[i])
  BY Zenon
<1>7. Flush(s) = [s EXCEPT !.out = v, !.snd.seq = q(L), !.snd.used = used, !.outgoing = <<>>]
  BY DEF Flush
<1> HIDE DEF z, L
<1>8. /\ v \in Seq(PacketSet) /\ Len(v) = Len(w) + L
      /\ \A k \in 1 .. Len(w) : v[k] = w[k]
      /\ \A k \in Len(w) + 1 .. Len(w) + L : v[k] = z[k - Len(w)]
  <2>1. w \in Seq(PacketSet) /\ z \in Seq(PacketSet)
    BY <1>1, <1>5
  <2> QED BY <1>5, <2>1, ConcatFacts
<1> HIDE DEF v, used
<1>9. ASSUME NEW k \in Added(w, v)
      PROVE  /\ k - Len(w) \in 1 .. L
             /\ v[k] = Packet(s, q(k - Len(w) - 1), s.outgoing[k - Len(w)])
  <2>1. k - Len(w) \in 1 .. L /\ k \in Len(w) + 1 .. Len(w) + L
    BY <1>1, <1>8 DEF Added
  <2>2. v[k] = z[k - Len(w)]
    BY <1>8, <2>1
  <2> QED BY <1>6, <2>1, <2>2
<1>10. Extends(w, v)
  BY <1>1, <1>8 DEF Extends
<1> HIDE DEF q
<1> DEFINE t == [s EXCEPT !.out = v, !.snd.seq = q(L), !.snd.used = used, !.outgoing = <<>>]
<1>11. /\ t \in EndState
       /\ t.snd.key = s.snd.key /\ t.snd.comp = s.snd.comp
       /\ t.snd.seq = q(L) /\ t.outgoing = <<>> /\ t.out = v
  <2>1. <<>> \in Seq(MsgSet)
    OBVIOUS
  <2> QED BY <1>1, <1>4, <1>8, <2>1 DEF EndState, Direction
<1>12. /\ t.rcv = s.rcv /\ t.auth = s.auth /\ t.flags = s.flags
       /\ t.phase = s.phase /\ t.kex_type = s.kex_type /\ t.rekeying = s.rekeying
       /\ t.done = s.done /\ t.kex_strict = s.kex_strict /\ t.disp = s.disp
       /\ t.exchange = s.exchange /\ t.newkeys = s.newkeys /\ t.err = s.err
  BY DEF EndState
<1>13. Flush(s) = t
  BY <1>7
<1> HIDE DEF t
<1>14. /\ t.snd.seq = (s.snd.seq + L) % SeqMod
       /\ Extends(w, t.out) /\ Len(t.out) = Len(w) + L
       /\ \A k \in Added(w, t.out) :
             /\ k - Len(w) \in 1 .. L
             /\ t.out[k] = Packet(s, (s.snd.seq + (k - Len(w) - 1)) % SeqMod,
                                  s.outgoing[k - Len(w)])
  BY <1>8, <1>9, <1>10, <1>11 DEF q
<1> QED BY <1>11, <1>12, <1>13, <1>14 DEF L

\* The queue is sent.
LEMMA WireFlushes ==
    ASSUME NEW s \in EndState, NEW r \in EndState, NEW n \in Nat, NEW g \in Nat,
           Wire(s, r, n, g), s.snd.key # NoKey, "KEXINIT" \notin Kex(s.out),
           Closed(r) => "NEWKEYS" \in Kex(s.out),
           s.snd.comp <=> ((s.auth /\ r.auth) \/ Has(s.out, "SUCCESS")),
           Len(s.outgoing) <= n,
           \A i \in 1 .. Len(s.outgoing) :
               /\ s.outgoing[i].type = "DATA"
               /\ s.outgoing[i].body = n - Len(s.outgoing) + i
    PROVE  /\ Wire(Flush(s), r, n, g)
           /\ Kex(Flush(s).out) = Kex(s.out)
           /\ \A x : x # "DATA" => (Has(Flush(s).out, x) <=> Has(s.out, x))
<1> DEFINE w == s.out
           t == Flush(s)
           v == t.out
           L == Len(s.outgoing)
           m0 == n - L
           both == s.auth /\ r.auth
           initial == "INITIAL" \in r.flags
           closed == Closed(r)
<1>1. /\ w \in Seq(PacketSet) /\ s.outgoing \in Seq(MsgSet) /\ L \in Nat
      /\ s.snd.seq \in Seq32 /\ s.snd.seq \in Nat /\ Len(w) \in Nat
  BY EndTyped DEF Seq32
<1>2. /\ t \in EndState
      /\ t.snd.key = s.snd.key /\ t.snd.seq = (s.snd.seq + L) % SeqMod
      /\ t.outgoing = <<>> /\ t.auth = s.auth
      /\ Extends(w, v) /\ Len(v) = Len(w) + L
      /\ \A k \in Added(w, v) :
            /\ k - Len(w) \in 1 .. L
            /\ v[k] = Packet(s, (s.snd.seq + (k - Len(w) - 1)) % SeqMod,
                             s.outgoing[k - Len(w)])
  BY FlushFacts
<1>3. /\ InOrder(w) /\ Shielded(w) /\ Quiet(w, closed) /\ SameCompression(w, both)
      /\ SameKeys(w, s.snd.key, r.rcv.key) /\ SameCounts(w, s.snd.seq, r.rcv.seq)
      /\ Bodies(w, initial) /\ g <= m0 /\ Numbered(w, m0, g) /\ ExtInfoFirst(w, g)
  BY DEF Wire
<1>4. ASSUME NEW k \in Added(w, v)
      PROVE  /\ v[k].type = "DATA" /\ v[k].body = m0 + (k - Len(w))
             /\ v[k].key = s.snd.key /\ v[k].comp = s.snd.comp
             /\ v[k].seq = (s.snd.seq + (k - Len(w) - 1)) % SeqMod
  <2>1. k - Len(w) \in 1 .. L /\ k - Len(w) - 1 \in Nat
    BY <1>1, <1>2
  <2> DEFINE i == k - Len(w)
             m == s.outgoing[i]
             q == (s.snd.seq + (k - Len(w) - 1)) % SeqMod
  <2>2. i \in 1 .. L
    BY <2>1
  <2>3. q \in Seq32
    BY <1>1, <2>1, SumInSeq
  <2>4. v[k] = Packet(s, q, m)
    BY <1>2
  <2> HIDE DEF i, q, t, v
  <2>5. m \in MsgSet /\ m.type = "DATA" /\ m.body = m0 + i
    <3>1. s.outgoing[i] \in MsgSet
      BY <1>1, <2>2
    <3>2. s.outgoing[i].type = "DATA" /\ s.outgoing[i].body = n - Len(s.outgoing) + i
      BY <2>2, Zenon
    <3> QED BY <3>1, <3>2
  <2> HIDE DEF m
  <2>6. v[k].type = "DATA" /\ v[k].body = m0 + i
        /\ v[k].key = s.snd.key /\ v[k].comp = s.snd.comp /\ v[k].seq = q
    BY <2>3, <2>4, <2>5, PacketFacts
  <2> QED BY <2>6 DEF q, i
<1>5. /\ closed => Has(w, "NEWKEYS")
      /\ s.snd.comp <=> (both \/ Has(w, "SUCCESS"))
      /\ ~Has(w, "KEXINIT")
  BY DEF Kex, KexType
<1>6. m0 \in Nat
  BY <1>1
<1> HIDE DEF t, v, L, m0, both, initial, closed
<1>7. \A x : x # "DATA" => (Has(v, x) <=> Has(w, x))
  BY <1>2, <1>4, HasExtends
<1>8. Kex(v) = Kex(w)
  BY <1>7 DEF Kex, KexType
<1>9. InOrder(v)
  BY <1>2, <1>3, <1>4, InOrderExtends DEF KexType
<1>10. Shielded(v)
  <2>1. ASSUME NEW k \in Added(w, v), NEW i \in 1 .. k - 1 PROVE v[i].type # "KEXINIT"
    <3>1. ~Has(v, "KEXINIT")
      BY <1>5, <1>7
    <3>2. i \in 1 .. Len(v)
      BY <1>1, <1>2 DEF Added
    <3> QED BY <3>1, <3>2 DEF Has
  <2> QED BY <1>2, <1>3, <1>4, <2>1, ShieldedExtends
<1>11. Quiet(v, closed)
  BY <1>2, <1>3, <1>5, HasIsPassed, QuietExtends
<1>12. SameKeys(v, s.snd.key, r.rcv.key)
  BY <1>2, <1>3, <1>4, KeysExtend
<1>13. SameCounts(v, t.snd.seq, r.rcv.seq)
  <2>1. Len(v) - Len(w) = L
    BY <1>1, <1>2 DEF L
  <2>2. \A k \in Added(w, v) :
           v[k].type # "NEWKEYS" /\ v[k].seq = (s.snd.seq + (k - Len(w) - 1)) % SeqMod
    BY <1>4
  <2>3. SameCounts(v, (s.snd.seq + (Len(v) - Len(w))) % SeqMod, r.rcv.seq)
    BY <1>1, <1>2, <1>3, <2>2, CountsFlush
  <2> QED BY <1>2, <2>1, <2>3
<1>14. SameCompression(v, both)
  <2>1. ASSUME NEW k \in Added(w, v)
        PROVE  v[k].comp <=> (both \/ Passed(v, k, "SUCCESS"))
    <3>1. Has(w, "SUCCESS") => Passed(v, k, "SUCCESS")
      BY <1>2, HasIsPassed
    <3>2. Passed(v, k, "SUCCESS") => Has(v, "SUCCESS")
      <4>1. \A j \in 1 .. k - 1 : j \in 1 .. Len(v)
        BY <1>1, <1>2 DEF Added
      <4> QED BY <4>1 DEF Passed, Has
    <3>3. Has(v, "SUCCESS") <=> Has(w, "SUCCESS")
      BY <1>7
    <3> QED BY <1>4, <1>5, <3>1, <3>2, <3>3, Zenon
  <2> QED BY <1>2, <1>3, <2>1, CompressionExtends
<1>15. Bodies(v, initial)
  BY <1>2, <1>3, <1>4, BodiesExtend
<1>16. ExtInfoFirst(v, g)
  BY <1>2, <1>3, <1>4, ExtInfoExtends
<1>17. Numbered(v, n, g)
  <2>1. m0 <= n /\ m0 + L = n
    BY <1>1, <1>6 DEF m0, L
  <2>2. ASSUME NEW k \in Added(w, v)
        PROVE  /\ v[k].type \in DataType /\ m0 < v[k].body /\ v[k].body <= n
               /\ \A j \in Added(w, v) : j < k => v[j].body < v[k].body
    <3>1. \A j \in Added(w, v) : v[j].body = m0 + (j - Len(w)) /\ j \in Nat
      BY <1>1, <1>4 DEF Added
    <3>2. k - Len(w) \in 1 .. L
      BY <1>2
    <3>3. v[k].type \in DataType
      BY <1>4 DEF DataType
    <3>4. m0 < v[k].body /\ v[k].body <= n
      BY <1>1, <1>6, <2>1, <3>1, <3>2 DEF L
    <3>5. \A j \in Added(w, v) : j < k => v[j].body < v[k].body
      BY <1>1, <1>6, <3>1
    <3> QED BY <3>3, <3>4, <3>5
  <2>3. ASSUME NEW b \in m0 + 1 .. n
        PROVE  \E k \in Added(w, v) : v[k].type \in DataType /\ v[k].body = b
    <3>1. (b - m0) + Len(w) \in Added(w, v)
      <4>1. Len(v) = Len(w) + L /\ L \in Nat /\ Len(w) \in Nat
        BY <1>1, <1>2
      <4>2. b - m0 \in 1 .. L
        BY <1>6, <2>1, <4>1
      <4> QED BY <4>1, <4>2 DEF Added
    <3>2. m0 + (((b - m0) + Len(w)) - Len(w)) = b
      BY <1>1, <1>6
    <3> QED BY <1>4, <2>2, <3>1, <3>2
  <2> QED BY <1>2, <1>3, <1>6, <2>1, <2>2, <2>3, NumberedExtends
<1>18. g <= n /\ n - Len(t.outgoing) = n
  BY <1>1, <1>2, <1>3, <1>6 DEF m0, L
<1>19. Wire(t, r, n, g)
  <2>1. t.out = v
    BY DEF v
  <2> QED BY <1>2, <1>9, <1>10, <1>11, <1>12, <1>13, <1>14, <1>15, <1>16, <1>17, <1>18, <2>1
       DEF Wire, both, initial, closed
<1> QED BY <1>7, <1>8, <1>19 DEF t, v

-----------------------------------------------------------------------------
(* What the operations of the packet layer do to the state of their end.   *)

\* t differs from s in what is on the wire and the state of sending only.
LEMMA NoWrap ==
    ASSUME NEW s \in EndState, NEW d \in Seq32, "INITIAL" \in s.flags => d <= 3
    PROVE  ~((d + 1) % SeqMod = 0 /\ "INITIAL" \in s.flags)
<1> SUFFICES ASSUME "INITIAL" \in s.flags PROVE (d + 1) % SeqMod # 0
  OBVIOUS
<1>1. SeqMod \in Nat /\ SeqMod > 4
  BY TransportAssumption
<1>2. d \in Nat /\ d + 1 \in Nat /\ d + 1 < SeqMod /\ d + 1 # 0
  BY <1>1 DEF Seq32
<1>3. (d + 1) % SeqMod = d + 1
  BY <1>2, ModFacts
<1> QED BY <1>2, <1>3

\* A message has its type and its body.
LEMMA MsgFacts ==
    ASSUME NEW t \in Type, NEW b \in Nat
    PROVE  Msg(t, b) \in MsgSet /\ Msg(t, b).type = t /\ Msg(t, b).body = b
BY DEF Msg, MsgSet

\* The wire and the count after a packet have their types.
LEMMA AppendTyped ==
    ASSUME NEW s \in EndState, NEW m \in MsgSet
    PROVE  /\ Append(s.out, Packet(s, s.snd.seq, m)) \in Seq(PacketSet)
           /\ (s.snd.seq + 1) % SeqMod \in Seq32
<1>1. s.out \in Seq(PacketSet) /\ s.snd.seq \in Seq32
  BY EndTyped
<1>2. Packet(s, s.snd.seq, m) \in PacketSet
  BY <1>1, PacketFacts
<1>3. (s.snd.seq + 1) % SeqMod \in Seq32
  BY <1>1, SumInSeq DEF Seq32
<1> QED BY <1>1, <1>2, <1>3

\* ssh_packet_send2_wrapped of a message that changes no keys.
LEMMA SendFacts ==
    ASSUME NEW s \in EndState, NEW m \in MsgSet,
           m.type # "NEWKEYS", m.type # "SUCCESS",
           "INITIAL" \in s.flags => s.snd.seq <= 3
    PROVE  LET t == ssh_packet_send2_wrapped(s, m) IN
           t \in EndState /\ ButWire(s, t) /\ Sends(s, t, m)
<1> DEFINE v == Append(s.out, Packet(s, s.snd.seq, m))
           q == (s.snd.seq + 1) % SeqMod
           t == [s EXCEPT !.out = v, !.snd.seq = q, !.snd.used = TRUE]
<1>1. v \in Seq(PacketSet) /\ q \in Seq32 /\ s.snd.seq \in Seq32
  BY AppendTyped, EndTyped
<1>2. ~WrapsInFirstExchange(s, "snd")
  BY <1>1, NoWrap DEF WrapsInFirstExchange
<1>3. ssh_packet_send2_wrapped(s, m) = t
  BY <1>2 DEF ssh_packet_send2_wrapped, NextSeq
<1> HIDE DEF v, q
<1>4. t \in EndState /\ t.out = v /\ t.snd.key = s.snd.key /\ t.snd.comp = s.snd.comp
      /\ t.snd.seq = q
  BY <1>1 DEF EndState, Direction
<1>5. ButWire(s, t)
  BY DEF ButWire, EndState
<1> HIDE DEF t
<1> QED BY <1>3, <1>4, <1>5 DEF Sends, v, q

\* t is s with its KEXINIT sent.
Kexinit(s) == Msg("KEXINIT", IF "INITIAL" \in s.flags THEN 1 ELSE 0)

Starts(s, t) ==
    /\ t \in EndState /\ Sends(s, t, Kexinit(s))
    /\ t.phase = s.phase /\ t.kex_type = s.kex_type /\ t.auth = s.auth
    /\ t.rekeying = TRUE /\ t.done = FALSE /\ t.flags = s.flags \union {"INIT_SENT"}
    /\ t.kex_strict = s.kex_strict /\ t.disp = s.disp /\ t.exchange = s.exchange
    /\ t.newkeys = s.newkeys /\ t.rcv = s.rcv /\ t.outgoing = s.outgoing

\* kex_send_kexinit of an end that has not sent its own yet.
LEMMA KexinitFacts ==
    ASSUME NEW s \in EndState, "INIT_SENT" \notin s.flags,
           "INITIAL" \in s.flags => s.snd.seq <= 3
    PROVE  /\ Starts(s, kex_send_kexinit(s))
           /\ Kexinit(s) \in MsgSet /\ Kexinit(s).type = "KEXINIT"
           /\ Kexinit(s).body = IF "INITIAL" \in s.flags THEN 1 ELSE 0
<1> DEFINE r == [s EXCEPT !.done = FALSE, !.rekeying = TRUE]
           m == Kexinit(s)
           u == ssh_packet_send2_wrapped(r, m)
           t == [u EXCEPT !.flags = @ \union {"INIT_SENT"}]
<1>1. m \in MsgSet /\ m.type = "KEXINIT" /\ m.body = IF "INITIAL" \in s.flags THEN 1 ELSE 0
  BY MsgFacts DEF Kexinit, Type, KexType
<1>2. /\ r \in EndState /\ r.done = FALSE /\ r.rekeying = TRUE
      /\ r.phase = s.phase /\ r.kex_type = s.kex_type /\ r.auth = s.auth
      /\ r.flags = s.flags /\ r.kex_strict = s.kex_strict /\ r.disp = s.disp
      /\ r.exchange = s.exchange /\ r.newkeys = s.newkeys /\ r.rcv = s.rcv
      /\ r.outgoing = s.outgoing /\ r.snd = s.snd /\ r.out = s.out
  BY DEF EndState
<1> HIDE DEF r, m
<1>3. u \in EndState /\ ButWire(r, u) /\ Sends(r, u, m)
  BY <1>1, <1>2, SendFacts
<1>4. kex_send_kexinit(s) = t
  BY DEF kex_send_kexinit, r, m, Kexinit
<1>5. Packet(r, r.snd.seq, m) = Packet(s, s.snd.seq, m)
  BY <1>2 DEF Packet
<1> HIDE DEF u
<1>6. /\ t \in EndState /\ t.flags = u.flags \union {"INIT_SENT"}
      /\ t.phase = u.phase /\ t.kex_type = u.kex_type /\ t.auth = u.auth
      /\ t.rekeying = u.rekeying /\ t.done = u.done
      /\ t.kex_strict = u.kex_strict /\ t.disp = u.disp /\ t.exchange = u.exchange
      /\ t.newkeys = u.newkeys /\ t.rcv = u.rcv /\ t.outgoing = u.outgoing
      /\ t.out = u.out /\ t.snd = u.snd
  BY <1>3 DEF EndState
<1> HIDE DEF t
<1>7. Starts(s, t)
  BY <1>2, <1>3, <1>5, <1>6 DEF Starts, ButWire, Sends, m
<1> QED BY <1>1, <1>4, <1>7 DEF m

\* An exchange that is asked for when none is under way starts.
LEMMA RekexFacts ==
    ASSUME NEW s \in EndState, s.done, "INIT_SENT" \notin s.flags, "INITIAL" \notin s.flags
    PROVE  Starts(s, kex_start_rekex(s))
<1> DEFINE r == [s EXCEPT !.done = FALSE]
<1>1. /\ r \in EndState
      /\ r.phase = s.phase /\ r.kex_type = s.kex_type /\ r.auth = s.auth
      /\ r.flags = s.flags /\ r.kex_strict = s.kex_strict /\ r.disp = s.disp
      /\ r.exchange = s.exchange /\ r.newkeys = s.newkeys /\ r.rcv = s.rcv
      /\ r.outgoing = s.outgoing /\ r.snd = s.snd /\ r.out = s.out
  BY DEF EndState
<1>2. kex_start_rekex(s) = kex_send_kexinit(r)
  BY DEF kex_start_rekex
<1> HIDE DEF r
<1>3. Starts(r, kex_send_kexinit(r))
  BY <1>1, KexinitFacts
<1>4. Kexinit(r) = Kexinit(s)
  BY <1>1 DEF Kexinit
<1>5. Packet(r, r.snd.seq, Kexinit(s)) = Packet(s, s.snd.seq, Kexinit(s))
  BY <1>1 DEF Packet
<1> DEFINE t == kex_send_kexinit(r)
<1> HIDE DEF t
<1>6. Starts(s, t)
  BY <1>1, <1>3, <1>4, <1>5 DEF Starts, Sends, t
<1> QED BY <1>2, <1>6 DEF t

Newkeys == Msg("NEWKEYS", 0)

\* ssh_packet_send2_wrapped of NEWKEYS: the sender has its new key.
LEMMA NewkeysFacts ==
    ASSUME NEW s \in EndState, s.newkeys.snd # NoKey, s.kex_strict,
           "INITIAL" \in s.flags => s.snd.seq <= 3
    PROVE  LET t == ssh_packet_send2_wrapped(s, Newkeys) IN
           /\ t \in EndState
           /\ t.out = Append(s.out, Packet(s, s.snd.seq, Newkeys))
           /\ t.snd.key = s.newkeys.snd /\ t.snd.seq = 0 /\ t.snd.comp = s.auth
           /\ t.newkeys = [snd |-> NoKey, rcv |-> s.newkeys.rcv]
           /\ t.phase = s.phase /\ t.kex_type = s.kex_type /\ t.auth = s.auth
           /\ t.rekeying = s.rekeying /\ t.done = s.done /\ t.flags = s.flags
           /\ t.kex_strict = s.kex_strict /\ t.disp = s.disp /\ t.exchange = s.exchange
           /\ t.rcv = s.rcv /\ t.outgoing = s.outgoing
<1> DEFINE m == Newkeys
           v == Append(s.out, Packet(s, s.snd.seq, m))
           r == [s EXCEPT !.out = v, !.snd.seq = 0, !.snd.used = TRUE]
           d == [key |-> r.newkeys["snd"], seq |-> r["snd"].seq, used |-> FALSE, comp |-> r.auth]
           t == [r EXCEPT !["snd"] = d, !.newkeys["snd"] = NoKey]
<1>0. m \in MsgSet /\ m.type = "NEWKEYS"
  BY MsgFacts DEF Newkeys, Type, KexType
<1>1. v \in Seq(PacketSet) /\ s.snd.seq \in Seq32 /\ 0 \in Seq32
  BY <1>0, AppendTyped, EndTyped, TransportAssumption DEF Seq32
<1>2. ~WrapsInFirstExchange(s, "snd")
  BY <1>1, NoWrap DEF WrapsInFirstExchange
<1>3. ssh_packet_send2_wrapped(s, m) = ssh_set_newkeys(r, "snd")
  BY <1>0, <1>2 DEF ssh_packet_send2_wrapped, NextSeq
<1>4. s.newkeys \in [snd : Key, rcv : Key] /\ NoKey \in Key
  BY EndTyped, TransportAssumption DEF Key, NoKey
<1> HIDE DEF v, m
<1>5. /\ r \in EndState /\ r.newkeys = s.newkeys /\ r.auth = s.auth
      /\ r.snd.seq = 0 /\ r.out = v
  BY <1>1 DEF EndState, Direction
<1>6. /\ r.phase = s.phase /\ r.kex_type = s.kex_type
      /\ r.rekeying = s.rekeying /\ r.done = s.done /\ r.flags = s.flags
      /\ r.kex_strict = s.kex_strict /\ r.disp = s.disp /\ r.exchange = s.exchange
      /\ r.rcv = s.rcv /\ r.outgoing = s.outgoing
  BY DEF EndState
<1>7. ssh_set_newkeys(r, "snd") = t
  BY <1>5 DEF ssh_set_newkeys
<1> HIDE DEF r
<1>8. /\ d \in Direction /\ d.key = s.newkeys.snd /\ d.seq = 0 /\ d.comp = s.auth
  BY <1>1, <1>4, <1>5, EndTyped DEF Direction
<1> HIDE DEF d
<1>9. /\ t \in EndState /\ t.snd = d /\ t.out = r.out
      /\ t.newkeys = [snd |-> NoKey, rcv |-> s.newkeys.rcv]
  BY <1>4, <1>5, <1>8 DEF EndState
<1>10. /\ t.phase = r.phase /\ t.kex_type = r.kex_type /\ t.auth = r.auth
       /\ t.rekeying = r.rekeying /\ t.done = r.done /\ t.flags = r.flags
       /\ t.kex_strict = r.kex_strict /\ t.disp = r.disp /\ t.exchange = r.exchange
       /\ t.rcv = r.rcv /\ t.outgoing = r.outgoing
  BY <1>5 DEF EndState
<1> HIDE DEF t
<1> QED BY <1>3, <1>5, <1>6, <1>7, <1>8, <1>9, <1>10 DEF v, m

ExtInfo == Msg("EXT_INFO", 0)

\* An end that has the keys of an exchange sends its NEWKEYS, its queue and, the
\* first time, EXT_INFO.
HasKeys(s, r, n, g, x) ==
    /\ s \in EndState /\ r \in EndState /\ n \in Nat /\ g \in Nat /\ x \in Key \ {NoKey}
    /\ Wire(s, r, n, g) /\ Queue(s, n) /\ Replies(s.out, x)
    /\ s.newkeys = [snd |-> x, rcv |-> x] /\ s.kex_strict /\ ~s.done
    /\ "INITIAL" \in s.flags => s.snd.seq <= 3 /\ n = 0
    /\ \A y \in Kex(s.out) : Rank(y) < 1
    /\ s.snd.comp = s.auth
    /\ s.snd.comp <=> ((s.auth /\ r.auth) \/ Has(s.out, "SUCCESS"))

GoesOver(s, t, r, n, g, x) ==
    /\ t \in EndState
    /\ Wire(t, r, n, g) /\ Replies(t.out, x)
    /\ Kex(t.out) = Kex(s.out) \union {"NEWKEYS"}
    /\ Has(t.out, "SUCCESS") <=> Has(s.out, "SUCCESS")
    /\ t.disp = {"NEWKEYS"} /\ t.rekeying = FALSE /\ t.done = FALSE
    /\ t.flags = s.flags /\ t.phase = s.phase /\ t.kex_type = s.kex_type
    /\ t.auth = s.auth /\ t.kex_strict = s.kex_strict /\ t.exchange = s.exchange
    /\ t.rcv = s.rcv /\ t.outgoing = <<>>
    /\ t.snd.key = x /\ t.snd.comp = s.auth
    /\ t.newkeys = [snd |-> NoKey, rcv |-> x]

\* kex_send_newkeys: NEWKEYS, the queue or a further KEXINIT, and EXT_INFO.
LEMMA OverFacts ==
    ASSUME NEW s, NEW r, NEW n, NEW g, NEW x, NEW due, HasKeys(s, r, n, g, x)
    PROVE  GoesOver(s, kex_send_newkeys(s, due), r, n, g, x)
<1> DEFINE s1 == [s EXCEPT !.disp = {}]
           s2 == ssh_packet_send2_wrapped(s1, Newkeys)
           s3 == [s2 EXCEPT !.rekeying = FALSE]
           s4 == Flush(s3)
           s5 == [s4 EXCEPT !.disp = {"NEWKEYS"}]
           s6 == ssh_packet_send2_wrapped(s5, ExtInfo)
           comp(u) == u.snd.comp <=> ((u.auth /\ r.auth) \/ Has(u.out, "SUCCESS"))
<1> USE DEF HasKeys
<1>1. /\ s1 \in EndState /\ s1.disp = {} /\ s1.flags = s.flags /\ s1.phase = s.phase
      /\ s1.kex_type = s.kex_type /\ s1.auth = s.auth /\ s1.kex_strict = s.kex_strict
      /\ s1.exchange = s.exchange /\ s1.rcv = s.rcv /\ s1.outgoing = s.outgoing
      /\ s1.snd = s.snd /\ s1.out = s.out /\ s1.newkeys = s.newkeys
      /\ s1.done = s.done
  BY DEF EndState
<1>2. Newkeys \in MsgSet /\ Newkeys.type = "NEWKEYS" /\ Newkeys.body = 0
  BY MsgFacts DEF Newkeys, Type, KexType
<1>3. ExtInfo \in MsgSet /\ ExtInfo.type = "EXT_INFO" /\ ExtInfo.body = 0
  BY MsgFacts DEF ExtInfo, Type, KexType
<1>4. s.done \in BOOLEAN /\ s.kex_strict \in BOOLEAN /\ s.auth \in BOOLEAN
  BY EndTyped
<1> HIDE DEF s1
<1>5. /\ s2 \in EndState
      /\ s2.out = Append(s1.out, Packet(s1, s1.snd.seq, Newkeys))
      /\ s2.snd.key = x /\ s2.snd.seq = 0 /\ s2.snd.comp = s.auth
      /\ s2.newkeys = [snd |-> NoKey, rcv |-> x]
      /\ s2.phase = s.phase /\ s2.kex_type = s.kex_type /\ s2.auth = s.auth
      /\ s2.done = FALSE /\ s2.flags = s.flags
      /\ s2.kex_strict = s.kex_strict /\ s2.exchange = s.exchange
      /\ s2.rcv = s.rcv /\ s2.outgoing = s.outgoing
  <2>1. s1.newkeys.snd = x /\ s1.newkeys.rcv = x
    BY <1>1
  <2> QED BY <1>1, <1>4, <2>1, NewkeysFacts
<1> HIDE DEF s2
<1>6. Wire(s1, r, n, g) /\ comp(s1)
  BY <1>1 DEF Wire
<1>7. Wire(s2, r, n, g) /\ Kex(s2.out) = Kex(s.out) \union {"NEWKEYS"}
  <2>1. \A y \in Kex(s1.out) : Rank(y) < 1
    BY <1>1
  <2>2. /\ s1 \in EndState /\ s2 \in EndState
        /\ s2.out = Append(s1.out, Packet(s1, s1.snd.seq, Newkeys))
        /\ s2.auth = s1.auth /\ s2.outgoing = s1.outgoing /\ s2.snd.seq = 0
    BY <1>1, <1>5
  <2>3. Wire(s2, r, n, g) /\ Kex(s2.out) = Kex(s1.out) \union {"NEWKEYS"}
    BY <1>2, <1>6, <2>1, <2>2, WireSendsNewkeys, ZenonT(60)
  <2> QED BY <1>1, <2>3
<1>8. /\ s1.out \in Seq(PacketSet)
      /\ Packet(s1, s1.snd.seq, Newkeys) \in PacketSet
      /\ Packet(s1, s1.snd.seq, Newkeys).type = "NEWKEYS"
  BY <1>1, <1>2, EndTyped, PacketFacts
<1>9. Replies(s2.out, x) /\ (Has(s2.out, "SUCCESS") <=> Has(s.out, "SUCCESS"))
  <2> DEFINE p == Packet(s1, s1.snd.seq, Newkeys)
             v == Append(s1.out, p)
  <2>1. Extends(s1.out, v) /\ Added(s1.out, v) = {Len(s1.out) + 1} /\ v[Len(s1.out) + 1] = p
    BY <1>8, AppendExtends
  <2>2. Has(v, "SUCCESS") <=> Has(s1.out, "SUCCESS")
    BY <1>8, AppendHas
  <2> HIDE DEF v, p
  <2>3. Replies(v, x)
    BY <1>1, <1>8, <2>1, RepliesExtend DEF p
  <2> QED BY <1>1, <1>5, <2>2, <2>3 DEF v, p
<1>10. /\ s3 \in EndState /\ s3.out = s2.out /\ s3.rekeying = FALSE
       /\ s3.snd = s2.snd /\ s3.newkeys = s2.newkeys
       /\ s3.phase = s.phase /\ s3.kex_type = s.kex_type /\ s3.auth = s.auth
       /\ s3.done = FALSE /\ s3.flags = s.flags
       /\ s3.kex_strict = s.kex_strict /\ s3.exchange = s.exchange
       /\ s3.rcv = s.rcv /\ s3.outgoing = s.outgoing
  BY <1>5 DEF EndState
<1>11. SendNewkeys(s1, due) = s4
  <2>1. ~ssh_packet_need_rekeying(s3, due)
    BY <1>10 DEF ssh_packet_need_rekeying, ssh_packet_is_rekeying
  <2> QED BY <2>1 DEF SendNewkeys, s2, Newkeys
<1> HIDE DEF s3
<1>12. /\ Wire(s3, r, n, g) /\ s3.snd.key = x /\ s3.snd.key # NoKey
       /\ Kex(s3.out) = Kex(s.out) \union {"NEWKEYS"}
       /\ "KEXINIT" \notin Kex(s3.out)
       /\ Has(s3.out, "SUCCESS") <=> Has(s.out, "SUCCESS")
       /\ Replies(s3.out, x) /\ s3.snd.comp = s.auth
  <2>1. Wire(s3, r, n, g)
    BY <1>5, <1>7, <1>10 DEF Wire
  <2>2. "KEXINIT" \notin Kex(s.out)
    BY DEF Rank
  <2> QED BY <1>5, <1>7, <1>9, <1>10, <2>1, <2>2
<1>13. comp(s3)
  BY <1>4, <1>10, <1>12, Zenon
<1>14. /\ s4 \in EndState
       /\ s4.snd.key = x /\ s4.snd.comp = s.auth /\ s4.outgoing = <<>>
       /\ s4.rcv = s.rcv /\ s4.auth = s.auth /\ s4.flags = s.flags
       /\ s4.phase = s.phase /\ s4.kex_type = s.kex_type /\ s4.rekeying = FALSE
       /\ s4.done = FALSE /\ s4.kex_strict = s.kex_strict
       /\ s4.exchange = s.exchange /\ s4.newkeys = [snd |-> NoKey, rcv |-> x]
       /\ s4.snd.seq = (s3.snd.seq + Len(s3.outgoing)) % SeqMod
  BY <1>5, <1>10, <1>12, FlushFacts, ZenonT(60)
<1>15. /\ Wire(s4, r, n, g) /\ Kex(s4.out) = Kex(s.out) \union {"NEWKEYS"}
       /\ Has(s4.out, "SUCCESS") <=> Has(s.out, "SUCCESS")
  <2>1. /\ Len(s3.outgoing) <= n
        /\ \A i \in 1 .. Len(s3.outgoing) :
              /\ s3.outgoing[i].type = "DATA"
              /\ s3.outgoing[i].body = n - Len(s3.outgoing) + i
    BY <1>10 DEF Queue
  <2>2. Closed(r) => "NEWKEYS" \in Kex(s3.out)
    BY <1>12
  <2>3. /\ Wire(s4, r, n, g) /\ Kex(s4.out) = Kex(s3.out)
        /\ \A y : y # "DATA" => (Has(s4.out, y) <=> Has(s3.out, y))
    BY <1>10, <1>12, <1>13, <2>1, <2>2, WireFlushes
  <2> QED BY <1>12, <2>3
<1>16. Replies(s4.out, x)
  <2>1. /\ Extends(s3.out, s4.out)
        /\ \A k \in Added(s3.out, s4.out) :
              /\ k - Len(s3.out) \in 1 .. Len(s3.outgoing)
              /\ s4.out[k] = Packet(s3, (s3.snd.seq + (k - Len(s3.out) - 1)) % SeqMod,
                                    s3.outgoing[k - Len(s3.out)])
    BY <1>10, FlushFacts
  <2>2. ASSUME NEW k \in Added(s3.out, s4.out) PROVE s4.out[k].type = "DATA"
    <3>1. s3.outgoing[k - Len(s3.out)].type = "DATA"
      BY <1>10, <2>1 DEF Queue
    <3> DEFINE m == s3.outgoing[k - Len(s3.out)]
               q == (s3.snd.seq + (k - Len(s3.out) - 1)) % SeqMod
    <3>2. s4.out[k] = Packet(s3, q, m) /\ m.type = "DATA"
      BY <2>1, <3>1
    <3> HIDE DEF s4, q, m
    <3> QED BY <3>2 DEF Packet
  <2> QED BY <1>12, <2>1, <2>2, RepliesExtend
<1> HIDE DEF s4
<1>17. /\ s5 \in EndState /\ s5.disp = {"NEWKEYS"} /\ s5.out = s4.out /\ s5.snd = s4.snd
       /\ s5.outgoing = <<>> /\ s5.rcv = s.rcv /\ s5.auth = s.auth /\ s5.flags = s.flags
       /\ s5.phase = s.phase /\ s5.kex_type = s.kex_type /\ s5.rekeying = FALSE
       /\ s5.done = FALSE /\ s5.kex_strict = s.kex_strict
       /\ s5.exchange = s.exchange /\ s5.newkeys = [snd |-> NoKey, rcv |-> x]
  BY <1>14 DEF EndState, KexType
<1>18. kex_send_newkeys(s, due) =
           IF "INITIAL" \in s.flags THEN ssh_packet_send2(s5, ExtInfo, due) ELSE s5
  BY <1>11 DEF kex_send_newkeys, ExtInfo, s1
<1>19. ssh_packet_send2(s5, ExtInfo, due) = s6
  <2>1. ~ssh_packet_need_rekeying(s5, due)
    BY <1>17 DEF ssh_packet_need_rekeying, ssh_packet_is_rekeying
  <2> QED BY <1>17, <2>1 DEF ssh_packet_send2
<1> HIDE DEF s5
<1>20. /\ Wire(s5, r, n, g) /\ comp(s5) /\ Replies(s5.out, x)
       /\ Kex(s5.out) = Kex(s.out) \union {"NEWKEYS"}
       /\ Has(s5.out, "SUCCESS") <=> Has(s.out, "SUCCESS")
       /\ s5.snd.key = x /\ s5.snd.comp = s.auth
  <2>1. Wire(s5, r, n, g)
    BY <1>14, <1>15, <1>17 DEF Wire
  <2>2. comp(s5)
    BY <1>4, <1>14, <1>15, <1>17, Zenon
  <2> QED BY <1>14, <1>15, <1>16, <1>17, <2>1, <2>2
<1>21. CASE "INITIAL" \notin s.flags
  BY <1>17, <1>18, <1>20, <1>21 DEF GoesOver
<1>22. CASE "INITIAL" \in s.flags
  <2>1. s5.snd.seq = 0
    <3>1. Len(s.outgoing) = 0
      BY <1>22 DEF Queue
    <3>2. s3.snd.seq + Len(s3.outgoing) = 0
      BY <1>5, <1>10, <3>1
    <3>3. 0 % SeqMod = 0
      BY ModFacts, TransportAssumption
    <3> QED BY <1>14, <1>17, <3>2, <3>3
  <2>2. s6 \in EndState /\ ButWire(s5, s6) /\ Sends(s5, s6, ExtInfo)
    BY <1>3, <1>17, <2>1, SendFacts
  <2> HIDE DEF s6
  <2>3. Wire(s6, r, n, g) /\ Kex(s6.out) = Kex(s5.out)
    <3>1. "KEXINIT" \notin Kex(s5.out) /\ "NEWKEYS" \in Kex(s5.out) /\ s5.snd.key # NoKey
      BY <1>20 DEF Rank
    <3>2. n = 0
      BY <1>22
    <3>3. ExtInfo.type \notin KexType /\ ExtInfo.type \notin DataType
      BY <1>3 DEF KexType, DataType
    <3>4. s6.auth /\ r.auth <=> s5.auth /\ r.auth
      BY <2>2 DEF ButWire
    <3>5. /\ s6.outgoing = <<>> /\ s6.out = Append(s5.out, Packet(s5, s5.snd.seq, ExtInfo))
          /\ s6.snd.key = s5.snd.key /\ s6.snd.seq = (s5.snd.seq + 1) % SeqMod
      BY <1>17, <2>2 DEF ButWire, Sends
    <3>6. Compressed(s5, r)
      BY <1>20, Zenon DEF Compressed
    <3>7. PlainSend(s5, s6, r, n, n, g, ExtInfo)
      BY <1>3, <1>17, <1>20, <2>2, <3>1, <3>2, <3>3, <3>4, <3>5, <3>6 DEF PlainSend
    <3> QED BY <3>7, WireSendsPlain
  <2>4. Replies(s6.out, x) /\ (Has(s6.out, "SUCCESS") <=> Has(s.out, "SUCCESS"))
    <3> DEFINE p == Packet(s5, s5.snd.seq, ExtInfo)
               v == Append(s5.out, p)
    <3>0. s5.out \in Seq(PacketSet) /\ p \in PacketSet /\ p.type = "EXT_INFO"
      BY <1>3, <1>17, EndTyped, PacketFacts
    <3>1. Extends(s5.out, v) /\ Added(s5.out, v) = {Len(s5.out) + 1} /\ v[Len(s5.out) + 1] = p
      BY <3>0, AppendExtends
    <3>2. Has(v, "SUCCESS") <=> Has(s5.out, "SUCCESS")
      BY <3>0, AppendHas
    <3> HIDE DEF v, p
    <3>3. Replies(v, x)
      BY <1>20, <3>0, <3>1, RepliesExtend
    <3> QED BY <1>20, <2>2, <3>2, <3>3 DEF Sends, v, p
  <2> QED BY <1>17, <1>18, <1>19, <1>20, <1>22, <2>2, <2>3, <2>4 DEF ButWire, Sends, GoesOver
<1> QED BY <1>21, <1>22
=============================================================================
