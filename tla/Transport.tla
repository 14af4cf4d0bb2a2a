----------------------------- MODULE Transport -----------------------------
(***************************************************************************)
(* The packet layer (packet.c) and the key exchange that runs inside it    *)
(* (kex.c, kexgen.c), at both ends of a connection: the first exchange,    *)
(* authentication as far as the packet layer sees it, and any number of    *)
(* later exchanges, which either end may start, or both at once, while     *)
(* messages are on their way.                                              *)
(*                                                                         *)
(* Encryption is abstracted to what the two ends must agree on: a packet   *)
(* carries the key, the sequence number and the compression state it was   *)
(* sent with, and is corrupt for a reader whose own differ. Keys are named *)
(* by the exchange that made them, modulo KeyMod; sequence numbers are     *)
(* modulo SeqMod. So the number of exchanges is not bounded. A rekey limit *)
(* (time, blocks or packets) may be reached at any check that has one.     *)
(***************************************************************************)
EXTENDS Integers, Sequences

CONSTANTS
    SeqMod,     \* 2^32 in the code
    KeyMod,     \* names for keys
    Methods,    \* what negotiation may choose: "gen", "gex"
    MaxData     \* bound: messages handed over by each end

ASSUME TransportAssumption ==
    /\ SeqMod \in Nat /\ SeqMod > 4
    /\ KeyMod \in Nat /\ KeyMod > 2
    /\ Methods \subseteq {"gen", "gex"}
    /\ MaxData \in Nat

VARIABLES
    st,     \* st[e]: the packet and key exchange state of end e
    sent,   \* sent[e]: messages the layers above have handed to e
    got     \* got[e]: the last message dispatched to the layers above at e

vars == <<st, sent, got>>

End == {"client", "server"}

Peer(e) == IF e = "client" THEN "server" ELSE "client"

KexType == {"KEXINIT", "KEX_INIT", "KEX_REPLY", "NEWKEYS",
            "GEX_REQUEST", "GEX_GROUP", "GEX_INIT", "GEX_REPLY"}

\* SUCCESS is SSH2_MSG_USERAUTH_SUCCESS, DATA any other message above the
\* transport layer.
Type == KexType \union {"EXT_INFO", "DATA", "SUCCESS"}

ssh_packet_type_is_kex(t) == t \in KexType

NoKey == 0
Key == NoKey .. KeyMod
Seq32 == 0 .. SeqMod - 1

\* One direction: key and compression in use, next sequence number, and
\* whether a packet has passed since the keys were set (packets > 0).
Direction == [key : Key, seq : Seq32, used : BOOLEAN, comp : BOOLEAN]

NewDirection == [key |-> NoKey, seq |-> 0, used |-> FALSE, comp |-> FALSE]

\* phase is where the process of the end is: it runs the first exchange, then
\* authentication, then starts its session, then its main loop. disp are the
\* key exchange messages that have a handler, newkeys what the exchange has
\* made and not put to use, out what is sent and not yet read by the peer.
NewEnd ==
    [phase |-> "new", kex_type |-> "gen", auth |-> FALSE, rekeying |-> TRUE,
     done |-> FALSE, flags |-> {"INITIAL"}, kex_strict |-> FALSE, disp |-> {},
     exchange |-> NoKey, newkeys |-> [snd |-> NoKey, rcv |-> NoKey],
     snd |-> NewDirection, rcv |-> NewDirection,
     outgoing |-> <<>>, out |-> <<>>, err |-> "none"]

\* The end gives up the connection, or sends UNIMPLEMENTED in place of going on.
Fail(s, why) == [s EXCEPT !.err = why]

-----------------------------------------------------------------------------
(* Keys and packets.                                                       *)

ssh_packet_is_rekeying(s) == s.rekeying \/ ~s.done

\* Compression starts with the keys once the user has authenticated.
ssh_set_newkeys(s, mode) ==
    IF s.newkeys[mode] = NoKey THEN Fail(s, "internal")
    ELSE [s EXCEPT ![mode] = [key |-> s.newkeys[mode], seq |-> s[mode].seq,
                              used |-> FALSE, comp |-> s.auth],
                   !.newkeys[mode] = NoKey]

ssh_packet_enable_delayed_compress(s) ==
    [s EXCEPT !.auth = TRUE,
              !.snd.comp = @ \/ s.snd.key # NoKey,
              !.rcv.comp = @ \/ s.rcv.key # NoKey]

\* Strict key exchange starts again from 0 after NEWKEYS.
NextSeq(s, mode, type) ==
    IF type = "NEWKEYS" /\ s.kex_strict THEN 0 ELSE (s[mode].seq + 1) % SeqMod

WrapsInFirstExchange(s, mode) ==
    (s[mode].seq + 1) % SeqMod = 0 /\ "INITIAL" \in s.flags

Packet(s, seq, m) ==
    [type |-> m.type, body |-> m.body,
     key |-> s.snd.key, seq |-> seq, comp |-> s.snd.comp]

Msg(type, body) == [type |-> type, body |-> body]

ssh_packet_send2_wrapped(s, m) ==
    LET t == [s EXCEPT !.out = Append(@, Packet(s, s.snd.seq, m)),
                       !.snd.seq = NextSeq(s, "snd", m.type),
                       !.snd.used = TRUE]
    IN IF WrapsInFirstExchange(s, "snd") THEN Fail(s, "wrapped")
       ELSE IF m.type = "NEWKEYS" THEN ssh_set_newkeys(t, "snd")
       ELSE IF m.type = "SUCCESS" THEN ssh_packet_enable_delayed_compress(t)
       ELSE t

-----------------------------------------------------------------------------
(* Starting an exchange.                                                   *)

\* The proposal names strict key exchange only the first time (body 1).
kex_send_kexinit(s) ==
    IF "INIT_SENT" \in s.flags THEN s
    ELSE LET t == ssh_packet_send2_wrapped(
                     [s EXCEPT !.done = FALSE, !.rekeying = TRUE],
                     Msg("KEXINIT", IF "INITIAL" \in s.flags THEN 1 ELSE 0))
         IN [t EXCEPT !.flags = @ \union {"INIT_SENT"}]

kex_start_rekex(s) ==
    IF ~s.done THEN Fail(s, "requested twice")
    ELSE kex_send_kexinit([s EXCEPT !.done = FALSE])

\* Mutant: an exchange in which the end has sent its NEWKEYS counts as over.
ssh_packet_need_rekeying_Early(s, due) ==
    s.auth /\ ~s.rekeying /\ (s.snd.used \/ s.rcv.used) /\ due

\* due: the rekey interval or a limit on blocks or packets is reached.
ssh_packet_need_rekeying(s, due) ==
    /\ s.auth
    /\ ~ssh_packet_is_rekeying(s)
    /\ s.snd.used \/ s.rcv.used
    /\ due

ssh_packet_check_rekey(s, due) ==
    IF ssh_packet_need_rekeying(s, due) THEN kex_start_rekex(s) ELSE s

-----------------------------------------------------------------------------
(* Sending.                                                                *)

\* Mutant: the message that starts an exchange goes out behind the KEXINIT.
ssh_packet_send2_Overtakes(s, m, due) ==
    LET need == ssh_packet_need_rekeying(s, due)
        q == [s EXCEPT !.outgoing = Append(@, m)]
    IN IF need THEN ssh_packet_send2_wrapped(kex_start_rekex(s), m)
       ELSE IF s.rekeying THEN q
       ELSE ssh_packet_send2_wrapped(s, m)

\* Mutant: the queue is last in, first out.
ssh_packet_send2_AtHead(s, m, due) ==
    LET need == ssh_packet_need_rekeying(s, due)
        q == [s EXCEPT !.outgoing = <<m>> \o @]
    IN IF need THEN kex_start_rekex(q)
       ELSE IF s.rekeying THEN q
       ELSE ssh_packet_send2_wrapped(s, m)

\* A message of the layers above, or EXT_INFO. During an exchange it is queued;
\* one that makes an exchange necessary is queued and starts it.
ssh_packet_send2(s, m, due) ==
    LET need == ssh_packet_need_rekeying(s, due)
        q == [s EXCEPT !.outgoing = Append(@, m)]
    IN IF need THEN kex_start_rekex(q)
       ELSE IF s.rekeying THEN q
       ELSE ssh_packet_send2_wrapped(s, m)

\* The whole queue is sent under the keys now in use.
Flush(s) ==
    LET n == Len(s.outgoing)
        seq(i) == (s.snd.seq + i) % SeqMod
    IN [s EXCEPT
          !.out = @ \o [i \in 1 .. n |-> Packet(s, seq(i - 1), s.outgoing[i])],
          !.snd.seq = seq(n), !.snd.used = @ \/ n > 0, !.outgoing = <<>>]

\* Mutant: the queue waits for the next exchange.
SendNewkeys_NoFlush(s, due) ==
    [ssh_packet_send2_wrapped(s, Msg("NEWKEYS", 0)) EXCEPT !.rekeying = FALSE]

\* ssh_packet_send2 of NEWKEYS: the keys change and the queue follows, unless
\* a message of the queue makes another exchange necessary.
SendNewkeys(s, due) ==
    LET t == [ssh_packet_send2_wrapped(s, Msg("NEWKEYS", 0)) EXCEPT !.rekeying = FALSE]
    IN IF t.outgoing # <<>> /\ ssh_packet_need_rekeying(t, due)
       THEN kex_start_rekex(t) ELSE Flush(t)

-----------------------------------------------------------------------------
(* The messages of an exchange. The client moves first. With the fixed     *)
(* groups (kexgen.c), KEX_INIT carries its ephemeral key and KEX_REPLY the *)
(* answer; with group exchange (kexgexc.c, kexgexs.c) the client asks for  *)
(* a group before. The body stands for the exchange.                       *)

\* kex_derive_keys: keys for both directions.
kex_derive_keys(s, x) == [s EXCEPT !.newkeys = [snd |-> x, rcv |-> x]]

\* Sends NEWKEYS and, the first time, EXT_INFO behind it.
kex_send_newkeys(s, due) ==
    LET t == [SendNewkeys([s EXCEPT !.disp = {}], due) EXCEPT !.disp = {"NEWKEYS"}]
    IN IF "INITIAL" \in s.flags THEN ssh_packet_send2(t, Msg("EXT_INFO", 0), due)
       ELSE t

NextExchange(s) == (s.exchange % KeyMod) + 1

Expect(s, type) == [s EXCEPT !.disp = @ \union {type}]

\* The client sends a fresh ephemeral key.
Ephemeral(s, type) ==
    ssh_packet_send2_wrapped([s EXCEPT !.exchange = NextExchange(s)],
                             Msg(type, NextExchange(s)))

kex_gen_client(s) == Expect(Ephemeral(s, "KEX_INIT"), "KEX_REPLY")

kex_gen_server(s) == Expect(s, "KEX_INIT")

kexgex_client(s) ==
    Expect(ssh_packet_send2_wrapped(s, Msg("GEX_REQUEST", 0)), "GEX_GROUP")

kexgex_server(s) == Expect(s, "GEX_REQUEST")

\* The method that negotiation has chosen, at the end that runs it.
RunMethod(e, s) ==
    CASE s.kex_type = "gen" /\ e = "client" -> kex_gen_client(s)
      [] s.kex_type = "gen" /\ e = "server" -> kex_gen_server(s)
      [] s.kex_type = "gex" /\ e = "client" -> kexgex_client(s)
      [] s.kex_type = "gex" /\ e = "server" -> kexgex_server(s)

\* Whether to be strict is settled in the first exchange; then the peer's
\* KEXINIT must have been its first packet.
kex_choose_conf(s, p) ==
    IF "INITIAL" \notin s.flags THEN s
    ELSE IF p.body = 1 /\ p.seq # 0 THEN Fail(s, "strict")
    ELSE [s EXCEPT !.kex_strict = p.body = 1]

kex_input_kexinit(e, s, p) ==
    LET t == [s EXCEPT !.flags = @ \union {"INIT_RECVD"}, !.disp = @ \ {"KEXINIT"}]
        u == kex_choose_conf(kex_send_kexinit(t), p)
    IN IF "INIT_RECVD" \in s.flags THEN Fail(s, "multiple KEXINIT")
       ELSE IF u.err # "none" THEN u
       ELSE RunMethod(e, u)

\* The message being handled is not expected again.
Taken(s, p) == [s EXCEPT !.disp = @ \ {p.type}]

input_kex_dh_gex_request(s, p) ==
    Expect(ssh_packet_send2_wrapped(Taken(s, p), Msg("GEX_GROUP", 0)), "GEX_INIT")

input_kex_dh_gex_group(s, p) == Expect(Ephemeral(Taken(s, p), "GEX_INIT"), "GEX_REPLY")

\* The server replies, has the keys, and goes over to them for sending.
Reply(s, p, type, due) ==
    LET t == ssh_packet_send2_wrapped(Taken(s, p), Msg(type, p.body))
    IN kex_send_newkeys(kex_derive_keys(t, p.body), due)

input_kex_gen_init(s, p, due) == Reply(s, p, "KEX_REPLY", due)

input_kex_dh_gex_init(s, p, due) == Reply(s, p, "GEX_REPLY", due)

\* The client has the keys with the reply.
input_kex_gen_reply(s, p, due) ==
    kex_send_newkeys(kex_derive_keys(Taken(s, p), p.body), due)

input_kex_dh_gex_reply(s, p, due) ==
    kex_send_newkeys(kex_derive_keys(Taken(s, p), p.body), due)

kex_input_newkeys(s) ==
    LET t == ssh_set_newkeys([s EXCEPT !.disp = (@ \ {"NEWKEYS"}) \union {"KEXINIT"}],
                             "rcv")
    IN IF t.err # "none" THEN t ELSE [t EXCEPT !.done = TRUE, !.flags = {}]

-----------------------------------------------------------------------------
(* Reading.                                                                *)

Corrupt(s, p) == p.key # s.rcv.key \/ p.seq # s.rcv.seq \/ p.comp # s.rcv.comp

\* The packet is decrypted and counted; a limit may be reached by it, and then
\* this end's KEXINIT is sent before the packet is handled.
ssh_packet_read_poll2(e, s, p, due) ==
    LET t == [s EXCEPT !.rcv.seq = NextSeq(s, "rcv", p.type), !.rcv.used = TRUE]
        u == IF p.type = "SUCCESS" /\ e = "client"
             THEN ssh_packet_enable_delayed_compress(t) ELSE t
    IN IF Corrupt(s, p) THEN Fail(s, "corrupt")
       ELSE IF WrapsInFirstExchange(s, "rcv") THEN Fail(s, "wrapped")
       ELSE ssh_packet_check_rekey(u, due)

\* Nothing but the exchange may follow the peer's KEXINIT.
ssh_packet_read_poll_seqnr(s, p) ==
    IF /\ ~("INITIAL" \in s.flags /\ s.kex_strict)
       /\ "INIT_RECVD" \in s.flags /\ ~ssh_packet_type_is_kex(p.type)
    THEN Fail(s, "non-transport message") ELSE s

ssh_dispatch_run(e, s, p, due) ==
    IF s.err # "none" THEN s
    ELSE IF p.type \in KexType \ s.disp THEN Fail(s, "unexpected")
    ELSE
    CASE p.type = "KEXINIT" -> kex_input_kexinit(e, s, p)
      [] p.type = "KEX_INIT" -> input_kex_gen_init(s, p, due)
      [] p.type = "KEX_REPLY" -> input_kex_gen_reply(s, p, due)
      [] p.type = "GEX_REQUEST" -> input_kex_dh_gex_request(s, p)
      [] p.type = "GEX_GROUP" -> input_kex_dh_gex_group(s, p)
      [] p.type = "GEX_INIT" -> input_kex_dh_gex_init(s, p, due)
      [] p.type = "GEX_REPLY" -> input_kex_dh_gex_reply(s, p, due)
      [] p.type = "NEWKEYS" -> kex_input_newkeys(s)
      [] p.type = "SUCCESS" -> [s EXCEPT !.phase = "start"]
      [] OTHER -> s

\* The end reads: never between two of its phases.
Reads(s) ==
    /\ s.err = "none"
    /\ \/ s.phase = "kex" /\ ~s.done
       \/ s.phase \in {"auth", "loop"}

CanRead(e) == Reads(st[e]) /\ st[Peer(e)].out # <<>>

\* End e reads the next packet of its peer and handles it.
Read(e, due) ==
    LET o == Peer(e)
        p == Head(st[o].out)
        s == ssh_packet_read_poll_seqnr(ssh_packet_read_poll2(e, st[e], p, due), p)
        t == ssh_dispatch_run(e, s, p, due)
    IN /\ CanRead(e)
       /\ st' = [st EXCEPT ![e] = t, ![o].out = Tail(@)]
       /\ got' = IF p.type \in {"DATA", "SUCCESS"} /\ t.err = "none"
                 THEN [got EXCEPT ![e] = p.body] ELSE got
       /\ UNCHANGED sent

-----------------------------------------------------------------------------
(* The processes at the two ends.                                          *)

Becomes(e, s) == st' = [st EXCEPT ![e] = s]

\* kex_setup, once the identification strings have been exchanged.
kex_setup(e) ==
    /\ st[e].phase = "new"
    /\ Becomes(e, kex_send_kexinit([st[e] EXCEPT !.phase = "kex", !.disp = {"KEXINIT"}]))
    /\ UNCHANGED <<sent, got>>

\* ssh_userauth2 and do_authentication2 have dispatch tables of their own.
BeginAuth(e) ==
    /\ st[e].phase = "kex" /\ st[e].done /\ st[e].err = "none"
    /\ Becomes(e, [st[e] EXCEPT !.phase = "auth", !.disp = {}])
    /\ UNCHANGED <<sent, got>>

\* Mutant: the main loop is entered without a handler for KEXINIT.
init_dispatch_NoKex(e) ==
    /\ st[e].phase = "start" /\ st[e].err = "none"
    /\ Becomes(e, [st[e] EXCEPT !.phase = "loop", !.disp = {}])
    /\ UNCHANGED <<sent, got>>

\* client_init_dispatch and server_init_dispatch, at the start of the main loop.
init_dispatch(e) ==
    /\ st[e].phase = "start" /\ st[e].err = "none"
    /\ Becomes(e, [st[e] EXCEPT !.phase = "loop", !.disp = {"KEXINIT"}])
    /\ UNCHANGED <<sent, got>>

\* While authenticating, the client sends a request and waits for the answer.
MaySend(e) ==
    LET s == st[e] IN
    /\ s.err = "none" /\ sent[e] < MaxData
    /\ \/ s.phase \in {"start", "loop"}
       \/ s.phase = "auth" /\ e = "client" /\ got[e] = sent[e]
       \/ s.phase = "auth" /\ e = "server" /\ got[e] > sent[e]

\* A message from the layers above (sshpkt_send).
Send(e, due) ==
    /\ MaySend(e)
    /\ Becomes(e, ssh_packet_send2(st[e], Msg("DATA", sent[e] + 1), due))
    /\ sent' = [sent EXCEPT ![e] = @ + 1]
    /\ UNCHANGED got

\* userauth_finish: the server's answer is that the user has authenticated.
userauth_finish ==
    /\ st["server"].phase = "auth" /\ MaySend("server")
    /\ LET s == ssh_packet_send2(st["server"], Msg("SUCCESS", sent["server"] + 1), FALSE)
       IN Becomes("server", [s EXCEPT !.phase = "start"])
    /\ sent' = [sent EXCEPT !["server"] = @ + 1]
    /\ UNCHANGED got

\* The main loops check the limits each time round.
RekeyTimeout(e) ==
    /\ st[e].phase = "loop" /\ st[e].err = "none"
    /\ ssh_packet_need_rekeying(st[e], TRUE)
    /\ Becomes(e, ssh_packet_check_rekey(st[e], TRUE))
    /\ UNCHANGED <<sent, got>>

\* The user of the client asks for new keys (~R).
RekeyRequest ==
    /\ st["client"].phase = "loop" /\ st["client"].err = "none"
    /\ ~ssh_packet_is_rekeying(st["client"])
    /\ Becomes("client", kex_start_rekex(st["client"]))
    /\ UNCHANGED <<sent, got>>

-----------------------------------------------------------------------------

Init ==
    /\ \E m \in Methods : st = [e \in End |-> [NewEnd EXCEPT !.kex_type = m]]
    /\ sent = [e \in End |-> 0]
    /\ got = [e \in End |-> 0]

ReadSome(e) == \E due \in BOOLEAN : Read(e, due)

Next ==
    \/ \E e \in End :
          \/ kex_setup(e)
          \/ BeginAuth(e)
          \/ init_dispatch(e)
          \/ ReadSome(e)
          \/ \E due \in BOOLEAN : Send(e, due)
          \/ RekeyTimeout(e)
    \/ userauth_finish
    \/ RekeyRequest

Spec == Init /\ [][Next]_vars

\* A process does not stay in front of what it can do next: it starts, goes on
\* to its next phase, and reads what has arrived. Nothing makes a user
\* authenticate or an end send messages or rekey. The last conjunct is
\* WF_vars(ReadSome(e)), with CanRead(e) written for ENABLED ReadSome(e).
FairSpec ==
    /\ Spec
    /\ \A e \in End :
          /\ WF_vars(kex_setup(e))
          /\ WF_vars(BeginAuth(e))
          /\ WF_vars(init_dispatch(e))
          /\ []<>~CanRead(e) \/ []<><<ReadSome(e)>>_vars

-----------------------------------------------------------------------------
(* Properties.                                                             *)

IsPacket(p) ==
    /\ p.type \in Type /\ p.body \in Nat
    /\ p.key \in Key /\ p.seq \in Seq32 /\ p.comp \in BOOLEAN

\* The state of an end has its type, sequence numbers within their width.
TypeOK ==
    /\ \A e \in End :
          LET s == st[e] IN
          /\ s.phase \in {"new", "kex", "auth", "start", "loop"}
          /\ s.kex_type \in Methods
          /\ s.auth \in BOOLEAN /\ s.rekeying \in BOOLEAN /\ s.done \in BOOLEAN
          /\ s.kex_strict \in BOOLEAN
          /\ s.flags \subseteq {"INITIAL", "INIT_SENT", "INIT_RECVD"}
          /\ s.disp \subseteq KexType
          /\ s.exchange \in Key /\ s.newkeys \in [snd : Key, rcv : Key]
          /\ s.snd \in Direction /\ s.rcv \in Direction
          /\ \A i \in 1 .. Len(s.out) : IsPacket(s.out[i])
          /\ \A i \in 1 .. Len(s.outgoing) :
                s.outgoing[i].type \in Type \ KexType
    /\ sent \in [End -> 0 .. MaxData] /\ got \in [End -> 0 .. MaxData]

\* Two ends that run this code never lose their connection to the key
\* exchange, whichever of them starts it and whatever is under way: no packet
\* is read with other keys, another sequence number or another compression
\* state than it was sent with (packet.c:1627), no KEXINIT comes twice
\* (kex.c:628), no exchange is asked for during another (kex.c:803), keys are
\* there when NEWKEYS passes (packet.c:1017), every message of the exchange
\* finds its handler, and nothing else arrives while one is received
\* (packet.c:1952).
NeverFails == \A e \in End : st[e].err = "none"

\* On the wire nothing but the exchange lies between a KEXINIT and the NEWKEYS
\* of the same end ("During rekeying we can only send key exchange messages",
\* packet.c:1422), and nothing but the first exchange is sent in the clear.
OnlyKexInKex ==
    \A e \in End :
        LET out == st[e].out IN
        \A k \in 1 .. Len(out) : ~ssh_packet_type_is_kex(out[k].type) =>
            /\ out[k].key # NoKey
            /\ \A i \in 1 .. k - 1 : out[i].type = "KEXINIT" =>
                  \E j \in i + 1 .. k - 1 : out[j].type = "NEWKEYS"

\* An end that is not in an exchange sends and reads with keys of one exchange,
\* and has nothing left in its queue.
AtRest ==
    \A e \in End :
        ~ssh_packet_is_rekeying(st[e]) =>
            /\ st[e].snd.key = st[e].rcv.key /\ st[e].snd.key # NoKey
            /\ st[e].outgoing = <<>>
            /\ st[e].newkeys = [snd |-> NoKey, rcv |-> NoKey]

\* An exchange comes to its end, even when both ends start it or a limit is
\* reached each time it is looked at.
KexCompletes ==
    \A e \in End : ssh_packet_is_rekeying(st[e]) ~> ~ssh_packet_is_rekeying(st[e])

Stream == INSTANCE OrderedStream
              WITH End <- End, Peer <- Peer, sent <- sent, got <- got

\* The packet layer implements a stream: every message handed over is delivered
\* once and in order, however many exchanges it meets on its way.
ImplementsStream == Stream!Spec
=============================================================================
