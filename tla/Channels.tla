------------------------------ MODULE Channels ------------------------------
(***************************************************************************)
(* The SSH-2 connection layer of channels.c between an ssh client and an   *)
(* sshd server process, both running this code: opening, flow control,     *)
(* tear-down and re-use of channel numbers, with the session callbacks of  *)
(* session.c and serverloop.c that delay or force the end of a channel.    *)
(*                                                                         *)
(* Each process is single-threaded and runs the loop of server_loop2 /     *)
(* client_loop:                                                            *)
(*                                                                         *)
(*   "input"   dispatch buffered packets                                   *)
(*   "output"  channel_output_poll, slot by slot; then collect_children    *)
(*   "pre"     channel_handler(CHAN_PRE), slot by slot, with the collector *)
(*   "post"    channel_handler(CHAN_POST), slot by slot, likewise          *)
(*                                                                         *)
(* The TCP connection is one FIFO of packets per direction.  The programs  *)
(* behind a channel (a socket, a shell) are the environment: they produce  *)
(* bytes, accept bytes, fail and exit when they like.  MaxChannels bounds  *)
(* the channels opened in a run, so that a table of that size never fills. *)
(***************************************************************************)
EXTENDS Nchan, FiniteSets

CONSTANTS
  Window,      \* local_window_max of an open channel
  MaxPacket,   \* local_maxpacket, the same at both ends
  MaxData,     \* bound: bytes a program writes to one end of a channel
  MaxErr,      \* bound: bytes it writes to stderr
  MaxAlive,    \* bound: keepalive probes
  Openers,     \* who opens what: pairs <<endpoint, ctype>>
  Timeouts     \* the ends at which ChannelTimeout is set and may expire on an idle channel

Endpoint == {"client", "server"}
Peer(e) == IF e = "client" THEN "server" ELSE "client"

ASSUME ChannelsAssumption ==
  /\ Window \in Nat /\ MaxPacket \in Nat \ {0}
  /\ MaxData \in Nat /\ MaxErr \in Nat /\ MaxAlive \in Nat
  /\ Openers \subseteq (Endpoint \X {"tcp"}) \cup {<<"client", "session">>}
  /\ Timeouts \subseteq Endpoint

VARIABLES
  chan,     \* chan[e][i]: slot i of the channel table of process e
  net,      \* net[e]: packets on their way to e
  pc, cur,  \* where e is in its loop: the phase and the slot it handles next
  err,      \* err[e]: why e gave up, or "none"
  opens,    \* channels opened so far
  probes    \* keepalive probes sent so far

vars == <<chan, net, pc, cur, err, opens, probes>>

Phase == {"input", "output", "pre", "post"}
NextPhase == [input |-> "output", output |-> "pre", pre |-> "post",
              post |-> "input"]

Lesser(a, b) == IF a < b THEN a ELSE b

----------------------------------------------------------------------------
(* Opening and closing a slot.                                             *)

\* Slot i is the lowest free one; channels_alloc grows when there is none, and
\* with as many slots as opens there always is one.
FirstFree(e, i) ==
  /\ chan[e][i].type = "free"
  /\ \A j \in Ids : j < i => chan[e][j].type # "free"

channel_new(type, ctype, window, inst) ==
  [FreeChan EXCEPT !.type = type, !.ctype = ctype, !.delayed = TRUE,
                   !.local_window = window, !.local_window_max = window,
                   !.inst = inst]

\* channel_lookup: the types a packet may refer to.
Public == {"opening", "connecting", "larval", "open", "abandoned"}

----------------------------------------------------------------------------
(* Callbacks registered with channel_register_cleanup:                     *)
(* session_close_by_channel in the server, client_channel_closed in the    *)
(* client.  A session with a running child is detached only by force.      *)

channel_cancel_cleanup(w) ==
  [w EXCEPT !.c.detach_user = "none", !.c.detach_close = FALSE]

\* Mutant: the session is detached although its command is still running.
session_close_by_channel_Running(w, force) == channel_cancel_cleanup(w)

session_close_by_channel(w, force) ==
  IF w.c.child /\ ~force
  THEN w
  ELSE [channel_cancel_cleanup(w) EXCEPT !.c.child = FALSE]

\* Mutant: the client's callback does not cancel itself.
DetachUser_ClientStays(w, force) ==
  IF w.c.detach_user = "session" THEN session_close_by_channel(w, force) ELSE w

DetachUser(w, force) ==
  CASE w.c.detach_user = "session" -> session_close_by_channel(w, force)
    [] w.c.detach_user = "client"  -> channel_cancel_cleanup(w)
    [] OTHER -> w

\* session_exit_message, reached from session_close_by_pid: report the status,
\* let the collector send CLOSE, drop what nobody will read.
session_exit_message(w) ==
  LET s == Send(w, "EXIT", 0)
      r == [s EXCEPT !.c.detach_user = "session", !.c.detach_close = TRUE,
                     !.c.child = FALSE]
  IN  IF r.c.ostate # "closed" THEN chan_write_failed(r) ELSE r

----------------------------------------------------------------------------
(* The collector and the inactivity timeout.                               *)

channel_free(w) == [w EXCEPT !.c = FreeChan]

CollectDetached(w) ==
  LET d == SendClose(w, TRUE)
  IN  IF chan_is_dead(d.c, TRUE) THEN channel_free(d) ELSE d

\* Mutant: CLOSE is sent without asking detach_close.
channel_garbage_collect_Eager(w) ==
  IF w.c.detach_user = "none"
  THEN CollectDetached(w)
  ELSE LET d == SendClose(w, TRUE)
           u == DetachUser(d, FALSE)
       IN  IF chan_is_dead(d.c, TRUE) /\ u.c.detach_user = "none"
           THEN CollectDetached(u) ELSE d

channel_garbage_collect(w) ==
  IF w.c.detach_user = "none"
  THEN CollectDetached(w)
  ELSE LET d == SendClose(w, w.c.detach_close)
           u == DetachUser(d, FALSE)
       IN  CASE ~chan_is_dead(d.c, w.c.detach_close) -> d
             [] /\ chan_is_dead(d.c, w.c.detach_close)
                /\ u.c.detach_user # "none" -> u
             [] OTHER -> CollectDetached(u)

channel_force_close(w) ==
  LET r == IF w.c.istate = "open" THEN chan_read_failed(w) ELSE w
      i == IF r.c.istate = "drain"
           THEN chan_ibuf_empty([r EXCEPT !.c.input = 0]) ELSE r
      o == IF i.c.ostate \in {"open", "drain"}
           THEN chan_write_failed([i EXCEPT !.c.output = 0]) ELSE i
      u == DetachUser(o, TRUE)
  IN  [u EXCEPT !.c.efd = FALSE, !.c.type = "abandoned"]

----------------------------------------------------------------------------
(* Packets in: the handlers registered with ssh_dispatch_set.              *)

\* Mutant: what arrives for a shut half is dropped without a trace.
channel_input_data_NotConsumed(w, n) ==
  LET c == w.c
      d == [w EXCEPT !.c.output = @ + n, !.c.local_window = @ - n]
  IN  CASE c.type # "open" -> w
        [] c.type = "open" /\ c.ostate # "open" ->
             [w EXCEPT !.c.local_window = IF n > @ THEN 0 ELSE @ - n]
        [] OTHER -> IF n > c.local_window THEN Fail(w, "ignored window") ELSE d

\* Data for a half that no longer writes is counted as consumed at once.
channel_input_data(w, n) ==
  LET c == w.c
      x == c.local_window_exceeded + (n - c.local_window)
      keep == [w EXCEPT !.c.output = @ + n]
  IN  CASE c.type # "open" -> w
        [] c.type = "open" /\ c.ostate # "open" ->
             [w EXCEPT !.c.local_window = IF n > @ THEN 0 ELSE @ - n,
                       !.c.local_consumed = @ + n]
        [] c.type = "open" /\ c.ostate = "open" /\ n > MaxPacket -> w
        [] /\ c.type = "open" /\ c.ostate = "open" /\ n <= MaxPacket
           /\ n > c.local_window ->
             IF x > c.local_window_max \div 10
             THEN Fail(w, "ignored window")
             ELSE [keep EXCEPT !.c.local_window_exceeded = x,
                               !.c.local_window = 0]
        [] OTHER -> [keep EXCEPT !.c.local_window_exceeded = 0,
                                 !.c.local_window = @ - n]

channel_input_extended_data(w, n) ==
  LET c == w.c
  IN  CASE c.type # "open" -> w
        [] c.type = "open" /\ "EOF_RCVD" \in c.flags ->
             Fail(w, "extended data after EOF")
        [] OTHER ->
             IF ~c.efd \/ c.extended_usage # "write" \/ n > c.local_window
             THEN w
             ELSE [w EXCEPT !.c.extended = @ + n, !.c.local_window = @ - n]

\* The client's open_confirm callback asks for the command at once.
channel_input_open_confirmation(w, m) ==
  IF w.c.type # "opening"
  THEN Fail(w, "not opening")
  ELSE LET o == [w EXCEPT !.c.remote_id = m.self, !.c.remote_window = m.n,
                          !.c.type = "open"]
       IN  IF w.c.ctype = "session" THEN Send(o, "EXEC", 0) ELSE o

channel_input_open_failure(w) ==
  IF w.c.type # "opening" THEN Fail(w, "not opening") ELSE chan_mark_dead(w)

channel_input_window_adjust(w, n) == [w EXCEPT !.c.remote_window = @ + n]

\* A request is answered only while our CLOSE has not been sent.
Reply(w) == IF "CLOSE_SENT" \in w.c.flags THEN w ELSE Send(w, "REPLY", 0)

\* session_set_fds: the larval channel gets its descriptors, and its window
\* with them.  A pty has no separate stderr.
channel_set_fds(w, tty) ==
  LET f == [w EXCEPT !.c.type = "open", !.c.isatty = tty, !.c.efd = ~tty,
                     !.c.extended_usage = IF tty THEN "ignore" ELSE "read"]
  IN  [f EXCEPT !.c.local_window = Window, !.c.local_window_max = Window]

\* server_input_channel_req with an "exec" that do_exec starts.
session_input_exec(w, tty) ==
  IF w.c.type # "larval" \/ w.c.detach_user # "session"
  THEN Reply(w)
  ELSE LET f == [channel_set_fds(w, tty) EXCEPT !.c.child = TRUE]
       IN  Reply(Send(f, "ADJUST", Window))

InputHandler(w, m) ==
  CASE m.t = "DATA"      -> channel_input_data(w, m.n)
    [] m.t = "EXTDATA"   -> channel_input_extended_data(w, m.n)
    [] m.t = "EOF"       -> chan_rcvd_ieof(w)
    [] m.t = "CLOSE"     -> chan_rcvd_oclose(w)
    [] m.t = "CONFIRM"   -> channel_input_open_confirmation(w, m)
    [] m.t = "OPENFAIL"  -> channel_input_open_failure(w)
    [] m.t = "ADJUST"    -> channel_input_window_adjust(w, m.n)
    [] m.t = "EOW"       -> chan_rcvd_eow(w)
    [] m.t = "KEEPALIVE" -> Reply(w)
    [] OTHER -> w                                  \* EXIT, REPLY: no channel state

\* A packet for a number that is not in use: ADJUST and REPLY are logged, and
\* so is any request in the client; everything else ends the connection.
UnknownChannel(e, m) ==
  IF \/ m.t \in {"ADJUST", "REPLY"}
     \/ e = "client" /\ m.t \in {"EOW", "EXIT", "KEEPALIVE"}
  THEN Begin(FreeChan)
  ELSE Fail(Begin(FreeChan), "nonexistent channel")

----------------------------------------------------------------------------
(* Packets out: channel_output_poll on one channel.                        *)

SendBuffered(w, t, len) ==
  LET n == Lesser(Lesser(len, w.c.remote_window), MaxPacket)
  IN  IF n = 0 THEN w ELSE [Send(w, t, n) EXCEPT !.c.remote_window = @ - n]

channel_output_poll_input_open(w) ==
  LET c == w.c
      s == SendBuffered(w, "DATA", c.input)
  IN  CASE c.input = 0 /\ c.istate = "drain" /\ ~CHANNEL_EFD_INPUT_ACTIVE(c) ->
             chan_ibuf_empty(w)
        [] c.input > 0 ->
             [s EXCEPT !.c.input = @ - (c.remote_window - s.c.remote_window)]
        [] OTHER -> w

channel_output_poll_extended_read(w) ==
  LET s == SendBuffered(w, "EXTDATA", w.c.extended)
  IN  [s EXCEPT !.c.extended = @ - (w.c.remote_window - s.c.remote_window)]

channel_output_poll(w) ==
  LET a == IF w.c.istate \in {"open", "drain"}
           THEN channel_output_poll_input_open(w) ELSE w
  IN  CASE \/ w.c.type # "open"
           \/ w.c.flags \cap {"CLOSE_SENT", "CLOSE_RCVD"} # {} -> w
        [] /\ w.c.type = "open"
           /\ w.c.flags \cap {"CLOSE_SENT", "CLOSE_RCVD"} = {}
           /\ "EOF_SENT" \notin a.c.flags
           /\ a.c.extended_usage = "read" ->
             channel_output_poll_extended_read(a)
        [] OTHER -> a

----------------------------------------------------------------------------
(* The PRE table: what to wait for.                                        *)

channel_pre_open(w) ==
  LET c == w.c
      d == IF /\ c.ostate = "drain" /\ c.output = 0
              /\ ~CHANNEL_EFD_OUTPUT_ACTIVE(c)
           THEN chan_obuf_empty(w) ELSE w
      efdOn == d.c.efd /\ ~HalvesClosed(d.c)
      writeEfd == c.extended_usage = "write" /\ c.extended > 0
  IN  [d EXCEPT !.c.io_want =
         (IF c.istate = "open" /\ c.input < c.remote_window
          THEN {"rfd"} ELSE {})
         \cup
         (IF c.ostate \in {"open", "drain"} /\ c.output > 0
          THEN {"wfd"} ELSE {})
         \cup
         (IF efdOn /\ writeEfd THEN {"efd_w"} ELSE {})
         \cup
         (IF /\ efdOn /\ ~writeEfd /\ "EOF_SENT" \notin c.flags
             /\ c.extended_usage \in {"read", "ignore"}
             /\ c.extended < c.remote_window
          THEN {"efd_r"} ELSE {})]

channel_pre(w) ==
  CASE w.c.type = "open"       -> channel_pre_open(w)
    [] w.c.type = "connecting" -> [w EXCEPT !.c.io_want = {"sock_w"}]
    [] OTHER -> w

----------------------------------------------------------------------------
(* The POST table: what poll reported.  io.r, io.w, io.x are the results   *)
(* of read(rfd), write(wfd) and the extended descriptor: a byte count, 0   *)
(* when not ready, -1 for end of file or an error.  io.s is the outcome of *)
(* a pending connect.                                                      *)

\* On a pty whose child is gone reads are forced: "would block" is an error.
ForceRead(c) == c.isatty /\ c.detach_close /\ c.istate # "closed"

channel_handle_rfd(w, r) ==
  CASE \/ ~ForceRead(w.c) /\ ("rfd" \notin w.c.io_want \/ r = 0)
       \/ w.c.input >= w.c.remote_window -> w
    [] /\ ForceRead(w.c) \/ ("rfd" \in w.c.io_want /\ r # 0)
       /\ w.c.input < w.c.remote_window
       /\ r <= 0 -> chan_read_failed(w)
    [] OTHER -> [w EXCEPT !.c.input = @ + r, !.c.taken = @ + r]

channel_handle_wfd(w, r) ==
  CASE "wfd" \notin w.c.io_want \/ r = 0 \/ w.c.output = 0 -> w
    [] "wfd" \in w.c.io_want /\ r < 0 /\ w.c.output > 0 -> chan_write_failed(w)
    [] OTHER -> [w EXCEPT !.c.output = @ - r, !.c.local_consumed = @ + r,
                          !.c.got = @ + r]

\* Mutant: stderr handed to the program does not count as consumed.
channel_handle_efd_write_Uncounted(w, r) ==
  CASE "efd_w" \notin w.c.io_want \/ r = 0 -> w
    [] "efd_w" \in w.c.io_want /\ r < 0 -> [w EXCEPT !.c.efd = FALSE]
    [] OTHER -> [w EXCEPT !.c.extended = @ - r]

channel_handle_efd_write(w, r) ==
  CASE "efd_w" \notin w.c.io_want \/ r = 0 -> w
    [] "efd_w" \in w.c.io_want /\ r < 0 -> [w EXCEPT !.c.efd = FALSE]
    [] OTHER -> [w EXCEPT !.c.extended = @ - r, !.c.local_consumed = @ + r]

channel_handle_efd_read(w, r) ==
  CASE ~ForceRead(w.c) /\ ("efd_r" \notin w.c.io_want \/ r = 0) -> w
    [] /\ ForceRead(w.c) \/ ("efd_r" \in w.c.io_want /\ r # 0)
       /\ r <= 0 -> [w EXCEPT !.c.efd = FALSE]
    [] OTHER -> [w EXCEPT !.c.extended =
                            IF w.c.extended_usage = "ignore" THEN @ ELSE @ + r,
                          !.c.etaken = @ + r]

channel_handle_efd(w, r) ==
  CASE ~w.c.efd -> w
    [] w.c.efd /\ w.c.extended_usage = "write" -> channel_handle_efd_write(w, r)
    [] OTHER -> channel_handle_efd_read(w, r)

\* Mutant: consumed bytes are given back again and again.
channel_check_window_Twice(w) ==
  IF /\ w.c.type = "open"
     /\ w.c.flags \cap {"CLOSE_SENT", "CLOSE_RCVD"} = {}
     /\ w.c.local_window < w.c.local_window_max \div 2
     /\ w.c.local_consumed > 0
  THEN [Send(w, "ADJUST", w.c.local_consumed)
          EXCEPT !.c.local_window = @ + w.c.local_consumed]
  ELSE w

\* Mutant: credit goes out even after CLOSE.
channel_check_window_AfterClose(w) ==
  IF /\ w.c.type = "open"
     /\ w.c.local_window < w.c.local_window_max \div 2
     /\ w.c.local_consumed > 0
  THEN [Send(w, "ADJUST", w.c.local_consumed)
          EXCEPT !.c.local_window = @ + w.c.local_consumed,
                 !.c.local_consumed = 0]
  ELSE w

\* Mutant: only the three-packet threshold, which a small window never meets.
channel_check_window_Threshold(w) ==
  IF /\ w.c.type = "open"
     /\ w.c.flags \cap {"CLOSE_SENT", "CLOSE_RCVD"} = {}
     /\ w.c.local_window_max - w.c.local_window > MaxPacket * 3
     /\ w.c.local_consumed > 0
  THEN [Send(w, "ADJUST", w.c.local_consumed)
          EXCEPT !.c.local_window = @ + w.c.local_consumed,
                 !.c.local_consumed = 0]
  ELSE w

channel_check_window(w) ==
  LET c == w.c
  IN  IF /\ c.type = "open"
         /\ c.flags \cap {"CLOSE_SENT", "CLOSE_RCVD"} = {}
         /\ \/ c.local_window_max - c.local_window > MaxPacket * 3
            \/ c.local_window < c.local_window_max \div 2
         /\ c.local_consumed > 0
      THEN [Send(w, "ADJUST", c.local_consumed)
              EXCEPT !.c.local_window = @ + c.local_consumed,
                     !.c.local_consumed = 0]
      ELSE w

channel_post_open(w, io) ==
  LET r == channel_handle_rfd(w, io.r)
      o == channel_handle_wfd(r, io.w)
      x == channel_handle_efd(o, io.x)
  IN  channel_check_window(x)

\* self: the slot of the channel, announced to the opener.
Confirm(w, self) == SendFrom(w, "CONFIRM", w.c.local_window, self)

\* Mutant: a channel whose connect failed is not marked dead.
channel_post_connecting_Alive(w, io, self) ==
  CASE io.s = "ok"   -> [Confirm(w, self) EXCEPT !.c.type = "open"]
    [] io.s = "fail" -> Send(w, "OPENFAIL", 0)
    [] OTHER -> w

channel_post_connecting(w, io, self) ==
  CASE io.s = "ok"   -> [Confirm(w, self) EXCEPT !.c.type = "open"]
    [] io.s = "fail" -> chan_mark_dead(Send(w, "OPENFAIL", 0))
    [] OTHER -> w

channel_post(w, io, self) ==
  CASE w.c.type = "open"       -> channel_post_open(w, io)
    [] w.c.type = "connecting" -> channel_post_connecting(w, io, self)
    [] OTHER -> w

\* What poll and the system calls after it can report, given io_want.
ReadResults(c) ==
  IF "rfd" \in c.io_want \/ ForceRead(c)
  THEN {-1, 0} \cup (IF c.istate = "open"
                     THEN 1 .. Lesser(c.remote_window - c.input,
                                      MaxData - c.taken)
                     ELSE {})
  ELSE {0}

WriteResults(c) == IF "wfd" \in c.io_want THEN -1 .. c.output ELSE {0}

ExtResults(c) ==
  IF "efd_w" \in c.io_want THEN -1 .. c.extended
  ELSE IF "efd_r" \in c.io_want THEN -1 .. MaxErr - c.etaken
  ELSE {0}

ConnectResults(c) ==
  IF "sock_w" \in c.io_want THEN {"wait", "ok", "fail"} ELSE {"wait"}

PollResults(c) == [r: ReadResults(c), w: WriteResults(c), x: ExtResults(c),
                   s: ConnectResults(c)]

----------------------------------------------------------------------------
(* Actions.                                                                *)

Init ==
  /\ chan = [e \in Endpoint |-> [i \in Ids |-> FreeChan]]
  /\ net = [e \in Endpoint |-> <<>>]
  /\ pc = [e \in Endpoint |-> "input"]
  /\ cur = [e \in Endpoint |-> 0]
  /\ err = [e \in Endpoint |-> "none"]
  /\ opens = 0
  /\ probes = 0

At(e, phase) == err[e] = "none" /\ pc[e] = phase

\* Store the channel of slot i and what was sent on its behalf.
Store(e, i, w) ==
  /\ chan' = [chan EXCEPT ![e][i] = w.c]
  /\ err' = [err EXCEPT ![e] = w.err]

SendAll(e, w) == net' = [net EXCEPT ![Peer(e)] = @ \o w.tx]

\* On to the next slot, and after the last one to the next phase.
Advance(e) ==
  /\ cur' = [cur EXCEPT ![e] = IF cur[e] + 1 \in Ids THEN cur[e] + 1 ELSE 0]
  /\ pc' = [pc EXCEPT ![e] =
              IF cur[e] + 1 \in Ids THEN @ ELSE NextPhase[@]]

\* A listener accepts a connection (channel_post_port_listener) or the client
\* opens its session (ssh_session2_open): a new channel and its OPEN.
OpenChannel(e, ctype) ==
  /\ At(e, "post")
  /\ <<e, ctype>> \in Openers
  /\ opens < MaxChannels
  /\ \E i \in Ids :
       LET new == channel_new("opening", ctype, Window, opens + 1)
           c == IF ctype = "session"
                THEN [new EXCEPT !.efd = TRUE, !.extended_usage = "write",
                                 !.detach_user = "client"]
                ELSE new
       IN  /\ FirstFree(e, i)
           /\ chan' = [chan EXCEPT ![e][i] = c]
           /\ net' = [net EXCEPT ![Peer(e)] =
                Append(@, [t |-> "OPEN", id |-> i, self |-> i, n |-> Window,
                           ctype |-> ctype, inst |-> opens + 1])]
  /\ opens' = opens + 1
  /\ UNCHANGED <<pc, cur, err, probes>>

\* The next packet for e, if it is in its input phase.
Incoming(e, types) ==
  At(e, "input") /\ net[e] # <<>> /\ Head(net[e]).t \in types

\* Consume it and send tx.
Answer(e, tx) ==
  net' = [net EXCEPT ![e] = Tail(@), ![Peer(e)] = @ \o tx]

\* {server,client}_input_channel_open: a session starts larval with no window
\* and is confirmed at once; a forwarding is refused or starts to connect.
InputOpen(e) ==
  /\ Incoming(e, {"OPEN"})
  /\ \E i \in Ids :
       LET m == Head(net[e])
           new == IF m.ctype = "session"
                  THEN [channel_new("larval", "session", 0, m.inst)
                          EXCEPT !.detach_user = "session"]
                  ELSE channel_new("connecting", "tcp", Window, m.inst)
           c == [new EXCEPT !.remote_id = m.id, !.remote_window = m.n]
       IN  /\ FirstFree(e, i)
           /\ chan' = [chan EXCEPT ![e][i] = c]
           /\ Answer(e, IF m.ctype = "session"
                        THEN Confirm(Begin(c), i).tx ELSE <<>>)
  /\ UNCHANGED <<pc, cur, err, opens, probes>>

RefuseOpen(e) ==
  /\ Incoming(e, {"OPEN"})
  /\ Head(net[e]).ctype = "tcp"
  /\ LET m == Head(net[e])
     IN  Answer(e, <<[m EXCEPT !.t = "OPENFAIL", !.self = NoId, !.n = 0]>>)
  /\ UNCHANGED <<chan, pc, cur, err, opens, probes>>

\* A packet for one of our channels.
InputPacket(e) ==
  /\ Incoming(e, MsgType \ {"OPEN"})
  /\ LET m == Head(net[e])
         c == chan[e][m.id]
     IN  \E tty \in BOOLEAN :
           LET w == CASE c.type \notin Public -> UnknownChannel(e, m)
                      [] c.type \in Public /\ m.t = "EXEC" ->
                           session_input_exec(Begin(c), tty)
                      [] OTHER -> InputHandler(Begin(c), m)
           IN  /\ m.t # "EXEC" => ~tty
               /\ IF c.type \in Public
                  THEN Store(e, m.id, w)
                  ELSE /\ err' = [err EXCEPT ![e] = w.err]
                       /\ chan' = chan
               /\ Answer(e, w.tx)
  /\ UNCHANGED <<pc, cur, opens, probes>>

\* No more complete packets: the rest is still on the wire.
EndInput(e) ==
  /\ At(e, "input")
  /\ pc' = [pc EXCEPT ![e] = "output"]
  /\ UNCHANGED <<chan, net, cur, err, opens, probes>>

OutputPoll(e) ==
  /\ At(e, "output")
  /\ LET w == channel_output_poll(Begin(chan[e][cur[e]]))
     IN  Store(e, cur[e], w) /\ SendAll(e, w)
  /\ Advance(e)
  /\ UNCHANGED <<opens, probes>>

\* Too much is waiting to be written to the socket: no output this time.
OutputHeld(e) ==
  /\ At(e, "output")
  /\ cur[e] = 0
  /\ net[Peer(e)] # <<>>
  /\ pc' = [pc EXCEPT ![e] = "pre"]
  /\ UNCHANGED <<chan, net, cur, err, opens, probes>>

\* collect_children, session_close_by_pid.
ChildExit(e, i) ==
  /\ At(e, "pre")
  /\ cur[e] = 0
  /\ chan[e][i].child
  /\ LET w == session_exit_message(Begin(chan[e][i]))
     IN  Store(e, i, w) /\ SendAll(e, w)
  /\ UNCHANGED <<pc, cur, opens, probes>>

\* channel_handler(CHAN_PRE) on one slot; expired: ChannelTimeout has passed.
Pre(e, expired) ==
  /\ At(e, "pre")
  /\ LET i == cur[e]
         b == Begin([chan[e][i] EXCEPT !.delayed = FALSE])
         w == IF expired THEN channel_force_close(b) ELSE channel_pre(b)
         g == channel_garbage_collect(w)
     IN  /\ expired => e \in Timeouts /\ b.c.type = "open"
         /\ Store(e, i, g)
         /\ SendAll(e, g)
  /\ Advance(e)
  /\ UNCHANGED <<opens, probes>>

\* client_alive_check after poll timed out: a probe on the first channel that
\* looks open, even one whose CLOSE has been sent.
ClientAliveCheck(i) ==
  /\ At("server", "post")
  /\ cur["server"] = 0
  /\ probes < MaxAlive
  /\ chan["server"][i].type \in {"larval", "open"}
  /\ \A j \in Ids : j < i => chan["server"][j].type \notin {"larval", "open"}
  /\ SendAll("server", Send(Begin(chan["server"][i]), "KEEPALIVE", 0))
  /\ probes' = probes + 1
  /\ UNCHANGED <<chan, pc, cur, err, opens>>

\* channel_handler(CHAN_POST) on one slot, with what poll reported.
PostWith(e, io) ==
  /\ At(e, "post")
  /\ LET i == cur[e]
         c == chan[e][i]
         w == channel_garbage_collect(channel_post(Begin(c), io, i))
         g == IF c.delayed THEN Begin(c)
              ELSE [w EXCEPT !.c.io_want = {}]
     IN  Store(e, i, g) /\ SendAll(e, g)
  /\ Advance(e)
  /\ UNCHANGED <<opens, probes>>

Post(e) == \E io \in PollResults(chan[e][cur[e]]) : PostWith(e, io)

Loop(e) ==
  \/ EndInput(e)
  \/ OutputPoll(e)
  \/ OutputHeld(e)
  \/ \E expired \in BOOLEAN : Pre(e, expired)
  \/ Post(e)

Dispatch(e) == InputOpen(e) \/ RefuseOpen(e) \/ InputPacket(e)

Next ==
  \/ \E e \in Endpoint : Loop(e) \/ Dispatch(e)
  \/ \E e \in Endpoint, k \in {"session", "tcp"} : OpenChannel(e, k)
  \/ \E i \in Ids : ChildExit("server", i) \/ ClientAliveCheck(i)

Spec == Init /\ [][Next]_vars

(***************************************************************************)
(* Fairness.  A process keeps going round its loop, and the packets that   *)
(* wait on a readable connection are read.  The programs behind a channel  *)
(* are assumed to take, or refuse, what poll offers them in the end, and a *)
(* connect to come to an end; nothing is assumed about what they write.    *)
(* All of it but the first conjunct is stated without ENABLED, as what     *)
(* happens again and again in a loop that never stops.                     *)
(***************************************************************************)
Owed(c) ==
  \/ c.type = "connecting"
  \/ c.type = "open" /\ c.ostate # "closed" /\ c.output > 0
  \/ /\ c.type = "open" /\ ~HalvesClosed(c)
     /\ c.extended_usage = "write" /\ c.efd /\ c.extended > 0

Fairness ==
  \A e \in Endpoint :
    /\ WF_vars(EndInput(e))
    /\ []<>(pc[e] = "input")
    /\ []<><<net[e] = <<>> \/ Len(net'[e]) < Len(net[e])>>_vars
    /\ \A i \in Ids : []<>(~Owed(chan[e][i]))

FairSpec == Spec /\ Fairness

\* Commands started in a session also come to an end.
SessionSpec == FairSpec /\ \A i \in Ids : []<>(~chan["server"][i].child)

----------------------------------------------------------------------------
(* Properties.                                                             *)

\* The variables keep their types: in particular no byte count and no window
\* of channels.c ever goes below zero, where the u_int would wrap around.
TypeOK ==
  /\ chan \in [Endpoint -> [Ids -> Channel]]
  /\ net \in [Endpoint -> Seq(Msg)]
  /\ pc \in [Endpoint -> Phase]
  /\ cur \in [Endpoint -> Ids]
  /\ err \in [Endpoint -> Errors]
  /\ opens \in 0 .. MaxChannels
  /\ probes \in 0 .. MaxAlive

\* Two ends that run this code never give each other cause for
\* ssh_packet_disconnect or fatal: no packet names a channel number that is
\* not in use, none overruns a window, no stderr follows an EOF, no answer to
\* an open finds the channel in another state.
NoDisconnect == \A e \in Endpoint : err[e] = "none"

\* The assertion before a reply, fatal_f("channel %d: no remote_id"), never
\* fires: a request is only ever answered on a channel whose peer is known.
NoFatal == \A e \in Endpoint : err[e] # "fatal"

ShutFirst(c) ==
  /\ "CLOSE_SENT" \in c.flags => c.istate = "closed" /\ c.ostate = "closed"
  /\ "EOF_SENT" \in c.flags => c.istate = "closed"

\* chan_send_close2: CLOSE is sent only when both halves are shut, and EOF
\* only when the input half is, whatever shut them: end of file, write error,
\* EOW, CLOSE of the peer, exit of the command or the inactivity timeout.
CloseOnlyWhenShut == \A e \in Endpoint, i \in Ids : ShutFirst(chan[e][i])

\* Packets of one channel on the wire: CLOSE is the last one but for the
\* keepalive probe of client_alive_check, and nothing that carries data
\* follows EOF, so that chan_rcvd_ieof never makes the receiver drop bytes.
CloseAndEofAreLast ==
  \A e \in Endpoint : \A k, l \in 1 .. Len(net[e]) :
    (k < l /\ net[e][k].inst = net[e][l].inst) =>
      /\ net[e][k].t = "CLOSE" => net[e][l].t = "KEEPALIVE"
      /\ net[e][k].t = "EOF" => net[e][l].t \notin {"DATA", "EXTDATA", "EOF"}

\* A channel number is re-used by channel_new only when nothing on the wire
\* still refers to its previous channel: every packet finds the channel it
\* was meant for, never a successor in the same slot.
ReachesItsChannel ==
  \A e \in Endpoint : \A k \in 1 .. Len(net[e]) :
    LET m == net[e][k]
    IN  m.t \notin {"OPEN", "KEEPALIVE", "REPLY"} =>
          chan[e][m.id].inst = m.inst

\* The bytes carried for channel n by the packets of types ts in queue q.
InFlight(q, n, ts) ==
  LET sum[k \in 0 .. Len(q)] ==
        IF k = 0 THEN 0
        ELSE sum[k - 1] + IF q[k].inst = n /\ q[k].t \in ts THEN q[k].n ELSE 0
  IN  sum[Len(q)]

\* Flow control: while the receiver r still writes what it gets, the window
\* the sender s believes in, what is in flight and what has been given back
\* make up the receiver's window, and that window, the buffered and the
\* consumed bytes make up local_window_max.  No credit is lost or invented.
CreditConserved ==
  \A e \in Endpoint, i, j \in Ids :
    LET s == chan[e][i]
        r == chan[Peer(e)][j]
    IN  ( /\ s.type = "open" /\ r.type = "open" /\ s.inst = r.inst
          /\ r.ostate = "open"
          /\ r.extended_usage = "write" => r.efd ) =>
        /\ s.remote_window + InFlight(net[Peer(e)], s.inst, {"DATA", "EXTDATA"})
             + InFlight(net[e], s.inst, {"ADJUST"}) = r.local_window
        /\ r.local_window + r.output + r.local_consumed
             + (IF r.extended_usage = "write" THEN r.extended ELSE 0)
             = r.local_window_max

\* No truncation: a program that sees the end of its input because the peer
\* sent EOF (not because its own end failed, and not after the peer's channel
\* was cut off by the inactivity timeout) has been given every byte that the
\* program at the other end wrote.
EofDeliversAll ==
  \A e \in Endpoint, i, j \in Ids :
    LET r == chan[e][i]
        s == chan[Peer(e)][j]
    IN  ( /\ r.type # "free" /\ r.inst = s.inst
          /\ "EOF_RCVD" \in r.flags /\ r.ostate = "closed" /\ ~r.wfail
          /\ s.type # "abandoned" ) =>
        r.got = s.taken

Attached(c) ==
  /\ c.detach_user = "session" /\ ~c.detach_close
  /\ "CLOSE_SENT" \notin c.flags

StaysAttached(c) ==
  /\ c.child => c.type = "open" /\ Attached(c)
  /\ c.type = "larval" => Attached(c)

\* As long as a command may still start or is running, its channel is open to
\* session_close_by_channel and closed to the collector: the callback is
\* registered, detach_close is off and no CLOSE has gone out, so the exit
\* status always finds the channel it belongs to.
SessionAttached == \A e \in Endpoint, i \in Ids : StaysAttached(chan[e][i])

\* What session_close_by_channel waits for: a command of the server is let go
\* of only in a step that puts its exit status on the wire, ahead of any CLOSE
\* of the channel, even if the client has closed first; or in one in which the
\* inactivity timeout forces the channel shut.
StatusSent ==
  [][\A i \in Ids :
       LET c == chan["server"][i]
           d == chan'["server"][i]
           q == net'["client"]
       IN  c.child /\ ~(d.inst = c.inst /\ d.child) =>
             \/ d.inst = c.inst /\ d.type = "abandoned"
             \/ \E k \in 1 .. Len(q) :
                  /\ q[k].inst = c.inst /\ q[k].t = "EXIT"
                  /\ \A l \in 1 .. k : q[l].inst = c.inst => q[l].t # "CLOSE"]_vars

\* Once either CLOSE has passed, both ends free the channel in the end:
\* channel_garbage_collect never leaves one end waiting for the other.
ClosedIsFreed ==
  \A e \in Endpoint, i \in Ids, n \in 1 .. MaxChannels :
    (/\ chan[e][i].inst = n
     /\ chan[e][i].flags \cap {"CLOSE_SENT", "CLOSE_RCVD"} # {})
      ~> chan[e][i].inst # n

\* Sender c of channel n is no longer waiting for credit: it has some, or the
\* channel is closing or gone.
NotStalled(c, n) ==
  \/ c.inst # n \/ c.remote_window > 0
  \/ c.flags \cap {"CLOSE_SENT", "CLOSE_RCVD"} # {}

\* No stall: a sender that has used up its window gets credit again, unless
\* the channel is closing or the receiver no longer writes what it gets.
\* channel_check_window may put an adjust off, but never for good.
WindowReopens ==
  \A e \in Endpoint, i \in Ids, n \in 1 .. MaxChannels :
    (/\ chan[e][i].inst = n /\ chan[e][i].type = "open"
     /\ chan[e][i].remote_window = 0)
      ~> \/ NotStalled(chan[e][i], n)
         \/ \E j \in Ids : /\ chan[Peer(e)][j].inst = n
                           /\ chan[Peer(e)][j].ostate # "open"

\* Data for a receiver whose output half is already shut is dropped, but the
\* window it used comes back: this is what the faked consumption of
\* channel_input_data is there for.
DroppedIsGivenBack ==
  \A e \in Endpoint, i \in Ids, n \in 1 .. MaxChannels :
    (/\ chan[e][i].inst = n /\ chan[e][i].type = "open"
     /\ \E j \in Ids : /\ chan[Peer(e)][j].inst = n /\ chan[Peer(e)][j].type = "open"
                       /\ chan[Peer(e)][j].ostate # "open"
     /\ \E k \in 1 .. Len(net[Peer(e)]) :
          net[Peer(e)][k].t = "DATA" /\ net[Peer(e)][k].inst = n)
      ~> NotStalled(chan[e][i], n)
=============================================================================
