------------------------------- MODULE Nchan -------------------------------
(***************************************************************************)
(* The per-channel state machine of nchan.c: how the input and the output  *)
(* half of one SSH-2 channel are shut down, and which packets that sends.  *)
(*                                                                         *)
(* The module is constant-level.  A function of nchan.c that updates a     *)
(* Channel and sends packets becomes an operator from a work record to a   *)
(* work record,                                                            *)
(*                                                                         *)
(*     w.c      the Channel being worked on                                *)
(*     w.tx     the packets sent so far, in order                          *)
(*     w.err    "none", or why the process gives up (fatal, disconnect)    *)
(*                                                                         *)
(* so that a caller in channels.c composes them the way the C code calls   *)
(* them.  Buffers are byte counts.  The branches for CHAN_LOCAL (mux       *)
(* control channels) and SSH_BUG_EXTEOF (a peer with another code base)    *)
(* are left out: both ends run this code, on channels that reach the wire. *)
(***************************************************************************)
EXTENDS Integers, Sequences

CONSTANT MaxChannels   \* bound: slots of a channel table

ASSUME MaxChannelsAssumption == MaxChannels \in Nat \ {0}

Ids == 0 .. MaxChannels - 1
NoId == -1                          \* have_remote_id == 0

ChanType  == {"free", "opening", "connecting", "larval", "open",
              "zombie", "abandoned"}
HalfState == {"open", "drain", "closed"}   \* CHAN_INPUT_* and CHAN_OUTPUT_*
ChanFlag  == {"CLOSE_SENT", "CLOSE_RCVD", "EOF_SENT", "EOF_RCVD"}
ChanIO    == {"rfd", "wfd", "efd_r", "efd_w", "sock_w"}

(***************************************************************************)
(* struct Channel.  The slot of a freed channel holds FreeChan.  child:    *)
(* the session attached to the channel has a running child (s->pid # 0).   *)
(* inst, taken, etaken, got and wfail are history: the serial number of    *)
(* the open that created the pair, the bytes read from the local program   *)
(* (rfd, efd) and written to it (wfd), and whether the output half ended   *)
(* in chan_write_failed.                                                   *)
(***************************************************************************)
Channel ==
  [type: ChanType, ctype: {"session", "tcp"},
   istate: HalfState, ostate: HalfState, flags: SUBSET ChanFlag,
   remote_id: Ids \cup {NoId},
   input: Nat, output: Nat, extended: Nat,
   efd: BOOLEAN, extended_usage: {"ignore", "read", "write"},
   local_window: Nat, local_window_max: Nat, local_consumed: Nat,
   local_window_exceeded: Nat, remote_window: Nat,
   io_want: SUBSET ChanIO, delayed: BOOLEAN, isatty: BOOLEAN,
   detach_user: {"none", "session", "client"}, detach_close: BOOLEAN,
   child: BOOLEAN,
   inst: Nat, taken: Nat, etaken: Nat, got: Nat, wfail: BOOLEAN]

\* A slot after channel_free: the Channel is zeroed and its pointer is NULL.
FreeChan ==
  [type |-> "free", ctype |-> "tcp",
   istate |-> "open", ostate |-> "open", flags |-> {},
   remote_id |-> NoId, input |-> 0, output |-> 0, extended |-> 0,
   efd |-> FALSE, extended_usage |-> "ignore",
   local_window |-> 0, local_window_max |-> 0, local_consumed |-> 0,
   local_window_exceeded |-> 0, remote_window |-> 0,
   io_want |-> {}, delayed |-> FALSE, isatty |-> FALSE,
   detach_user |-> "none", detach_close |-> FALSE, child |-> FALSE,
   inst |-> 0, taken |-> 0, etaken |-> 0, got |-> 0, wfail |-> FALSE]

MsgType == {"OPEN", "CONFIRM", "OPENFAIL", "DATA", "EXTDATA", "EOF", "CLOSE",
            "ADJUST", "EOW", "EXEC", "EXIT", "KEEPALIVE", "REPLY"}

\* A packet: t its type, id the recipient's channel number (the sender's in
\* an OPEN), self the sender's number where it is announced, n the length of
\* the payload or the window, inst the history number of the channel.
Msg == [t: MsgType, id: Ids, self: Ids \cup {NoId}, n: Nat,
        ctype: {"session", "tcp"}, inst: Nat]

Errors == {"none", "fatal", "nonexistent channel", "ignored window",
           "extended data after EOF", "not opening"}

Work == [c: Channel, tx: Seq(Msg), err: Errors]

Begin(c) == [c |-> c, tx |-> <<>>, err |-> "none"]

Fail(w, why) == [w EXCEPT !.err = why]

\* A packet addressed to the channel's peer; without its number, fatal_f.
SendFrom(w, t, n, self) ==
  IF w.c.remote_id = NoId
  THEN Fail(w, "fatal")
  ELSE [w EXCEPT !.tx = Append(@, [t |-> t, id |-> w.c.remote_id,
                                   self |-> self, n |-> n,
                                   ctype |-> w.c.ctype, inst |-> w.c.inst])]

Send(w, t, n) == SendFrom(w, t, n, NoId)

Set_istate(w, next) == [w EXCEPT !.c.istate = next]
Set_ostate(w, next) == [w EXCEPT !.c.ostate = next]
Set_flag(w, f) == [w EXCEPT !.c.flags = @ \cup {f}]

\* Is the extended descriptor still in use (macros of channels.h)?
CHANNEL_EFD_INPUT_ACTIVE(c) ==
  c.extended_usage = "read" /\ (c.efd \/ c.extended > 0)

CHANNEL_EFD_OUTPUT_ACTIVE(c) ==
  /\ c.extended_usage = "write"
  /\ c.efd
  /\ c.flags \cap {"EOF_RCVD", "CLOSE_RCVD"} = {} \/ c.extended > 0

----------------------------------------------------------------------------
(* Helpers that shut down one side of the local program's descriptors.     *)
(* chan_shutdown_read closes or shuts down a descriptor the model does not *)
(* keep: no state of the Channel changes.                                  *)

chan_shutdown_write(w) == [w EXCEPT !.c.output = 0]

chan_shutdown_read(w) == w

chan_shutdown_extended_read(w) ==
  IF w.c.type = "larval" \/ w.c.extended_usage = "write"
  THEN w
  ELSE [w EXCEPT !.c.efd = FALSE]

----------------------------------------------------------------------------
(* Packets of the tear-down.                                               *)

chan_send_eof2(w) ==
  IF w.c.istate = "drain" THEN Set_flag(Send(w, "EOF", 0), "EOF_SENT") ELSE w

chan_send_close2(w) ==
  IF \/ w.c.ostate # "closed" \/ w.c.istate # "closed"
     \/ "CLOSE_SENT" \in w.c.flags
  THEN w
  ELSE Set_flag(Send(w, "CLOSE", 0), "CLOSE_SENT")

chan_send_eow2(w) ==
  IF w.c.ostate = "closed" THEN w ELSE Send(w, "EOW", 0)

----------------------------------------------------------------------------
(* Events of the local program.                                            *)

\* Mutant: what was read but not yet sent is dropped with the descriptor.
chan_read_failed_Discard(w) ==
  IF w.c.istate = "open" THEN [w EXCEPT !.c.istate = "drain", !.c.input = 0]
  ELSE w

chan_read_failed(w) ==
  IF w.c.istate = "open" THEN Set_istate(chan_shutdown_read(w), "drain") ELSE w

\* Mutant: EOF goes out but the half is left draining.
chan_ibuf_empty_StaysOpen(w) ==
  IF w.c.input > 0 \/ w.c.istate # "drain" \/ "EOF_SENT" \in w.c.flags
  THEN w ELSE chan_send_eof2(w)

chan_ibuf_empty(w) ==
  IF w.c.input > 0 \/ w.c.istate # "drain"
  THEN w
  ELSE Set_istate(IF "CLOSE_SENT" \in w.c.flags THEN w ELSE chan_send_eof2(w),
                  "closed")

chan_obuf_empty(w) ==
  IF w.c.output > 0 \/ w.c.ostate # "drain"
  THEN w
  ELSE Set_ostate(chan_shutdown_write(w), "closed")

chan_write_failed(w) ==
  IF w.c.ostate = "closed"
  THEN w
  ELSE LET s == chan_shutdown_write(w)
           t == IF w.c.ctype = "session" THEN chan_send_eow2(s) ELSE s
       IN  [Set_ostate(t, "closed") EXCEPT !.c.wfail = TRUE]

----------------------------------------------------------------------------
(* Packets of the peer.                                                    *)

chan_rcvd_eow(w) ==
  IF w.c.istate = "open" THEN Set_istate(chan_shutdown_read(w), "closed") ELSE w

chan_rcvd_ieof(w) ==
  LET f == Set_flag(w, "EOF_RCVD")
      d == IF f.c.ostate = "open" THEN Set_ostate(f, "drain") ELSE f
  IN  IF /\ d.c.ostate = "drain"
         /\ d.c.output = 0
         /\ ~CHANNEL_EFD_OUTPUT_ACTIVE(d.c)
      THEN chan_obuf_empty(d)
      ELSE d

chan_rcvd_oclose(w) ==
  LET f == Set_flag(w, "CLOSE_RCVD")
      o == IF f.c.ostate = "open" THEN Set_ostate(f, "drain") ELSE f
  IN  CASE f.c.type = "larval" ->
             Set_istate(Set_ostate(f, "closed"), "closed")
        [] f.c.type # "larval" /\ o.c.istate = "open" ->
             Set_istate(chan_shutdown_extended_read(chan_shutdown_read(o)),
                        "closed")
        [] f.c.type # "larval" /\ o.c.istate = "drain" ->
             Set_istate(chan_shutdown_extended_read(chan_send_eof2(o)),
                        "closed")
        [] OTHER -> o

----------------------------------------------------------------------------
(* The end of a channel.  chan_is_dead both answers and, with do_send,     *)
(* sends the CLOSE that is due: SendClose is its effect and chan_is_dead   *)
(* its answer in the state after that effect.                              *)

chan_mark_dead(w) == [w EXCEPT !.c.type = "zombie"]

HalvesClosed(c) == c.istate = "closed" /\ c.ostate = "closed"

\* Mutant: a CLOSE is not answered with a CLOSE.
SendClose_NoAnswer(w, do_send) ==
  IF /\ HalvesClosed(w.c) /\ do_send
     /\ w.c.flags \cap {"CLOSE_SENT", "CLOSE_RCVD"} = {}
  THEN chan_send_close2(w) ELSE w

SendClose(w, do_send) ==
  IF /\ w.c.type # "zombie"
     /\ HalvesClosed(w.c)
     /\ "CLOSE_SENT" \notin w.c.flags
     /\ do_send
  THEN chan_send_close2(w)
  ELSE w

\* Mutant: the channel is dead once our own CLOSE is out.
chan_is_dead_Early(c, do_send) ==
  \/ c.type = "zombie"
  \/ HalvesClosed(c) /\ "CLOSE_SENT" \in c.flags

chan_is_dead(c, do_send) ==
  \/ c.type = "zombie"
  \/ /\ HalvesClosed(c)
     /\ "CLOSE_RCVD" \in c.flags
     /\ ~do_send \/ "CLOSE_SENT" \in c.flags
=============================================================================
