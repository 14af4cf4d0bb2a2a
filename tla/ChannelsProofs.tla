--------------------------- MODULE ChannelsProofs ---------------------------
(***************************************************************************)
(* Proofs about Channels for every number of channels, window, packet size *)
(* and set of openers, in two parts.                                       *)
(*                                                                         *)
(* The first speaks about one Channel at a time: the types, the order of   *)
(* shutting down and closing, and the life of a session (IndInv).  Good is *)
(* the set of work records whose channel satisfies it; each function of    *)
(* nchan.c and channels.c maps Good to Good, which gives one lemma per     *)
(* function in the order in which they call each other, and then one step  *)
(* per action.                                                             *)
(*                                                                         *)
(* The second relates the two ends and the packets between them (LinkInv). *)
(* Sound(c0) is the set of work records a handler that began with channel  *)
(* c0 may have reached: what it may have sent, in which order, and that    *)
(* its windows and bytes add up.  One lemma per function puts it there.    *)
(* World relates two tables and two queues; one lemma per kind of step     *)
(* (a handler's update, a slot freed, a packet consumed, a channel made)   *)
(* shows that it is kept, and one lemma per action puts the two together.  *)
(* World is stated for the end e that moves and its peer, so that every    *)
(* step is proved once for both sides.                                     *)
(***************************************************************************)
EXTENDS Channels, WellFoundedInduction, TLAPS

\* Work records whose channel keeps the first invariant.
Good == {w \in Work : ShutFirst(w.c) /\ StaysAttached(w.c)}

\* What membership in Good gives: a channel, a packet sequence and an error.
LEMMA GoodParts ==
  ASSUME NEW w \in Good
  PROVE  /\ w \in Work /\ w.c \in Channel /\ w.tx \in Seq(Msg)
         /\ w.err \in Errors
         /\ ShutFirst(w.c) /\ StaysAttached(w.c)
  BY DEF Good, Work

\* Replacing the channel of a work record by a good one makes it good.
LEMMA GoodWith ==
  ASSUME NEW w \in Work, NEW c \in Channel, ShutFirst(c), StaysAttached(c)
  PROVE  [w EXCEPT !.c = c] \in Good
  BY DEF Good, Work

\* fatal and ssh_packet_disconnect only record why the process gives up.
LEMMA FailGood ==
  ASSUME NEW w \in Good, NEW why \in Errors
  PROVE  Fail(w, why) \in Good /\ Fail(w, why).c = w.c
  BY DEF Good, Work, Fail

\* Sending a packet (channel_send_open, sshpkt_send) keeps the types and leaves the channel alone.
LEMMA SendFromWork ==
  ASSUME NEW w \in Work, NEW t \in MsgType, NEW n \in Nat,
         NEW self \in Ids \cup {NoId}
  PROVE  /\ SendFrom(w, t, n, self) \in Work
         /\ SendFrom(w, t, n, self).c = w.c
  <1> DEFINE m == [t |-> t, id |-> w.c.remote_id, self |-> self, n |-> n,
                   ctype |-> w.c.ctype, inst |-> w.c.inst]
  <1>1. w.c \in Channel /\ w.tx \in Seq(Msg) /\ w.err \in Errors
    BY DEF Work
  <1>2. CASE w.c.remote_id = NoId
    BY <1>1, <1>2 DEF SendFrom, Fail, Work, Errors
  <1>3. CASE w.c.remote_id # NoId
    <2>1. m \in Msg
      BY <1>1, <1>3 DEF Channel, Msg
    <2>2. Append(w.tx, m) \in Seq(Msg)
      BY <1>1, <2>1
    <2> QED
      BY <1>1, <1>3, <2>2 DEF SendFrom, Work
  <1> QED BY <1>2, <1>3

\* The same for a packet that does not announce our own number.
LEMMA SendWork ==
  ASSUME NEW w \in Work, NEW t \in MsgType, NEW n \in Nat
  PROVE  Send(w, t, n) \in Work /\ Send(w, t, n).c = w.c
  BY SendFromWork DEF Send

\* Sending a packet keeps a channel good.
LEMMA SendFromGood ==
  ASSUME NEW w \in Good, NEW t \in MsgType, NEW n \in Nat,
         NEW self \in Ids \cup {NoId}
  PROVE  SendFrom(w, t, n, self) \in Good /\ SendFrom(w, t, n, self).c = w.c
  BY SendFromWork DEF Good

\* The same for a packet that does not announce our own number.
LEMMA SendGood ==
  ASSUME NEW w \in Good, NEW t \in MsgType, NEW n \in Nat
  PROVE  Send(w, t, n) \in Good /\ Send(w, t, n).c = w.c
  BY SendFromGood DEF Send

\* A slot emptied by channel_free is good.
LEMMA FreeChanGood ==
  FreeChan \in Channel /\ ShutFirst(FreeChan) /\ StaysAttached(FreeChan)
  BY DEF FreeChan, Channel, ChanType, HalfState, NoId, ShutFirst,
         StaysAttached

\* A handler starts from a good channel with nothing sent.
LEMMA BeginGood ==
  ASSUME NEW c \in Channel, ShutFirst(c), StaysAttached(c)
  PROVE  Begin(c) \in Good
  BY DEF Begin, Good, Work, Errors
----------------------------------------------------------------------------
(* nchan.c.                                                                *)

\* The setters: which updates keep a channel good.
LEMMA SetOstateGood ==
  ASSUME NEW w \in Good, NEW h \in HalfState,
         "CLOSE_SENT" \in w.c.flags => h = "closed"
  PROVE  Set_ostate(w, h) \in Good
  BY ZenonT(60) DEF Good, Work, Channel, Set_ostate, ShutFirst, StaysAttached, Attached

\* chan_set_istate keeps a channel good if it closes the half once EOF or CLOSE is out.
LEMMA SetIstateGood ==
  ASSUME NEW w \in Good, NEW h \in HalfState,
         w.c.flags \cap {"CLOSE_SENT", "EOF_SENT"} # {} => h = "closed"
  PROVE  Set_istate(w, h) \in Good
  BY ZenonT(60) DEF Good, Work, Channel, Set_istate, ShutFirst, StaysAttached, Attached

\* Setting a flag keeps the types and changes nothing but the flags.
LEMMA SetAnyFlag ==
  ASSUME NEW w \in Work, NEW f \in ChanFlag
  PROVE  /\ Set_flag(w, f) \in Work
         /\ Set_flag(w, f).c.flags = w.c.flags \cup {f}
         /\ Set_flag(w, f).c.type = w.c.type
         /\ Set_flag(w, f).c.istate = w.c.istate
         /\ Set_flag(w, f).c.ostate = w.c.ostate
         /\ Set_flag(w, f).c.detach_user = w.c.detach_user
         /\ Set_flag(w, f).c.detach_close = w.c.detach_close
         /\ Set_flag(w, f).c.child = w.c.child
  <1>1. w.c \in Channel /\ w.c.flags \cup {f} \in SUBSET ChanFlag
    BY DEF Work, Channel
  <1> QED BY <1>1, Zenon DEF Set_flag, Work, Channel

\* Noting a packet of the peer, EOF_RCVD or CLOSE_RCVD, keeps a channel good.
LEMMA SetFlagGood ==
  ASSUME NEW w \in Good, NEW f \in {"CLOSE_RCVD", "EOF_RCVD"}
  PROVE  /\ Set_flag(w, f) \in Good
         /\ Set_flag(w, f).c = [w.c EXCEPT !.flags = @ \cup {f}]
  BY ZenonT(60) DEF Good, Work, Channel, ChanFlag, Set_flag, ShutFirst, StaysAttached,
         Attached

\* The fields the invariant looks at.
Control(c) == <<c.type, c.istate, c.ostate, c.flags, c.detach_user,
                c.detach_close, c.child>>

\* An update of the other fields keeps a channel good.
LEMMA SameControl ==
  ASSUME NEW w \in Good, NEW v \in Work, Control(v.c) = Control(w.c)
  PROVE  v \in Good
  BY DEF Good, ShutFirst, StaysAttached, Attached, Control

\* Updates of one buffer, window or descriptor field keep a channel good.
LEMMA BufferGood ==
  ASSUME NEW w \in Good, NEW n \in Nat
  PROVE  /\ [w EXCEPT !.c.output = n] \in Good
         /\ [w EXCEPT !.c.input = n] \in Good
         /\ [w EXCEPT !.c.extended = n] \in Good
         /\ [w EXCEPT !.c.remote_window = n] \in Good
         /\ [w EXCEPT !.c.efd = FALSE] \in Good
         /\ [w EXCEPT !.c.wfail = TRUE] \in Good
  <1>1. w \in Work /\ w.c \in Channel
    BY DEF Good, Work
  <1> DEFINE o == [w EXCEPT !.c.output = n]
             i == [w EXCEPT !.c.input = n]
             x == [w EXCEPT !.c.extended = n]
             r == [w EXCEPT !.c.remote_window = n]
             f == [w EXCEPT !.c.efd = FALSE]
             g == [w EXCEPT !.c.wfail = TRUE]
  <1>2. o \in Work /\ Control(o.c) = Control(w.c)
    BY <1>1, Zenon DEF Work, Channel, Control
  <1>3. i \in Work /\ Control(i.c) = Control(w.c)
    BY <1>1, Zenon DEF Work, Channel, Control
  <1>4. x \in Work /\ Control(x.c) = Control(w.c)
    BY <1>1, Zenon DEF Work, Channel, Control
  <1>5. r \in Work /\ Control(r.c) = Control(w.c)
    BY <1>1, Zenon DEF Work, Channel, Control
  <1>6. f \in Work /\ Control(f.c) = Control(w.c)
    BY <1>1, Zenon DEF Work, Channel, Control
  <1>7. g \in Work /\ Control(g.c) = Control(w.c)
    BY <1>1, Zenon DEF Work, Channel, Control
  <1> HIDE DEF o, i, x, r, f, g
  <1>8. o \in Good /\ i \in Good /\ x \in Good
    BY <1>2, <1>3, <1>4, SameControl
  <1>9. r \in Good /\ f \in Good /\ g \in Good
    BY <1>5, <1>6, <1>7, SameControl
  <1> QED BY <1>8, <1>9 DEF o, i, x, r, f, g

\* A channel whose input half is about to be closed.
Closing == {w \in Work : /\ "CLOSE_SENT" \in w.c.flags => w.c.ostate = "closed"
                         /\ StaysAttached(w.c)}

\* Closing is weaker than Good: EOF may be out before istate is closed.
LEMMA GoodIsClosing == Good \subseteq Closing
  BY DEF Good, Closing, ShutFirst

\* Closing the input half after EOF, as chan_ibuf_empty does, makes the channel good again.
LEMMA CloseInput ==
  ASSUME NEW w \in Closing
  PROVE  Set_istate(w, "closed") \in Good
  BY ZenonT(60) DEF Closing, Good, Work, Channel, HalfState, Set_istate, ShutFirst,
         StaysAttached, Attached

\* chan_send_eof2 leaves a channel of which only istate is still to be closed.
LEMMA SendEofClosing ==
  ASSUME NEW w \in Closing
  PROVE  chan_send_eof2(w) \in Closing
  <1> DEFINE s == Send(w, "EOF", 0)
  <1>1. s \in Work /\ s.c = w.c
    BY SendWork DEF Closing, MsgType
  <1>2. s \in Closing
    BY <1>1 DEF Closing
  <1> HIDE DEF s
  <1>3. Set_flag(s, "EOF_SENT") \in Closing
    BY <1>2, SetAnyFlag DEF Closing, ChanFlag, StaysAttached, Attached
  <1> QED BY <1>3 DEF chan_send_eof2, s

\* chan_shutdown_extended_read touches efd only.
LEMMA ShutdownExtendedClosing ==
  ASSUME NEW w \in Closing
  PROVE  chan_shutdown_extended_read(w) \in Closing
  <1> DEFINE f == [w EXCEPT !.c.efd = FALSE]
  <1>1. f \in Work /\ Control(f.c) = Control(w.c)
    BY Zenon DEF Closing, Work, Channel, Control
  <1>2. f \in Closing
    BY <1>1 DEF Closing, Control, StaysAttached, Attached
  <1> QED BY <1>2 DEF chan_shutdown_extended_read

\* chan_shutdown_write keeps a channel good.
LEMMA ShutdownWriteGood ==
  ASSUME NEW w \in Good
  PROVE  chan_shutdown_write(w) \in Good
  BY BufferGood DEF chan_shutdown_write

\* chan_read_failed keeps a channel good.
LEMMA ReadFailedGood ==
  ASSUME NEW w \in Good
  PROVE  /\ chan_read_failed(w) \in Good
         /\ chan_read_failed(w).c.output = w.c.output
         /\ chan_read_failed(w).c.extended = w.c.extended
         /\ chan_read_failed(w).c.io_want = w.c.io_want
  <1>1. w.c.istate = "open" => Set_istate(w, "drain") \in Good
    BY SetIstateGood DEF Good, ShutFirst, HalfState
  <1>2. chan_read_failed(w) \in Good
    BY <1>1 DEF chan_read_failed, chan_shutdown_read
  <1>3. /\ Set_istate(w, "drain").c.output = w.c.output
        /\ Set_istate(w, "drain").c.extended = w.c.extended
        /\ Set_istate(w, "drain").c.io_want = w.c.io_want
    BY Zenon DEF Good, Work, Channel, Set_istate
  <1> QED BY <1>2, <1>3 DEF chan_read_failed, chan_shutdown_read

\* chan_ibuf_empty sends EOF and closes the input half in one step.
LEMMA IbufEmptyGood ==
  ASSUME NEW w \in Good
  PROVE  chan_ibuf_empty(w) \in Good
  <1>1. w \in Closing /\ chan_send_eof2(w) \in Closing
    BY GoodIsClosing, SendEofClosing
  <1> QED BY <1>1, CloseInput DEF chan_ibuf_empty

\* chan_obuf_empty keeps a channel good.
LEMMA ObufEmptyGood ==
  ASSUME NEW w \in Good
  PROVE  chan_obuf_empty(w) \in Good
  BY ShutdownWriteGood, SetOstateGood DEF chan_obuf_empty, HalfState

\* chan_write_failed keeps a channel good.
LEMMA WriteFailedGood ==
  ASSUME NEW w \in Good
  PROVE  /\ chan_write_failed(w) \in Good
         /\ chan_write_failed(w).c.extended = w.c.extended
         /\ chan_write_failed(w).c.io_want = w.c.io_want
  <1> DEFINE s == chan_shutdown_write(w)
             t == IF w.c.ctype = "session" THEN chan_send_eow2(s) ELSE s
             o == Set_ostate(t, "closed")
             f == [o EXCEPT !.c.wfail = TRUE]
  <1>1. s \in Good /\ s.c.extended = w.c.extended /\ s.c.io_want = w.c.io_want
    BY ShutdownWriteGood, Zenon DEF chan_shutdown_write, Good, Work, Channel
  <1> HIDE DEF s
  <1>2. t \in Good /\ t.c = s.c
    BY <1>1, SendGood DEF chan_send_eow2, MsgType
  <1> HIDE DEF t
  <1>3. o \in Good
    BY <1>2, SetOstateGood DEF HalfState
  <1>4. o.c.extended = t.c.extended /\ o.c.io_want = t.c.io_want
    BY <1>2, Zenon DEF Set_ostate, Good, Work, Channel
  <1> HIDE DEF o
  <1>5. f \in Good
    BY <1>3, BufferGood, 0 \in Nat
  <1>6. f.c.extended = o.c.extended /\ f.c.io_want = o.c.io_want
    BY <1>3, Zenon DEF Good, Work, Channel
  <1>7. chan_write_failed(w) = IF w.c.ostate = "closed" THEN w ELSE f
    BY DEF chan_write_failed, f, o, t, s
  <1> HIDE DEF f
  <1> QED BY <1>1, <1>2, <1>4, <1>5, <1>6, <1>7

\* chan_rcvd_eow keeps a channel good.
LEMMA RcvdEowGood ==
  ASSUME NEW w \in Good
  PROVE  chan_rcvd_eow(w) \in Good
  BY SetIstateGood DEF chan_rcvd_eow, chan_shutdown_read, HalfState

\* chan_rcvd_ieof keeps a channel good.
LEMMA RcvdIeofGood ==
  ASSUME NEW w \in Good
  PROVE  chan_rcvd_ieof(w) \in Good
  <1> DEFINE f == Set_flag(w, "EOF_RCVD")
             d == IF f.c.ostate = "open" THEN Set_ostate(f, "drain") ELSE f
  <1>1. f \in Good
    BY SetFlagGood
  <1> HIDE DEF f
  <1>2. d \in Good
    BY <1>1, SetOstateGood DEF Good, ShutFirst, HalfState
  <1> HIDE DEF d
  <1> QED BY <1>2, ObufEmptyGood DEF chan_rcvd_ieof, d, f

\* chan_rcvd_oclose keeps a channel good, whichever states it finds.
LEMMA RcvdOcloseGood ==
  ASSUME NEW w \in Good
  PROVE  chan_rcvd_oclose(w) \in Good
  <1> DEFINE f == Set_flag(w, "CLOSE_RCVD")
             o == IF f.c.ostate = "open" THEN Set_ostate(f, "drain") ELSE f
  <1>1. f \in Good
    BY SetFlagGood
  <1> HIDE DEF f
  <1>2. o \in Good
    BY <1>1, SetOstateGood DEF Good, ShutFirst, HalfState
  <1>3. Set_istate(Set_ostate(f, "closed"), "closed") \in Good
    BY <1>1, SetOstateGood, SetIstateGood DEF HalfState
  <1> HIDE DEF o
  <1>4. o \in Closing
    BY <1>2, GoodIsClosing
  <1>5. Set_istate(chan_shutdown_extended_read(o), "closed") \in Good
    BY <1>4, ShutdownExtendedClosing, CloseInput
  <1>6. Set_istate(chan_shutdown_extended_read(chan_send_eof2(o)), "closed")
          \in Good
    BY <1>4, SendEofClosing, ShutdownExtendedClosing, CloseInput
  <1> QED
    BY <1>2, <1>3, <1>5, <1>6 DEF chan_rcvd_oclose, chan_shutdown_read, o, f

\* chan_mark_dead keeps a channel good that is not open.
LEMMA MarkDeadGood ==
  ASSUME NEW w \in Good, w.c.type # "open"
  PROVE  chan_mark_dead(w) \in Good
  <1> DEFINE d == chan_mark_dead(w)
  <1>1. /\ d \in Work /\ d.c.type = "zombie" /\ d.c.flags = w.c.flags
        /\ d.c.istate = w.c.istate /\ d.c.ostate = w.c.ostate
        /\ d.c.child = w.c.child
    BY Zenon DEF chan_mark_dead, Good, Work, Channel, ChanType
  <1> HIDE DEF d
  <1>2. d \in Good
    BY <1>1 DEF Good, ShutFirst, StaysAttached
  <1> QED BY <1>2 DEF d

\* What chan_is_dead does to the channel: nothing, or CLOSE.
LEMMA SendCloseFacts ==
  ASSUME NEW w \in Work, NEW do_send \in BOOLEAN, NEW d,
         d = SendClose(w, do_send)
  PROVE  /\ d \in Work
         /\ d.c.type = w.c.type /\ d.c.child = w.c.child
         /\ d.c.istate = w.c.istate /\ d.c.ostate = w.c.ostate
         /\ d.c.detach_user = w.c.detach_user
         /\ d.c.detach_close = w.c.detach_close
         /\ \/ d = w
            \/ /\ d.c.flags = w.c.flags \cup {"CLOSE_SENT"}
               /\ HalvesClosed(w.c) /\ do_send
         /\ w.c.type # "zombie" /\ HalvesClosed(w.c) /\ do_send
              => "CLOSE_SENT" \in d.c.flags
  <1> DEFINE s == Send(w, "CLOSE", 0)
             f == Set_flag(s, "CLOSE_SENT")
  <1>1. s \in Work /\ s.c = w.c
    BY SendWork DEF MsgType
  <1> HIDE DEF s
  <1>2. /\ f \in Work
        /\ f.c.type = w.c.type /\ f.c.child = w.c.child
        /\ f.c.istate = w.c.istate /\ f.c.ostate = w.c.ostate
        /\ f.c.detach_user = w.c.detach_user
        /\ f.c.detach_close = w.c.detach_close
        /\ f.c.flags = w.c.flags \cup {"CLOSE_SENT"}
    BY <1>1, SetAnyFlag DEF ChanFlag
  <1>3. d = w \/ (d = f /\ HalvesClosed(w.c) /\ do_send)
    BY DEF SendClose, chan_send_close2, f, s
  <1>4. ( /\ w.c.type # "zombie" /\ HalvesClosed(w.c) /\ do_send
          /\ "CLOSE_SENT" \notin w.c.flags ) => d = f
    BY DEF SendClose, chan_send_close2, f, s, HalvesClosed
  <1> HIDE DEF f
  <1> QED BY <1>2, <1>3, <1>4
----------------------------------------------------------------------------
(* The session callbacks and the collector.                                *)

\* What a detach callback does: nothing, or it takes itself off the channel,
\* and then no command is running any more.
LEMMA DetachFacts ==
  ASSUME NEW w \in Good, NEW force \in BOOLEAN, NEW u,
         u = DetachUser(w, force)
  PROVE  /\ u \in Work
         /\ u.c.type = w.c.type /\ u.c.flags = w.c.flags
         /\ u.c.istate = w.c.istate /\ u.c.ostate = w.c.ostate
         /\ u.c.detach_user # "none" => u = w
         /\ force \/ u.c.detach_user = "none" => ~u.c.child
  <1> DEFINE k == channel_cancel_cleanup(w)
             n == [k EXCEPT !.c.child = FALSE]
  <1>1. w \in Work /\ w.c \in Channel /\ StaysAttached(w.c)
    BY DEF Good, Work
  <1>2. /\ k \in Work
        /\ k.c.type = w.c.type /\ k.c.flags = w.c.flags
        /\ k.c.istate = w.c.istate /\ k.c.ostate = w.c.ostate
        /\ k.c.detach_user = "none" /\ k.c.child = w.c.child
    BY <1>1, Zenon DEF channel_cancel_cleanup, Work, Channel
  <1> HIDE DEF k
  <1>3. /\ n \in Work
        /\ n.c.type = w.c.type /\ n.c.flags = w.c.flags
        /\ n.c.istate = w.c.istate /\ n.c.ostate = w.c.ostate
        /\ n.c.detach_user = "none" /\ n.c.child = FALSE
    BY <1>2, Zenon DEF Work, Channel
  <1> HIDE DEF n
  <1>4. w.c.detach_user \in {"none", "session", "client"}
    BY <1>1 DEF Channel
  <1>5. w.c.child => w.c.detach_user = "session"
    BY <1>1 DEF StaysAttached, Attached
  <1>6. CASE w.c.detach_user = "session"
    <2>1. u = IF w.c.child /\ ~force THEN w ELSE n
      BY <1>6 DEF DetachUser, session_close_by_channel, n, k
    <2> QED BY <1>1, <1>3, <1>6, <2>1
  <1>7. CASE w.c.detach_user = "client"
    <2>1. u = k
      BY <1>7 DEF DetachUser, k
    <2> QED BY <1>2, <1>5, <1>7, <2>1
  <1>8. CASE w.c.detach_user = "none"
    <2>1. u = w
      BY <1>8 DEF DetachUser
    <2> QED BY <1>1, <1>5, <1>8, <2>1
  <1> QED BY <1>4, <1>6, <1>7, <1>8

\* channel_free leaves an empty slot.
LEMMA ChannelFreeGood ==
  ASSUME NEW w \in Work
  PROVE  channel_free(w) \in Good
  BY FreeChanGood, GoodWith DEF channel_free

\* The last part of channel_garbage_collect keeps a channel good.
LEMMA CollectDetachedGood ==
  ASSUME NEW w \in Work, ShutFirst(w.c), ~w.c.child,
         w.c.type = "larval" => HalvesClosed(w.c) /\ "CLOSE_RCVD" \in w.c.flags
  PROVE  CollectDetached(w) \in Good
  <1> DEFINE d == SendClose(w, TRUE)
  <1>1. /\ d \in Work /\ d.c.type = w.c.type /\ ~d.c.child
        /\ d.c.istate = w.c.istate /\ d.c.ostate = w.c.ostate
        /\ d = w \/ (/\ d.c.flags = w.c.flags \cup {"CLOSE_SENT"}
                     /\ HalvesClosed(w.c))
        /\ w.c.type # "zombie" /\ HalvesClosed(w.c)
             => "CLOSE_SENT" \in d.c.flags
    BY SendCloseFacts
  <1> HIDE DEF d
  <1>2. CASE chan_is_dead(d.c, TRUE)
    BY <1>1, <1>2, ChannelFreeGood DEF CollectDetached, d
  <1>3. CASE ~chan_is_dead(d.c, TRUE)
    <2>1. ShutFirst(d.c)
      BY <1>1 DEF ShutFirst, HalvesClosed
    <2>2. d.c.type # "larval"
      BY <1>1, <1>3 DEF chan_is_dead, HalvesClosed
    <2>3. d \in Good
      BY <1>1, <2>1, <2>2 DEF Good, StaysAttached
    <2> QED BY <1>3, <2>3 DEF CollectDetached, d
  <1> QED BY <1>2, <1>3

\* channel_garbage_collect never sends CLOSE past a running command.
LEMMA GarbageCollectGood ==
  ASSUME NEW w \in Good
  PROVE  channel_garbage_collect(w) \in Good
  <1> DEFINE d == SendClose(w, w.c.detach_close)
             u == DetachUser(d, FALSE)
             dead == chan_is_dead(d.c, w.c.detach_close)
  <1>1. /\ w \in Work /\ w.c \in Channel
        /\ ShutFirst(w.c) /\ StaysAttached(w.c) /\ w.c.detach_close \in BOOLEAN
    BY DEF Good, Work, Channel
  <1>2. CASE w.c.detach_user = "none"
    <2>1. ~w.c.child /\ w.c.type # "larval"
      BY <1>1, <1>2 DEF StaysAttached, Attached
    <2>2. CollectDetached(w) \in Good
      BY <1>1, <2>1, CollectDetachedGood
    <2> QED BY <1>2, <2>2 DEF channel_garbage_collect
  <1>3. CASE w.c.detach_user # "none"
    <2>1. /\ d \in Work
          /\ d.c.type = w.c.type /\ d.c.child = w.c.child
          /\ d.c.istate = w.c.istate /\ d.c.ostate = w.c.ostate
          /\ \/ d = w
             \/ /\ d.c.flags = w.c.flags \cup {"CLOSE_SENT"}
                /\ HalvesClosed(w.c) /\ w.c.detach_close
      BY <1>1, SendCloseFacts
    <2> HIDE DEF d
    <2>2. d \in Good
      BY <1>1, <2>1 DEF Good, ShutFirst, StaysAttached, Attached, HalvesClosed
    <2>3. /\ u \in Work
          /\ u.c.type = d.c.type /\ u.c.flags = d.c.flags
          /\ u.c.istate = d.c.istate /\ u.c.ostate = d.c.ostate
          /\ u.c.detach_user # "none" => u = d
          /\ u.c.detach_user = "none" => ~u.c.child
      BY <2>2, DetachFacts
    <2> HIDE DEF u
    <2>4. ASSUME dead, u.c.detach_user = "none"
          PROVE  CollectDetached(u) \in Good
      <3>1. ShutFirst(u.c)
        BY <2>2, <2>3 DEF Good, ShutFirst
      <3>2. u.c.type = "larval" =>
              HalvesClosed(u.c) /\ "CLOSE_RCVD" \in u.c.flags
        BY <2>3, <2>4 DEF chan_is_dead, HalvesClosed
      <3> QED BY <2>3, <2>4, <3>1, <3>2, CollectDetachedGood
    <2>5. channel_garbage_collect(w) =
            CASE ~dead -> d
              [] dead /\ u.c.detach_user # "none" -> u
              [] OTHER -> CollectDetached(u)
      BY <1>3 DEF channel_garbage_collect, d, u
    <2> HIDE DEF dead
    <2> QED BY <2>2, <2>3, <2>4, <2>5
  <1> QED BY <1>2, <1>3

\* session_exit_message: the command has ended, so CLOSE may follow.
LEMMA SessionExitGood ==
  ASSUME NEW w \in Good, w.c.child
  PROVE  session_exit_message(w) \in Good
  <1> DEFINE s == Send(w, "EXIT", 0)
             r == [s EXCEPT !.c.detach_user = "session",
                            !.c.detach_close = TRUE, !.c.child = FALSE]
  <1>1. s \in Good /\ s.c = w.c
    BY SendGood DEF MsgType
  <1> HIDE DEF s
  <1>2. /\ r \in Work
        /\ r.c.type = s.c.type /\ r.c.flags = s.c.flags /\ r.c.child = FALSE
        /\ r.c.istate = s.c.istate /\ r.c.ostate = s.c.ostate
    BY <1>1, ZenonT(60) DEF Good, Work, Channel
  <1>3. s.c.type = "open"
    BY <1>1 DEF Good, StaysAttached
  <1> HIDE DEF r
  <1>4. r \in Good
    BY <1>1, <1>2, <1>3 DEF Good, ShutFirst, StaysAttached
  <1> QED BY <1>4, WriteFailedGood DEF session_exit_message, r, s

\* channel_force_close shuts both halves and detaches the session by force.
LEMMA ForceCloseGood ==
  ASSUME NEW w \in Good
  PROVE  channel_force_close(w) \in Good
  <1> DEFINE r == IF w.c.istate = "open" THEN chan_read_failed(w) ELSE w
             i == IF r.c.istate = "drain"
                  THEN chan_ibuf_empty([r EXCEPT !.c.input = 0]) ELSE r
             o == IF i.c.ostate \in {"open", "drain"}
                  THEN chan_write_failed([i EXCEPT !.c.output = 0]) ELSE i
             u == DetachUser(o, TRUE)
             a == [u EXCEPT !.c.efd = FALSE, !.c.type = "abandoned"]
  <1>1. r \in Good
    BY ReadFailedGood
  <1> HIDE DEF r
  <1>2. i \in Good
    BY <1>1, BufferGood, IbufEmptyGood
  <1> HIDE DEF i
  <1>3. o \in Good
    BY <1>2, BufferGood, WriteFailedGood
  <1> HIDE DEF o
  <1>4. /\ u \in Work /\ ~u.c.child
        /\ u.c.flags = o.c.flags
        /\ u.c.istate = o.c.istate /\ u.c.ostate = o.c.ostate
    BY <1>3, DetachFacts
  <1> HIDE DEF u
  <1>5. /\ a \in Work /\ a.c.type = "abandoned"
        /\ a.c.flags = u.c.flags /\ a.c.child = u.c.child
        /\ a.c.istate = u.c.istate /\ a.c.ostate = u.c.ostate
    BY <1>4, Zenon DEF Work, Channel, ChanType
  <1> HIDE DEF a
  <1>6. a \in Good
    BY <1>3, <1>4, <1>5 DEF Good, ShutFirst, StaysAttached
  <1> QED BY <1>6 DEF channel_force_close, a, u, o, i, r
----------------------------------------------------------------------------
(* Packets in.                                                             *)

\* Byte counts and windows; the updates below leave Control alone.
LEMMA CountsAreNat ==
  ASSUME NEW w \in Good
  PROVE  /\ w.c.input \in Nat /\ w.c.output \in Nat /\ w.c.extended \in Nat
         /\ w.c.local_window \in Nat /\ w.c.local_window_max \in Nat
         /\ w.c.local_consumed \in Nat /\ w.c.local_window_exceeded \in Nat
         /\ w.c.remote_window \in Nat /\ w.c.taken \in Nat
         /\ w.c.etaken \in Nat /\ w.c.got \in Nat
  BY Zenon DEF Good, Work, Channel

\* Updates of output, local_window, local_consumed and local_window_exceeded keep a channel good.
LEMMA ReceiveGood ==
  ASSUME NEW w \in Good, NEW a \in Nat, NEW b \in Nat, NEW d \in Nat
  PROVE  /\ [w EXCEPT !.c.local_window = a, !.c.local_consumed = b] \in Good
         /\ [w EXCEPT !.c.extended = a, !.c.local_window = b] \in Good
         /\ [w EXCEPT !.c.extended = a, !.c.local_consumed = b] \in Good
         /\ [w EXCEPT !.c.local_window_exceeded = a,
                      !.c.local_window = b] \in Good
         /\ [w EXCEPT !.c.input = a, !.c.taken = b] \in Good
         /\ [w EXCEPT !.c.extended = a, !.c.etaken = b] \in Good
         /\ [w EXCEPT !.c.output = a, !.c.local_consumed = b,
                      !.c.got = d] \in Good
  <1> DEFINE
        v1 == [w EXCEPT !.c.local_window = a, !.c.local_consumed = b]
        v2 == [w EXCEPT !.c.extended = a, !.c.local_window = b]
        v3 == [w EXCEPT !.c.extended = a, !.c.local_consumed = b]
        v4 == [w EXCEPT !.c.local_window_exceeded = a, !.c.local_window = b]
        v5 == [w EXCEPT !.c.input = a, !.c.taken = b]
        v6 == [w EXCEPT !.c.extended = a, !.c.etaken = b]
        v7 == [w EXCEPT !.c.output = a, !.c.local_consumed = b, !.c.got = d]
  <1>1. v1 \in Work /\ Control(v1.c) = Control(w.c)
    BY Zenon DEF Good, Work, Channel, Control
  <1>2. v2 \in Work /\ Control(v2.c) = Control(w.c)
    BY Zenon DEF Good, Work, Channel, Control
  <1>3. v3 \in Work /\ Control(v3.c) = Control(w.c)
    BY Zenon DEF Good, Work, Channel, Control
  <1>4. v4 \in Work /\ Control(v4.c) = Control(w.c)
    BY Zenon DEF Good, Work, Channel, Control
  <1>5. v5 \in Work /\ Control(v5.c) = Control(w.c)
    BY Zenon DEF Good, Work, Channel, Control
  <1>6. v6 \in Work /\ Control(v6.c) = Control(w.c)
    BY Zenon DEF Good, Work, Channel, Control
  <1>7. v7 \in Work /\ Control(v7.c) = Control(w.c)
    BY Zenon DEF Good, Work, Channel, Control
  <1> HIDE DEF v1, v2, v3, v4, v5, v6, v7
  <1>8. v1 \in Good /\ v2 \in Good /\ v3 \in Good /\ v4 \in Good
    BY <1>1, <1>2, <1>3, <1>4, SameControl
  <1>9. v5 \in Good /\ v6 \in Good /\ v7 \in Good
    BY <1>5, <1>6, <1>7, SameControl
  <1> QED BY <1>8, <1>9, Zenon DEF v1, v2, v3, v4, v5, v6, v7

\* Packet size and window are natural numbers.
LEMMA MaxPacketIsNat == MaxPacket \in Nat /\ Window \in Nat
  BY ChannelsAssumption

\* channel_input_data takes no more from the window than there is.
LEMMA InputDataGood ==
  ASSUME NEW w \in Good, NEW n \in Nat
  PROVE  channel_input_data(w, n) \in Good
  <1> DEFINE c == w.c
             x == c.local_window_exceeded + (n - c.local_window)
             a == IF n > c.local_window THEN 0 ELSE c.local_window - n
             drop == [w EXCEPT !.c.local_window = a,
                               !.c.local_consumed = c.local_consumed + n]
             keep == [w EXCEPT !.c.output = c.output + n]
             over == [keep EXCEPT !.c.local_window_exceeded = x,
                                  !.c.local_window = 0]
             room == [keep EXCEPT !.c.local_window_exceeded = 0,
                                  !.c.local_window = @ - n]
  <1>1. /\ c.output + n \in Nat /\ c.local_consumed + n \in Nat /\ a \in Nat
        /\ n > c.local_window => x \in Nat
        /\ ~(n > c.local_window) => c.local_window - n \in Nat
    BY CountsAreNat
  <1>2. drop \in Good
    BY <1>1, ReceiveGood, 0 \in Nat
  <1>3. keep \in Good
    BY <1>1, BufferGood
  <1>4. keep.c.local_window = c.local_window
    BY Zenon DEF Good, Work, Channel
  <1> HIDE DEF keep
  <1>5. n > c.local_window => over \in Good
    BY <1>1, <1>3, ReceiveGood, 0 \in Nat
  <1>6. ~(n > c.local_window) => room \in Good
    BY <1>1, <1>3, <1>4, ReceiveGood, 0 \in Nat
  <1>7. Fail(w, "ignored window") \in Good
    BY FailGood DEF Errors
  <1>8. channel_input_data(w, n) =
          CASE c.type # "open" -> w
            [] c.type = "open" /\ c.ostate # "open" -> drop
            [] c.type = "open" /\ c.ostate = "open" /\ n > MaxPacket -> w
            [] /\ c.type = "open" /\ c.ostate = "open" /\ n <= MaxPacket
               /\ n > c.local_window ->
                 IF x > c.local_window_max \div 10
                 THEN Fail(w, "ignored window") ELSE over
            [] OTHER -> room
    BY DEF channel_input_data, keep
  <1> HIDE DEF drop, over, room
  <1>9. CASE c.type # "open" \/ c.ostate # "open"
    BY <1>2, <1>8, <1>9
  <1>10. CASE c.type = "open" /\ c.ostate = "open" /\ n > MaxPacket
    <2>1. ~(n <= MaxPacket)
      BY <1>10, MaxPacketIsNat
    <2> QED BY <1>8, <1>10, <2>1
  <1>11. CASE c.type = "open" /\ c.ostate = "open" /\ ~(n > MaxPacket)
    <2>1. n <= MaxPacket
      BY <1>11, MaxPacketIsNat
    <2>2. CASE n > c.local_window
      <3>1. \/ channel_input_data(w, n) = Fail(w, "ignored window")
            \/ channel_input_data(w, n) = over
        BY <1>8, <1>11, <2>1, <2>2
      <3> QED BY <1>5, <1>7, <2>2, <3>1
    <2>3. CASE ~(n > c.local_window)
      <3>1. channel_input_data(w, n) = room
        BY <1>8, <1>11, <2>3
      <3> QED BY <1>6, <2>3, <3>1
    <2> QED BY <2>2, <2>3
  <1> QED BY <1>9, <1>10, <1>11

\* channel_input_extended_data takes no more from the window than there is.
LEMMA InputExtendedDataGood ==
  ASSUME NEW w \in Good, NEW n \in Nat
  PROVE  channel_input_extended_data(w, n) \in Good
  <1> DEFINE keep == [w EXCEPT !.c.extended = @ + n, !.c.local_window = @ - n]
  <1>1. /\ w.c.extended + n \in Nat
        /\ ~(n > w.c.local_window) => w.c.local_window - n \in Nat
    BY CountsAreNat
  <1>2. ~(n > w.c.local_window) => keep \in Good
    BY <1>1, ReceiveGood
  <1>3. Fail(w, "extended data after EOF") \in Good
    BY FailGood DEF Errors
  <1>4. \/ channel_input_extended_data(w, n) = w
        \/ channel_input_extended_data(w, n) = Fail(w, "extended data after EOF")
        \/ channel_input_extended_data(w, n) = keep /\ ~(n > w.c.local_window)
    BY DEF channel_input_extended_data
  <1> HIDE DEF keep
  <1> QED BY <1>2, <1>3, <1>4

\* channel_input_open_confirmation keeps a channel good.
LEMMA OpenConfirmationGood ==
  ASSUME NEW w \in Good, NEW m \in Msg
  PROVE  channel_input_open_confirmation(w, m) \in Good
  <1> DEFINE o == [w EXCEPT !.c.remote_id = m.self, !.c.remote_window = m.n,
                            !.c.type = "open"]
  <1>1. m.self \in Ids \cup {NoId} /\ m.n \in Nat
    BY DEF Msg
  <1>2. /\ o \in Work /\ o.c.flags = w.c.flags /\ o.c.child = w.c.child
        /\ o.c.istate = w.c.istate /\ o.c.ostate = w.c.ostate
        /\ o.c.type = "open"
    BY <1>1, ZenonT(60) DEF Good, Work, Channel, ChanType
  <1> HIDE DEF o
  <1>3. w.c.type = "opening" => o \in Good
    BY <1>2 DEF Good, ShutFirst, StaysAttached
  <1>4. w.c.type = "opening" => Send(o, "EXEC", 0) \in Good
    BY <1>3, SendGood DEF MsgType
  <1>5. Fail(w, "not opening") \in Good
    BY FailGood DEF Errors
  <1>6. channel_input_open_confirmation(w, m) =
          IF w.c.type # "opening" THEN Fail(w, "not opening")
          ELSE IF w.c.ctype = "session" THEN Send(o, "EXEC", 0) ELSE o
    BY DEF channel_input_open_confirmation, o
  <1> QED BY <1>3, <1>4, <1>5, <1>6

\* channel_input_open_failure keeps a channel good.
LEMMA OpenFailureGood ==
  ASSUME NEW w \in Good
  PROVE  channel_input_open_failure(w) \in Good
  BY MarkDeadGood, FailGood DEF channel_input_open_failure, Errors

\* channel_input_window_adjust keeps a channel good.
LEMMA WindowAdjustGood ==
  ASSUME NEW w \in Good, NEW n \in Nat
  PROVE  channel_input_window_adjust(w, n) \in Good
  <1>1. w.c.remote_window + n \in Nat
    BY CountsAreNat
  <1> QED BY <1>1, BufferGood DEF channel_input_window_adjust

\* The reply to a request keeps a channel good.
LEMMA ReplyGood ==
  ASSUME NEW w \in Good
  PROVE  Reply(w) \in Good
  BY SendGood DEF Reply, MsgType

\* channel_set_fds gives the larval channel its descriptors and its window.
LEMMA SetFdsFacts ==
  ASSUME NEW w \in Good, NEW tty \in BOOLEAN, NEW v, v = channel_set_fds(w, tty)
  PROVE  /\ v \in Work /\ v.c.type = "open" /\ v.c.flags = w.c.flags
         /\ v.c.istate = w.c.istate /\ v.c.ostate = w.c.ostate
         /\ v.c.detach_user = w.c.detach_user
         /\ v.c.detach_close = w.c.detach_close
  <1> DEFINE u == IF tty THEN "ignore" ELSE "read"
             b == ~tty
             f == [w EXCEPT !.c.type = "open", !.c.isatty = tty, !.c.efd = b,
                            !.c.extended_usage = u]
             g == [f EXCEPT !.c.local_window = Window,
                            !.c.local_window_max = Window]
  <1>1. u \in {"ignore", "read", "write"} /\ Window \in Nat /\ b \in BOOLEAN
    BY MaxPacketIsNat
  <1>2. v = g
    BY DEF channel_set_fds
  <1> HIDE DEF u, b
  <1>3. f \in Work
    BY <1>1, ZenonT(60) DEF Good, Work, Channel, ChanType
  <1>4. /\ f.c.type = "open" /\ f.c.flags = w.c.flags
        /\ f.c.istate = w.c.istate /\ f.c.ostate = w.c.ostate
        /\ f.c.detach_user = w.c.detach_user
        /\ f.c.detach_close = w.c.detach_close
    BY <1>1, ZenonT(60) DEF Good, Work, Channel, ChanType
  <1> HIDE DEF f
  <1>5. /\ g \in Work /\ g.c.type = f.c.type /\ g.c.flags = f.c.flags
        /\ g.c.istate = f.c.istate /\ g.c.ostate = f.c.ostate
        /\ g.c.detach_user = f.c.detach_user
        /\ g.c.detach_close = f.c.detach_close
    BY <1>1, <1>3, ZenonT(60) DEF Work, Channel
  <1> HIDE DEF g
  <1> QED BY <1>2, <1>4, <1>5

\* Starting a command keeps the session attached to its channel.
LEMMA InputExecGood ==
  ASSUME NEW w \in Good, NEW tty \in BOOLEAN
  PROVE  session_input_exec(w, tty) \in Good
  <1> DEFINE v == channel_set_fds(w, tty)
             f == [v EXCEPT !.c.child = TRUE]
  <1>1. /\ v \in Work /\ v.c.type = "open" /\ v.c.flags = w.c.flags
        /\ v.c.istate = w.c.istate /\ v.c.ostate = w.c.ostate
        /\ v.c.detach_user = w.c.detach_user
        /\ v.c.detach_close = w.c.detach_close
    BY SetFdsFacts
  <1>2. session_input_exec(w, tty) =
          IF w.c.type # "larval" \/ w.c.detach_user # "session"
          THEN Reply(w) ELSE Reply(Send(f, "ADJUST", Window))
    BY DEF session_input_exec
  <1> HIDE DEF v
  <1>3. /\ f \in Work /\ f.c.type = v.c.type /\ f.c.flags = v.c.flags
        /\ f.c.istate = v.c.istate /\ f.c.ostate = v.c.ostate
        /\ f.c.detach_user = v.c.detach_user
        /\ f.c.detach_close = v.c.detach_close
    BY <1>1, Zenon DEF Work, Channel
  <1> HIDE DEF f
  <1>4. w.c.type = "larval" => f \in Good
    BY <1>1, <1>3 DEF Good, ShutFirst, StaysAttached, Attached
  <1>5. w.c.type = "larval" => Reply(Send(f, "ADJUST", Window)) \in Good
    BY <1>4, MaxPacketIsNat, SendGood, ReplyGood DEF MsgType
  <1> QED BY <1>2, <1>5, ReplyGood

\* Every handler of a packet keeps a channel good.
LEMMA InputHandlerGood ==
  ASSUME NEW w \in Good, NEW m \in Msg
  PROVE  InputHandler(w, m) \in Good
  <1>1. m.n \in Nat
    BY DEF Msg
  <1>2. /\ channel_input_data(w, m.n) \in Good
        /\ channel_input_extended_data(w, m.n) \in Good
        /\ channel_input_window_adjust(w, m.n) \in Good
    BY <1>1, InputDataGood, InputExtendedDataGood, WindowAdjustGood
  <1>3. /\ chan_rcvd_ieof(w) \in Good /\ chan_rcvd_oclose(w) \in Good
        /\ chan_rcvd_eow(w) \in Good /\ Reply(w) \in Good
    BY RcvdIeofGood, RcvdOcloseGood, RcvdEowGood, ReplyGood
  <1>4. /\ channel_input_open_confirmation(w, m) \in Good
        /\ channel_input_open_failure(w) \in Good
    BY OpenConfirmationGood, OpenFailureGood
  <1> QED BY <1>2, <1>3, <1>4 DEF InputHandler

\* A packet for an unknown channel changes no channel.
LEMMA UnknownChannelGood ==
  ASSUME NEW e \in Endpoint, NEW m \in Msg
  PROVE  UnknownChannel(e, m) \in Good
  <1>1. Begin(FreeChan) \in Good
    BY FreeChanGood, BeginGood
  <1> QED BY <1>1, FailGood DEF UnknownChannel, Errors
----------------------------------------------------------------------------
(* Packets out.                                                            *)

\* SendBuffered takes from the peer's window what it sends, and never more
\* than there is to send.
LEMMA SendBufferedGood ==
  ASSUME NEW w \in Good, NEW t \in MsgType, NEW len \in Nat, NEW s,
         s = SendBuffered(w, t, len)
  PROVE  /\ s \in Good
         /\ s.c.input = w.c.input /\ s.c.extended = w.c.extended
         /\ w.c.remote_window - s.c.remote_window \in 0 .. len
  <1> DEFINE n == Lesser(Lesser(len, w.c.remote_window), MaxPacket)
             p == Send(w, t, n)
             q == [p EXCEPT !.c.remote_window = p.c.remote_window - n]
  <1>1. /\ n \in Nat /\ n <= len /\ n <= w.c.remote_window
    BY CountsAreNat, MaxPacketIsNat DEF Lesser
  <1>2. s = IF n = 0 THEN w ELSE q
    BY DEF SendBuffered
  <1> HIDE DEF n
  <1>3. p \in Good /\ p.c = w.c
    BY <1>1, SendGood
  <1> HIDE DEF p
  <1>4. p.c.remote_window - n \in Nat /\ w.c.remote_window \in Nat
    BY <1>1, <1>3, CountsAreNat
  <1>5. q \in Good
    BY <1>3, <1>4, BufferGood
  <1>6. /\ q.c.input = w.c.input /\ q.c.extended = w.c.extended
        /\ q.c.remote_window = p.c.remote_window - n
    BY <1>3, <1>4, Zenon DEF Good, Work, Channel
  <1> HIDE DEF q
  <1>7. w.c.remote_window - s.c.remote_window \in 0 .. len
    BY <1>1, <1>2, <1>3, <1>4, <1>6
  <1> QED BY <1>2, <1>5, <1>6, <1>7

\* channel_output_poll_input_open sends no more than the window, and EOF when drained.
LEMMA OutputPollInputOpenGood ==
  ASSUME NEW w \in Good
  PROVE  channel_output_poll_input_open(w) \in Good
  <1> DEFINE s == SendBuffered(w, "DATA", w.c.input)
             k == w.c.remote_window - s.c.remote_window
             p == [s EXCEPT !.c.input = s.c.input - k]
  <1>1. w.c.input \in Nat /\ "DATA" \in MsgType
    BY CountsAreNat DEF MsgType
  <1>2. s \in Good /\ s.c.input = w.c.input /\ k \in 0 .. w.c.input
    BY <1>1, SendBufferedGood, Zenon
  <1>3. channel_output_poll_input_open(w) \in {w, chan_ibuf_empty(w), p}
    BY DEF channel_output_poll_input_open
  <1> HIDE DEF s, k
  <1>4. s.c.input - k \in Nat
    BY <1>1, <1>2
  <1>5. p \in Good
    BY <1>2, <1>4, BufferGood
  <1> HIDE DEF p
  <1> QED BY <1>3, <1>5, IbufEmptyGood

\* channel_output_poll_extended_read sends no more than the window.
LEMMA OutputPollExtendedReadGood ==
  ASSUME NEW w \in Good
  PROVE  channel_output_poll_extended_read(w) \in Good
  <1> DEFINE s == SendBuffered(w, "EXTDATA", w.c.extended)
             k == w.c.remote_window - s.c.remote_window
             p == [s EXCEPT !.c.extended = s.c.extended - k]
  <1>1. w.c.extended \in Nat /\ "EXTDATA" \in MsgType
    BY CountsAreNat DEF MsgType
  <1>2. s \in Good /\ s.c.extended = w.c.extended /\ k \in 0 .. w.c.extended
    BY <1>1, SendBufferedGood, ZenonT(60)
  <1>3. channel_output_poll_extended_read(w) = p
    BY DEF channel_output_poll_extended_read
  <1> HIDE DEF s, k
  <1>4. s.c.extended - k \in Nat
    BY <1>1, <1>2
  <1> QED BY <1>2, <1>3, <1>4, BufferGood

\* channel_output_poll keeps a channel good.
LEMMA OutputPollGood ==
  ASSUME NEW w \in Good
  PROVE  channel_output_poll(w) \in Good
  <1> DEFINE a == IF w.c.istate \in {"open", "drain"}
                  THEN channel_output_poll_input_open(w) ELSE w
  <1>1. a \in Good
    BY OutputPollInputOpenGood
  <1>2. channel_output_poll(w)
          \in {w, a, channel_output_poll_extended_read(a)}
    BY DEF channel_output_poll
  <1> HIDE DEF a
  <1> QED BY <1>1, <1>2, OutputPollExtendedReadGood
----------------------------------------------------------------------------
(* The tables of channel_handler.                                          *)

\* What a channel waits for (io_want) is no part of the invariant.
LEMMA IoWantGood ==
  ASSUME NEW w \in Good, NEW S \in SUBSET ChanIO
  PROVE  [w EXCEPT !.c.io_want = S] \in Good
  <1> DEFINE v == [w EXCEPT !.c.io_want = S]
  <1>1. v \in Work /\ Control(v.c) = Control(w.c)
    BY Zenon DEF Good, Work, Channel, Control
  <1> HIDE DEF v
  <1>2. v \in Good
    BY <1>1, SameControl
  <1> QED BY <1>2 DEF v

\* channel_pre_open keeps a channel good.
LEMMA PreOpenGood ==
  ASSUME NEW w \in Good
  PROVE  channel_pre_open(w) \in Good
  <1> DEFINE d == IF /\ w.c.ostate = "drain" /\ w.c.output = 0
                     /\ ~CHANNEL_EFD_OUTPUT_ACTIVE(w.c)
                  THEN chan_obuf_empty(w) ELSE w
  <1>1. d \in Good
    BY ObufEmptyGood
  <1>2. \E S \in SUBSET ChanIO :
          channel_pre_open(w) = [d EXCEPT !.c.io_want = S]
    BY DEF channel_pre_open, ChanIO
  <1> HIDE DEF d
  <1> QED BY <1>1, <1>2, IoWantGood

\* Every entry of the PRE table keeps a channel good.
LEMMA PreGood ==
  ASSUME NEW w \in Good
  PROVE  channel_pre(w) \in Good
  <1>1. [w EXCEPT !.c.io_want = {"sock_w"}] \in Good
    BY IoWantGood DEF ChanIO
  <1> QED BY <1>1, PreOpenGood DEF channel_pre

\* channel_handle_rfd keeps a channel good.
LEMMA HandleRfdGood ==
  ASSUME NEW w \in Good, NEW r \in Int, NEW v, v = channel_handle_rfd(w, r)
  PROVE  /\ v \in Good
         /\ v.c.output = w.c.output /\ v.c.extended = w.c.extended
         /\ v.c.io_want = w.c.io_want
  <1> DEFINE t == [w EXCEPT !.c.input = w.c.input + r, !.c.taken = w.c.taken + r]
  <1>1. v = w \/ v = chan_read_failed(w) \/ (v = t /\ r > 0)
    BY CountsAreNat DEF channel_handle_rfd
  <1>2. r > 0 => w.c.input + r \in Nat /\ w.c.taken + r \in Nat
    BY CountsAreNat
  <1>3. r > 0 => t \in Good
    BY <1>2, ReceiveGood
  <1>4. /\ t.c.output = w.c.output /\ t.c.extended = w.c.extended
        /\ t.c.io_want = w.c.io_want
    BY Zenon DEF Good, Work, Channel
  <1> HIDE DEF t
  <1> QED BY <1>1, <1>3, <1>4, ReadFailedGood

\* channel_handle_wfd writes no more than is buffered.
LEMMA HandleWfdGood ==
  ASSUME NEW w \in Good, NEW r \in Int, NEW v, v = channel_handle_wfd(w, r),
         r <= w.c.output
  PROVE  /\ v \in Good
         /\ v.c.extended = w.c.extended /\ v.c.io_want = w.c.io_want
  <1> DEFINE t == [w EXCEPT !.c.output = w.c.output - r,
                            !.c.local_consumed = w.c.local_consumed + r,
                            !.c.got = w.c.got + r]
  <1>1. v = w \/ v = chan_write_failed(w) \/ (v = t /\ r >= 0)
    BY CountsAreNat DEF channel_handle_wfd
  <1>2. r >= 0 => /\ w.c.output - r \in Nat /\ w.c.local_consumed + r \in Nat
                  /\ w.c.got + r \in Nat
    BY CountsAreNat
  <1>3. r >= 0 => t \in Good
    BY <1>2, ReceiveGood
  <1>4. t.c.extended = w.c.extended /\ t.c.io_want = w.c.io_want
    BY Zenon DEF Good, Work, Channel
  <1> HIDE DEF t
  <1> QED BY <1>1, <1>3, <1>4, WriteFailedGood

\* channel_handle_efd, reading or writing, keeps a channel good.
LEMMA HandleEfdGood ==
  ASSUME NEW w \in Good, NEW r \in Int,
         "efd_w" \in w.c.io_want => r <= w.c.extended
  PROVE  channel_handle_efd(w, r) \in Good
  <1> DEFINE shut == [w EXCEPT !.c.efd = FALSE]
             wrote == [w EXCEPT !.c.extended = w.c.extended - r,
                                !.c.local_consumed = w.c.local_consumed + r]
             x == IF w.c.extended_usage = "ignore" THEN w.c.extended
                  ELSE w.c.extended + r
             read == [w EXCEPT !.c.extended = x, !.c.etaken = w.c.etaken + r]
  <1>1. shut \in Good
    BY BufferGood, 0 \in Nat
  <1>2. \/ channel_handle_efd_write(w, r) \in {w, shut}
        \/ /\ channel_handle_efd_write(w, r) = wrote
           /\ "efd_w" \in w.c.io_want /\ r >= 0
    BY DEF channel_handle_efd_write
  <1>3. \/ channel_handle_efd_read(w, r) \in {w, shut}
        \/ channel_handle_efd_read(w, r) = read /\ r > 0
    BY DEF channel_handle_efd_read
  <1>4. r >= 0 /\ r <= w.c.extended =>
          w.c.extended - r \in Nat /\ w.c.local_consumed + r \in Nat
    BY CountsAreNat
  <1>5. r > 0 => x \in Nat /\ w.c.etaken + r \in Nat
    BY CountsAreNat
  <1>6. channel_handle_efd(w, r)
          \in {w, channel_handle_efd_write(w, r), channel_handle_efd_read(w, r)}
    BY DEF channel_handle_efd
  <1> HIDE DEF x, shut
  <1>7. r >= 0 /\ r <= w.c.extended => wrote \in Good
    BY <1>4, ReceiveGood
  <1>8. r > 0 => read \in Good
    BY <1>5, ReceiveGood
  <1> HIDE DEF wrote, read
  <1>9. channel_handle_efd_write(w, r) \in Good
    BY <1>1, <1>2, <1>7
  <1>10. channel_handle_efd_read(w, r) \in Good
    BY <1>1, <1>3, <1>8
  <1> QED BY <1>6, <1>9, <1>10

\* channel_check_window keeps a channel good.
LEMMA CheckWindowGood ==
  ASSUME NEW w \in Good
  PROVE  channel_check_window(w) \in Good
  <1> DEFINE s == Send(w, "ADJUST", w.c.local_consumed)
             v == [s EXCEPT !.c.local_window = s.c.local_window + w.c.local_consumed,
                            !.c.local_consumed = 0]
  <1>1. s \in Good
    BY CountsAreNat, SendGood DEF MsgType
  <1>2. channel_check_window(w) \in {w, v}
    BY DEF channel_check_window
  <1> HIDE DEF s
  <1>3. s.c.local_window + w.c.local_consumed \in Nat
    BY <1>1, CountsAreNat
  <1>4. v \in Good
    BY <1>1, <1>3, ReceiveGood, 0 \in Nat
  <1> HIDE DEF v
  <1> QED BY <1>2, <1>4

\* What poll reports about a channel of the right type.
LEMMA PollResultsFacts ==
  ASSUME NEW c \in Channel, NEW io \in PollResults(c)
  PROVE  /\ io.r \in Int /\ io.w \in Int /\ io.x \in Int
         /\ io.w <= c.output
         /\ "efd_w" \in c.io_want => io.x <= c.extended
  <1>1. /\ c.output \in Nat /\ c.extended \in Nat /\ c.taken \in Nat
        /\ c.etaken \in Nat /\ c.remote_window \in Nat /\ c.input \in Nat
    BY Zenon DEF Channel
  <1>2. MaxData \in Nat /\ MaxErr \in Nat
    BY ChannelsAssumption
  <1>3. io.r \in ReadResults(c) /\ io.w \in WriteResults(c) /\ io.x \in ExtResults(c)
    BY DEF PollResults
  <1>4. io.r \in Int
    BY <1>1, <1>2, <1>3 DEF ReadResults, Lesser
  <1>5. io.w \in Int /\ io.w <= c.output
    BY <1>1, <1>3 DEF WriteResults
  <1>6. io.x \in Int /\ ("efd_w" \in c.io_want => io.x <= c.extended)
    BY <1>1, <1>2, <1>3 DEF ExtResults
  <1> QED BY <1>4, <1>5, <1>6

\* channel_post_connecting keeps a channel good.
LEMMA PostConnectingGood ==
  ASSUME NEW w \in Good, w.c.type = "connecting", NEW io, NEW self \in Ids
  PROVE  channel_post_connecting(w, io, self) \in Good
  <1> DEFINE s == Confirm(w, self)
             o == [s EXCEPT !.c.type = "open"]
             f == Send(w, "OPENFAIL", 0)
  <1>1. s \in Good /\ s.c = w.c
    <2>1. /\ w.c.local_window \in Nat /\ "CONFIRM" \in MsgType
          /\ self \in Ids \cup {NoId}
      BY CountsAreNat DEF MsgType
    <2> QED BY <2>1, SendFromGood, Zenon DEF Confirm
  <1>2. f \in Good /\ f.c = w.c
    BY SendGood DEF MsgType
  <1>3. channel_post_connecting(w, io, self) \in {w, o, chan_mark_dead(f)}
    BY DEF channel_post_connecting
  <1> HIDE DEF s, f
  <1>4. /\ o \in Work /\ o.c.type = "open" /\ o.c.flags = s.c.flags
        /\ o.c.istate = s.c.istate /\ o.c.ostate = s.c.ostate
        /\ o.c.child = s.c.child
    BY <1>1, Zenon DEF Good, Work, Channel, ChanType
  <1> HIDE DEF o
  <1>5. o \in Good
    BY <1>1, <1>4 DEF Good, ShutFirst, StaysAttached
  <1>6. chan_mark_dead(f) \in Good
    BY <1>2, MarkDeadGood
  <1> QED BY <1>3, <1>5, <1>6

\* channel_post_open keeps a channel good.
LEMMA PostOpenGood ==
  ASSUME NEW w \in Good, NEW io \in PollResults(w.c)
  PROVE  channel_post_open(w, io) \in Good
  <1> DEFINE r == channel_handle_rfd(w, io.r)
             o == channel_handle_wfd(r, io.w)
             x == channel_handle_efd(o, io.x)
  <1>1. /\ io.r \in Int /\ io.w \in Int /\ io.x \in Int
        /\ io.w <= w.c.output
        /\ "efd_w" \in w.c.io_want => io.x <= w.c.extended
    BY PollResultsFacts DEF Good, Work
  <1>2. /\ r \in Good
        /\ r.c.output = w.c.output /\ r.c.extended = w.c.extended
        /\ r.c.io_want = w.c.io_want
    BY <1>1, HandleRfdGood, Zenon
  <1> HIDE DEF r
  <1>3. o \in Good /\ o.c.extended = r.c.extended /\ o.c.io_want = r.c.io_want
    BY <1>1, <1>2, HandleWfdGood
  <1> HIDE DEF o
  <1>4. x \in Good
    BY <1>1, <1>2, <1>3, HandleEfdGood
  <1> HIDE DEF x
  <1>5. channel_check_window(x) \in Good
    BY <1>4, CheckWindowGood
  <1> QED BY <1>5 DEF channel_post_open, x, o, r

\* Every entry of the POST table keeps a channel good.
LEMMA PostGood ==
  ASSUME NEW w \in Good, NEW io \in PollResults(w.c), NEW self \in Ids
  PROVE  channel_post(w, io, self) \in Good
  <1>1. CASE w.c.type = "open"
    BY <1>1, PostOpenGood DEF channel_post
  <1>2. CASE w.c.type = "connecting"
    BY <1>2, PostConnectingGood DEF channel_post
  <1>3. CASE w.c.type \notin {"open", "connecting"}
    BY <1>3 DEF channel_post
  <1> QED BY <1>1, <1>2, <1>3
----------------------------------------------------------------------------
(* The actions.                                                            *)

\* The inductive invariant.
IndInv == TypeOK /\ CloseOnlyWhenShut /\ SessionAttached

\* Under the invariant each slot of a table is a good channel.
LEMMA ChanIsGood ==
  ASSUME IndInv, NEW e \in Endpoint, NEW i \in Ids
  PROVE  /\ chan[e][i] \in Channel
         /\ ShutFirst(chan[e][i]) /\ StaysAttached(chan[e][i])
         /\ Begin(chan[e][i]) \in Good /\ Begin(chan[e][i]).c = chan[e][i]
  <1>1. /\ chan[e][i] \in Channel
        /\ ShutFirst(chan[e][i]) /\ StaysAttached(chan[e][i])
    BY DEF IndInv, TypeOK, CloseOnlyWhenShut, SessionAttached
  <1> QED BY <1>1, BeginGood DEF Begin

\* Putting a good channel into a slot keeps the table good.
LEMMA PutKeeps ==
  ASSUME IndInv, NEW e \in Endpoint, NEW i \in Ids, NEW c \in Channel,
         ShutFirst(c), StaysAttached(c), chan' = [chan EXCEPT ![e][i] = c]
  PROVE  /\ chan' \in [Endpoint -> [Ids -> Channel]]
         /\ CloseOnlyWhenShut' /\ SessionAttached'
  <1>1. chan \in [Endpoint -> [Ids -> Channel]]
    BY DEF IndInv, TypeOK
  <1>2. chan' \in [Endpoint -> [Ids -> Channel]]
    BY <1>1
  <1>3. ASSUME NEW f \in Endpoint, NEW j \in Ids
        PROVE  ShutFirst(chan'[f][j]) /\ StaysAttached(chan'[f][j])
    <2>1. chan'[f][j] = c \/ chan'[f][j] = chan[f][j]
      BY <1>1
    <2> QED BY <2>1, ChanIsGood
  <1> QED BY <1>2, <1>3 DEF CloseOnlyWhenShut, SessionAttached

\* Storing a good channel in its slot preserves the invariant of the tables.
LEMMA StoreKeeps ==
  ASSUME IndInv, NEW e \in Endpoint, NEW i \in Ids, NEW w \in Good,
         Store(e, i, w)
  PROVE  /\ chan' \in [Endpoint -> [Ids -> Channel]]
         /\ err' \in [Endpoint -> Errors]
         /\ CloseOnlyWhenShut' /\ SessionAttached'
  <1>1. /\ w.c \in Channel /\ w.err \in Errors
        /\ ShutFirst(w.c) /\ StaysAttached(w.c)
    BY GoodParts
  <1>2. /\ chan' \in [Endpoint -> [Ids -> Channel]]
        /\ CloseOnlyWhenShut' /\ SessionAttached'
    BY <1>1, PutKeeps DEF Store
  <1> QED BY <1>1, <1>2 DEF Store, IndInv, TypeOK

\* Packets sent keep the type of the wire.
LEMMA SendAllKeeps ==
  ASSUME TypeOK, NEW e \in Endpoint, NEW w \in Good, SendAll(e, w)
  PROVE  net' \in [Endpoint -> Seq(Msg)]
  <1>1. w.tx \in Seq(Msg) /\ net \in [Endpoint -> Seq(Msg)]
    BY GoodParts DEF TypeOK
  <1>2. Peer(e) \in Endpoint
    BY DEF Peer, Endpoint
  <1>3. net[Peer(e)] \o w.tx \in Seq(Msg)
    BY <1>1, <1>2
  <1> QED BY <1>1, <1>2, <1>3 DEF SendAll

\* Consuming a packet and answering it keeps the type of the wire.
LEMMA AnswerKeeps ==
  ASSUME TypeOK, NEW e \in Endpoint, NEW tx \in Seq(Msg), net[e] # <<>>,
         Answer(e, tx)
  PROVE  net' \in [Endpoint -> Seq(Msg)]
  <1>1. net \in [Endpoint -> Seq(Msg)] /\ Peer(e) \in Endpoint /\ Peer(e) # e
    BY DEF TypeOK, Peer, Endpoint
  <1>2. Tail(net[e]) \in Seq(Msg) /\ net[Peer(e)] \o tx \in Seq(Msg)
    BY <1>1
  <1> QED BY <1>1, <1>2 DEF Answer

\* Going on in the loop keeps the phase and the slot in range.
LEMMA AdvanceKeeps ==
  ASSUME TypeOK, NEW e \in Endpoint, Advance(e)
  PROVE  pc' \in [Endpoint -> Phase] /\ cur' \in [Endpoint -> Ids]
  <1>1. 0 \in Ids
    BY MaxChannelsAssumption DEF Ids
  <1>2. \A p \in Phase : NextPhase[p] \in Phase
    BY DEF Phase, NextPhase
  <1> QED BY <1>1, <1>2 DEF Advance, TypeOK

\* What channel_new returns is a good channel.
LEMMA NewChannel ==
  ASSUME NEW type \in ChanType, NEW ctype \in {"session", "tcp"},
         NEW window \in Nat, NEW inst \in Nat
  PROVE  /\ channel_new(type, ctype, window, inst) \in Channel
         /\ channel_new(type, ctype, window, inst).type = type
         /\ channel_new(type, ctype, window, inst).flags = {}
         /\ ~channel_new(type, ctype, window, inst).child
         /\ ~channel_new(type, ctype, window, inst).detach_close
  <1> DEFINE c == channel_new(type, ctype, window, inst)
  <1>1. FreeChan \in Channel
    BY FreeChanGood
  <1>2. /\ FreeChan.flags = {} /\ ~FreeChan.child
        /\ ~FreeChan.detach_close
    BY DEF FreeChan
  <1>3. c \in Channel
    BY <1>1, Zenon DEF channel_new, Channel
  <1>4. /\ c.type = type /\ c.flags = FreeChan.flags
        /\ c.child = FreeChan.child
        /\ c.detach_close = FreeChan.detach_close
    BY <1>1, Zenon DEF channel_new, Channel
  <1> QED BY <1>2, <1>3, <1>4

\* Opening a channel preserves the invariant.
LEMMA OpenChannelKeeps ==
  ASSUME IndInv, NEW e \in Endpoint, NEW k \in {"session", "tcp"},
         OpenChannel(e, k)
  PROVE  IndInv'
  <1>1. PICK i \in Ids :
          LET new == channel_new("opening", k, Window, opens + 1)
              c == IF k = "session"
                   THEN [new EXCEPT !.efd = TRUE, !.extended_usage = "write",
                                    !.detach_user = "client"]
                   ELSE new
          IN  /\ chan' = [chan EXCEPT ![e][i] = c]
              /\ net' = [net EXCEPT ![Peer(e)] =
                   Append(@, [t |-> "OPEN", id |-> i, self |-> i, n |-> Window,
                              ctype |-> k, inst |-> opens + 1])]
    BY DEF OpenChannel
  <1>2. /\ opens \in 0 .. MaxChannels /\ opens < MaxChannels
        /\ opens' = opens + 1 /\ UNCHANGED <<pc, cur, err, probes>>
        /\ MaxChannels \in Nat /\ Window \in Nat
    BY MaxChannelsAssumption, MaxPacketIsNat DEF OpenChannel, IndInv, TypeOK
  <1>3. opens + 1 \in Nat /\ opens' \in 0 .. MaxChannels
    BY <1>2
  <1> DEFINE new == channel_new("opening", k, Window, opens + 1)
             ses == [new EXCEPT !.efd = TRUE, !.extended_usage = "write",
                                !.detach_user = "client"]
             c == IF k = "session" THEN ses ELSE new
             m == [t |-> "OPEN", id |-> i, self |-> i, n |-> Window,
                   ctype |-> k, inst |-> opens + 1]
  <1>4. /\ new \in Channel /\ new.type = "opening" /\ new.flags = {}
        /\ ~new.child
    <2>1. "opening" \in ChanType
      BY DEF ChanType
    <2> QED BY <1>2, <1>3, <2>1, NewChannel
  <1>5. /\ ses \in Channel /\ ses.type = new.type /\ ses.flags = new.flags
        /\ ses.child = new.child
    <2> HIDE DEF new
    <2> QED BY <1>4, Zenon DEF Channel
  <1>6. c \in Channel /\ ShutFirst(c) /\ StaysAttached(c)
    <2> HIDE DEF new, ses
    <2> QED BY <1>4, <1>5 DEF ShutFirst, StaysAttached
  <1>7. m \in Msg
    BY <1>2, <1>3 DEF Msg, MsgType
  <1>8. /\ chan' = [chan EXCEPT ![e][i] = c]
        /\ net' = [net EXCEPT ![Peer(e)] = Append(@, m)]
    BY <1>1
  <1> HIDE DEF c, m, new, ses
  <1>9. /\ chan' \in [Endpoint -> [Ids -> Channel]]
        /\ CloseOnlyWhenShut' /\ SessionAttached'
    BY <1>6, <1>8, PutKeeps
  <1>10. net' \in [Endpoint -> Seq(Msg)]
    <2>1. net \in [Endpoint -> Seq(Msg)] /\ Peer(e) \in Endpoint
      BY DEF IndInv, TypeOK, Peer, Endpoint
    <2>2. Append(net[Peer(e)], m) \in Seq(Msg)
      BY <1>7, <2>1
    <2> QED BY <1>8, <2>1, <2>2
  <1> QED BY <1>2, <1>3, <1>9, <1>10 DEF IndInv, TypeOK

\* The packet at the head of the queue has its type.
LEMMA IncomingMsg ==
  ASSUME TypeOK, NEW e \in Endpoint, NEW ts, Incoming(e, ts)
  PROVE  net[e] # <<>> /\ Head(net[e]) \in Msg /\ Head(net[e]).id \in Ids
  <1>1. net[e] \in Seq(Msg) /\ net[e] # <<>>
    BY DEF TypeOK, Incoming
  <1>2. Head(net[e]) \in Msg
    BY <1>1
  <1> QED BY <1>1, <1>2 DEF Msg

\* Accepting an open preserves the invariant.
LEMMA InputOpenKeeps ==
  ASSUME IndInv, NEW e \in Endpoint, InputOpen(e)
  PROVE  IndInv'
  <1> DEFINE m == Head(net[e])
             new == IF m.ctype = "session"
                    THEN [channel_new("larval", "session", 0, m.inst)
                            EXCEPT !.detach_user = "session"]
                    ELSE channel_new("connecting", "tcp", Window, m.inst)
             c == [new EXCEPT !.remote_id = m.id, !.remote_window = m.n]
  <1>1. PICK i \in Ids :
          /\ chan' = [chan EXCEPT ![e][i] = c]
          /\ Answer(e, IF m.ctype = "session"
                       THEN Confirm(Begin(c), i).tx ELSE <<>>)
    BY DEF InputOpen
  <1>2. UNCHANGED <<pc, cur, err, opens, probes>>
    BY DEF InputOpen
  <1>3. net[e] # <<>> /\ m \in Msg
    BY IncomingMsg DEF InputOpen, IndInv
  <1>4. m.id \in Ids \cup {NoId} /\ m.n \in Nat /\ m.inst \in Nat
    BY <1>3 DEF Msg
  <1> HIDE DEF m
  <1>5. /\ new \in Channel /\ new.flags = {} /\ ~new.child
        /\ ~new.detach_close
        /\ new.type = "larval" => new.detach_user = "session"
    <2> DEFINE lar == channel_new("larval", "session", 0, m.inst)
               ses == [lar EXCEPT !.detach_user = "session"]
               tcp == channel_new("connecting", "tcp", Window, m.inst)
    <2>1. "larval" \in ChanType /\ "connecting" \in ChanType /\ 0 \in Nat
      BY DEF ChanType
    <2>2. /\ lar \in Channel /\ lar.flags = {} /\ ~lar.child
          /\ ~lar.detach_close
      BY <1>4, <2>1, NewChannel
    <2>3. /\ tcp \in Channel /\ tcp.flags = {} /\ ~tcp.child
          /\ ~tcp.detach_close /\ tcp.type = "connecting"
      BY <1>4, <2>1, NewChannel, MaxPacketIsNat
    <2> HIDE DEF lar, tcp
    <2>4. /\ ses \in Channel /\ ses.flags = lar.flags
          /\ ses.child = lar.child /\ ses.detach_close = lar.detach_close
          /\ ses.detach_user = "session"
      BY <2>2, Zenon DEF Channel
    <2> HIDE DEF ses
    <2>5. new = IF m.ctype = "session" THEN ses ELSE tcp
      BY DEF ses, lar, tcp
    <2> QED BY <2>2, <2>3, <2>4, <2>5
  <1> HIDE DEF new
  <1>6. /\ c \in Channel /\ c.flags = new.flags /\ c.child = new.child
        /\ c.type = new.type /\ c.detach_user = new.detach_user
        /\ c.detach_close = new.detach_close
    BY <1>4, <1>5, Zenon DEF Channel
  <1> HIDE DEF c
  <1>7. ShutFirst(c) /\ StaysAttached(c)
    BY <1>5, <1>6 DEF ShutFirst, StaysAttached, Attached
  <1>8. Confirm(Begin(c), i).tx \in Seq(Msg)
    <2>1. Begin(c) \in Good
      BY <1>6, <1>7, BeginGood
    <2>2. Begin(c).c.local_window \in Nat
      BY <2>1, CountsAreNat
    <2>3. "CONFIRM" \in MsgType /\ i \in Ids \cup {NoId}
      BY DEF MsgType
    <2>4. Confirm(Begin(c), i) \in Good
      BY <2>1, <2>2, <2>3, SendFromGood, Zenon DEF Confirm
    <2> QED BY <2>4, GoodParts
  <1>9. net' \in [Endpoint -> Seq(Msg)]
    <2> DEFINE tx == IF m.ctype = "session"
                     THEN Confirm(Begin(c), i).tx ELSE <<>>
    <2>1. tx \in Seq(Msg) /\ Answer(e, tx)
      BY <1>1, <1>8
    <2> HIDE DEF tx
    <2> QED BY <1>3, <2>1, AnswerKeeps DEF IndInv
  <1>10. /\ chan' \in [Endpoint -> [Ids -> Channel]]
         /\ CloseOnlyWhenShut' /\ SessionAttached'
    BY <1>1, <1>6, <1>7, PutKeeps
  <1> QED BY <1>2, <1>9, <1>10 DEF IndInv, TypeOK

\* Refusing an open preserves the invariant.
LEMMA RefuseOpenKeeps ==
  ASSUME IndInv, NEW e \in Endpoint, RefuseOpen(e)
  PROVE  IndInv'
  <1> DEFINE m == Head(net[e])
             r == [m EXCEPT !.t = "OPENFAIL", !.self = NoId, !.n = 0]
  <1>1. /\ net[e] # <<>> /\ m \in Msg
        /\ Answer(e, <<r>>) /\ UNCHANGED <<chan, pc, cur, err, opens, probes>>
    BY IncomingMsg DEF RefuseOpen, IndInv
  <1> HIDE DEF m
  <1>2. r \in Msg
    BY <1>1 DEF Msg, MsgType
  <1> HIDE DEF r
  <1>3. <<r>> \in Seq(Msg)
    BY <1>2
  <1>4. net' \in [Endpoint -> Seq(Msg)]
    BY <1>1, <1>3, AnswerKeeps DEF IndInv
  <1> QED
    BY <1>1, <1>4 DEF IndInv, TypeOK, CloseOnlyWhenShut, SessionAttached

\* Dispatching a packet preserves the invariant.
LEMMA InputPacketKeeps ==
  ASSUME IndInv, NEW e \in Endpoint, InputPacket(e)
  PROVE  IndInv'
  <1> DEFINE m == Head(net[e])
             c == chan[e][m.id]
             W(tty) == CASE c.type \notin Public -> UnknownChannel(e, m)
                         [] c.type \in Public /\ m.t = "EXEC" ->
                              session_input_exec(Begin(c), tty)
                         [] OTHER -> InputHandler(Begin(c), m)
  <1>1. PICK tty \in BOOLEAN :
          /\ IF c.type \in Public
             THEN Store(e, m.id, W(tty))
             ELSE /\ err' = [err EXCEPT ![e] = W(tty).err]
                  /\ chan' = chan
          /\ Answer(e, W(tty).tx)
    BY DEF InputPacket
  <1>2. UNCHANGED <<pc, cur, opens, probes>>
    BY DEF InputPacket
  <1>3. net[e] # <<>> /\ m \in Msg /\ m.id \in Ids
    BY IncomingMsg DEF InputPacket, IndInv
  <1> DEFINE w == W(tty)
  <1>4. w \in Good
    <2>1. Begin(c) \in Good
      BY <1>3, ChanIsGood
    <2>2. /\ UnknownChannel(e, m) \in Good
          /\ session_input_exec(Begin(c), tty) \in Good
          /\ InputHandler(Begin(c), m) \in Good
      BY <1>3, <2>1, UnknownChannelGood, InputExecGood, InputHandlerGood
    <2> HIDE DEF c, m
    <2> QED BY <2>2
  <1>5. /\ Answer(e, w.tx)
        /\ \/ Store(e, m.id, w)
           \/ err' = [err EXCEPT ![e] = w.err] /\ chan' = chan
    BY <1>1
  <1> HIDE DEF w, m
  <1>6. net' \in [Endpoint -> Seq(Msg)]
    BY <1>3, <1>4, <1>5, GoodParts, AnswerKeeps DEF IndInv
  <1>7. CASE Store(e, m.id, w)
    BY <1>2, <1>3, <1>4, <1>6, <1>7, StoreKeeps DEF IndInv, TypeOK
  <1>8. CASE err' = [err EXCEPT ![e] = w.err] /\ chan' = chan
    <2>1. w.err \in Errors
      BY <1>4, GoodParts
    <2>2. TypeOK'
      BY <1>2, <1>6, <1>8, <2>1 DEF IndInv, TypeOK
    <2> QED
      BY <1>8, <2>2 DEF IndInv, CloseOnlyWhenShut, SessionAttached
  <1> QED BY <1>5, <1>7, <1>8

\* The steps of a loop phase that handle one slot and move on to the next.
LEMMA SlotStepKeeps ==
  ASSUME IndInv, NEW e \in Endpoint, NEW w \in Good,
         Store(e, cur[e], w), SendAll(e, w), Advance(e),
         UNCHANGED <<opens, probes>>
  PROVE  IndInv'
  <1>1. cur[e] \in Ids
    BY DEF IndInv, TypeOK
  <1>2. /\ chan' \in [Endpoint -> [Ids -> Channel]]
        /\ err' \in [Endpoint -> Errors]
        /\ CloseOnlyWhenShut' /\ SessionAttached'
    BY <1>1, StoreKeeps
  <1>3. net' \in [Endpoint -> Seq(Msg)]
    BY SendAllKeeps DEF IndInv
  <1>4. pc' \in [Endpoint -> Phase] /\ cur' \in [Endpoint -> Ids]
    BY AdvanceKeeps DEF IndInv
  <1> QED BY <1>2, <1>3, <1>4 DEF IndInv, TypeOK

\* The output phase preserves the invariant.
LEMMA OutputPollKeeps ==
  ASSUME IndInv, NEW e \in Endpoint, OutputPoll(e)
  PROVE  IndInv'
  <1> DEFINE w == channel_output_poll(Begin(chan[e][cur[e]]))
  <1>1. cur[e] \in Ids
    BY DEF IndInv, TypeOK
  <1>2. w \in Good
    BY <1>1, ChanIsGood, OutputPollGood
  <1>3. /\ Store(e, cur[e], w) /\ SendAll(e, w) /\ Advance(e)
        /\ UNCHANGED <<opens, probes>>
    BY DEF OutputPoll
  <1> HIDE DEF w
  <1> QED BY <1>2, <1>3, SlotStepKeeps

\* The exit of a command preserves the invariant.
LEMMA ChildExitKeeps ==
  ASSUME IndInv, NEW e \in Endpoint, NEW i \in Ids, ChildExit(e, i)
  PROVE  IndInv'
  <1> DEFINE w == session_exit_message(Begin(chan[e][i]))
  <1>1. w \in Good
    BY ChanIsGood, SessionExitGood DEF ChildExit
  <1>2. /\ Store(e, i, w) /\ SendAll(e, w)
        /\ UNCHANGED <<pc, cur, opens, probes>>
    BY DEF ChildExit
  <1> HIDE DEF w
  <1>3. net' \in [Endpoint -> Seq(Msg)]
    BY <1>1, <1>2, SendAllKeeps DEF IndInv
  <1> QED BY <1>1, <1>2, <1>3, StoreKeeps DEF IndInv, TypeOK

\* The PRE phase, timeout and collector included, preserves the invariant.
LEMMA PreKeeps ==
  ASSUME IndInv, NEW e \in Endpoint, NEW expired \in BOOLEAN, Pre(e, expired)
  PROVE  IndInv'
  <1> DEFINE d == [chan[e][cur[e]] EXCEPT !.delayed = FALSE]
             b == Begin(d)
             w == IF expired THEN channel_force_close(b) ELSE channel_pre(b)
             g == channel_garbage_collect(w)
  <1>1. cur[e] \in Ids
    BY DEF IndInv, TypeOK
  <1>2. /\ chan[e][cur[e]] \in Channel
        /\ ShutFirst(chan[e][cur[e]]) /\ StaysAttached(chan[e][cur[e]])
    BY <1>1, ChanIsGood
  <1>3. d \in Channel /\ Control(d) = Control(chan[e][cur[e]])
    BY <1>2, Zenon DEF Channel, Control
  <1>4. /\ Store(e, cur[e], g) /\ SendAll(e, g) /\ Advance(e)
        /\ UNCHANGED <<opens, probes>>
    BY DEF Pre
  <1> HIDE DEF d
  <1>5. ShutFirst(d) /\ StaysAttached(d)
    BY <1>2, <1>3 DEF Control, ShutFirst, StaysAttached, Attached
  <1>6. b \in Good
    BY <1>3, <1>5, BeginGood
  <1> HIDE DEF b
  <1>7. w \in Good
    BY <1>6, ForceCloseGood, PreGood
  <1> HIDE DEF w
  <1>8. g \in Good
    BY <1>7, GarbageCollectGood
  <1> HIDE DEF g
  <1> QED BY <1>4, <1>8, SlotStepKeeps

\* The POST phase, whatever poll reports, preserves the invariant.
LEMMA PostKeeps ==
  ASSUME IndInv, NEW e \in Endpoint, Post(e)
  PROVE  IndInv'
  <1> DEFINE c == chan[e][cur[e]]
             P(io) == channel_post(Begin(c), io, cur[e])
             W(io) == channel_garbage_collect(P(io))
             G(io) == IF c.delayed THEN Begin(c)
                      ELSE [W(io) EXCEPT !.c.io_want = {}]
  <1>1. PICK io \in PollResults(c) :
          /\ Store(e, cur[e], G(io)) /\ SendAll(e, G(io)) /\ Advance(e)
          /\ UNCHANGED <<opens, probes>>
    BY DEF Post, PostWith
  <1>2. cur[e] \in Ids
    BY DEF IndInv, TypeOK
  <1>3. Begin(c) \in Good /\ Begin(c).c = c
    BY <1>2, ChanIsGood
  <1> HIDE DEF c
  <1>4. P(io) \in Good
    BY <1>1, <1>2, <1>3, PostGood
  <1> HIDE DEF P
  <1>5. W(io) \in Good
    BY <1>4, GarbageCollectGood
  <1> HIDE DEF W
  <1>6. G(io) \in Good
    BY <1>3, <1>5, IoWantGood
  <1> HIDE DEF G
  <1> QED BY <1>1, <1>6, SlotStepKeeps

\* A keepalive probe preserves the invariant.
LEMMA ClientAliveCheckKeeps ==
  ASSUME IndInv, NEW i \in Ids, ClientAliveCheck(i)
  PROVE  IndInv'
  <1> DEFINE w == Send(Begin(chan["server"][i]), "KEEPALIVE", 0)
  <1>1. "server" \in Endpoint
    BY DEF Endpoint
  <1>2. w \in Good
    BY <1>1, ChanIsGood, SendGood DEF MsgType
  <1>3. SendAll("server", w) /\ UNCHANGED <<chan, pc, cur, err, opens>>
    BY DEF ClientAliveCheck
  <1> HIDE DEF w
  <1>4. net' \in [Endpoint -> Seq(Msg)]
    BY <1>1, <1>2, <1>3, SendAllKeeps DEF IndInv
  <1>5. probes' \in 0 .. MaxAlive
    BY ChannelsAssumption DEF ClientAliveCheck, IndInv, TypeOK
  <1>6. TypeOK'
    BY <1>3, <1>4, <1>5 DEF IndInv, TypeOK
  <1> QED BY <1>3, <1>6 DEF IndInv, CloseOnlyWhenShut, SessionAttached

\* The empty tables satisfy the invariant.
LEMMA InitInv == Init => IndInv
  <1> SUFFICES ASSUME Init PROVE IndInv
    OBVIOUS
  <1>1. 0 \in Ids /\ MaxChannels \in Nat /\ MaxAlive \in Nat
    BY MaxChannelsAssumption, ChannelsAssumption DEF Ids
  <1>2. chan \in [Endpoint -> [Ids -> Channel]]
    BY FreeChanGood DEF Init
  <1>3. net \in [Endpoint -> Seq(Msg)]
    BY DEF Init
  <1>4. TypeOK
    BY <1>1, <1>2, <1>3 DEF Init, TypeOK, Phase, Errors
  <1>5. CloseOnlyWhenShut /\ SessionAttached
    BY FreeChanGood DEF Init, CloseOnlyWhenShut, SessionAttached
  <1> QED BY <1>4, <1>5 DEF IndInv

\* Every step of the system preserves the invariant.
LEMMA NextInv == IndInv /\ [Next]_vars => IndInv'
  <1> SUFFICES ASSUME IndInv, [Next]_vars PROVE IndInv'
    OBVIOUS
  <1>1. ASSUME NEW e \in Endpoint, EndInput(e) \/ OutputHeld(e) PROVE IndInv'
    <2>1. UNCHANGED <<chan, net, cur, err, opens, probes>>
      BY <1>1 DEF EndInput, OutputHeld
    <2>2. pc' \in [Endpoint -> Phase]
      BY <1>1 DEF EndInput, OutputHeld, IndInv, TypeOK, Phase
    <2> QED
      BY <2>1, <2>2 DEF IndInv, TypeOK, CloseOnlyWhenShut, SessionAttached
  <1>2. ASSUME NEW e \in Endpoint, OutputPoll(e) PROVE IndInv'
    BY <1>2, OutputPollKeeps
  <1>3. ASSUME NEW e \in Endpoint, NEW expired \in BOOLEAN, Pre(e, expired)
        PROVE  IndInv'
    BY <1>3, PreKeeps
  <1>4. ASSUME NEW e \in Endpoint, Post(e) PROVE IndInv'
    BY <1>4, PostKeeps
  <1>5. ASSUME NEW e \in Endpoint, InputOpen(e) PROVE IndInv'
    BY <1>5, InputOpenKeeps
  <1>6. ASSUME NEW e \in Endpoint, RefuseOpen(e) PROVE IndInv'
    BY <1>6, RefuseOpenKeeps
  <1>7. ASSUME NEW e \in Endpoint, InputPacket(e) PROVE IndInv'
    BY <1>7, InputPacketKeeps
  <1>8. ASSUME NEW e \in Endpoint, NEW k \in {"session", "tcp"},
               OpenChannel(e, k)
        PROVE  IndInv'
    BY <1>8, OpenChannelKeeps
  <1>9. ASSUME NEW i \in Ids, ChildExit("server", i) PROVE IndInv'
    BY <1>9, ChildExitKeeps DEF Endpoint
  <1>10. ASSUME NEW i \in Ids, ClientAliveCheck(i) PROVE IndInv'
    BY <1>10, ClientAliveCheckKeeps
  <1>11. CASE UNCHANGED vars
    BY <1>11 DEF vars, IndInv, TypeOK, CloseOnlyWhenShut, SessionAttached
  <1> QED
    BY <1>1, <1>2, <1>3, <1>4, <1>5, <1>6, <1>7, <1>8, <1>9, <1>10, <1>11
       DEF Next, Loop, Dispatch

\* Every behaviour of Channels satisfies the inductive invariant.
THEOREM Inductive == Spec => []IndInv
  BY InitInv, NextInv, PTL DEF Spec

\* No byte count or window of channels.c goes below zero, for any window,
\* packet size and number of channels, and every variable keeps its type.
THEOREM TypeCorrect == Spec => []TypeOK
  <1>1. IndInv => TypeOK
    BY DEF IndInv
  <1> QED BY <1>1, Inductive, PTL

\* Whatever order the ends of a channel fail, finish and time out in, CLOSE
\* goes out only after both halves are shut and EOF only when the input is.
THEOREM ClosesShut == Spec => []CloseOnlyWhenShut
  <1>1. IndInv => CloseOnlyWhenShut
    BY DEF IndInv
  <1> QED BY <1>1, Inductive, PTL

\* The channel of a command that may start or still runs stays attached to
\* its session, with no CLOSE sent.
THEOREM StaysWithSession == Spec => []SessionAttached
  <1>1. IndInv => SessionAttached
    BY DEF IndInv
  <1> QED BY <1>1, Inductive, PTL
----------------------------------------------------------------------------
(* Induction, and the sums of InFlight.                                    *)

\* A non-empty set of natural numbers has a least one.
LEMMA Least ==
  ASSUME NEW T \in SUBSET Nat, T # {}
  PROVE  \E x \in T : \A y \in T : x <= y
  <1> DEFINE R == OpToRel(<, Nat)
  <1>1. IsWellFoundedOn(R, Nat)
    BY NatLessThanWellFounded
  <1>2. \A x, y \in Nat : x < y => <<x, y>> \in R
    BY DEF OpToRel
  <1>3. PICK x \in T : \A y \in T : ~ (<<y, x>> \in R)
    <2> HIDE DEF R
    <2> QED BY <1>1, WFMin
  <1>4. T \subseteq Nat
    OBVIOUS
  <1>5. \A y \in T : ~ (y < x)
    BY <1>2, <1>3, <1>4, Zenon
  <1>6. \A y \in T : x <= y
    BY <1>4, <1>5
  <1> QED BY <1>6

\* Induction on the natural numbers, stated about a set.
LEMMA Induct ==
  ASSUME NEW S, 0 \in S, \A n \in Nat : n \in S => n + 1 \in S
  PROVE  Nat \subseteq S
  <1> DEFINE T == {n \in Nat : n \notin S}
  <1>1. SUFFICES ASSUME T # {} PROVE FALSE
    OBVIOUS
  <1>2. PICK x \in T : \A y \in T : x <= y
    BY <1>1, Least
  <1>3. x # 0 /\ x \in Nat /\ x - 1 \in Nat
    BY <1>2
  <1>4. x - 1 \in S
    BY <1>2, <1>3
  <1> QED BY <1>2, <1>3, <1>4
\* What one packet adds to the sum of InFlight.
Bytes(m, n, ts) == IF m.inst = n /\ m.t \in ts THEN m.n ELSE 0

\* f holds the partial sums of InFlight over the first l packets of q.
PartialSums(f, q, n, ts, l) ==
  /\ f = [k \in 0 .. l |-> f[k]]
  /\ f[0] = 0
  /\ \A k \in 1 .. l : f[k] = f[k - 1] + Bytes(q[k], n, ts)
  /\ \A k \in 0 .. l : f[k] \in Nat

\* A packet carries a natural number of bytes.
LEMMA BytesNat ==
  ASSUME NEW m \in Msg, NEW n, NEW ts
  PROVE  Bytes(m, n, ts) \in Nat
  BY DEF Bytes, Msg

\* The partial sums of a queue exist.
LEMMA SumsExist ==
  ASSUME NEW q \in Seq(Msg), NEW n, NEW ts
  PROVE  \E f : PartialSums(f, q, n, ts, Len(q))
  <1> DEFINE S == {l \in Nat : l <= Len(q) => \E f : PartialSums(f, q, n, ts, l)}
  <1>1. 0 \in S
    <2> DEFINE f == [k \in 0 .. 0 |-> 0]
    <2>1. PartialSums(f, q, n, ts, 0)
      BY DEF PartialSums
    <2> QED BY <2>1
  <1>2. ASSUME NEW l \in Nat, l \in S
        PROVE  l + 1 \in S
    <2>1. SUFFICES ASSUME l + 1 <= Len(q)
                   PROVE  \E f : PartialSums(f, q, n, ts, l + 1)
      OBVIOUS
    <2>2. PICK g : PartialSums(g, q, n, ts, l)
      BY <1>2, <2>1
    <2> DEFINE b == Bytes(q[l + 1], n, ts)
               f == [k \in 0 .. l + 1 |-> IF k = l + 1 THEN g[l] + b ELSE g[k]]
    <2>3. b \in Nat
      BY <2>1, BytesNat
    <2> HIDE DEF b
    <2>4. \A k \in 0 .. l : f[k] = g[k] /\ f[k] \in Nat
      BY <2>2 DEF PartialSums
    <2>5. f[l + 1] = f[l] + b /\ f[l + 1] \in Nat
      BY <2>2, <2>3 DEF PartialSums
    <2>5a. f = [k \in 0 .. l + 1 |-> f[k]]
      OBVIOUS
    <2> HIDE DEF f
    <2>6. \A k \in 1 .. l + 1 : f[k] = f[k - 1] + Bytes(q[k], n, ts)
      <3> TAKE k \in 1 .. l + 1
      <3>1. CASE k = l + 1
        BY <3>1, <2>5 DEF b
      <3>2. CASE k # l + 1
        <4>1. k \in 1 .. l /\ k - 1 \in 0 .. l /\ k \in 0 .. l
          BY <3>2
        <4>2. g[k] = g[k - 1] + Bytes(q[k], n, ts)
          BY <2>2, <4>1 DEF PartialSums
        <4> QED BY <4>1, <4>2, <2>4
      <3> QED BY <3>1, <3>2
    <2>7. PartialSums(f, q, n, ts, l + 1)
      BY <2>2, <2>4, <2>5, <2>6, <2>5a DEF PartialSums
    <2> QED BY <2>7
  <1>3. Nat \subseteq S
    <2> HIDE DEF S
    <2> QED BY <1>1, <1>2, Induct
  <1> QED BY <1>3

\* q and p begin with the same l packets.
Agree(q, p, l) == \A k \in 1 .. l : q[k] = p[k]

\* Partial sums over the same packets end in the same number.
LEMMA SumsUnique ==
  ASSUME NEW q, NEW p, NEW n, NEW ts, NEW l \in Nat, NEW f, NEW g,
         PartialSums(f, q, n, ts, l), PartialSums(g, p, n, ts, l),
         Agree(q, p, l)
  PROVE  f[l] = g[l]
  <1> DEFINE S == {k \in Nat : k <= l => f[k] = g[k]}
  <1>1. 0 \in S
    BY DEF PartialSums
  <1>2. ASSUME NEW k \in Nat, k \in S
        PROVE  k + 1 \in S
    <2>1. CASE k + 1 <= l
      <3>1. k + 1 \in 1 .. l /\ (k + 1) - 1 = k
        BY <2>1
      <3> DEFINE b == Bytes(q[k + 1], n, ts)
      <3>2. f[k + 1] = f[k] + b
        BY <3>1 DEF PartialSums
      <3>3. g[k + 1] = g[k] + b
        BY <3>1 DEF PartialSums, Agree
      <3> HIDE DEF b
      <3> QED BY <1>2, <2>1, <3>2, <3>3
    <2>2. CASE ~(k + 1 <= l)
      BY <2>2
    <2> QED BY <2>1, <2>2
  <1>3. Nat \subseteq S
    <2> HIDE DEF S
    <2> QED BY <1>1, <1>2, Induct
  <1> QED BY <1>3

\* InFlight is the last of the partial sums.
LEMMA InFlightSum ==
  ASSUME NEW q \in Seq(Msg), NEW n, NEW ts
  PROVE  \E f : PartialSums(f, q, n, ts, Len(q)) /\ InFlight(q, n, ts) = f[Len(q)]
  <1> DEFINE D(f) == [k \in 0 .. Len(q) |->
                        IF k = 0 THEN 0
                        ELSE f[k - 1] + IF q[k].inst = n /\ q[k].t \in ts
                                        THEN q[k].n ELSE 0]
             s == CHOOSE f : f = D(f)
  <1>1. PICK f : PartialSums(f, q, n, ts, Len(q))
    BY SumsExist
  <1>2. f = D(f)
    <2>1. f = [k \in 0 .. Len(q) |-> f[k]]
      BY <1>1 DEF PartialSums
    <2>2. \A k \in 0 .. Len(q) : f[k] = D(f)[k]
      BY <1>1 DEF PartialSums, Bytes
    <2> QED BY <2>1, <2>2
  <1>3. s = D(s)
    BY <1>2
  <1>4. InFlight(q, n, ts) = s[Len(q)]
    BY DEF InFlight
  <1> HIDE DEF s
  <1>5. s[0] = 0 /\ s = [k \in 0 .. Len(q) |-> s[k]]
    BY <1>3
  <1>6. \A k \in 1 .. Len(q) : s[k] = s[k - 1] + Bytes(q[k], n, ts)
    BY <1>3 DEF Bytes
  <1>7. \A k \in 0 .. Len(q) : s[k] \in Nat
    <2> DEFINE S == {k \in Nat : k <= Len(q) => s[k] \in Nat}
    <2>1. 0 \in S
      BY <1>5
    <2>2. ASSUME NEW k \in Nat, k \in S PROVE k + 1 \in S
      <3>1. CASE k + 1 <= Len(q)
        <4>1. s[k + 1] = s[k] + Bytes(q[k + 1], n, ts)
          BY <1>6, <3>1
        <4>2. Bytes(q[k + 1], n, ts) \in Nat
          BY <3>1, BytesNat
        <4> QED BY <2>2, <3>1, <4>1, <4>2
      <3> QED BY <3>1
    <2>3. Nat \subseteq S
      <3> HIDE DEF S
      <3> QED BY <2>1, <2>2, Induct
    <2> QED BY <2>3
  <1>8. PartialSums(s, q, n, ts, Len(q))
    BY <1>5, <1>6, <1>7 DEF PartialSums
  <1> QED BY <1>4, <1>8

\* InFlight is a natural number.
LEMMA InFlightNat ==
  ASSUME NEW q \in Seq(Msg), NEW n, NEW ts
  PROVE  InFlight(q, n, ts) \in Nat
  BY InFlightSum DEF PartialSums

\* Nothing is in flight in an empty queue.
LEMMA InFlightEmpty ==
  ASSUME NEW n, NEW ts
  PROVE  InFlight(<<>>, n, ts) = 0
  <1>1. <<>> \in Seq(Msg) /\ Len(<<>>) = 0
    OBVIOUS
  <1>2. PICK f : PartialSums(f, <<>>, n, ts, 0) /\ InFlight(<<>>, n, ts) = f[0]
    BY <1>1, InFlightSum
  <1> QED BY <1>2 DEF PartialSums

\* A packet that is sent adds its bytes.
LEMMA InFlightAppend ==
  ASSUME NEW q \in Seq(Msg), NEW m \in Msg, NEW n, NEW ts
  PROVE  InFlight(Append(q, m), n, ts) = InFlight(q, n, ts) + Bytes(m, n, ts)
  <1> DEFINE p == Append(q, m)
             l == Len(q)
  <1>1. p \in Seq(Msg) /\ Len(p) = l + 1 /\ l \in Nat /\ p[l + 1] = m
        /\ \A k \in 1 .. l : p[k] = q[k]
    OBVIOUS
  <1> HIDE DEF p
  <1>2. PICK f : PartialSums(f, q, n, ts, l) /\ InFlight(q, n, ts) = f[l]
    BY InFlightSum
  <1>3. PICK g : PartialSums(g, p, n, ts, l + 1) /\ InFlight(p, n, ts) = g[l + 1]
    BY <1>1, InFlightSum
  <1> DEFINE h == [k \in 0 .. l |-> g[k]]
  <1>4. PartialSums(h, p, n, ts, l)
    <2>1. h[0] = 0 /\ h = [k \in 0 .. l |-> h[k]]
      BY <1>1, <1>3 DEF PartialSums
    <2>2. \A k \in 1 .. l : h[k] = h[k - 1] + Bytes(p[k], n, ts)
      <3> TAKE k \in 1 .. l
      <3>1. k \in 1 .. l + 1 /\ k \in 0 .. l /\ k - 1 \in 0 .. l
        BY <1>1
      <3> QED BY <1>3, <3>1 DEF PartialSums
    <2>3. \A k \in 0 .. l : h[k] \in Nat
      BY <1>1, <1>3 DEF PartialSums
    <2> QED BY <2>1, <2>2, <2>3 DEF PartialSums
  <1>5. h[l] = f[l]
    <2> HIDE DEF h
    <2>1. Agree(p, q, l)
      BY <1>1 DEF Agree
    <2>2. l \in Nat
      BY <1>1
    <2>3. PartialSums(f, q, n, ts, l) /\ PartialSums(h, p, n, ts, l)
      BY <1>2, <1>4
    <2> HIDE DEF l
    <2> QED BY <2>1, <2>2, <2>3, SumsUnique
  <1>6. g[l] = f[l]
    BY <1>1, <1>5
  <1>7. g[l + 1] = g[l] + Bytes(p[l + 1], n, ts)
    <2>1. l + 1 \in 1 .. l + 1 /\ (l + 1) - 1 = l
      BY <1>1
    <2> QED BY <1>3, <2>1 DEF PartialSums
  <1> QED BY <1>1, <1>2, <1>3, <1>6, <1>7 DEF p

\* A packet that is consumed takes its bytes away.
LEMMA InFlightTail ==
  ASSUME NEW q \in Seq(Msg), q # <<>>, NEW n, NEW ts
  PROVE  InFlight(q, n, ts) = Bytes(Head(q), n, ts) + InFlight(Tail(q), n, ts)
  <1> DEFINE p == Tail(q)
             l == Len(p)
             b == Bytes(q[1], n, ts)
  <1>1. /\ p \in Seq(Msg) /\ l \in Nat /\ Len(q) = l + 1 /\ Head(q) = q[1]
        /\ \A k \in 1 .. l : p[k] = q[k + 1]
        /\ q[1] \in Msg
    OBVIOUS
  <1>1a. b \in Nat
    BY <1>1, BytesNat
  <1> HIDE DEF p
  <1>2. PICK f : PartialSums(f, p, n, ts, l) /\ InFlight(p, n, ts) = f[l]
    BY <1>1, InFlightSum
  <1>3. PICK g : PartialSums(g, q, n, ts, l + 1) /\ InFlight(q, n, ts) = g[l + 1]
    BY <1>1, InFlightSum
  <1>4. g[1] = b
    <2>1. 1 \in 1 .. l + 1 /\ 1 - 1 = 0
      BY <1>1
    <2>2. g[1] = g[0] + b /\ g[0] = 0
      BY <1>3, <2>1 DEF PartialSums
    <2> QED BY <1>1a, <2>2
  <1> HIDE DEF b
  <1> DEFINE S == {k \in Nat : k <= l => g[k + 1] = b + f[k]}
  <1>5. 0 \in S
    BY <1>2, <1>4, <1>1a DEF PartialSums
  <1>6. ASSUME NEW k \in Nat, k \in S
        PROVE  k + 1 \in S
    <2>1. CASE k + 1 <= l
      <3>1. k + 1 \in 1 .. l /\ k + 2 \in 1 .. l + 1 /\ k \in 0 .. l
            /\ (k + 2) - 1 = k + 1 /\ (k + 1) - 1 = k /\ (k + 1) + 1 = k + 2
        BY <1>1, <2>1
      <3> DEFINE d == Bytes(p[k + 1], n, ts)
      <3>2. f[k + 1] = f[k] + d /\ f[k] \in Nat
        BY <1>2, <3>1 DEF PartialSums
      <3>3. p[k + 1] = q[k + 2]
        BY <1>1, <3>1
      <3>4. g[k + 2] = g[k + 1] + d
        BY <1>3, <3>1, <3>3 DEF PartialSums
      <3>5. d \in Nat
        BY <1>1, <3>1, BytesNat
      <3> HIDE DEF d
      <3> QED BY <1>6, <1>1a, <2>1, <3>1, <3>2, <3>4, <3>5
    <2> QED BY <2>1
  <1>7. Nat \subseteq S
    <2> HIDE DEF S
    <2> QED BY <1>5, <1>6, Induct
  <1>8. g[l + 1] = b + f[l]
    BY <1>1, <1>7
  <1> QED BY <1>1, <1>2, <1>3, <1>8 DEF b, p

\* A queue that is not empty has a last packet.
LEMMA SplitLast ==
  ASSUME NEW s \in Seq(Msg), NEW l \in Nat, Len(s) = l + 1
  PROVE  \E r \in Seq(Msg), m \in Msg :
           /\ Len(r) = l /\ s = Append(r, m)
           /\ \A q \in Seq(Msg) : q \o s = Append(q \o r, m)
  <1> DEFINE r == SubSeq(s, 1, l)
             m == s[l + 1]
  <1>1. r \in Seq(Msg) /\ Len(r) = l /\ m \in Msg
        /\ \A k \in 1 .. l : r[k] = s[k]
    OBVIOUS
  <1> HIDE DEF r
  <1>2. s = Append(r, m)
    BY <1>1
  <1> HIDE DEF m
  <1>3. \A q \in Seq(Msg) : q \o s = Append(q \o r, m)
    <2> TAKE q \in Seq(Msg)
    <2>1. q \o Append(r, m) = Append(q \o r, m)
      BY <1>1
    <2> QED BY <1>2, <2>1
  <1> QED BY <1>1, <1>2, <1>3

\* Packets that are sent together add their bytes.
LEMMA InFlightConcat ==
  ASSUME NEW q \in Seq(Msg), NEW s \in Seq(Msg), NEW n, NEW ts
  PROVE  InFlight(q \o s, n, ts) = InFlight(q, n, ts) + InFlight(s, n, ts)
  <1> DEFINE P(x) == InFlight(q \o x, n, ts) = InFlight(q, n, ts) + InFlight(x, n, ts)
             S == {l \in Nat : \A x \in Seq(Msg) : Len(x) = l => P(x)}
  <1>1. 0 \in S
    <2> SUFFICES ASSUME NEW x \in Seq(Msg), Len(x) = 0 PROVE P(x)
      OBVIOUS
    <2>1. x = <<>> /\ q \o x = q
      OBVIOUS
    <2> QED BY <2>1, InFlightEmpty, InFlightNat
  <1>2. ASSUME NEW l \in Nat, l \in S
        PROVE  l + 1 \in S
    <2> SUFFICES ASSUME NEW x \in Seq(Msg), Len(x) = l + 1 PROVE P(x)
      OBVIOUS
    <2>1. PICK r \in Seq(Msg), m \in Msg :
             Len(r) = l /\ x = Append(r, m) /\ q \o x = Append(q \o r, m)
      BY SplitLast, ZenonT(60)
    <2>2. P(r)
      BY <1>2, <2>1
    <2>3. q \o r \in Seq(Msg)
      BY <2>1
    <2>4. InFlight(q \o x, n, ts) = InFlight(q \o r, n, ts) + Bytes(m, n, ts)
      <3> DEFINE y == q \o r
      <3>1. y \in Seq(Msg) /\ q \o x = Append(y, m)
        BY <2>1, <2>3
      <3> HIDE DEF y
      <3>2. InFlight(Append(y, m), n, ts) = InFlight(y, n, ts) + Bytes(m, n, ts)
        BY <3>1, InFlightAppend
      <3> QED BY <3>1, <3>2 DEF y
    <2>5. InFlight(x, n, ts) = InFlight(r, n, ts) + Bytes(m, n, ts)
      BY <2>1, InFlightAppend
    <2>6. InFlight(q, n, ts) \in Nat /\ InFlight(r, n, ts) \in Nat /\ Bytes(m, n, ts) \in Nat
      BY InFlightNat, BytesNat
    <2> QED BY <2>2, <2>4, <2>5, <2>6
  <1>3. Nat \subseteq S
    <2> HIDE DEF S
    <2> QED BY <1>1, <1>2, Induct
  <1>4. Len(s) \in Nat
    OBVIOUS
  <1> QED BY <1>3, <1>4

----------------------------------------------------------------------------
(* What one handler does to its channel and says about it on the wire.     *)

\* Types of a channel whose peer is known to have accepted it.
Est == {"larval", "open", "abandoned"}

\* Packets that belong to the exchange of one channel; a keepalive and its
\* reply may meet a successor in the same slot.
Real == MsgType \ {"KEEPALIVE", "REPLY"}

\* Packets that may not follow an EOF.
Carrying == {"DATA", "EXTDATA", "EOF"}

\* May a packet of type b follow one of type a of the same channel?
MayFollow(a, b) ==
  /\ a = "CLOSE" => b = "KEEPALIVE"
  /\ a = "EOF" => b \notin Carrying
  /\ a = "OPENFAIL" => b \notin Real
  /\ b \in {"CONFIRM", "OPENFAIL", "OPEN"} => a = "REPLY"

\* Of the packets of one channel none comes after one it may not follow.
Ordered(q) ==
  \A k, l \in 1 .. Len(q) :
    k < l /\ q[k].inst = q[l].inst => MayFollow(q[k].t, q[l].t)

\* A channel of which neither half has begun to close.
Fresh(c) == c.flags = {} /\ c.istate = "open" /\ c.ostate = "open"

\* The receiver still writes what it gets, so that every byte is accounted for.
Accounted(c) == c.ostate = "open" /\ (c.extended_usage = "write" => c.efd)

\* All that was read has been sent when EOF goes out.
EofDrained(c) == "EOF_SENT" \in c.flags /\ c.type # "abandoned" => c.input = 0

\* What holds of the counters of one channel between two steps.
LocalOK(c) ==
  /\ Accounted(c) =>
       c.local_window + c.output + c.local_consumed
         + (IF c.extended_usage = "write" THEN c.extended ELSE 0)
         = c.local_window_max
  /\ c.type = "larval" =>
       /\ c.local_window_max = 0 /\ c.local_window = 0
       /\ c.output = 0 /\ c.local_consumed = 0
       /\ c.extended_usage # "write" /\ c.ctype = "session"
  /\ c.ostate = "closed" => c.output = 0
  /\ c.ostate # "open" /\ ~c.wfail =>
       c.flags \cap {"EOF_RCVD", "CLOSE_RCVD"} # {}
  /\ c.extended_usage = "read" => c.ctype = "session"
  /\ c.type \in {"free", "opening", "connecting", "zombie"} => Fresh(c)
  /\ c.type = "abandoned" => c.ostate = "closed"
  /\ c.type \in {"opening", "connecting"} =>
       /\ c.input = 0 /\ c.output = 0 /\ c.taken = 0 /\ c.got = 0 /\ ~c.wfail
       /\ c.local_window = Window
  /\ c.type = "opening" => c.remote_window = 0
  /\ c.type \in {"free", "opening"} => c.remote_id = NoId
  /\ c.type \in Est \cup {"connecting"} => c.remote_id # NoId

\* How the channel c0 may have changed to c inside a handler.
Kin(c0, c) ==
  /\ c.inst = c0.inst /\ c.remote_id = c0.remote_id /\ c.ctype = c0.ctype
  /\ c0.flags \subseteq c.flags
  /\ c.flags \cap {"EOF_RCVD", "CLOSE_RCVD"} \subseteq c0.flags
  /\ IF c0.type \in Est THEN c.type \in Est ELSE c.type = c0.type
  /\ c0.type = "abandoned" => c.type = "abandoned"
  /\ c.extended_usage = "write" <=> c0.extended_usage = "write"
  /\ c0.wfail => c.wfail
  /\ Accounted(c) => Accounted(c0)

\* A packet m sent on the way from c0 to c.
Speaks(c0, c, m) ==
  /\ m.inst = c0.inst /\ m.id = c0.remote_id /\ m.ctype = c0.ctype
  /\ m.t \notin {"OPEN", "CONFIRM", "OPENFAIL", "KEEPALIVE"}
  /\ "CLOSE_SENT" \notin c0.flags
  /\ m.t \in Carrying => "EOF_SENT" \notin c0.flags
  /\ m.t # "REPLY" => c0.type \in Est
  /\ m.t = "CLOSE" => "CLOSE_SENT" \in c.flags
  /\ m.t = "EOF" => "EOF_SENT" \in c.flags
  /\ m.t \in {"DATA", "EXTDATA"} => m.n <= MaxPacket
  /\ m.t = "EXTDATA" => c0.extended_usage # "write" /\ c0.ctype = "session"

\* The packets tx sent on the way from c0 to c.
Told(c0, c, tx) ==
  Ordered(tx) /\ \A k \in 1 .. Len(tx) : Speaks(c0, c, tx[k])

\* Windows and bytes: what left c0 is in tx.  cut: channel_force_close has
\* thrown away what was still to be sent.
Tally(c0, c, tx, cut) ==
  /\ c.remote_window + InFlight(tx, c0.inst, {"DATA", "EXTDATA"})
       = c0.remote_window
  /\ c.local_window = c0.local_window + InFlight(tx, c0.inst, {"ADJUST", "CONFIRM"})
  /\ \/ cut \/ c.type = "abandoned"
     \/ c.taken + c0.input = c0.taken + c.input + InFlight(tx, c0.inst, {"DATA"})
  /\ c.wfail \/ c.output + c.got = c0.output + c0.got
  /\ EofDrained(c0) =>
       \/ EofDrained(c)
       \/ "CLOSE_RCVD" \in c.flags /\ c0.flags \cap {"EOF_SENT", "CLOSE_SENT"} = {}

\* The work records a handler that began with c0 can be in.
Sound(c0, cut) ==
  {w \in Good : /\ w.err = "none" /\ LocalOK(w.c) /\ Kin(c0, w.c)
                /\ Told(c0, w.c, w.tx) /\ Tally(c0, w.c, w.tx, cut)}

\* A handler begins with nothing sent and nothing changed.
LEMMA BeginSound ==
  ASSUME NEW c \in Channel, ShutFirst(c), StaysAttached(c), LocalOK(c)
  PROVE  /\ Begin(c) \in Sound(c, FALSE)
         /\ Begin(c).c = c /\ Begin(c).tx = <<>> /\ Begin(c).err = "none"
  <1>1. Begin(c) \in Good /\ Begin(c).c = c /\ Begin(c).tx = <<>> /\ Begin(c).err = "none"
    BY BeginGood DEF Begin
  <1>2. /\ c.remote_window \in Nat /\ c.local_window \in Nat /\ c.taken \in Nat
        /\ c.input \in Nat /\ c.output \in Nat /\ c.got \in Nat
        /\ c.flags \in SUBSET ChanFlag
    BY DEF Channel
  <1>3. Told(c, c, <<>>)
    BY DEF Told, Ordered
  <1>4. Tally(c, c, <<>>, FALSE)
    BY <1>2, InFlightEmpty DEF Tally
  <1>5. Kin(c, c)
    BY DEF Kin
  <1> QED BY <1>1, <1>3, <1>4, <1>5 DEF Sound

\* A step that sends nothing.
LEMMA QuietSound ==
  ASSUME NEW c0, NEW cut, NEW w \in Sound(c0, cut), NEW v \in Good,
         v.tx = w.tx, v.err = w.err,
         w.c.flags \subseteq v.c.flags,
         LocalOK(v.c), Kin(c0, v.c), Tally(c0, v.c, w.tx, cut)
  PROVE  v \in Sound(c0, cut)
  <1>1. Told(c0, v.c, v.tx)
    BY DEF Sound, Told, Speaks
  <1> QED BY <1>1 DEF Sound

\* An update of a field that no handler's account looks at.
Wire(c) == <<c.type, c.ctype, c.ostate, c.flags, c.remote_id, c.input, c.output,
             c.extended, c.efd, c.extended_usage, c.local_window,
             c.local_window_max, c.local_consumed, c.remote_window, c.inst,
             c.taken, c.got, c.wfail>>

\* What the peer cannot see may change freely.
LEMMA SameWire ==
  ASSUME NEW c0, NEW cut, NEW w \in Sound(c0, cut), NEW v \in Good,
         v.tx = w.tx, v.err = w.err,
         Wire(v.c) = Wire(w.c), v.c.istate = w.c.istate \/ w.c.type \in Est
  PROVE  v \in Sound(c0, cut)
  <1>0. w \in Good /\ LocalOK(w.c) /\ Kin(c0, w.c) /\ Told(c0, w.c, w.tx)
        /\ Tally(c0, w.c, w.tx, cut)
    BY DEF Sound
  <1>1. LocalOK(v.c)
    BY <1>0 DEF Wire, LocalOK, Fresh, Accounted, Est
  <1>2. Kin(c0, v.c)
    BY <1>0 DEF Wire, Kin, Accounted
  <1>3. Tally(c0, v.c, w.tx, cut)
    BY <1>0 DEF Wire, Tally, EofDrained
  <1> QED BY <1>1, <1>2, <1>3, QuietSound DEF Wire

\* Sending either fails for want of the peer's number or appends one packet.
LEMMA SendTx ==
  ASSUME NEW w \in Work, NEW t \in MsgType, NEW n \in Nat, w.c.remote_id # NoId
  PROVE  \E m \in Msg :
           /\ Send(w, t, n).tx = Append(w.tx, m)
           /\ Send(w, t, n).c = w.c /\ Send(w, t, n).err = w.err
           /\ m.t = t /\ m.n = n /\ m.id = w.c.remote_id
           /\ m.inst = w.c.inst /\ m.ctype = w.c.ctype
  <1> DEFINE m == [t |-> t, id |-> w.c.remote_id, self |-> NoId, n |-> n,
                   ctype |-> w.c.ctype, inst |-> w.c.inst]
  <1>1. w.c \in Channel /\ w.tx \in Seq(Msg)
    BY DEF Work
  <1>2. m \in Msg
    BY <1>1 DEF Channel, Msg
  <1>3. Send(w, t, n) = [w EXCEPT !.tx = Append(w.tx, m)]
    BY DEF Send, SendFrom
  <1>4. /\ Send(w, t, n).tx = Append(w.tx, m)
        /\ Send(w, t, n).c = w.c /\ Send(w, t, n).err = w.err
    BY <1>3 DEF Work
  <1>5. /\ m.t = t /\ m.n = n /\ m.id = w.c.remote_id
        /\ m.inst = w.c.inst /\ m.ctype = w.c.ctype
    OBVIOUS
  <1> HIDE DEF m
  <1> QED BY <1>2, <1>4, <1>5

\* A packet more keeps the order and the account of what was said.
LEMMA ToldMore ==
  ASSUME NEW c0, NEW c, NEW c1, NEW tx \in Seq(Msg), Told(c0, c, tx), NEW m \in Msg,
         c.flags \subseteq c1.flags, Speaks(c0, c1, m),
         "CLOSE_SENT" \notin c.flags,
         m.t \in Carrying => "EOF_SENT" \notin c.flags
  PROVE  Told(c0, c1, Append(tx, m))
  <1> DEFINE q == Append(tx, m)
  <1>1. /\ q \in Seq(Msg) /\ Len(q) = Len(tx) + 1 /\ Len(tx) \in Nat
        /\ q[Len(tx) + 1] = m
        /\ \A k \in 1 .. Len(tx) : q[k] = tx[k]
    OBVIOUS
  <1> HIDE DEF q
  <1>2. ASSUME NEW k \in 1 .. Len(q)
        PROVE  Speaks(c0, c1, q[k])
    <2>1. CASE k = Len(tx) + 1
      BY <1>1, <2>1
    <2>2. CASE k # Len(tx) + 1
      <3>1. k \in 1 .. Len(tx)
        BY <1>1, <2>2
      <3>2. Speaks(c0, c, q[k])
        BY <1>1, <3>1 DEF Told
      <3> QED BY <3>2 DEF Speaks
    <2> QED BY <2>1, <2>2
  <1>3. ASSUME NEW k \in 1 .. Len(q), NEW l \in 1 .. Len(q), k < l,
               q[k].inst = q[l].inst
        PROVE  MayFollow(q[k].t, q[l].t)
    <2>0. k \in 1 .. Len(tx) /\ q[k] = tx[k]
      BY <1>1, <1>3
    <2>1. CASE l = Len(tx) + 1
      <3>1. q[l] = m
        BY <1>1, <2>1
      <3>2. Speaks(c0, c, tx[k])
        BY <2>0 DEF Told
      <3> QED BY <2>0, <3>1, <3>2 DEF Speaks, MayFollow
    <2>2. CASE l # Len(tx) + 1
      <3>1. l \in 1 .. Len(tx) /\ q[l] = tx[l]
        BY <1>1, <2>2
      <3> QED BY <1>3, <2>0, <3>1 DEF Told, Ordered
    <2> QED BY <2>1, <2>2
  <1>4. Ordered(q)
    BY <1>3 DEF Ordered
  <1> QED BY <1>2, <1>4 DEF Told, q

\* Packets that carry neither bytes nor credit.
LEMMA PlainSound ==
  ASSUME NEW c0, NEW cut, NEW w \in Sound(c0, cut), NEW t \in {"EOW", "EXIT", "EXEC", "REPLY"},
         "CLOSE_SENT" \notin w.c.flags, w.c.remote_id # NoId,
         t # "REPLY" => w.c.type \in Est
  PROVE  Send(w, t, 0) \in Sound(c0, cut) /\ Send(w, t, 0).c = w.c
  <1>0. w \in Good /\ w.err = "none" /\ LocalOK(w.c) /\ Kin(c0, w.c)
        /\ Told(c0, w.c, w.tx) /\ Tally(c0, w.c, w.tx, cut)
    BY DEF Sound
  <1>1. w \in Work /\ w.tx \in Seq(Msg) /\ t \in MsgType
    BY <1>0, GoodParts DEF MsgType
  <1>2. PICK m \in Msg :
           /\ Send(w, t, 0).tx = Append(w.tx, m)
           /\ Send(w, t, 0).c = w.c /\ Send(w, t, 0).err = w.err
           /\ m.t = t /\ m.n = 0 /\ m.id = w.c.remote_id
           /\ m.inst = w.c.inst /\ m.ctype = w.c.ctype
    BY <1>1, SendTx
  <1>3. Speaks(c0, w.c, m)
    BY <1>0, <1>2 DEF Speaks, Kin, Est, Carrying
  <1>4. Told(c0, w.c, Append(w.tx, m))
    BY <1>0, <1>1, <1>2, <1>3, ToldMore DEF Carrying
  <1>5. /\ InFlight(Append(w.tx, m), c0.inst, {"DATA", "EXTDATA"})
             = InFlight(w.tx, c0.inst, {"DATA", "EXTDATA"})
        /\ InFlight(Append(w.tx, m), c0.inst, {"ADJUST", "CONFIRM"})
             = InFlight(w.tx, c0.inst, {"ADJUST", "CONFIRM"})
        /\ InFlight(Append(w.tx, m), c0.inst, {"DATA"})
             = InFlight(w.tx, c0.inst, {"DATA"})
    BY <1>1, <1>2, InFlightAppend, InFlightNat DEF Bytes
  <1>6. Tally(c0, w.c, Append(w.tx, m), cut)
    BY <1>0, <1>5 DEF Tally
  <1>7. Send(w, t, 0) \in Good
    BY <1>0, <1>1, SendGood
  <1> QED BY <1>0, <1>2, <1>4, <1>6, <1>7 DEF Sound

\* What membership in Sound gives.
LEMMA SoundParts ==
  ASSUME NEW c0, NEW cut, NEW w \in Sound(c0, cut)
  PROVE  /\ w \in Good /\ w \in Work /\ w.c \in Channel /\ w.tx \in Seq(Msg)
         /\ ShutFirst(w.c) /\ StaysAttached(w.c)
         /\ w.err = "none" /\ LocalOK(w.c) /\ Kin(c0, w.c)
         /\ Told(c0, w.c, w.tx) /\ Tally(c0, w.c, w.tx, cut)
  BY GoodParts DEF Sound

\* chan_set_istate is no part of the account.
LEMMA IstateSound ==
  ASSUME NEW c0, NEW cut, NEW w \in Sound(c0, cut), NEW h, Set_istate(w, h) \in Good,
         w.c.type \in Est
  PROVE  Set_istate(w, h) \in Sound(c0, cut)
  <1>1. w \in Work
    BY SoundParts
  <1> DEFINE v == Set_istate(w, h)
  <1>2. Wire(v.c) = Wire(w.c) /\ v.tx = w.tx /\ v.err = w.err
    BY <1>1 DEF Set_istate, Work, Channel, Wire
  <1> HIDE DEF v
  <1>3. v \in Good
    BY DEF v
  <1> QED BY <1>2, <1>3, SameWire DEF v

\* chan_read_failed.
LEMMA ReadFailedSound ==
  ASSUME NEW c0, NEW cut, NEW w \in Sound(c0, cut), w.c.type \in Est
  PROVE  chan_read_failed(w) \in Sound(c0, cut)
  <1>1. chan_read_failed(w) \in Good
    BY SoundParts, ReadFailedGood
  <1>2. CASE w.c.istate = "open"
    <2>1. chan_read_failed(w) = Set_istate(w, "drain")
      BY <1>2 DEF chan_read_failed, chan_shutdown_read
    <2> QED BY <1>1, <2>1, IstateSound
  <1> QED BY <1>2 DEF chan_read_failed

\* EOF: its flag and the closed input half go with it.
LEMMA EofSound ==
  ASSUME NEW c0, NEW cut, NEW w \in Sound(c0, cut), w.c.type \in Est, w.c.istate = "drain",
         w.c.input = 0 \/ "CLOSE_RCVD" \in w.c.flags
  PROVE  /\ Set_istate(chan_send_eof2(w), "closed") \in Sound(c0, cut)
         /\ Set_istate(chan_send_eof2(w), "closed").c.flags = w.c.flags \cup {"EOF_SENT"}
  <1> DEFINE s == Send(w, "EOF", 0)
             f == Set_flag(s, "EOF_SENT")
             g == Set_istate(f, "closed")
  <1>0. /\ w \in Good /\ w \in Work /\ w.c \in Channel /\ w.tx \in Seq(Msg)
        /\ ShutFirst(w.c)
        /\ w.err = "none" /\ LocalOK(w.c) /\ Kin(c0, w.c)
        /\ Told(c0, w.c, w.tx) /\ Tally(c0, w.c, w.tx, cut)
    BY SoundParts
  <1>1. w.c.remote_id # NoId /\ "EOF" \in MsgType
    BY <1>0 DEF LocalOK, MsgType
  <1>2. PICK m \in Msg :
           /\ s.tx = Append(w.tx, m) /\ s.c = w.c /\ s.err = w.err
           /\ m.t = "EOF" /\ m.n = 0 /\ m.id = w.c.remote_id
           /\ m.inst = w.c.inst /\ m.ctype = w.c.ctype
    BY <1>0, <1>1, SendTx
  <1>3. s \in Work
    BY <1>0, SendWork DEF MsgType
  <1>4. g \in Good
    <2>1. chan_send_eof2(w) \in Closing
      BY <1>0, GoodIsClosing, SendEofClosing
    <2>2. chan_send_eof2(w) = f
      BY DEF chan_send_eof2
    <2> QED BY <2>1, <2>2, CloseInput
  <1>4a. Set_istate(chan_send_eof2(w), "closed") = g
    BY DEF chan_send_eof2
  <1> HIDE DEF s
  <1>5. f \in Work /\ f.c = [w.c EXCEPT !.flags = w.c.flags \cup {"EOF_SENT"}]
        /\ f.tx = s.tx /\ f.err = s.err
    BY <1>2, <1>3, SetAnyFlag DEF Set_flag, Work, ChanFlag
  <1> HIDE DEF f
  <1>6. g.c = [f.c EXCEPT !.istate = "closed"] /\ g.tx = s.tx /\ g.err = s.err
    BY <1>5 DEF Set_istate, Work
  <1> HIDE DEF g
  <1>7. /\ g.c.flags = w.c.flags \cup {"EOF_SENT"} /\ g.c.type = w.c.type
        /\ g.c.ctype = w.c.ctype /\ g.c.ostate = w.c.ostate
        /\ g.c.remote_id = w.c.remote_id /\ g.c.inst = w.c.inst
        /\ g.c.input = w.c.input /\ g.c.output = w.c.output
        /\ g.c.extended = w.c.extended /\ g.c.efd = w.c.efd
        /\ g.c.extended_usage = w.c.extended_usage
        /\ g.c.local_window = w.c.local_window
        /\ g.c.local_window_max = w.c.local_window_max
        /\ g.c.local_consumed = w.c.local_consumed
        /\ g.c.remote_window = w.c.remote_window
        /\ g.c.taken = w.c.taken /\ g.c.got = w.c.got /\ g.c.wfail = w.c.wfail
    BY <1>0, <1>5, <1>6 DEF Channel
  <1>8. "EOF_SENT" \notin w.c.flags /\ "CLOSE_SENT" \notin w.c.flags
    BY <1>0 DEF ShutFirst
  <1>9. LocalOK(g.c)
    BY <1>0, <1>7 DEF LocalOK, Accounted, Fresh, Est
  <1>10. Kin(c0, g.c)
    BY <1>0, <1>7 DEF Kin, Accounted
  <1>11. Speaks(c0, g.c, m)
    BY <1>0, <1>2, <1>7, <1>8 DEF Speaks, Kin, Est, Carrying
  <1>12. Told(c0, g.c, g.tx)
    <2>1. w.c.flags \subseteq g.c.flags
      BY <1>7
    <2>2. m.t \in Carrying => "EOF_SENT" \notin w.c.flags
      BY <1>8
    <2>3. Told(c0, g.c, Append(w.tx, m))
      BY <1>0, <1>8, <1>11, <2>1, <2>2, ToldMore
    <2> QED BY <1>2, <1>6, <2>3
  <1>13. /\ InFlight(g.tx, c0.inst, {"DATA", "EXTDATA"})
             = InFlight(w.tx, c0.inst, {"DATA", "EXTDATA"})
         /\ InFlight(g.tx, c0.inst, {"ADJUST", "CONFIRM"})
             = InFlight(w.tx, c0.inst, {"ADJUST", "CONFIRM"})
         /\ InFlight(g.tx, c0.inst, {"DATA"}) = InFlight(w.tx, c0.inst, {"DATA"})
    BY <1>0, <1>2, <1>6, InFlightAppend, InFlightNat DEF Bytes
  <1>14. Tally(c0, g.c, g.tx, cut)
    BY <1>0, <1>7, <1>8, <1>13 DEF Tally, EofDrained, Kin
  <1>15. g \in Sound(c0, cut)
    BY <1>0, <1>2, <1>4, <1>6, <1>9, <1>10, <1>12, <1>14 DEF Sound
  <1> QED BY <1>4a, <1>7, <1>15

\* chan_ibuf_empty.
LEMMA IbufEmptySound ==
  ASSUME NEW c0, NEW cut, NEW w \in Sound(c0, cut), w.c.type \in Est
  PROVE  /\ chan_ibuf_empty(w) \in Sound(c0, cut)
         /\ chan_ibuf_empty(w).c.flags \subseteq w.c.flags \cup {"EOF_SENT"}
  <1>0. w \in Good /\ ShutFirst(w.c) /\ w.c \in Channel
    BY SoundParts
  <1>1. CASE w.c.input > 0 \/ w.c.istate # "drain"
    BY <1>1 DEF chan_ibuf_empty
  <1>2. CASE ~(w.c.input > 0 \/ w.c.istate # "drain")
    <2>1. "CLOSE_SENT" \notin w.c.flags /\ w.c.input = 0
      BY <1>0, <1>2 DEF ShutFirst, Channel
    <2>2. chan_ibuf_empty(w) = Set_istate(chan_send_eof2(w), "closed")
      BY <1>2, <2>1 DEF chan_ibuf_empty
    <2> QED BY <1>2, <2>1, <2>2, EofSound
  <1> QED BY <1>1, <1>2

\* chan_set_ostate, when the half drains or closes for a reason.
LEMMA OstateSound ==
  ASSUME NEW c0, NEW cut, NEW w \in Sound(c0, cut), NEW h \in {"drain", "closed"},
         Set_ostate(w, h) \in Good, w.c.type \in Est,
         h = "closed" => w.c.output = 0, w.c.type = "abandoned" => h = "closed",
         w.c.wfail \/ w.c.flags \cap {"EOF_RCVD", "CLOSE_RCVD"} # {}
  PROVE  Set_ostate(w, h) \in Sound(c0, cut)
  <1> DEFINE v == Set_ostate(w, h)
  <1>0. /\ w \in Good /\ w \in Work /\ w.c \in Channel
        /\ LocalOK(w.c) /\ Kin(c0, w.c) /\ Tally(c0, w.c, w.tx, cut)
    BY SoundParts
  <1>1. v.c = [w.c EXCEPT !.ostate = h] /\ v.tx = w.tx /\ v.err = w.err
    BY <1>0 DEF Set_ostate, Work
  <1>1a. v \in Good
    OBVIOUS
  <1> HIDE DEF v
  <1>2. /\ v.c.ostate = h /\ v.c.flags = w.c.flags /\ v.c.type = w.c.type
        /\ v.c.ctype = w.c.ctype
        /\ v.c.remote_id = w.c.remote_id /\ v.c.inst = w.c.inst
        /\ v.c.input = w.c.input /\ v.c.output = w.c.output
        /\ v.c.extended_usage = w.c.extended_usage
        /\ v.c.local_window = w.c.local_window
        /\ v.c.local_window_max = w.c.local_window_max
        /\ v.c.local_consumed = w.c.local_consumed
        /\ v.c.remote_window = w.c.remote_window
        /\ v.c.taken = w.c.taken /\ v.c.got = w.c.got /\ v.c.wfail = w.c.wfail
    BY <1>0, <1>1 DEF Channel
  <1>3. LocalOK(v.c)
    BY <1>0, <1>2 DEF LocalOK, Accounted, Fresh, Est
  <1>4. Kin(c0, v.c)
    BY <1>0, <1>2 DEF Kin, Accounted
  <1>5. Tally(c0, v.c, w.tx, cut)
    BY <1>0, <1>2 DEF Tally, EofDrained
  <1> QED BY <1>1, <1>1a, <1>2, <1>3, <1>4, <1>5, QuietSound DEF v

\* chan_obuf_empty.
LEMMA ObufEmptySound ==
  ASSUME NEW c0, NEW cut, NEW w \in Sound(c0, cut), w.c.type \in Est
  PROVE  chan_obuf_empty(w) \in Sound(c0, cut)
  <1>0. /\ w \in Good /\ w \in Work /\ w.c \in Channel /\ LocalOK(w.c)
    BY SoundParts
  <1>1. CASE w.c.output > 0 \/ w.c.ostate # "drain"
    BY <1>1 DEF chan_obuf_empty
  <1>2. CASE ~(w.c.output > 0 \/ w.c.ostate # "drain")
    <2>1. w.c.output = 0
      BY <1>0, <1>2 DEF Channel
    <2>2. chan_shutdown_write(w) = w
      BY <1>0, <2>1 DEF chan_shutdown_write, Work, Channel
    <2>3. chan_obuf_empty(w) = Set_ostate(w, "closed")
      BY <1>2, <2>2 DEF chan_obuf_empty
    <2>4. Set_ostate(w, "closed") \in Good
      BY <1>0, <2>3, ObufEmptyGood
    <2>5. w.c.wfail \/ w.c.flags \cap {"EOF_RCVD", "CLOSE_RCVD"} # {}
      BY <1>0, <1>2 DEF LocalOK
    <2> QED BY <2>1, <2>3, <2>4, <2>5, OstateSound
  <1> QED BY <1>1, <1>2

\* A step that sends one packet.
LEMMA SpokenSound ==
  ASSUME NEW c0, NEW cut, NEW w \in Sound(c0, cut), NEW v \in Good, NEW m \in Msg,
         v.tx = Append(w.tx, m), v.err = w.err,
         w.c.flags \subseteq v.c.flags, "CLOSE_SENT" \notin w.c.flags,
         m.t \in Carrying => "EOF_SENT" \notin w.c.flags,
         Speaks(c0, v.c, m), LocalOK(v.c), Kin(c0, v.c), Tally(c0, v.c, v.tx, cut)
  PROVE  v \in Sound(c0, cut)
  <1>1. w.tx \in Seq(Msg) /\ Told(c0, w.c, w.tx) /\ w.err = "none"
    BY SoundParts
  <1>2. Told(c0, v.c, Append(w.tx, m))
    BY <1>1, ToldMore
  <1> QED BY <1>1, <1>2 DEF Sound

\* Closing the extended descriptor only ends the account.
LEMMA EfdSound ==
  ASSUME NEW c0, NEW cut, NEW w \in Sound(c0, cut), NEW v \in Good,
         v.tx = w.tx, v.err = w.err, v.c = [w.c EXCEPT !.efd = FALSE]
  PROVE  v \in Sound(c0, cut)
  <1>0. /\ w.c \in Channel /\ LocalOK(w.c) /\ Kin(c0, w.c)
        /\ Tally(c0, w.c, w.tx, cut)
    BY SoundParts
  <1>1. /\ v.c.flags = w.c.flags /\ v.c.type = w.c.type /\ v.c.istate = w.c.istate
        /\ v.c.ctype = w.c.ctype /\ v.c.ostate = w.c.ostate /\ v.c.efd = FALSE
        /\ v.c.remote_id = w.c.remote_id /\ v.c.inst = w.c.inst
        /\ v.c.input = w.c.input /\ v.c.output = w.c.output
        /\ v.c.extended = w.c.extended
        /\ v.c.extended_usage = w.c.extended_usage
        /\ v.c.local_window = w.c.local_window
        /\ v.c.local_window_max = w.c.local_window_max
        /\ v.c.local_consumed = w.c.local_consumed
        /\ v.c.remote_window = w.c.remote_window
        /\ v.c.taken = w.c.taken /\ v.c.got = w.c.got /\ v.c.wfail = w.c.wfail
    BY <1>0 DEF Channel
  <1>2. LocalOK(v.c)
    BY <1>0, <1>1 DEF LocalOK, Accounted, Fresh
  <1>3. Kin(c0, v.c)
    BY <1>0, <1>1 DEF Kin, Accounted
  <1>4. Tally(c0, v.c, w.tx, cut)
    BY <1>0, <1>1 DEF Tally, EofDrained
  <1> QED BY <1>1, <1>2, <1>3, <1>4, QuietSound

\* The effect of chan_write_failed on an output half that is not closed.
LEMMA WriteFailedIs ==
  ASSUME NEW w \in Good, w.c.ostate # "closed", w.c.remote_id # NoId
  PROVE  /\ chan_write_failed(w).tx =
              IF w.c.ctype = "session" THEN Send(w, "EOW", 0).tx ELSE w.tx
         /\ chan_write_failed(w).err = w.err
         /\ chan_write_failed(w).c =
              [w.c EXCEPT !.output = 0, !.ostate = "closed", !.wfail = TRUE]
  <1> DEFINE s == chan_shutdown_write(w)
             t == IF w.c.ctype = "session" THEN chan_send_eow2(s) ELSE s
             o == Set_ostate(t, "closed")
             f == [o EXCEPT !.c.wfail = TRUE]
  <1>0. w \in Work /\ w.c \in Channel
    BY GoodParts
  <1>1. /\ s \in Work /\ s.c = [w.c EXCEPT !.output = 0] /\ s.tx = w.tx /\ s.err = w.err
    BY <1>0, ShutdownWriteGood DEF chan_shutdown_write, Good, Work
  <1> HIDE DEF s
  <1>2. /\ s.c.ostate = w.c.ostate /\ s.c.remote_id = w.c.remote_id
        /\ s.c.ctype = w.c.ctype /\ s.c.inst = w.c.inst
    BY <1>0, <1>1 DEF Channel
  <1>3. /\ t \in Work /\ t.c = s.c /\ t.err = w.err
        /\ t.tx = IF w.c.ctype = "session" THEN Send(w, "EOW", 0).tx ELSE w.tx
    <2>1. Send(s, "EOW", 0) \in Work /\ Send(s, "EOW", 0).c = s.c
      BY <1>1, SendWork DEF MsgType
    <2>2. Send(s, "EOW", 0).tx = Send(w, "EOW", 0).tx /\ Send(s, "EOW", 0).err = s.err
      BY <1>0, <1>1, <1>2 DEF Send, SendFrom, Work
    <2>3. chan_send_eow2(s) = Send(s, "EOW", 0)
      BY <1>2 DEF chan_send_eow2
    <2> HIDE DEF t
    <2>4. t = IF w.c.ctype = "session" THEN Send(s, "EOW", 0) ELSE s
      BY <2>3 DEF t
    <2> QED BY <1>1, <2>1, <2>2, <2>4
  <1> HIDE DEF t
  <1>4. /\ o \in Work /\ o.c = [t.c EXCEPT !.ostate = "closed"] /\ o.tx = t.tx
        /\ o.err = t.err
    BY <1>3 DEF Set_ostate, Work, Channel, HalfState
  <1> HIDE DEF o
  <1>5. f.c = [o.c EXCEPT !.wfail = TRUE] /\ f.tx = o.tx /\ f.err = o.err
    BY <1>4 DEF Work
  <1> HIDE DEF f
  <1>6. chan_write_failed(w) = f
    BY DEF chan_write_failed, f, o, t, s
  <1>7. f.c = [w.c EXCEPT !.output = 0, !.ostate = "closed", !.wfail = TRUE]
    BY <1>0, <1>1, <1>3, <1>4, <1>5 DEF Channel
  <1> QED BY <1>3, <1>4, <1>5, <1>6, <1>7

\* chan_write_failed.
LEMMA WriteFailedSound ==
  ASSUME NEW c0, NEW cut, NEW w \in Sound(c0, cut), w.c.type \in Est
  PROVE  /\ chan_write_failed(w) \in Sound(c0, cut)
         /\ chan_write_failed(w).c.ostate = "closed"
         /\ chan_write_failed(w).c.type = w.c.type
         /\ chan_write_failed(w).c.istate = w.c.istate
         /\ chan_write_failed(w).c.flags = w.c.flags
  <1> DEFINE v == chan_write_failed(w)
  <1>0. /\ w \in Good /\ w.c \in Channel /\ LocalOK(w.c) /\ ShutFirst(w.c)
    BY SoundParts
  <1>1. CASE w.c.ostate = "closed"
    BY <1>1 DEF chan_write_failed
  <1>2. CASE w.c.ostate # "closed"
    <2> DEFINE s == IF w.c.ctype = "session" THEN Send(w, "EOW", 0) ELSE w
    <2>1. w.c.remote_id # NoId /\ "CLOSE_SENT" \notin w.c.flags
      BY <1>0, <1>2 DEF LocalOK, ShutFirst
    <2>2. s \in Sound(c0, cut) /\ s.c = w.c
      BY <2>1, PlainSound
    <2>3. s.err = w.err
      BY <2>2, SoundParts
    <2>4. v.tx = s.tx /\ v.err = w.err
          /\ v.c = [w.c EXCEPT !.output = 0, !.ostate = "closed", !.wfail = TRUE]
      BY <1>0, <1>2, <2>1, WriteFailedIs
    <2>5. v \in Good
      BY <1>0, WriteFailedGood
    <2> HIDE DEF s, v
    <2>6. /\ v.c.flags = w.c.flags /\ v.c.type = w.c.type /\ v.c.istate = w.c.istate
          /\ v.c.ctype = w.c.ctype /\ v.c.ostate = "closed" /\ v.c.efd = w.c.efd
          /\ v.c.remote_id = w.c.remote_id /\ v.c.inst = w.c.inst
          /\ v.c.input = w.c.input /\ v.c.output = 0
          /\ v.c.extended = w.c.extended
          /\ v.c.extended_usage = w.c.extended_usage
          /\ v.c.local_window = w.c.local_window
          /\ v.c.local_window_max = w.c.local_window_max
          /\ v.c.local_consumed = w.c.local_consumed
          /\ v.c.remote_window = w.c.remote_window
          /\ v.c.taken = w.c.taken /\ v.c.got = w.c.got /\ v.c.wfail = TRUE
      BY <1>0, <2>4 DEF Channel
    <2>7. Kin(c0, w.c) /\ Tally(c0, w.c, s.tx, cut)
      BY <2>2, SoundParts
    <2>8. LocalOK(v.c)
      BY <1>0, <2>6 DEF LocalOK, Accounted, Fresh, Est
    <2>9. Kin(c0, v.c)
      BY <2>7, <2>6 DEF Kin, Accounted
    <2>10. Tally(c0, v.c, s.tx, cut)
      BY <2>7, <2>6 DEF Tally, EofDrained
    <2>11. s.c.flags \subseteq v.c.flags
      BY <2>2, <2>6
    <2>12. v \in Sound(c0, cut)
      BY <2>2, <2>3, <2>4, <2>5, <2>8, <2>9, <2>10, <2>11, QuietSound
    <2> QED BY <2>6, <2>12 DEF v
  <1> QED BY <1>1, <1>2

\* chan_rcvd_eow.
LEMMA RcvdEowSound ==
  ASSUME NEW c0, NEW cut, NEW w \in Sound(c0, cut), w.c.type \in Est
  PROVE  chan_rcvd_eow(w) \in Sound(c0, cut)
  <1>1. chan_rcvd_eow(w) \in Good
    BY SoundParts, RcvdEowGood
  <1>2. CASE w.c.istate = "open"
    <2>1. chan_rcvd_eow(w) = Set_istate(w, "closed")
      BY <1>2 DEF chan_rcvd_eow, chan_shutdown_read
    <2> QED BY <1>1, <2>1, IstateSound
  <1> QED BY <1>2 DEF chan_rcvd_eow

\* Noting EOF_RCVD or CLOSE_RCVD: what the rest of the handler starts from.
Noted(c, f) == [c EXCEPT !.flags = c.flags \cup {f}]

\* What the peer has sent is noted before the handler goes on.
LEMMA NotedSound ==
  ASSUME NEW c \in Channel, ShutFirst(c), StaysAttached(c), LocalOK(c), c.type \in Est,
         NEW f \in {"EOF_RCVD", "CLOSE_RCVD"}
  PROVE  /\ Set_flag(Begin(c), f) \in Sound(Noted(c, f), FALSE)
         /\ Set_flag(Begin(c), f).c = Noted(c, f)
         /\ f \in Noted(c, f).flags /\ Noted(c, f).type = c.type
         /\ Noted(c, f).ostate = c.ostate /\ Noted(c, f).istate = c.istate
  <1> DEFINE d == Noted(c, f)
  <1>1. Begin(c) \in Good /\ Begin(c).c = c
    BY BeginGood DEF Begin
  <1>2. Set_flag(Begin(c), f) = Begin(d)
    <2>1. Set_flag(Begin(c), f) =
            [Begin(c) EXCEPT !.c = [Begin(c).c EXCEPT !.flags = Begin(c).c.flags \cup {f}]]
      BY DEF Set_flag
    <2> QED BY <1>1, <2>1 DEF Begin, Noted
  <1>3. Set_flag(Begin(c), f) \in Good
    BY <1>1, SetFlagGood
  <1>3a. Begin(d).c = d
    BY DEF Begin
  <1> HIDE DEF d
  <1>4. d \in Channel /\ ShutFirst(d) /\ StaysAttached(d)
    BY <1>2, <1>3, <1>3a, GoodParts
  <1>5. /\ d.flags = c.flags \cup {f} /\ d.type = c.type /\ d.istate = c.istate
        /\ d.ctype = c.ctype /\ d.ostate = c.ostate /\ d.efd = c.efd
        /\ d.remote_id = c.remote_id /\ d.inst = c.inst
        /\ d.input = c.input /\ d.output = c.output
        /\ d.extended = c.extended
        /\ d.extended_usage = c.extended_usage
        /\ d.local_window = c.local_window
        /\ d.local_window_max = c.local_window_max
        /\ d.local_consumed = c.local_consumed
        /\ d.remote_window = c.remote_window
        /\ d.taken = c.taken /\ d.got = c.got /\ d.wfail = c.wfail
    BY DEF Channel, d, Noted
  <1>6. LocalOK(d)
    BY <1>5 DEF LocalOK, Accounted, Est
  <1>7. Begin(d) \in Sound(d, FALSE)
    BY <1>4, <1>6, BeginSound
  <1> QED BY <1>2, <1>3a, <1>5, <1>7 DEF d

\* chan_rcvd_ieof.
LEMMA RcvdIeofSound ==
  ASSUME NEW c \in Channel, ShutFirst(c), StaysAttached(c), LocalOK(c), c.type \in Est
  PROVE  chan_rcvd_ieof(Begin(c)) \in Sound(Noted(c, "EOF_RCVD"), FALSE)
  <1> DEFINE f == Set_flag(Begin(c), "EOF_RCVD")
             d == IF f.c.ostate = "open" THEN Set_ostate(f, "drain") ELSE f
             c1 == Noted(c, "EOF_RCVD")
  <1>1. /\ f \in Sound(c1, FALSE) /\ f.c.type = c.type /\ "EOF_RCVD" \in f.c.flags
    BY NotedSound
  <1>2. f \in Good /\ LocalOK(f.c) /\ ShutFirst(f.c) /\ f \in Work
    BY <1>1, SoundParts
  <1> HIDE DEF f, c1
  <1>3. d \in Sound(c1, FALSE) /\ d.c.type = c.type
    <2>1. CASE f.c.ostate = "open"
      <3>1. Set_ostate(f, "drain") \in Good
        BY <1>2, <2>1, SetOstateGood DEF ShutFirst, HalfState
      <3>2. f.c.type # "abandoned"
        BY <1>2, <2>1 DEF LocalOK
      <3>3. Set_ostate(f, "drain") \in Sound(c1, FALSE)
        BY <1>1, <3>1, <3>2, OstateSound
      <3>4. Set_ostate(f, "drain").c.type = f.c.type
        BY <1>2 DEF Set_ostate, Work, Channel
      <3> QED BY <1>1, <2>1, <3>3, <3>4
    <2> QED BY <1>1, <2>1
  <1> HIDE DEF d
  <1>4. chan_obuf_empty(d) \in Sound(c1, FALSE)
    BY <1>3, ObufEmptySound
  <1> QED BY <1>3, <1>4 DEF chan_rcvd_ieof, d, f, c1

\* chan_rcvd_oclose.
LEMMA RcvdOcloseSound ==
  ASSUME NEW c \in Channel, ShutFirst(c), StaysAttached(c), LocalOK(c), c.type \in Est
  PROVE  chan_rcvd_oclose(Begin(c)) \in Sound(Noted(c, "CLOSE_RCVD"), FALSE)
  <1> DEFINE f == Set_flag(Begin(c), "CLOSE_RCVD")
             o == IF f.c.ostate = "open" THEN Set_ostate(f, "drain") ELSE f
             c1 == Noted(c, "CLOSE_RCVD")
  <1>1. /\ f \in Sound(c1, FALSE) /\ f.c.type = c.type /\ "CLOSE_RCVD" \in f.c.flags
    BY NotedSound
  <1>2. f \in Good /\ LocalOK(f.c) /\ ShutFirst(f.c) /\ f \in Work /\ f.c \in Channel
    BY <1>1, SoundParts
  <1> HIDE DEF f, c1
  <1>3. CASE f.c.type = "larval"
    <2> DEFINE g == Set_ostate(f, "closed")
    <2>1. g \in Good
      BY <1>2, SetOstateGood DEF HalfState
    <2>2. g \in Sound(c1, FALSE)
      BY <1>1, <1>2, <1>3, <2>1, OstateSound DEF LocalOK
    <2>3. g.c.type = f.c.type
      BY <1>2 DEF Set_ostate, Work, Channel
    <2> HIDE DEF g
    <2>4. Set_istate(g, "closed") \in Good
      BY <2>1, SetIstateGood DEF HalfState
    <2>5. Set_istate(g, "closed") \in Sound(c1, FALSE)
      BY <1>1, <2>2, <2>3, <2>4, IstateSound
    <2>6. chan_rcvd_oclose(Begin(c)) = Set_istate(g, "closed")
      BY <1>3 DEF chan_rcvd_oclose, f, g
    <2> QED BY <2>5, <2>6 DEF c1
  <1>4. CASE f.c.type # "larval"
    <2>1. /\ o \in Sound(c1, FALSE) /\ o.c.type = c.type /\ "CLOSE_RCVD" \in o.c.flags
      <3>1. CASE f.c.ostate = "open"
        <4>1. Set_ostate(f, "drain") \in Good
          BY <1>2, <3>1, SetOstateGood DEF ShutFirst, HalfState
        <4>2. f.c.type # "abandoned"
          BY <1>2, <3>1 DEF LocalOK
        <4>3. Set_ostate(f, "drain") \in Sound(c1, FALSE)
          BY <1>1, <4>1, <4>2, OstateSound
        <4>4. Set_ostate(f, "drain").c.type = f.c.type
              /\ Set_ostate(f, "drain").c.flags = f.c.flags
          BY <1>2 DEF Set_ostate, Work, Channel
        <4> QED BY <1>1, <3>1, <4>3, <4>4
      <3> QED BY <1>1, <3>1
    <2>2. o \in Good /\ o \in Work /\ o.c \in Channel
      BY <2>1, SoundParts
    <2> HIDE DEF o
    <2>3. ASSUME NEW v \in Sound(c1, FALSE)
          PROVE  chan_shutdown_extended_read(v) \in Sound(c1, FALSE)
      <3>1. v \in Good /\ v \in Work
        BY SoundParts
      <3>2. [v EXCEPT !.c.efd = FALSE] \in Good
        BY <3>1, BufferGood, 0 \in Nat
      <3> DEFINE x == [v EXCEPT !.c.efd = FALSE]
      <3>3. x.tx = v.tx /\ x.err = v.err /\ x.c = [v.c EXCEPT !.efd = FALSE]
        BY <3>1 DEF Work
      <3> HIDE DEF x
      <3>4. x \in Sound(c1, FALSE)
        BY <3>2, <3>3, EfdSound DEF x
      <3> QED BY <3>4 DEF chan_shutdown_extended_read, x
    <2>4. ASSUME NEW v \in Work
          PROVE  Set_istate(chan_shutdown_extended_read(v), "closed")
                   = chan_shutdown_extended_read(Set_istate(v, "closed"))
      BY DEF Set_istate, chan_shutdown_extended_read, Work, Channel
    <2>5. CASE o.c.istate = "open"
      <3>1. Set_istate(o, "closed") \in Good
        BY <2>2, SetIstateGood DEF HalfState
      <3>2. Set_istate(o, "closed") \in Sound(c1, FALSE)
        BY <1>1, <2>1, <3>1, IstateSound
      <3>3. chan_shutdown_extended_read(Set_istate(o, "closed")) \in Sound(c1, FALSE)
        BY <3>2, <2>3
      <3>4. chan_rcvd_oclose(Begin(c)) =
              Set_istate(chan_shutdown_extended_read(o), "closed")
        BY <1>4, <2>5 DEF chan_rcvd_oclose, chan_shutdown_read, o, f
      <3> QED BY <2>2, <2>4, <3>3, <3>4 DEF c1
    <2>6. CASE o.c.istate = "drain"
      <3>1. Set_istate(chan_send_eof2(o), "closed") \in Sound(c1, FALSE)
        BY <1>1, <2>1, <2>6, EofSound
      <3>2. chan_send_eof2(o) \in Work
        BY <2>2, GoodIsClosing, SendEofClosing DEF Closing
      <3>3. chan_shutdown_extended_read(Set_istate(chan_send_eof2(o), "closed"))
              \in Sound(c1, FALSE)
        BY <3>1, <2>3
      <3>4. chan_rcvd_oclose(Begin(c)) =
              Set_istate(chan_shutdown_extended_read(chan_send_eof2(o)), "closed")
        BY <1>4, <2>6 DEF chan_rcvd_oclose, chan_shutdown_read, o, f
      <3> QED BY <3>2, <2>4, <3>3, <3>4 DEF c1
    <2>7. CASE o.c.istate \notin {"open", "drain"}
      <3>1. chan_rcvd_oclose(Begin(c)) = o
        BY <1>4, <2>7 DEF chan_rcvd_oclose, o, f
      <3> QED BY <2>1, <3>1 DEF c1
    <2> QED BY <2>5, <2>6, <2>7
  <1> QED BY <1>3, <1>4

\* The same without the callbacks of a session, which the collector takes off
\* a channel just before it frees it.
Tells(c0, cut) ==
  {w \in Work : /\ w.err = "none" /\ ShutFirst(w.c) /\ LocalOK(w.c) /\ Kin(c0, w.c)
                /\ Told(c0, w.c, w.tx) /\ Tally(c0, w.c, w.tx, cut)}

\* A handler that also keeps the session attached.
LEMMA SoundTells ==
  ASSUME NEW c0, NEW cut
  PROVE  Sound(c0, cut) \subseteq Tells(c0, cut)
  BY SoundParts DEF Tells

\* The same, for a handler that may have detached the session.
LEMMA SameWireTells ==
  ASSUME NEW c0, NEW cut, NEW w \in Tells(c0, cut), NEW v \in Work,
         v.tx = w.tx, v.err = w.err,
         Wire(v.c) = Wire(w.c), v.c.istate = w.c.istate
  PROVE  v \in Tells(c0, cut)
  <1>0. /\ w \in Work /\ w.err = "none" /\ ShutFirst(w.c) /\ LocalOK(w.c) /\ Kin(c0, w.c)
        /\ Told(c0, w.c, w.tx) /\ Tally(c0, w.c, w.tx, cut)
    BY DEF Tells
  <1>1. LocalOK(v.c)
    BY <1>0 DEF Wire, LocalOK, Fresh, Accounted, Est
  <1>2. Kin(c0, v.c)
    BY <1>0 DEF Wire, Kin, Accounted
  <1>3. Tally(c0, v.c, v.tx, cut)
    BY <1>0 DEF Wire, Tally, EofDrained
  <1>4. Told(c0, v.c, v.tx)
    BY <1>0 DEF Wire, Told, Speaks
  <1>5. ShutFirst(v.c)
    BY <1>0 DEF Wire, ShutFirst
  <1> QED BY <1>0, <1>1, <1>2, <1>3, <1>4, <1>5 DEF Tells

\* The answer of chan_is_dead sends CLOSE at most once, and last.
LEMMA SendCloseTells ==
  ASSUME NEW c0, NEW cut, NEW w \in Tells(c0, cut), NEW do_send \in BOOLEAN
  PROVE  SendClose(w, do_send) \in Tells(c0, cut)
  <1>0. /\ w \in Work /\ w.c \in Channel /\ w.tx \in Seq(Msg) /\ 0 \in Nat
        /\ w.err = "none" /\ ShutFirst(w.c) /\ LocalOK(w.c)
        /\ Kin(c0, w.c) /\ Told(c0, w.c, w.tx) /\ Tally(c0, w.c, w.tx, cut)
    BY DEF Tells, Work
  <1>1. CASE ~( /\ w.c.type # "zombie" /\ HalvesClosed(w.c)
                /\ "CLOSE_SENT" \notin w.c.flags /\ do_send )
    BY <1>1 DEF SendClose
  <1>2. CASE /\ w.c.type # "zombie" /\ HalvesClosed(w.c)
             /\ "CLOSE_SENT" \notin w.c.flags /\ do_send
    <2> DEFINE s == Send(w, "CLOSE", 0)
               g == Set_flag(s, "CLOSE_SENT")
    <2>1. SendClose(w, do_send) = g
      BY <1>2 DEF SendClose, chan_send_close2, HalvesClosed
    <2>1a. "CLOSE" \in MsgType
      BY DEF MsgType
    <2>2. w.c.type \in Est /\ w.c.remote_id # NoId
      BY <1>0, <1>2 DEF LocalOK, Fresh, HalvesClosed, Est, Channel, ChanType
    <2>3. PICK m \in Msg :
             /\ s.tx = Append(w.tx, m) /\ s.c = w.c /\ s.err = w.err
             /\ m.t = "CLOSE" /\ m.n = 0 /\ m.id = w.c.remote_id
             /\ m.inst = w.c.inst /\ m.ctype = w.c.ctype
      BY <1>0, <2>1a, <2>2, SendTx
    <2>4. s \in Work
      BY <1>0, SendWork DEF MsgType
    <2> HIDE DEF s
    <2>5. g \in Work /\ g.c = [w.c EXCEPT !.flags = w.c.flags \cup {"CLOSE_SENT"}]
          /\ g.tx = s.tx /\ g.err = s.err
      BY <2>3, <2>4, SetAnyFlag DEF Set_flag, Work, ChanFlag
    <2> HIDE DEF g
    <2>6. /\ g.c.flags = w.c.flags \cup {"CLOSE_SENT"} /\ g.c.type = w.c.type
          /\ g.c.ctype = w.c.ctype /\ g.c.ostate = w.c.ostate /\ g.c.istate = w.c.istate
          /\ g.c.remote_id = w.c.remote_id /\ g.c.inst = w.c.inst
          /\ g.c.input = w.c.input /\ g.c.output = w.c.output
          /\ g.c.extended = w.c.extended /\ g.c.efd = w.c.efd
          /\ g.c.extended_usage = w.c.extended_usage
          /\ g.c.local_window = w.c.local_window
          /\ g.c.local_window_max = w.c.local_window_max
          /\ g.c.local_consumed = w.c.local_consumed
          /\ g.c.remote_window = w.c.remote_window
          /\ g.c.taken = w.c.taken /\ g.c.got = w.c.got /\ g.c.wfail = w.c.wfail
      BY <1>0, <2>5 DEF Channel
    <2>7. LocalOK(g.c)
      BY <1>0, <2>2, <2>6 DEF LocalOK, Accounted, Est
    <2>8. Kin(c0, g.c)
      BY <1>0, <2>6 DEF Kin, Accounted
    <2>9. Speaks(c0, g.c, m)
      BY <1>0, <1>2, <2>2, <2>3, <2>6 DEF Speaks, Kin, Est, Carrying
    <2>10. Told(c0, g.c, g.tx)
      <3>1. w.c.flags \subseteq g.c.flags /\ "CLOSE_SENT" \notin w.c.flags
        BY <1>2, <2>6
      <3>2. m.t \in Carrying => "EOF_SENT" \notin w.c.flags
        BY <2>3 DEF Carrying
      <3>3. Told(c0, g.c, Append(w.tx, m))
        BY <1>0, <2>9, <3>1, <3>2, ToldMore
      <3> QED BY <2>3, <2>5, <3>3
    <2>11. /\ InFlight(g.tx, c0.inst, {"DATA", "EXTDATA"})
               = InFlight(w.tx, c0.inst, {"DATA", "EXTDATA"})
           /\ InFlight(g.tx, c0.inst, {"ADJUST", "CONFIRM"})
               = InFlight(w.tx, c0.inst, {"ADJUST", "CONFIRM"})
           /\ InFlight(g.tx, c0.inst, {"DATA"}) = InFlight(w.tx, c0.inst, {"DATA"})
      BY <1>0, <2>3, <2>5, InFlightAppend, InFlightNat, SMTT(30) DEF Bytes
    <2>12. Tally(c0, g.c, g.tx, cut)
      BY <1>0, <2>6, <2>11 DEF Tally, EofDrained, Kin
    <2>13. ShutFirst(g.c)
      BY <1>0, <1>2, <2>6 DEF ShutFirst, HalvesClosed
    <2> QED BY <1>0, <2>1, <2>3, <2>5, <2>7, <2>8, <2>10, <2>12, <2>13 DEF Tells
  <1> QED BY <1>1, <1>2

\* The detach callbacks of session.c and clientloop.c say nothing.
LEMMA DetachTells ==
  ASSUME NEW c0, NEW cut, NEW w \in Tells(c0, cut), NEW force \in BOOLEAN
  PROVE  DetachUser(w, force) \in Tells(c0, cut)
  <1> DEFINE k == channel_cancel_cleanup(w)
             n == [k EXCEPT !.c.child = FALSE]
  <1>0. w \in Work /\ w.c \in Channel
    BY DEF Tells, Work
  <1>1. /\ k \in Work /\ k.tx = w.tx /\ k.err = w.err
        /\ k.c = [w.c EXCEPT !.detach_user = "none", !.detach_close = FALSE]
    BY <1>0 DEF channel_cancel_cleanup, Work, Channel
  <1>2. k.tx = w.tx /\ k.err = w.err /\ Wire(k.c) = Wire(w.c) /\ k.c.istate = w.c.istate
    BY <1>0, <1>1 DEF Wire, Channel
  <1> HIDE DEF k
  <1>3. k \in Tells(c0, cut)
    BY <1>1, <1>2, SameWireTells
  <1>4. n \in Work /\ n.tx = k.tx /\ n.err = k.err /\ n.c = [k.c EXCEPT !.child = FALSE]
    BY <1>1 DEF Work, Channel
  <1>5. Wire(n.c) = Wire(k.c) /\ n.c.istate = k.c.istate
    BY <1>1, <1>4 DEF Wire, Channel, Work
  <1> HIDE DEF n
  <1>6. n \in Tells(c0, cut)
    BY <1>3, <1>4, <1>5, SameWireTells
  <1>7. DetachUser(w, force) \in {w, k, n}
    BY DEF DetachUser, session_close_by_channel, n, k
  <1> QED BY <1>3, <1>6, <1>7

\* A channel that the collector may free: nobody will speak of it again.
Over(c) == c.type = "zombie" \/ {"CLOSE_SENT", "CLOSE_RCVD"} \subseteq c.flags

\* The end of a handler: its channel is kept, or freed when it is over.
Ended(c0, g) ==
  \E v \in Tells(c0, FALSE) :
    /\ g.tx = v.tx /\ g.err = "none"
    /\ g.c = v.c \/ (g.c = FreeChan /\ Over(v.c))

\* A channel that is not freed.
LEMMA SoundEnded ==
  ASSUME NEW c0, NEW w \in Tells(c0, FALSE)
  PROVE  Ended(c0, w)
  BY DEF Ended, Tells

\* The collector on a channel without a session.
LEMMA CollectDetachedEnded ==
  ASSUME NEW c0, NEW w \in Tells(c0, FALSE)
  PROVE  Ended(c0, CollectDetached(w))
  <1> DEFINE d == SendClose(w, TRUE)
  <1>1. d \in Tells(c0, FALSE)
    BY SendCloseTells
  <1>2. CollectDetached(w) = IF chan_is_dead(d.c, TRUE) THEN channel_free(d) ELSE d
    BY DEF CollectDetached
  <1> HIDE DEF d
  <1>3. CASE chan_is_dead(d.c, TRUE)
    <2>1. Over(d.c)
      BY <1>3 DEF Over, chan_is_dead
    <2>2. d.err = "none" /\ d \in Work
      BY <1>1 DEF Tells
    <2>3. /\ channel_free(d).tx = d.tx /\ channel_free(d).err = "none"
          /\ channel_free(d).c = FreeChan
      BY <2>2 DEF channel_free, Work
    <2> QED BY <1>1, <1>2, <1>3, <2>1, <2>3 DEF Ended
  <1> QED BY <1>1, <1>2, <1>3, SoundEnded

\* channel_garbage_collect: the channel goes on, or is over and its slot is free.
LEMMA GarbageCollectEnded ==
  ASSUME NEW c0, NEW w \in Sound(c0, FALSE)
  PROVE  Ended(c0, channel_garbage_collect(w))
  <1> DEFINE d == SendClose(w, w.c.detach_close)
             u == DetachUser(d, FALSE)
             dead == chan_is_dead(d.c, w.c.detach_close)
  <1>0. w \in Tells(c0, FALSE) /\ w.c.detach_close \in BOOLEAN
    BY SoundTells, SoundParts DEF Channel
  <1>1. CASE w.c.detach_user = "none"
    BY <1>0, <1>1, CollectDetachedEnded DEF channel_garbage_collect
  <1>2. CASE w.c.detach_user # "none"
    <2>1. d \in Tells(c0, FALSE)
      BY <1>0, SendCloseTells
    <2> HIDE DEF d
    <2>2. u \in Tells(c0, FALSE)
      BY <2>1, DetachTells
    <2> HIDE DEF u
    <2>3. Ended(c0, d) /\ Ended(c0, u) /\ Ended(c0, CollectDetached(u))
      BY <2>1, <2>2, SoundEnded, CollectDetachedEnded
    <2>5. channel_garbage_collect(w) =
            CASE ~dead -> d
              [] dead /\ u.c.detach_user # "none" -> u
              [] OTHER -> CollectDetached(u)
      BY <1>2 DEF channel_garbage_collect, d, u
    <2> HIDE DEF dead
    <2>6. channel_garbage_collect(w) \in {d, u, CollectDetached(u)}
      BY <2>5
    <2> QED BY <2>3, <2>6
  <1> QED BY <1>1, <1>2

\* session_exit_message.
LEMMA SessionExitSound ==
  ASSUME NEW c0, NEW cut, NEW w \in Sound(c0, cut), w.c.child
  PROVE  session_exit_message(w) \in Sound(c0, cut)
  <1> DEFINE s == Send(w, "EXIT", 0)
             r == [s EXCEPT !.c.detach_user = "session",
                            !.c.detach_close = TRUE, !.c.child = FALSE]
  <1>0. /\ w \in Good /\ w.c \in Channel /\ LocalOK(w.c) /\ StaysAttached(w.c)
    BY SoundParts
  <1>1. w.c.type = "open" /\ "CLOSE_SENT" \notin w.c.flags
    BY <1>0 DEF StaysAttached, Attached
  <1>2. w.c.remote_id # NoId
    BY <1>0, <1>1 DEF LocalOK, Est
  <1>3. s \in Sound(c0, cut) /\ s.c = w.c
    BY <1>1, <1>2, PlainSound DEF Est
  <1>3a. s \in Good /\ s \in Work
    BY <1>3, SoundParts
  <1> HIDE DEF s
  <1>3b. r \in Work
    BY <1>3a, Zenon DEF Work, Channel
  <1>4. /\ r.tx = s.tx /\ r.err = s.err
        /\ r.c = [s.c EXCEPT !.detach_user = "session", !.detach_close = TRUE,
                             !.child = FALSE]
    BY <1>3a DEF Work
  <1> HIDE DEF r
  <1>5. /\ Wire(r.c) = Wire(s.c) /\ r.c.istate = s.c.istate /\ r.c.type = "open"
        /\ r.c.flags = s.c.flags /\ r.c.child = FALSE /\ r.c.ostate = s.c.ostate
    BY <1>0, <1>1, <1>3, <1>4 DEF Wire, Channel
  <1> HIDE DEF r
  <1>6. r \in Good
    BY <1>3a, <1>3b, <1>4, <1>5 DEF Good, ShutFirst, StaysAttached
  <1>7. r \in Sound(c0, cut)
    BY <1>3, <1>4, <1>5, <1>6, SameWire
  <1>8. chan_write_failed(r) \in Sound(c0, cut)
    BY <1>5, <1>7, WriteFailedSound DEF Est
  <1> QED BY <1>7, <1>8 DEF session_exit_message, r, s

\* The fields of a channel that an account looks at, when some are changed.
Rest(v, w) ==
  /\ v.flags = w.flags /\ v.type = w.type /\ v.istate = w.istate
  /\ v.ctype = w.ctype /\ v.ostate = w.ostate /\ v.efd = w.efd
  /\ v.remote_id = w.remote_id /\ v.inst = w.inst
  /\ v.extended_usage = w.extended_usage
  /\ v.local_window_max = w.local_window_max /\ v.wfail = w.wfail

\* An established channel stays established.
LEMMA KeptEst ==
  ASSUME NEW c0, NEW cut, NEW w \in Sound(c0, cut), NEW cut1, NEW v \in Sound(c0, cut1),
         w.c.type \in Est
  PROVE  v.c.type \in Est
  <1>1. Kin(c0, w.c) /\ Kin(c0, v.c)
    BY SoundParts
  <1> QED BY <1>1 DEF Kin

\* The reply to a request.
LEMMA ReplySound ==
  ASSUME NEW c0, NEW cut, NEW w \in Sound(c0, cut), w.c.remote_id # NoId
  PROVE  Reply(w) \in Sound(c0, cut)
  BY PlainSound DEF Reply

\* channel_handle_rfd.  Bytes are read only while the input half is open.
LEMMA HandleRfdSound ==
  ASSUME NEW c0 \in Channel, NEW cut, NEW w \in Sound(c0, cut), w.c.type \in Est,
         NEW r \in Int, r > 0 => w.c.istate = "open"
  PROVE  channel_handle_rfd(w, r) \in Sound(c0, cut)
  <1> DEFINE t == [w EXCEPT !.c.input = w.c.input + r, !.c.taken = w.c.taken + r]
  <1>0. /\ w \in Good /\ w \in Work /\ w.c \in Channel /\ LocalOK(w.c) /\ ShutFirst(w.c)
        /\ Kin(c0, w.c) /\ Tally(c0, w.c, w.tx, cut)
    BY SoundParts
  <1>1. \/ channel_handle_rfd(w, r) = w \/ channel_handle_rfd(w, r) = chan_read_failed(w)
        \/ (channel_handle_rfd(w, r) = t /\ r > 0)
    BY <1>0, CountsAreNat DEF channel_handle_rfd
  <1>2. CASE r > 0 /\ channel_handle_rfd(w, r) = t
    <2>1. w.c.input + r \in Nat /\ w.c.taken + r \in Nat /\ w.c.input \in Nat /\ w.c.taken \in Nat
      BY <1>0, <1>2, CountsAreNat
    <2>2. t \in Good
      BY <1>0, <2>1, ReceiveGood
    <2>3. /\ t.tx = w.tx /\ t.err = w.err
          /\ t.c = [w.c EXCEPT !.input = w.c.input + r, !.taken = w.c.taken + r]
      BY <1>0 DEF Work
    <2> HIDE DEF t
    <2>4. /\ Rest(t.c, w.c) /\ t.c.output = w.c.output /\ t.c.extended = w.c.extended
          /\ t.c.local_window = w.c.local_window
          /\ t.c.local_consumed = w.c.local_consumed
          /\ t.c.remote_window = w.c.remote_window /\ t.c.got = w.c.got
          /\ t.c.input = w.c.input + r /\ t.c.taken = w.c.taken + r
      BY <1>0, <2>3 DEF Channel, Rest
    <2>5. LocalOK(t.c)
      BY <1>0, <2>4 DEF LocalOK, Rest, Accounted, Fresh, Est
    <2>6. Kin(c0, t.c)
      BY <1>0, <2>4 DEF Kin, Rest, Accounted
    <2>7. "EOF_SENT" \notin w.c.flags
      BY <1>0, <1>2 DEF ShutFirst
    <2>8. Tally(c0, t.c, w.tx, cut)
      <3>1. \/ cut \/ t.c.type = "abandoned"
            \/ t.c.taken + c0.input = c0.taken + t.c.input + InFlight(w.tx, c0.inst, {"DATA"})
        <4>1. CASE cut \/ w.c.type = "abandoned"
          BY <2>4, <4>1 DEF Rest
        <4>2. CASE w.c.taken + c0.input
                     = c0.taken + w.c.input + InFlight(w.tx, c0.inst, {"DATA"})
          <5>1. c0.input \in Nat /\ c0.taken \in Nat /\ c0.inst \in Nat
            BY DEF Channel
          <5>2. InFlight(w.tx, c0.inst, {"DATA"}) \in Nat
            BY <5>1, SoundParts, InFlightNat
          <5> QED BY <2>1, <2>4, <4>2, <5>1, <5>2
        <4> QED BY <1>0, <4>1, <4>2 DEF Tally
      <3>2. EofDrained(t.c)
        BY <2>4, <2>7 DEF Rest, EofDrained
      <3> QED BY <1>0, <2>4, <3>1, <3>2 DEF Tally, Rest
    <2>9. w.c.flags \subseteq t.c.flags
      BY <2>4 DEF Rest
    <2>10. t \in Sound(c0, cut)
      BY <2>2, <2>3, <2>5, <2>6, <2>8, <2>9, QuietSound
    <2> QED BY <1>2, <2>10
  <1> QED BY <1>1, <1>2, ReadFailedSound

\* channel_handle_wfd.
LEMMA HandleWfdSound ==
  ASSUME NEW c0, NEW cut, NEW w \in Sound(c0, cut), w.c.type \in Est,
         NEW r \in Int, r <= w.c.output
  PROVE  channel_handle_wfd(w, r) \in Sound(c0, cut)
  <1> DEFINE t == [w EXCEPT !.c.output = w.c.output - r,
                            !.c.local_consumed = w.c.local_consumed + r,
                            !.c.got = w.c.got + r]
  <1>0. /\ w \in Good /\ w \in Work /\ w.c \in Channel /\ LocalOK(w.c)
        /\ Kin(c0, w.c) /\ Tally(c0, w.c, w.tx, cut)
    BY SoundParts
  <1>1. \/ channel_handle_wfd(w, r) = w \/ channel_handle_wfd(w, r) = chan_write_failed(w)
        \/ (channel_handle_wfd(w, r) = t /\ r >= 0 /\ w.c.output # 0)
    BY <1>0, CountsAreNat DEF channel_handle_wfd
  <1>2. CASE r >= 0 /\ channel_handle_wfd(w, r) = t /\ w.c.output # 0
    <2>1. /\ w.c.output - r \in Nat /\ w.c.local_consumed + r \in Nat
          /\ w.c.got + r \in Nat /\ w.c.output \in Nat /\ w.c.local_consumed \in Nat
          /\ w.c.got \in Nat /\ w.c.extended \in Nat /\ w.c.local_window \in Nat
      BY <1>0, <1>2, CountsAreNat
    <2>2. t \in Good
      BY <1>0, <2>1, ReceiveGood
    <2>3. /\ t.tx = w.tx /\ t.err = w.err
          /\ t.c = [w.c EXCEPT !.output = w.c.output - r,
                               !.local_consumed = w.c.local_consumed + r,
                               !.got = w.c.got + r]
      BY <1>0 DEF Work
    <2> HIDE DEF t
    <2>4. /\ Rest(t.c, w.c) /\ t.c.output = w.c.output - r /\ t.c.extended = w.c.extended
          /\ t.c.local_window = w.c.local_window
          /\ t.c.local_consumed = w.c.local_consumed + r
          /\ t.c.remote_window = w.c.remote_window /\ t.c.got = w.c.got + r
          /\ t.c.input = w.c.input /\ t.c.taken = w.c.taken
      BY <1>0, <2>3 DEF Channel, Rest
    <2>5. w.c.type # "larval" /\ w.c.ostate # "closed"
      BY <1>0, <1>2 DEF LocalOK
    <2>6. LocalOK(t.c)
      BY <1>0, <2>1, <2>4, <2>5 DEF LocalOK, Rest, Accounted, Est
    <2>7. Kin(c0, t.c)
      BY <1>0, <2>4 DEF Kin, Rest, Accounted
    <2>8. Tally(c0, t.c, w.tx, cut)
      BY <1>0, <2>1, <2>4 DEF Tally, Rest, EofDrained
    <2>9. w.c.flags \subseteq t.c.flags
      BY <2>4 DEF Rest
    <2>10. t \in Sound(c0, cut)
      BY <2>2, <2>3, <2>6, <2>7, <2>8, <2>9, QuietSound
    <2> QED BY <1>2, <2>10
  <1> QED BY <1>1, <1>2, WriteFailedSound

\* channel_handle_efd.
LEMMA HandleEfdSound ==
  ASSUME NEW c0, NEW cut, NEW w \in Sound(c0, cut), w.c.type \in Est, NEW r \in Int,
         "efd_w" \in w.c.io_want => r <= w.c.extended
  PROVE  channel_handle_efd(w, r) \in Sound(c0, cut)
  <1> DEFINE shut == [w EXCEPT !.c.efd = FALSE]
             wrote == [w EXCEPT !.c.extended = w.c.extended - r,
                                !.c.local_consumed = w.c.local_consumed + r]
             x == IF w.c.extended_usage = "ignore" THEN w.c.extended
                  ELSE w.c.extended + r
             read == [w EXCEPT !.c.extended = x, !.c.etaken = w.c.etaken + r]
             v == channel_handle_efd(w, r)
  <1>0. /\ w \in Good /\ w \in Work /\ w.c \in Channel /\ LocalOK(w.c)
        /\ Kin(c0, w.c) /\ Tally(c0, w.c, w.tx, cut)
    BY SoundParts
  <1>1. v \in Good
    BY <1>0, HandleEfdGood
  <1>2. \/ v = w \/ v = shut
        \/ v = wrote /\ w.c.extended_usage = "write" /\ "efd_w" \in w.c.io_want /\ r >= 0
        \/ v = read /\ w.c.extended_usage # "write" /\ r > 0
    BY DEF channel_handle_efd, channel_handle_efd_write, channel_handle_efd_read
  <1> HIDE DEF v
  <1>3. CASE v = shut
    <2>1. v.tx = w.tx /\ v.err = w.err /\ v.c = [w.c EXCEPT !.efd = FALSE]
      BY <1>0, <1>3 DEF Work
    <2>2. v \in Sound(c0, cut)
      BY <1>1, <2>1, EfdSound
    <2> QED BY <2>2 DEF v
  <1>4. CASE v = wrote /\ w.c.extended_usage = "write" /\ "efd_w" \in w.c.io_want /\ r >= 0
    <2>1. /\ v.tx = w.tx /\ v.err = w.err
          /\ v.c = [w.c EXCEPT !.extended = w.c.extended - r,
                               !.local_consumed = w.c.local_consumed + r]
      BY <1>0, <1>4 DEF Work
    <2>2. /\ w.c.output \in Nat /\ w.c.local_consumed \in Nat
          /\ w.c.extended \in Nat /\ w.c.local_window \in Nat /\ r <= w.c.extended
      BY <1>0, <1>4, CountsAreNat
    <2> HIDE DEF wrote
    <2>4. /\ Rest(v.c, w.c) /\ v.c.output = w.c.output /\ v.c.extended = w.c.extended - r
          /\ v.c.local_window = w.c.local_window
          /\ v.c.local_consumed = w.c.local_consumed + r
          /\ v.c.remote_window = w.c.remote_window /\ v.c.got = w.c.got
          /\ v.c.input = w.c.input /\ v.c.taken = w.c.taken
      BY <1>0, <2>1 DEF Channel, Rest
    <2>5. w.c.type # "larval"
      BY <1>0, <1>4 DEF LocalOK
    <2>6. LocalOK(v.c)
      BY <1>0, <1>4, <2>2, <2>4, <2>5 DEF LocalOK, Rest, Accounted, Est
    <2>7. Kin(c0, v.c)
      BY <1>0, <2>4 DEF Kin, Rest, Accounted
    <2>8. Tally(c0, v.c, w.tx, cut)
      BY <1>0, <2>4 DEF Tally, Rest, EofDrained
    <2>9. w.c.flags \subseteq v.c.flags
      BY <2>4 DEF Rest
    <2>10. v \in Sound(c0, cut)
      BY <1>1, <2>1, <2>6, <2>7, <2>8, <2>9, QuietSound
    <2> QED BY <2>10 DEF v
  <1>5. CASE v = read /\ w.c.extended_usage # "write" /\ r > 0
    <2>1. /\ v.tx = w.tx /\ v.err = w.err
          /\ v.c = [w.c EXCEPT !.extended = x, !.etaken = w.c.etaken + r]
      BY <1>0, <1>5 DEF Work
    <2> HIDE DEF read, x
    <2>4. /\ Rest(v.c, w.c) /\ v.c.output = w.c.output
          /\ v.c.local_window = w.c.local_window
          /\ v.c.local_consumed = w.c.local_consumed
          /\ v.c.remote_window = w.c.remote_window /\ v.c.got = w.c.got
          /\ v.c.input = w.c.input /\ v.c.taken = w.c.taken
      BY <1>0, <2>1 DEF Channel, Rest
    <2>6. LocalOK(v.c)
      BY <1>0, <1>5, <2>4 DEF LocalOK, Rest, Accounted, Est
    <2>7. Kin(c0, v.c)
      BY <1>0, <2>4 DEF Kin, Rest, Accounted
    <2>8. Tally(c0, v.c, w.tx, cut)
      BY <1>0, <2>4 DEF Tally, Rest, EofDrained
    <2>9. w.c.flags \subseteq v.c.flags
      BY <2>4 DEF Rest
    <2>10. v \in Sound(c0, cut)
      BY <1>1, <2>1, <2>6, <2>7, <2>8, <2>9, QuietSound
    <2> QED BY <2>10 DEF v
  <1> QED BY <1>2, <1>3, <1>4, <1>5 DEF v

\* What one packet more adds to the three accounts.
LEMMA SumsAppend ==
  ASSUME NEW q \in Seq(Msg), NEW m \in Msg
  PROVE  /\ m.t \in {"DATA", "EXTDATA"} =>
              InFlight(Append(q, m), m.inst, {"DATA", "EXTDATA"})
                = InFlight(q, m.inst, {"DATA", "EXTDATA"}) + m.n
         /\ m.t \notin {"DATA", "EXTDATA"} =>
              InFlight(Append(q, m), m.inst, {"DATA", "EXTDATA"})
                = InFlight(q, m.inst, {"DATA", "EXTDATA"})
         /\ m.t \in {"ADJUST", "CONFIRM"} =>
              InFlight(Append(q, m), m.inst, {"ADJUST", "CONFIRM"})
                = InFlight(q, m.inst, {"ADJUST", "CONFIRM"}) + m.n
         /\ m.t \notin {"ADJUST", "CONFIRM"} =>
              InFlight(Append(q, m), m.inst, {"ADJUST", "CONFIRM"})
                = InFlight(q, m.inst, {"ADJUST", "CONFIRM"})
         /\ m.t = "DATA" =>
              InFlight(Append(q, m), m.inst, {"DATA"}) = InFlight(q, m.inst, {"DATA"}) + m.n
         /\ m.t # "DATA" =>
              InFlight(Append(q, m), m.inst, {"DATA"}) = InFlight(q, m.inst, {"DATA"})
         /\ InFlight(q, m.inst, {"DATA", "EXTDATA"}) \in Nat
         /\ InFlight(q, m.inst, {"ADJUST", "CONFIRM"}) \in Nat
         /\ InFlight(q, m.inst, {"DATA"}) \in Nat
  <1>1. /\ InFlight(q, m.inst, {"DATA", "EXTDATA"}) \in Nat
        /\ InFlight(q, m.inst, {"ADJUST", "CONFIRM"}) \in Nat
        /\ InFlight(q, m.inst, {"DATA"}) \in Nat
    BY InFlightNat
  <1>2. InFlight(Append(q, m), m.inst, {"DATA", "EXTDATA"})
          = InFlight(q, m.inst, {"DATA", "EXTDATA"}) + Bytes(m, m.inst, {"DATA", "EXTDATA"})
    BY InFlightAppend
  <1>3. InFlight(Append(q, m), m.inst, {"ADJUST", "CONFIRM"})
          = InFlight(q, m.inst, {"ADJUST", "CONFIRM"}) + Bytes(m, m.inst, {"ADJUST", "CONFIRM"})
    BY InFlightAppend
  <1>4. InFlight(Append(q, m), m.inst, {"DATA"})
          = InFlight(q, m.inst, {"DATA"}) + Bytes(m, m.inst, {"DATA"})
    BY InFlightAppend
  <1> QED BY <1>1, <1>2, <1>3, <1>4 DEF Bytes

\* channel_check_window: the credit it gives back is the credit it announces.
LEMMA CheckWindowSound ==
  ASSUME NEW c0 \in Channel, NEW cut, NEW w \in Sound(c0, cut)
  PROVE  channel_check_window(w) \in Sound(c0, cut)
  <1> DEFINE k == w.c.local_consumed
             s == Send(w, "ADJUST", k)
             v == [s EXCEPT !.c.local_window = s.c.local_window + k, !.c.local_consumed = 0]
  <1>0. /\ w \in Good /\ w \in Work /\ w.c \in Channel /\ w.tx \in Seq(Msg) /\ LocalOK(w.c)
        /\ Kin(c0, w.c) /\ Tally(c0, w.c, w.tx, cut) /\ k \in Nat
        /\ w.c.local_window \in Nat /\ w.c.output \in Nat /\ w.c.extended \in Nat
    BY SoundParts, CountsAreNat
  <1>1. \/ channel_check_window(w) = w
        \/ /\ channel_check_window(w) = v /\ w.c.type = "open"
           /\ w.c.flags \cap {"CLOSE_SENT", "CLOSE_RCVD"} = {}
    <2>1. s.c = w.c
      BY <1>0, SendWork DEF MsgType
    <2> QED BY <2>1 DEF channel_check_window
  <1>2. CASE /\ channel_check_window(w) = v /\ w.c.type = "open"
             /\ w.c.flags \cap {"CLOSE_SENT", "CLOSE_RCVD"} = {}
    <2>1. w.c.remote_id # NoId /\ "ADJUST" \in MsgType /\ "CLOSE_SENT" \notin w.c.flags
      BY <1>0, <1>2 DEF LocalOK, MsgType, Est
    <2>2. PICK m \in Msg :
             /\ s.tx = Append(w.tx, m) /\ s.c = w.c /\ s.err = w.err
             /\ m.t = "ADJUST" /\ m.n = k /\ m.id = w.c.remote_id
             /\ m.inst = w.c.inst /\ m.ctype = w.c.ctype
      <3>1. k \in Nat /\ w \in Work
        BY <1>0
      <3> HIDE DEF k
      <3> QED BY <2>1, <3>1, SendTx
    <2>3. s \in Good /\ s \in Work
      BY <1>0, <2>1, SendGood, GoodParts
    <2>3a. s.c.local_window + k \in Nat /\ 0 \in Nat
      BY <1>0, <2>2
    <2> HIDE DEF s, k
    <2>4. v \in Good
      BY <2>3, <2>3a, ReceiveGood
    <2>5. /\ v.tx = s.tx /\ v.err = s.err
          /\ v.c = [s.c EXCEPT !.local_window = s.c.local_window + k, !.local_consumed = 0]
      BY <2>3 DEF Work
    <2> HIDE DEF v
    <2>6. /\ Rest(v.c, w.c) /\ v.c.output = w.c.output /\ v.c.extended = w.c.extended
          /\ v.c.local_window = w.c.local_window + k
          /\ v.c.local_consumed = 0
          /\ v.c.remote_window = w.c.remote_window /\ v.c.got = w.c.got
          /\ v.c.input = w.c.input /\ v.c.taken = w.c.taken
      BY <1>0, <2>2, <2>5 DEF Channel, Rest
    <2>7. LocalOK(v.c)
      BY <1>0, <1>2, <2>6 DEF LocalOK, Rest, Accounted, Est, k
    <2>8. Kin(c0, v.c)
      BY <1>0, <2>6 DEF Kin, Rest, Accounted
    <2>9. Speaks(c0, v.c, m)
      BY <1>0, <1>2, <2>1, <2>2 DEF Speaks, Kin, Est, Carrying
    <2>10. w.c.inst = c0.inst
      BY <1>0 DEF Kin
    <2>11. /\ InFlight(v.tx, c0.inst, {"DATA", "EXTDATA"})
               = InFlight(w.tx, c0.inst, {"DATA", "EXTDATA"})
           /\ InFlight(v.tx, c0.inst, {"ADJUST", "CONFIRM"})
               = InFlight(w.tx, c0.inst, {"ADJUST", "CONFIRM"}) + k
           /\ InFlight(v.tx, c0.inst, {"DATA"}) = InFlight(w.tx, c0.inst, {"DATA"})
           /\ InFlight(w.tx, c0.inst, {"ADJUST", "CONFIRM"}) \in Nat
      BY <1>0, <2>2, <2>5, <2>10, InFlightAppend, InFlightNat, SMTT(30) DEF Bytes
    <2>12. v.c.local_window
             = c0.local_window + InFlight(v.tx, c0.inst, {"ADJUST", "CONFIRM"})
      <3>1. w.c.local_window
             = c0.local_window + InFlight(w.tx, c0.inst, {"ADJUST", "CONFIRM"})
        BY <1>0 DEF Tally
      <3>2. c0.local_window \in Nat
        BY DEF Channel
      <3> QED BY <1>0, <2>6, <2>11, <3>1, <3>2
    <2>13. Tally(c0, v.c, v.tx, cut)
      BY <1>0, <2>6, <2>11, <2>12 DEF Tally, Rest, EofDrained
    <2>14. w.c.flags \subseteq v.c.flags /\ v.err = w.err /\ v.tx = Append(w.tx, m)
      BY <2>2, <2>5, <2>6 DEF Rest
    <2>15. m.t \in Carrying => "EOF_SENT" \notin w.c.flags
      BY <2>2 DEF Carrying
    <2>16. v \in Sound(c0, cut)
      BY <2>1, <2>4, <2>7, <2>8, <2>9, <2>13, <2>14, <2>15, SpokenSound
    <2> QED BY <1>2, <2>16
  <1> QED BY <1>1, <1>2

\* channel_post_open.
LEMMA PostOpenSound ==
  ASSUME NEW c0 \in Channel, NEW cut, NEW w \in Sound(c0, cut), w.c.type = "open",
         NEW io \in PollResults(w.c)
  PROVE  channel_post_open(w, io) \in Sound(c0, cut)
  <1> DEFINE r == channel_handle_rfd(w, io.r)
             o == channel_handle_wfd(r, io.w)
             x == channel_handle_efd(o, io.x)
  <1>0. w \in Good /\ w.c \in Channel /\ w.c.type \in Est
    BY SoundParts DEF Est
  <1>1. /\ io.r \in Int /\ io.w \in Int /\ io.x \in Int
        /\ io.w <= w.c.output
        /\ "efd_w" \in w.c.io_want => io.x <= w.c.extended
    BY <1>0, PollResultsFacts
  <1>1a. io.r > 0 => w.c.istate = "open"
    <2>1. io.r \in ReadResults(w.c)
      BY DEF PollResults
    <2> QED BY <2>1 DEF ReadResults
  <1>2. /\ r \in Good
        /\ r.c.output = w.c.output /\ r.c.extended = w.c.extended
        /\ r.c.io_want = w.c.io_want
    BY <1>0, <1>1, HandleRfdGood, Zenon
  <1>2a. r \in Sound(c0, cut)
    BY <1>0, <1>1, <1>1a, HandleRfdSound
  <1> HIDE DEF r
  <1>2b. r.c.type \in Est
    BY <1>0, <1>2a, KeptEst
  <1>3. o \in Good /\ o.c.extended = r.c.extended /\ o.c.io_want = r.c.io_want
    BY <1>1, <1>2, HandleWfdGood
  <1>3a. o \in Sound(c0, cut)
    BY <1>1, <1>2, <1>2a, <1>2b, HandleWfdSound
  <1> HIDE DEF o
  <1>3b. o.c.type \in Est
    BY <1>0, <1>3a, KeptEst
  <1>4. x \in Sound(c0, cut)
    BY <1>1, <1>2, <1>3, <1>3a, <1>3b, HandleEfdSound
  <1> HIDE DEF x
  <1>5. channel_check_window(x) \in Sound(c0, cut)
    BY <1>4, CheckWindowSound
  <1> QED BY <1>5 DEF channel_post_open, x, o, r

\* What SendBuffered sends: nothing, or one packet within the window.
LEMMA SendBufferedIs ==
  ASSUME NEW w \in Good, NEW t \in MsgType, NEW len \in Nat, w.c.remote_id # NoId
  PROVE  /\ SendBuffered(w, t, len) \in Good
         /\ SendBuffered(w, t, len).c.input = w.c.input
         /\ SendBuffered(w, t, len).c.extended = w.c.extended
         /\ \/ SendBuffered(w, t, len) = w
            \/ \E m \in Msg :
                 /\ SendBuffered(w, t, len).tx = Append(w.tx, m)
                 /\ SendBuffered(w, t, len).err = w.err
                 /\ SendBuffered(w, t, len).c =
                      [w.c EXCEPT !.remote_window = w.c.remote_window - m.n]
                 /\ m.t = t /\ m.id = w.c.remote_id
                 /\ m.inst = w.c.inst /\ m.ctype = w.c.ctype
                 /\ m.n <= len /\ m.n <= w.c.remote_window /\ m.n <= MaxPacket
  <1> DEFINE s == SendBuffered(w, t, len)
  <1>00. s \in Good /\ s.c.input = w.c.input /\ s.c.extended = w.c.extended
    BY SendBufferedGood, Zenon
  <1> DEFINE n == Lesser(Lesser(len, w.c.remote_window), MaxPacket)
             p == Send(w, t, n)
             q == [p EXCEPT !.c.remote_window = p.c.remote_window - n]
  <1>0. w \in Work /\ w.c.remote_window \in Nat /\ MaxPacket \in Nat
    BY GoodParts, CountsAreNat, MaxPacketIsNat
  <1>1. /\ n \in Nat /\ n <= len /\ n <= w.c.remote_window /\ n <= MaxPacket
    BY <1>0 DEF Lesser
  <1>2. s = IF n = 0 THEN w ELSE q
    BY DEF SendBuffered
  <1> HIDE DEF n
  <1> HIDE DEF s
  <1>3. PICK m \in Msg :
           /\ p.tx = Append(w.tx, m) /\ p.c = w.c /\ p.err = w.err
           /\ m.t = t /\ m.n = n /\ m.id = w.c.remote_id
           /\ m.inst = w.c.inst /\ m.ctype = w.c.ctype
    BY <1>0, <1>1, SendTx
  <1>4. p \in Work
    BY <1>0, <1>1, SendWork
  <1> HIDE DEF p
  <1>5. /\ q.tx = p.tx /\ q.err = p.err
        /\ q.c = [p.c EXCEPT !.remote_window = p.c.remote_window - n]
    BY <1>4 DEF Work
  <1> HIDE DEF q
  <1>6. CASE n # 0
    BY <1>00, <1>1, <1>2, <1>3, <1>5, <1>6 DEF s
  <1> QED BY <1>00, <1>2, <1>6 DEF s

\* The part of channel_output_poll_input_open that sends data.
LEMMA PollDataSound ==
  ASSUME NEW c0 \in Channel, NEW cut, NEW w \in Sound(c0, cut), w.c.type \in Est,
         w.c.flags \cap {"CLOSE_SENT", "EOF_SENT"} = {}, w.c.input > 0,
         w.c.istate \in {"open", "drain"}
  PROVE  /\ channel_output_poll_input_open(w) \in Sound(c0, cut)
         /\ channel_output_poll_input_open(w).c.flags = w.c.flags
  <1> DEFINE s == SendBuffered(w, "DATA", w.c.input)
             k == w.c.remote_window - s.c.remote_window
             v == [s EXCEPT !.c.input = s.c.input - k]
  <1>0. /\ w \in Good /\ w \in Work /\ w.c \in Channel /\ w.tx \in Seq(Msg) /\ LocalOK(w.c)
        /\ Kin(c0, w.c) /\ Tally(c0, w.c, w.tx, cut)
        /\ w.c.input \in Nat /\ w.c.remote_window \in Nat /\ w.c.taken \in Nat
    BY SoundParts, CountsAreNat
  <1>1. w.c.remote_id # NoId /\ "DATA" \in MsgType
    BY <1>0 DEF LocalOK, MsgType
  <1>1a. w \in Good /\ w.c.input \in Nat /\ "DATA" \in MsgType /\ w.c.remote_id # NoId
    BY <1>0, <1>1
  <1>1b. s \in Good /\ s.c.input = w.c.input
    BY <1>1a, SendBufferedIs
  <1>1c. s = w \/ \E m \in Msg :
              /\ s.tx = Append(w.tx, m) /\ s.err = w.err
              /\ s.c = [w.c EXCEPT !.remote_window = w.c.remote_window - m.n]
              /\ m.t = "DATA" /\ m.id = w.c.remote_id
              /\ m.inst = w.c.inst /\ m.ctype = w.c.ctype
              /\ m.n <= w.c.input /\ m.n <= w.c.remote_window /\ m.n <= MaxPacket
    BY <1>1a, SendBufferedIs
  <1>1d. channel_output_poll_input_open(w) = v
    BY <1>0 DEF channel_output_poll_input_open
  <1> HIDE DEF s
  <1>2. CASE s = w
    <2>1. k = 0 /\ s.c.input - k = w.c.input
      BY <1>0, <1>2
    <2> HIDE DEF k
    <2>1a. [w.c EXCEPT !.input = w.c.input] = w.c
      BY <1>0 DEF Channel
    <2>2. v = w
      BY <1>0, <1>2, <2>1, <2>1a DEF Work
    <2> QED BY <1>1d, <2>2
  <1>3. ASSUME NEW m \in Msg, s.tx = Append(w.tx, m), s.err = w.err,
               s.c = [w.c EXCEPT !.remote_window = w.c.remote_window - m.n],
               m.t = "DATA", m.id = w.c.remote_id,
               m.inst = w.c.inst, m.ctype = w.c.ctype,
               m.n <= w.c.input, m.n <= w.c.remote_window, m.n <= MaxPacket
        PROVE  v \in Sound(c0, cut) /\ v.c.flags = w.c.flags
    <2>0. m.n \in Nat
      BY DEF Msg
    <2>1. s \in Good /\ s.c.input = w.c.input /\ s \in Work
      BY <1>1b, GoodParts
    <2>2. s.c.remote_window = w.c.remote_window - m.n
      BY <1>0, <1>3 DEF Channel
    <2>3. k = m.n
      BY <1>0, <2>0, <2>2
    <2> HIDE DEF k
    <2>4. s.c.input - k \in Nat
      BY <1>0, <1>3, <2>0, <2>1, <2>3
    <2>5. v \in Good
      BY <2>1, <2>4, BufferGood
    <2>6. v.tx = s.tx /\ v.err = s.err /\ v.c = [s.c EXCEPT !.input = s.c.input - k]
      BY <2>1 DEF Work
    <2> HIDE DEF v
    <2>7. /\ Rest(v.c, w.c) /\ v.c.output = w.c.output /\ v.c.extended = w.c.extended
          /\ v.c.local_window = w.c.local_window
          /\ v.c.local_consumed = w.c.local_consumed
          /\ v.c.remote_window = w.c.remote_window - m.n /\ v.c.got = w.c.got
          /\ v.c.input = w.c.input - m.n /\ v.c.taken = w.c.taken
      BY <1>0, <1>3, <2>3, <2>6 DEF Channel, Rest
    <2>8. LocalOK(v.c)
      BY <1>0, <2>7 DEF LocalOK, Rest, Accounted, Est
    <2>9. Kin(c0, v.c)
      BY <1>0, <2>7 DEF Kin, Rest, Accounted
    <2>10. Speaks(c0, v.c, m)
      BY <1>0, <1>3 DEF Speaks, Kin, Est, Carrying
    <2>11. w.c.inst = c0.inst /\ v.tx = Append(w.tx, m)
      BY <1>0, <1>3, <2>6 DEF Kin
    <2>12. /\ InFlight(v.tx, c0.inst, {"DATA", "EXTDATA"})
               = InFlight(w.tx, c0.inst, {"DATA", "EXTDATA"}) + m.n
           /\ InFlight(v.tx, c0.inst, {"ADJUST", "CONFIRM"})
               = InFlight(w.tx, c0.inst, {"ADJUST", "CONFIRM"})
           /\ InFlight(v.tx, c0.inst, {"DATA"}) = InFlight(w.tx, c0.inst, {"DATA"}) + m.n
           /\ InFlight(w.tx, c0.inst, {"DATA", "EXTDATA"}) \in Nat
           /\ InFlight(w.tx, c0.inst, {"DATA"}) \in Nat
      <3>1. m.inst = c0.inst /\ m.t = "DATA" /\ w.tx \in Seq(Msg)
        BY <1>0, <1>3, <2>11
      <3> QED BY <2>11, <3>1, SumsAppend, SMTT(30)
    <2>13. /\ v.c.remote_window + InFlight(v.tx, c0.inst, {"DATA", "EXTDATA"})
                = c0.remote_window
           /\ \/ cut \/ v.c.type = "abandoned"
              \/ v.c.taken + c0.input
                   = c0.taken + v.c.input + InFlight(v.tx, c0.inst, {"DATA"})
      <3>1. c0.input \in Nat /\ c0.taken \in Nat
        BY DEF Channel
      <3>2. v.c.remote_window + InFlight(v.tx, c0.inst, {"DATA", "EXTDATA"})
                = c0.remote_window
        <4>1. w.c.remote_window + InFlight(w.tx, c0.inst, {"DATA", "EXTDATA"})
                = c0.remote_window
          BY <1>0 DEF Tally
        <4> QED BY <1>0, <2>0, <2>7, <2>12, <4>1
      <3>3. CASE cut \/ w.c.type = "abandoned"
        BY <2>7, <3>2, <3>3 DEF Rest
      <3>4. CASE w.c.taken + c0.input
                   = c0.taken + w.c.input + InFlight(w.tx, c0.inst, {"DATA"})
        BY <1>0, <2>0, <2>7, <2>12, <3>1, <3>2, <3>4
      <3> QED BY <1>0, <3>3, <3>4 DEF Tally
    <2>14. EofDrained(v.c)
      BY <2>7 DEF EofDrained, Rest
    <2>15. Tally(c0, v.c, v.tx, cut)
      BY <1>0, <2>7, <2>12, <2>13, <2>14 DEF Tally, Rest
    <2>16. w.c.flags \subseteq v.c.flags /\ v.err = w.err
           /\ "CLOSE_SENT" \notin w.c.flags /\ "EOF_SENT" \notin w.c.flags
      BY <1>3, <2>6, <2>7 DEF Rest
    <2>17. v \in Sound(c0, cut)
      BY <2>5, <2>8, <2>9, <2>10, <2>11, <2>15, <2>16, SpokenSound
    <2> QED BY <2>7, <2>17 DEF Rest
  <1> HIDE DEF v
  <1> QED BY <1>1c, <1>1d, <1>2, <1>3

\* channel_output_poll_extended_read: stderr never follows EOF.
LEMMA PollExtSound ==
  ASSUME NEW c0 \in Channel, NEW cut, NEW w \in Sound(c0, cut), w.c.type \in Est,
         w.c.flags \cap {"CLOSE_SENT", "EOF_SENT"} = {},
         w.c.extended_usage = "read"
  PROVE  channel_output_poll_extended_read(w) \in Sound(c0, cut)
  <1> DEFINE s == SendBuffered(w, "EXTDATA", w.c.extended)
             k == w.c.remote_window - s.c.remote_window
             v == [s EXCEPT !.c.extended = s.c.extended - k]
  <1>0. /\ w \in Good /\ w \in Work /\ w.c \in Channel /\ w.tx \in Seq(Msg) /\ LocalOK(w.c)
        /\ Kin(c0, w.c) /\ Tally(c0, w.c, w.tx, cut)
        /\ w.c.extended \in Nat /\ w.c.remote_window \in Nat
    BY SoundParts, CountsAreNat
  <1>1. w.c.remote_id # NoId /\ "EXTDATA" \in MsgType
    BY <1>0 DEF LocalOK, MsgType
  <1>1a. w \in Good /\ w.c.extended \in Nat /\ "EXTDATA" \in MsgType /\ w.c.remote_id # NoId
    BY <1>0, <1>1
  <1>1b. s \in Good /\ s.c.extended = w.c.extended
    BY <1>1a, SendBufferedIs
  <1>1c. s = w \/ \E m \in Msg :
              /\ s.tx = Append(w.tx, m) /\ s.err = w.err
              /\ s.c = [w.c EXCEPT !.remote_window = w.c.remote_window - m.n]
              /\ m.t = "EXTDATA" /\ m.id = w.c.remote_id
              /\ m.inst = w.c.inst /\ m.ctype = w.c.ctype
              /\ m.n <= w.c.extended /\ m.n <= w.c.remote_window /\ m.n <= MaxPacket
    BY <1>1a, SendBufferedIs, SMTT(60)
  <1>1d. channel_output_poll_extended_read(w) = v
    BY <1>0 DEF channel_output_poll_extended_read
  <1> HIDE DEF s
  <1>2. CASE s = w
    <2>1. k = 0 /\ s.c.extended - k = w.c.extended
      BY <1>0, <1>2
    <2> HIDE DEF k
    <2>1a. [w.c EXCEPT !.extended = w.c.extended] = w.c
      BY <1>0 DEF Channel
    <2>2. v = w
      BY <1>0, <1>2, <2>1, <2>1a DEF Work
    <2> QED BY <1>1d, <2>2
  <1>3. ASSUME NEW m \in Msg, s.tx = Append(w.tx, m), s.err = w.err,
               s.c = [w.c EXCEPT !.remote_window = w.c.remote_window - m.n],
               m.t = "EXTDATA", m.id = w.c.remote_id,
               m.inst = w.c.inst, m.ctype = w.c.ctype,
               m.n <= w.c.extended, m.n <= w.c.remote_window, m.n <= MaxPacket
        PROVE  v \in Sound(c0, cut)
    <2>0. m.n \in Nat
      BY DEF Msg
    <2>1. s \in Good /\ s.c.extended = w.c.extended /\ s \in Work
      BY <1>1b, GoodParts
    <2>2. s.c.remote_window = w.c.remote_window - m.n
      BY <1>0, <1>3 DEF Channel
    <2>3. k = m.n
      BY <1>0, <2>0, <2>2
    <2> HIDE DEF k
    <2>4. s.c.extended - k \in Nat
      BY <1>0, <1>3, <2>0, <2>1, <2>3
    <2>5. v \in Good
      BY <2>1, <2>4, BufferGood
    <2>6. v.tx = s.tx /\ v.err = s.err /\ v.c = [s.c EXCEPT !.extended = s.c.extended - k]
      BY <2>1 DEF Work
    <2> HIDE DEF v
    <2>7. /\ Rest(v.c, w.c) /\ v.c.output = w.c.output /\ v.c.input = w.c.input
          /\ v.c.local_window = w.c.local_window
          /\ v.c.local_consumed = w.c.local_consumed
          /\ v.c.remote_window = w.c.remote_window - m.n /\ v.c.got = w.c.got
          /\ v.c.taken = w.c.taken
      BY <1>0, <1>3, <2>3, <2>6 DEF Channel, Rest
    <2>8. LocalOK(v.c)
      BY <1>0, <2>7 DEF LocalOK, Rest, Accounted, Est
    <2>9. Kin(c0, v.c)
      BY <1>0, <2>7 DEF Kin, Rest, Accounted
    <2>10. Speaks(c0, v.c, m)
      BY <1>0, <1>3 DEF Speaks, Kin, Est, Carrying, LocalOK
    <2>11. w.c.inst = c0.inst /\ v.tx = Append(w.tx, m)
      BY <1>0, <1>3, <2>6 DEF Kin
    <2>12. /\ InFlight(v.tx, c0.inst, {"DATA", "EXTDATA"})
               = InFlight(w.tx, c0.inst, {"DATA", "EXTDATA"}) + m.n
           /\ InFlight(v.tx, c0.inst, {"ADJUST", "CONFIRM"})
               = InFlight(w.tx, c0.inst, {"ADJUST", "CONFIRM"})
           /\ InFlight(v.tx, c0.inst, {"DATA"}) = InFlight(w.tx, c0.inst, {"DATA"})
           /\ InFlight(w.tx, c0.inst, {"DATA", "EXTDATA"}) \in Nat
      <3>1. m.inst = c0.inst /\ m.t = "EXTDATA" /\ w.tx \in Seq(Msg)
        BY <1>0, <1>3, <2>11
      <3> QED BY <2>11, <3>1, SumsAppend, SMTT(30)
    <2>13. v.c.remote_window + InFlight(v.tx, c0.inst, {"DATA", "EXTDATA"})
                = c0.remote_window
      <3>1. w.c.remote_window + InFlight(w.tx, c0.inst, {"DATA", "EXTDATA"})
              = c0.remote_window
        BY <1>0 DEF Tally
      <3> QED BY <1>0, <2>0, <2>7, <2>12, <3>1
    <2>15. Tally(c0, v.c, v.tx, cut)
      BY <1>0, <2>7, <2>12, <2>13 DEF Tally, Rest, EofDrained
    <2>16. w.c.flags \subseteq v.c.flags /\ v.err = w.err
           /\ "CLOSE_SENT" \notin w.c.flags /\ "EOF_SENT" \notin w.c.flags
      BY <1>3, <2>6, <2>7 DEF Rest
    <2> QED BY <2>5, <2>8, <2>9, <2>10, <2>11, <2>15, <2>16, SpokenSound
  <1> HIDE DEF v
  <1> QED BY <1>1c, <1>1d, <1>2, <1>3

\* channel_output_poll.
LEMMA OutputPollSound ==
  ASSUME NEW c0 \in Channel, NEW cut, NEW w \in Sound(c0, cut)
  PROVE  channel_output_poll(w) \in Sound(c0, cut)
  <1> DEFINE a == IF w.c.istate \in {"open", "drain"}
                  THEN channel_output_poll_input_open(w) ELSE w
             p == channel_output_poll_input_open(w)
  <1>0. ShutFirst(w.c) /\ w.c \in Channel /\ w.c.input \in Nat
    BY SoundParts, CountsAreNat
  <1>1. CASE w.c.type # "open" \/ w.c.flags \cap {"CLOSE_SENT", "CLOSE_RCVD"} # {}
    BY <1>1 DEF channel_output_poll
  <1>2. CASE w.c.type = "open" /\ w.c.flags \cap {"CLOSE_SENT", "CLOSE_RCVD"} = {}
    <2>0. w.c.type \in Est /\ "CLOSE_SENT" \notin w.c.flags
      BY <1>2 DEF Est
    <2>1. ASSUME w.c.istate \in {"open", "drain"}
          PROVE  p \in Sound(c0, cut) /\ p.c.flags \subseteq w.c.flags \cup {"EOF_SENT"}
      <3>1. CASE w.c.input > 0
        <4>1. w.c.flags \cap {"CLOSE_SENT", "EOF_SENT"} = {}
          BY <1>0, <2>0, <2>1 DEF ShutFirst
        <4>2. p \in Sound(c0, cut) /\ p.c.flags = w.c.flags
          BY <2>0, <2>1, <3>1, <4>1, PollDataSound
        <4> QED BY <4>2
      <3>2. CASE w.c.input = 0
        <4>1. chan_ibuf_empty(w) \in Sound(c0, cut)
              /\ chan_ibuf_empty(w).c.flags \subseteq w.c.flags \cup {"EOF_SENT"}
          BY <2>0, IbufEmptySound
        <4>2. p \in {w, chan_ibuf_empty(w)}
          BY <3>2 DEF channel_output_poll_input_open
        <4> QED BY <4>1, <4>2
      <3> QED BY <1>0, <3>1, <3>2
    <2>1a. \/ p \in Sound(c0, cut) /\ p.c.flags \subseteq w.c.flags \cup {"EOF_SENT"}
           \/ w.c.istate \notin {"open", "drain"}
      BY <2>1
    <2>2. a \in Sound(c0, cut) /\ "CLOSE_SENT" \notin a.c.flags
      BY <2>0, <2>1a
    <2>3. channel_output_poll(w) =
            IF "EOF_SENT" \notin a.c.flags /\ a.c.extended_usage = "read"
            THEN channel_output_poll_extended_read(a) ELSE a
      BY <1>2 DEF channel_output_poll
    <2> HIDE DEF a
    <2>4. a.c.type \in Est
      BY <2>0, <2>2, KeptEst
    <2>5. CASE "EOF_SENT" \notin a.c.flags /\ a.c.extended_usage = "read"
      <3>1. a.c.flags \cap {"CLOSE_SENT", "EOF_SENT"} = {}
        BY <2>2, <2>5
      <3>2. channel_output_poll_extended_read(a) \in Sound(c0, cut)
        BY <2>2, <2>4, <2>5, <3>1, PollExtSound
      <3> QED BY <2>3, <2>5, <3>2
    <2> QED BY <2>2, <2>3, <2>5
  <1> QED BY <1>1, <1>2

\* An update of io_want or delayed.
LEMMA IoWantSound ==
  ASSUME NEW c0, NEW cut, NEW w \in Sound(c0, cut), NEW S \in SUBSET ChanIO
  PROVE  [w EXCEPT !.c.io_want = S] \in Sound(c0, cut)
  <1> DEFINE v == [w EXCEPT !.c.io_want = S]
  <1>0. w \in Good /\ w \in Work /\ w.c \in Channel
    BY SoundParts
  <1>1. v \in Good
    BY <1>0, IoWantGood
  <1>2. v.tx = w.tx /\ v.err = w.err /\ v.c = [w.c EXCEPT !.io_want = S]
    BY <1>0 DEF Work
  <1> HIDE DEF v
  <1>3. Wire(v.c) = Wire(w.c) /\ v.c.istate = w.c.istate
    BY <1>0, <1>2 DEF Wire, Channel
  <1>4. v \in Sound(c0, cut)
    BY <1>1, <1>2, <1>3, SameWire
  <1> QED BY <1>4 DEF v

\* The PRE table.
LEMMA PreSound ==
  ASSUME NEW c0, NEW cut, NEW w \in Sound(c0, cut)
  PROVE  channel_pre(w) \in Sound(c0, cut)
  <1> DEFINE d == IF /\ w.c.ostate = "drain" /\ w.c.output = 0
                     /\ ~CHANNEL_EFD_OUTPUT_ACTIVE(w.c)
                  THEN chan_obuf_empty(w) ELSE w
  <1>1. CASE w.c.type = "open"
    <2>1. w.c.type \in Est
      BY <1>1 DEF Est
    <2>2. d \in Sound(c0, cut)
      BY <2>1, ObufEmptySound
    <2>3. \E S \in SUBSET ChanIO :
            channel_pre_open(w) = [d EXCEPT !.c.io_want = S]
      BY DEF channel_pre_open, ChanIO
    <2> HIDE DEF d
    <2>4. channel_pre_open(w) \in Sound(c0, cut)
      BY <2>2, <2>3, IoWantSound
    <2> QED BY <1>1, <2>4 DEF channel_pre
  <1>2. CASE w.c.type = "connecting"
    <2>1. {"sock_w"} \in SUBSET ChanIO
      BY DEF ChanIO
    <2>2. [w EXCEPT !.c.io_want = {"sock_w"}] \in Sound(c0, cut)
      BY <2>1, IoWantSound
    <2> QED BY <1>2, <2>2 DEF channel_pre
  <1>3. CASE w.c.type \notin {"open", "connecting"}
    BY <1>3 DEF channel_pre
  <1> QED BY <1>1, <1>2, <1>3

\* chan_write_failed throws the buffer away itself.
LEMMA WriteFailedEmpty ==
  ASSUME NEW w \in Good
  PROVE  chan_write_failed([w EXCEPT !.c.output = 0]) = chan_write_failed(w)
         \/ w.c.ostate = "closed"
  <1> DEFINE y == [w EXCEPT !.c.output = 0]
  <1>0. w \in Work /\ w.c \in Channel
    BY GoodParts
  <1>1. /\ y.c = [w.c EXCEPT !.output = 0] /\ y.tx = w.tx /\ y.err = w.err /\ y \in Work
    BY <1>0, BufferGood, GoodParts DEF Work
  <1>2. y.c.ostate = w.c.ostate /\ y.c.ctype = w.c.ctype
    BY <1>0, <1>1 DEF Channel
  <1>3. chan_shutdown_write(w) = y
    BY DEF chan_shutdown_write
  <1> HIDE DEF y
  <1>4. [y.c EXCEPT !.output = 0] = y.c
    BY <1>0, <1>1 DEF Channel
  <1>5. chan_shutdown_write(y) = y
    BY <1>1, <1>4 DEF chan_shutdown_write, Work
  <1>6. w.c.ostate # "closed" => chan_write_failed(y) = chan_write_failed(w)
    BY <1>2, <1>3, <1>5 DEF chan_write_failed
  <1> QED BY <1>6 DEF y

\* channel_force_close: the halves are shut, EOF goes out if it is due, and
\* what was still to be sent is thrown away.
LEMMA ForceCloseSound ==
  ASSUME NEW c0, NEW w \in Sound(c0, FALSE), w.c.type = "open"
  PROVE  channel_force_close(w) \in Sound(c0, FALSE)
  <1> DEFINE r == IF w.c.istate = "open" THEN chan_read_failed(w) ELSE w
             z == [r EXCEPT !.c.input = 0]
             i == IF r.c.istate = "drain" THEN chan_ibuf_empty(z) ELSE r
             o == IF i.c.ostate \in {"open", "drain"}
                  THEN chan_write_failed([i EXCEPT !.c.output = 0]) ELSE i
             u == DetachUser(o, TRUE)
             a == [u EXCEPT !.c.efd = FALSE, !.c.type = "abandoned"]
  <1>0. w \in Good /\ Kin(c0, w.c) /\ w.c.type \in Est
    BY SoundParts DEF Est
  <1>1. r \in Sound(c0, FALSE)
    BY <1>0, ReadFailedSound
  <1>2. r.c.type \in Est
    BY <1>0, <1>1, KeptEst
  <1> HIDE DEF r
  <1>3. r \in Good /\ r \in Work /\ r.c \in Channel /\ LocalOK(r.c) /\ Kin(c0, r.c)
        /\ Tally(c0, r.c, r.tx, FALSE) /\ Told(c0, r.c, r.tx) /\ r.err = "none"
    BY <1>1, SoundParts
  <1>4. r \in Sound(c0, TRUE)
    <2>1. Tally(c0, r.c, r.tx, TRUE)
      BY <1>3 DEF Tally
    <2> QED BY <1>3, <2>1 DEF Sound
  <1>5. z \in Sound(c0, TRUE)
    <2>1. z \in Good
      BY <1>3, BufferGood, 0 \in Nat
    <2>2. z.tx = r.tx /\ z.err = r.err /\ z.c = [r.c EXCEPT !.input = 0]
      BY <1>3 DEF Work
    <2> HIDE DEF z
    <2>3. /\ Rest(z.c, r.c) /\ z.c.output = r.c.output /\ z.c.input = 0
          /\ z.c.local_window = r.c.local_window /\ z.c.extended = r.c.extended
          /\ z.c.local_consumed = r.c.local_consumed
          /\ z.c.remote_window = r.c.remote_window /\ z.c.got = r.c.got
          /\ z.c.taken = r.c.taken
      BY <1>3, <2>2 DEF Channel, Rest
    <2>4. LocalOK(z.c)
      BY <1>2, <1>3, <2>3 DEF LocalOK, Rest, Accounted, Est, Fresh
    <2>5. Kin(c0, z.c)
      BY <1>3, <2>3 DEF Kin, Rest, Accounted
    <2>6. Tally(c0, z.c, r.tx, TRUE)
      BY <1>3, <2>3 DEF Tally, Rest, EofDrained
    <2>7. r.c.flags \subseteq z.c.flags
      BY <2>3 DEF Rest
    <2> QED BY <1>4, <2>1, <2>2, <2>4, <2>5, <2>6, <2>7, QuietSound
  <1>6. z.c.type \in Est
    BY <1>4, <1>5, <1>2, KeptEst
  <1> HIDE DEF z
  <1>7. i \in Sound(c0, TRUE)
    BY <1>4, <1>5, <1>6, IbufEmptySound
  <1> HIDE DEF i
  <1>8. i.c.type \in Est
    BY <1>4, <1>7, <1>2, KeptEst
  <1>9. i \in Good /\ i.c \in Channel
    BY <1>7, SoundParts
  <1>10. o \in Sound(c0, TRUE) /\ o.c.ostate = "closed"
    <2>1. CASE i.c.ostate \in {"open", "drain"}
      <3>1. chan_write_failed([i EXCEPT !.c.output = 0]) = chan_write_failed(i)
        BY <1>9, <2>1, WriteFailedEmpty
      <3>2. o = chan_write_failed(i)
        BY <2>1, <3>1
      <3>3. /\ chan_write_failed(i) \in Sound(c0, TRUE)
            /\ chan_write_failed(i).c.ostate = "closed"
        BY <1>7, <1>8, WriteFailedSound, ZenonT(60)
      <3> HIDE DEF o
      <3> QED BY <3>2, <3>3
    <2>2. CASE i.c.ostate = "closed"
      <3>1. o = i
        BY <2>2
      <3> QED BY <1>7, <2>2, <3>1
    <2> QED BY <1>9, <2>1, <2>2 DEF Channel, HalfState
  <1> HIDE DEF o
  <1>11. o \in Good /\ o \in Tells(c0, TRUE)
    BY <1>10, SoundParts, SoundTells
  <1>12. u \in Tells(c0, TRUE)
    BY <1>11, DetachTells
  <1>12a. u.c.ostate = o.c.ostate
    BY <1>11, DetachFacts
  <1>12b. o.c.type \in Est
    BY <1>4, <1>10, <1>2, KeptEst
  <1> HIDE DEF u
  <1>13. /\ u \in Work /\ u.c \in Channel /\ LocalOK(u.c) /\ Kin(c0, u.c)
         /\ Told(c0, u.c, u.tx) /\ Tally(c0, u.c, u.tx, TRUE) /\ u.err = "none"
    BY <1>12 DEF Tells, Work
  <1>13a. u.c.type \in Est /\ u.c.ostate = "closed" /\ c0.type \in Est
    BY <1>10, <1>12a, <1>13, <1>0 DEF Kin
  <1>14. /\ a.tx = u.tx /\ a.err = u.err
         /\ a.c = [u.c EXCEPT !.efd = FALSE, !.type = "abandoned"]
    BY <1>13 DEF Work
  <1>15. channel_force_close(w) = a
    BY DEF channel_force_close, a, u, o, i, r, z
  <1>16. a \in Good
    BY <1>0, <1>15, ForceCloseGood
  <1> HIDE DEF a
  <1>17. /\ a.c.flags = u.c.flags /\ a.c.type = "abandoned" /\ a.c.istate = u.c.istate
         /\ a.c.ctype = u.c.ctype /\ a.c.ostate = "closed" /\ a.c.efd = FALSE
         /\ a.c.remote_id = u.c.remote_id /\ a.c.inst = u.c.inst
         /\ a.c.input = u.c.input /\ a.c.output = u.c.output
         /\ a.c.extended = u.c.extended
         /\ a.c.extended_usage = u.c.extended_usage
         /\ a.c.local_window = u.c.local_window
         /\ a.c.local_window_max = u.c.local_window_max
         /\ a.c.local_consumed = u.c.local_consumed
         /\ a.c.remote_window = u.c.remote_window
         /\ a.c.taken = u.c.taken /\ a.c.got = u.c.got /\ a.c.wfail = u.c.wfail
    BY <1>13, <1>13a, <1>14 DEF Channel
  <1>18. LocalOK(a.c)
    BY <1>13, <1>13a, <1>17 DEF LocalOK, Accounted, Est
  <1>19. Kin(c0, a.c)
    BY <1>13, <1>13a, <1>17 DEF Kin, Accounted, Est
  <1>20. Tally(c0, a.c, a.tx, FALSE)
    BY <1>13, <1>14, <1>17 DEF Tally, EofDrained
  <1>21. Told(c0, a.c, a.tx)
    BY <1>13, <1>14, <1>17 DEF Told, Speaks
  <1> QED BY <1>13, <1>14, <1>15, <1>16, <1>18, <1>19, <1>20, <1>21 DEF Sound

\* session_input_exec: the larval channel gets its window and announces it.
LEMMA InputExecSound ==
  ASSUME NEW c \in Channel, ShutFirst(c), StaysAttached(c), LocalOK(c), c.type \in Est,
         NEW tty \in BOOLEAN
  PROVE  session_input_exec(Begin(c), tty) \in Sound(c, FALSE)
  <1> DEFINE w == Begin(c)
             v == channel_set_fds(w, tty)
             f == [v EXCEPT !.c.child = TRUE]
             g == Send(f, "ADJUST", Window)
  <1>0. w \in Sound(c, FALSE) /\ w.c = c /\ w.tx = <<>> /\ w.err = "none"
    BY BeginSound
  <1>0a. w \in Good /\ w \in Work
    BY <1>0, SoundParts
  <1>0b. c.remote_id # NoId
    BY DEF LocalOK
  <1>1. CASE c.type # "larval" \/ c.detach_user # "session"
    <2>1. session_input_exec(w, tty) = Reply(w)
      BY <1>0, <1>1 DEF session_input_exec
    <2>2. Reply(w) \in Sound(c, FALSE)
      BY <1>0, <1>0b, ReplySound
    <2> QED BY <2>1, <2>2
  <1>2. CASE c.type = "larval" /\ c.detach_user = "session"
    <2>1. session_input_exec(w, tty) = Reply(g)
      BY <1>0, <1>2 DEF session_input_exec
    <2>2. /\ v \in Work /\ v.c.type = "open" /\ v.c.flags = w.c.flags
          /\ v.c.istate = w.c.istate /\ v.c.ostate = w.c.ostate
          /\ v.c.detach_user = w.c.detach_user
          /\ v.c.detach_close = w.c.detach_close
      BY <1>0a, SetFdsFacts
    <2> DEFINE d == [c EXCEPT !.type = "open", !.isatty = tty, !.efd = ~tty,
                       !.extended_usage = IF tty THEN "ignore" ELSE "read"]
               h == [d EXCEPT !.local_window = Window, !.local_window_max = Window]
    <2>3. v.c = h /\ v.tx = <<>> /\ v.err = "none"
      <3> DEFINE x == [w EXCEPT !.c.type = "open", !.c.isatty = tty, !.c.efd = ~tty,
                       !.c.extended_usage = IF tty THEN "ignore" ELSE "read"]
      <3>1. x.c = d /\ x.tx = <<>> /\ x.err = "none" /\ DOMAIN x = {"c", "tx", "err"}
        BY <1>0, <1>0a DEF Work
      <3>2. v = [x EXCEPT !.c.local_window = Window, !.c.local_window_max = Window]
        BY DEF channel_set_fds
      <3> HIDE DEF x, d
      <3> QED BY <3>1, <3>2
    <2> HIDE DEF v
    <2>4. f \in Work /\ f.c = [v.c EXCEPT !.child = TRUE] /\ f.tx = v.tx /\ f.err = v.err
      BY <2>2 DEF Work, Channel
    <2> HIDE DEF f, h
    <2>4a. h = [d EXCEPT !.local_window = Window, !.local_window_max = Window]
      BY DEF h
    <2>4b. /\ d.flags = c.flags /\ d.type = "open" /\ d.istate = c.istate
           /\ d.ctype = c.ctype /\ d.ostate = c.ostate
           /\ d.remote_id = c.remote_id /\ d.inst = c.inst
           /\ d.input = c.input /\ d.output = c.output
           /\ d.extended = c.extended /\ d.extended_usage # "write"
           /\ d.local_consumed = c.local_consumed
           /\ d.remote_window = c.remote_window
           /\ d.taken = c.taken /\ d.got = c.got /\ d.wfail = c.wfail
           /\ d.detach_user = c.detach_user /\ d.detach_close = c.detach_close
           /\ DOMAIN d = DOMAIN c
      BY DEF Channel
    <2>4c. DOMAIN c = DOMAIN FreeChan /\ DOMAIN v.c = DOMAIN FreeChan
      BY <2>2 DEF Channel, FreeChan, Work
    <2> HIDE DEF d
    <2>5. /\ f.c.flags = c.flags /\ f.c.type = "open" /\ f.c.istate = c.istate
          /\ f.c.ctype = c.ctype /\ f.c.ostate = c.ostate
          /\ f.c.remote_id = c.remote_id /\ f.c.inst = c.inst
          /\ f.c.input = c.input /\ f.c.output = c.output
          /\ f.c.extended = c.extended
          /\ f.c.extended_usage # "write"
          /\ f.c.local_window = Window
          /\ f.c.local_window_max = Window
          /\ f.c.local_consumed = c.local_consumed
          /\ f.c.remote_window = c.remote_window
          /\ f.c.taken = c.taken /\ f.c.got = c.got /\ f.c.wfail = c.wfail
          /\ f.c.detach_user = c.detach_user /\ f.c.detach_close = c.detach_close
      BY <2>3, <2>4, <2>4a, <2>4b, <2>4c DEF FreeChan
    <2>6. /\ Attached(c) /\ "CLOSE_SENT" \notin c.flags
      BY <1>2 DEF StaysAttached, Attached
    <2>7. f \in Good
      BY <2>4, <2>5, <2>6 DEF Good, ShutFirst, StaysAttached, Attached
    <2>8. Window \in Nat /\ "ADJUST" \in MsgType
      BY MaxPacketIsNat DEF MsgType
    <2>8a. f.c.remote_id # NoId /\ f \in Work
      BY <1>0b, <2>4, <2>5
    <2>9. PICK m \in Msg :
             /\ g.tx = Append(f.tx, m) /\ g.c = f.c /\ g.err = f.err
             /\ m.t = "ADJUST" /\ m.n = Window /\ m.id = f.c.remote_id
             /\ m.inst = f.c.inst /\ m.ctype = f.c.ctype
      BY <2>8, <2>8a, SendTx
    <2>10. g \in Good
      BY <2>7, <2>8, SendGood
    <2> HIDE DEF g
    <2>11. g.tx = Append(w.tx, m) /\ g.err = w.err /\ w.c.flags \subseteq g.c.flags
      BY <1>0, <2>3, <2>4, <2>5, <2>9
    <2>12. LocalOK(g.c)
      BY <1>2, <2>5, <2>8, <2>9 DEF LocalOK, Accounted, Est
    <2>13. Kin(c, g.c)
      BY <1>2, <2>5, <2>9 DEF Kin, Accounted, LocalOK, Est
    <2>14. Speaks(c, g.c, m)
      BY <1>2, <2>5, <2>6, <2>9 DEF Speaks, Est, Carrying
    <2>15. Tally(c, g.c, g.tx, FALSE)
      <3>1. m.inst = c.inst /\ <<>> \in Seq(Msg) /\ g.tx = Append(<<>>, m)
        BY <1>0, <2>5, <2>9, <2>11
      <3>2. /\ InFlight(g.tx, c.inst, {"DATA", "EXTDATA"}) = 0
            /\ InFlight(g.tx, c.inst, {"ADJUST", "CONFIRM"}) = Window
            /\ InFlight(g.tx, c.inst, {"DATA"}) = 0
        <4> DEFINE q == Append(<<>>, m)
        <4>1. /\ InFlight(q, m.inst, {"DATA", "EXTDATA"})
                   = InFlight(<<>>, m.inst, {"DATA", "EXTDATA"})
              /\ InFlight(q, m.inst, {"ADJUST", "CONFIRM"})
                   = InFlight(<<>>, m.inst, {"ADJUST", "CONFIRM"}) + m.n
              /\ InFlight(q, m.inst, {"DATA"}) = InFlight(<<>>, m.inst, {"DATA"})
          BY <2>9, <3>1, SumsAppend
        <4> QED BY <2>8, <2>9, <3>1, <4>1, InFlightEmpty
      <3>3. /\ c.local_window = 0 /\ c.remote_window \in Nat /\ c.taken \in Nat
            /\ c.input \in Nat /\ c.output \in Nat /\ c.got \in Nat
        BY <1>2 DEF LocalOK, Channel
      <3>4. EofDrained(c) => EofDrained(g.c)
        BY <1>2, <2>5, <2>9 DEF EofDrained
      <3> QED BY <2>5, <2>8, <2>9, <3>2, <3>3, <3>4 DEF Tally
    <2>16. "CLOSE_SENT" \notin w.c.flags /\ m.t \notin Carrying
      BY <1>0, <2>6, <2>9 DEF Carrying
    <2>17. g \in Sound(c, FALSE)
      BY <1>0, <2>10, <2>11, <2>12, <2>13, <2>14, <2>15, <2>16, SpokenSound
    <2>18. Reply(g) \in Sound(c, FALSE)
      BY <2>8a, <2>9, <2>17, ReplySound
    <2> QED BY <2>1, <2>18
  <1> QED BY <1>1, <1>2

----------------------------------------------------------------------------
(* The two tables and the packets between them.  A and B are the tables of *)
(* the two ends, PA and PB the sets of packets on their way to A and to B. *)

\* A table: every number is used by one channel only.
Table(A, last) ==
  /\ A \in [Ids -> Channel]
  /\ \A i \in Ids :
       /\ LocalOK(A[i]) /\ ShutFirst(A[i])
       /\ A[i].inst <= last
       /\ A[i].type = "free" <=> A[i].inst = 0
  /\ \A i, j \in Ids : A[i].inst = A[j].inst /\ A[i].inst # 0 => i = j

\* A packet m on its way to the channel c.
Comes(c, m) ==
  /\ c.type # "connecting"
  /\ c.type = "zombie" => m.t \notin Real
  /\ "CLOSE_RCVD" \in c.flags => m.t = "KEEPALIVE"
  /\ "EOF_RCVD" \in c.flags => m.t \notin Carrying

\* A packet m that the channel c has sent.
Went(c, m) ==
  /\ c.type = "opening" => m.t = "OPEN"
  /\ c.type = "connecting" => m.t = "REPLY"
  /\ m.t = "CLOSE" => "CLOSE_SENT" \in c.flags
  /\ m.t = "EOF" => "EOF_SENT" \in c.flags
  /\ m.t = "OPENFAIL" => c.type = "zombie"

\* Where a packet m on its way to A comes from and goes to.
OpenOK(A, B, PB, m) ==
  /\ B[m.id].inst = m.inst /\ B[m.id].type = "opening" /\ B[m.id].ctype = m.ctype
  /\ m.n = Window
  /\ \A i \in Ids : A[i].inst # m.inst
  /\ \A k \in PB : k.inst # m.inst

\* A CONFIRM finds the channel still opening and comes from its peer.
ConfirmOK(A, B, m) ==
  /\ A[m.id].type = "opening"
  /\ m.self # NoId
  /\ B[m.self].inst = m.inst /\ B[m.self].type \in Est

\* Every packet but a probe and its reply is for the channel in the slot it names.
Routed(A, B, PB, m) ==
  /\ m.t = "OPEN" => OpenOK(A, B, PB, m)
  /\ m.t \in Real \ {"OPEN"} => A[m.id].inst = m.inst /\ A[m.id].ctype = m.ctype
  /\ m.t = "CONFIRM" => ConfirmOK(A, B, m)
  /\ m.t = "OPENFAIL" => A[m.id].type = "opening"

\* The channel c in slot i and the channel d in slot j of the other end.
Paired(c, d, j) ==
  /\ c.ctype = d.ctype
  /\ "CLOSE_RCVD" \in c.flags => "CLOSE_SENT" \in d.flags
  /\ "EOF_RCVD" \in c.flags => "EOF_SENT" \in d.flags
  /\ c.type \in Est \cup {"connecting"} => c.remote_id = j
  /\ c.type = "connecting" => d.type = "opening"
  /\ c.type \in Est /\ "CLOSE_SENT" \notin c.flags => d.type \in Est \cup {"opening"}

\* A channel that may still speak has its peer.
HasPeer(c, B) ==
  c.type = "connecting" \/ (c.type \in Est /\ "CLOSE_SENT" \notin c.flags)
    => B[c.remote_id].inst = c.inst

\* An opening channel hears nothing before the answer to its OPEN.
WaitsForAnswer(c, PA) ==
  c.type = "opening" /\ (\E m \in PA : m.inst = c.inst /\ m.t \in Real)
    => \E m \in PA : m.inst = c.inst /\ m.t \in {"CONFIRM", "OPENFAIL"}

\* A channel that is still opening has the CONFIRM of its peer ahead of it.
ConfirmAhead(c, d, PA) ==
  c.type = "opening" /\ d.type \in Est
    => \E m \in PA : m.inst = c.inst /\ m.t = "CONFIRM"

\* What one end, with table A, may rely on about the other.
Half(A, B, PA, PB) ==
  /\ \A i \in Ids, m \in PA : A[i].inst = m.inst => Comes(A[i], m)
  /\ \A i \in Ids, m \in PB : A[i].inst = m.inst => Went(A[i], m)
  /\ \A m \in PA : Routed(A, B, PB, m)
  /\ \A i, j \in Ids :
       A[i].inst = B[j].inst /\ A[i].inst # 0 =>
         Paired(A[i], B[j], j) /\ ConfirmAhead(A[i], B[j], PA)
  /\ \A i \in Ids : HasPeer(A[i], B) /\ WaitsForAnswer(A[i], PA)

\* The packets belong to channels opened so far.
Numbers(P, last) == P \subseteq Msg /\ \A m \in P : m.inst \in 1 .. last

\* Both ends rely on each other.
Linked(A, B, PA, PB, last) ==
  /\ Table(A, last) /\ Table(B, last) /\ Numbers(PA, last) /\ Numbers(PB, last)
  /\ Half(A, B, PA, PB) /\ Half(B, A, PB, PA)

\* The packets of a queue.
Packets(q) == {q[k] : k \in 1 .. Len(q)}

\* What the packets of a queue carry for channel n: bytes and stderr, bytes
\* alone, and credit.
DataIn(q, n) == InFlight(q, n, {"DATA", "EXTDATA"})
PlainIn(q, n) == InFlight(q, n, {"DATA"})
CreditIn(q, n) == InFlight(q, n, {"ADJUST", "CONFIRM"})

\* The credit of the sender s for the receiver r at the other end; qS and qR
\* are the queues to their ends.
Total(s, qS, qR) ==
  s.remote_window + DataIn(qR, s.inst) + CreditIn(qS, s.inst)

\* The sender never believes in more window than the receiver has left.
CreditOK(s, r, qS, qR) ==
  r.type \in Est \cup {"opening"} =>
    /\ Total(s, qS, qR) <= r.local_window
    /\ Accounted(r) => Total(s, qS, qR) = r.local_window

\* The bytes the program behind s wrote are buffered, in flight or delivered.
BytesOK(s, r, qR) ==
  ~r.wfail /\ s.type # "abandoned" =>
    /\ s.taken = s.input + PlainIn(qR, s.inst) + r.output + r.got
    /\ EofDrained(s)

\* The accounts of a channel in both directions.
Both(c, d, qA, qB) ==
  /\ CreditOK(c, d, qA, qB) /\ BytesOK(c, d, qB)
  /\ CreditOK(d, c, qB, qA) /\ BytesOK(d, c, qA)

\* The accounts of every channel that both ends know.
Flow(A, B, qA, qB) ==
  \A i, j \in Ids :
    A[i].inst = B[j].inst /\ A[i].inst # 0 => Both(A[i], B[j], qA, qB)

\* The side e a session or a packet belongs to; alive: probes sent so far.
SideOK(A, PA, e, alive) ==
  /\ \A i \in Ids : A[i].ctype = "session" =>
                      (A[i].extended_usage = "write" <=> e = "client")
  /\ \A m \in PA : /\ m.t \in {"DATA", "EXTDATA"} => m.n <= MaxPacket
                   /\ m.t = "EXTDATA" => e = "client" /\ m.ctype = "session"
                   /\ m.t = "OPEN" /\ m.ctype = "session" => e = "server"
                   /\ m.t = "KEEPALIVE" => e = "client" /\ alive > 0

\* All of it: tables, packets, order, accounts and sides.
World(A, B, qA, qB, last, e, alive) ==
  /\ last \in Nat /\ qA \in Seq(Msg) /\ qB \in Seq(Msg)
  /\ Linked(A, B, Packets(qA), Packets(qB), last)
  /\ Ordered(qA) /\ Ordered(qB)
  /\ Flow(A, B, qA, qB)
  /\ SideOK(A, Packets(qA), e, alive) /\ SideOK(B, Packets(qB), Peer(e), alive)

\* The inductive invariant of the two ends, seen from the client.
LinkInv ==
  World(chan["client"], chan["server"], net["client"], net["server"], opens, "client", probes)

\* The server never gives up and the client never disconnects; the client dies
\* of a fatal error at most once a keepalive probe has been sent.
GivesUp ==
  \A e \in Endpoint :
    err[e] = "none" \/ (err[e] = "fatal" /\ e = "client" /\ probes > 0)

\* A1 is the table A with the channel c in slot i.
Moved(A, A1, i, c) ==
  /\ A1 \in [Ids -> Channel] /\ A1[i] = c
  /\ \A k \in Ids : k # i => A1[k] = A[k]

\* How an update of the channel c0 to c that sends the packets X looks from
\* outside.
Turn(c0, c, X) ==
  /\ c \in Channel /\ LocalOK(c) /\ ShutFirst(c) /\ Kin(c0, c)
  /\ X \subseteq Msg /\ \A m \in X : Speaks(c0, c, m)

\* A handler keeps the table.
LEMMA UpdateTable ==
  ASSUME NEW A, NEW last \in Nat, Table(A, last), NEW i \in Ids, NEW A1, NEW X,
         Moved(A, A1, i, A1[i]), Turn(A[i], A1[i], X)
  PROVE  Table(A1, last)
  <1>1. \A k \in Ids : A1[k].inst = A[k].inst /\ LocalOK(A1[k]) /\ ShutFirst(A1[k])
    BY DEF Moved, Turn, Kin, Table
  <1>2. \A k \in Ids : A1[k].type = "free" <=> A[k].type = "free"
    BY DEF Moved, Turn, Kin, Est
  <1> QED BY <1>1, <1>2 DEF Table, Moved

\* The packets of a turn carry the number of a channel in use.
LEMMA TurnInst ==
  ASSUME NEW A, NEW last \in Nat, Table(A, last), NEW i \in Ids, NEW c, NEW X,
         Turn(A[i], c, X), NEW m \in X
  PROVE  /\ m.inst = A[i].inst /\ A[i].inst # 0 /\ m.inst \in 1 .. last
         /\ A[i].type \notin {"free", "opening"} /\ m \in Msg
  <1>1. m \in Msg /\ m.inst = A[i].inst /\ m.id = A[i].remote_id /\ m.id \in Ids
    BY DEF Turn, Speaks, Msg
  <1>2. A[i].remote_id # NoId
    BY <1>1, MaxChannelsAssumption DEF Ids, NoId
  <1>3. A[i].type \notin {"free", "opening"}
    BY <1>2 DEF Table, LocalOK
  <1>4. A[i].inst # 0 /\ A[i].inst \in Nat /\ A[i].inst <= last
    BY <1>3 DEF Table, Channel
  <1> QED BY <1>1, <1>3, <1>4

\* A handler keeps what its own end relies on.
LEMMA UpdateNear ==
  ASSUME NEW A, NEW B, NEW PA, NEW PB, NEW last \in Nat, Linked(A, B, PA, PB, last),
         NEW i \in Ids, NEW A1, NEW X,
         Moved(A, A1, i, A1[i]), Turn(A[i], A1[i], X)
  PROVE  Half(A1, B, PA, PB \cup X)
  <1> DEFINE c0 == A[i]
             c == A1[i]
             PB1 == PB \cup X
  <1>0. /\ Table(A, last) /\ Table(A1, last) /\ Half(A, B, PA, PB)
        /\ \A k \in Ids : A1[k].inst = A[k].inst
    BY UpdateTable DEF Linked, Moved, Turn, Kin
  <1>1. ASSUME NEW k \in Ids, NEW m \in PA, A1[k].inst = m.inst
        PROVE  Comes(A1[k], m)
    <2>1. Comes(A[k], m)
      BY <1>0, <1>1 DEF Half
    <2> QED BY <2>1 DEF Moved, Turn, Kin, Comes, Est
  <1>2. ASSUME NEW k \in Ids, NEW m \in PB1, A1[k].inst = m.inst
        PROVE  Went(A1[k], m)
    <2>1. CASE m \in PB
      <3>1. Went(A[k], m)
        BY <1>0, <1>2, <2>1 DEF Half
      <3> QED BY <3>1 DEF Moved, Turn, Kin, Went, Est
    <2>2. CASE m \in X
      <3>1. m.inst = c0.inst /\ c0.inst # 0 /\ c0.type \notin {"free", "opening"}
        BY <1>0, <2>2, TurnInst
      <3>2. k = i
        BY <1>0, <1>2, <3>1 DEF Table
      <3>3. Speaks(c0, c, m) /\ Kin(c0, c)
        BY <2>2 DEF Turn
      <3> QED BY <3>1, <3>2, <3>3 DEF Speaks, Kin, Went, Est
    <2> QED BY <2>1, <2>2
  <1>3. ASSUME NEW m \in PA
        PROVE  Routed(A1, B, PB1, m)
    <2>1. Routed(A, B, PB, m)
      BY <1>0 DEF Half
    <2>2. m.id \in Ids
      BY DEF Linked, Numbers, Msg
    <2>3. A1[m.id].ctype = A[m.id].ctype
          /\ (A[m.id].type = "opening" => A1[m.id].type = "opening")
      BY <2>2 DEF Moved, Turn, Kin, Est
    <2>4. ASSUME m.t = "OPEN" PROVE OpenOK(A1, B, PB1, m)
      <3>1. OpenOK(A, B, PB, m)
        BY <2>1, <2>4 DEF Routed
      <3>2. \A k \in X : k.inst = c0.inst
        BY DEF Turn, Speaks
      <3> QED BY <1>0, <3>1, <3>2 DEF OpenOK
    <2>5. ASSUME m.t = "CONFIRM" PROVE ConfirmOK(A1, B, m)
      <3>1. ConfirmOK(A, B, m)
        BY <2>1, <2>5 DEF Routed
      <3> QED BY <2>3, <3>1 DEF ConfirmOK
    <2> QED BY <1>0, <2>1, <2>2, <2>3, <2>4, <2>5 DEF Routed
  <1>4. ASSUME NEW k \in Ids, NEW j \in Ids, A1[k].inst = B[j].inst, A1[k].inst # 0
        PROVE  Paired(A1[k], B[j], j) /\ ConfirmAhead(A1[k], B[j], PA)
    <2>1. Paired(A[k], B[j], j) /\ ConfirmAhead(A[k], B[j], PA)
      BY <1>0, <1>4 DEF Half
    <2>2. CASE k = i
      <3>1. Kin(A[i], A1[i])
        BY DEF Turn
      <3> QED BY <2>1, <2>2, <3>1 DEF Kin, Paired, ConfirmAhead, Est
    <2> QED BY <2>1, <2>2 DEF Moved
  <1>5. ASSUME NEW k \in Ids
        PROVE  HasPeer(A1[k], B) /\ WaitsForAnswer(A1[k], PA)
    <2>1. HasPeer(A[k], B) /\ WaitsForAnswer(A[k], PA)
      BY <1>0 DEF Half
    <2>2. CASE k = i
      <3>1. Kin(A[i], A1[i])
        BY DEF Turn
      <3> QED BY <2>1, <2>2, <3>1 DEF Kin, HasPeer, WaitsForAnswer, Est
    <2> QED BY <2>1, <2>2 DEF Moved
  <1> QED BY <1>1, <1>2, <1>3, <1>4, <1>5 DEF Half

\* A handler keeps what the other end relies on.
LEMMA UpdateFar ==
  ASSUME NEW A, NEW B, NEW PA, NEW PB, NEW last \in Nat, Linked(A, B, PA, PB, last),
         NEW i \in Ids, NEW A1, NEW X,
         Moved(A, A1, i, A1[i]), Turn(A[i], A1[i], X)
  PROVE  Half(B, A1, PB \cup X, PA)
  <1> DEFINE c0 == A[i]
             c == A1[i]
             PB1 == PB \cup X
  <1>0. /\ Table(A, last) /\ Table(B, last) /\ Half(A, B, PA, PB) /\ Half(B, A, PB, PA)
        /\ \A k \in Ids : A1[k].inst = A[k].inst
        /\ Kin(c0, c)
    BY DEF Linked, Moved, Turn, Kin
  <1>1. ASSUME NEW j \in Ids, NEW m \in PB1, B[j].inst = m.inst
        PROVE  Comes(B[j], m)
    <2>1. CASE m \in PB
      BY <1>0, <1>1, <2>1 DEF Half
    <2>2. CASE m \in X
      <3>0. Table(A, last)
        BY <1>0
      <3>1. m.inst = c0.inst /\ c0.inst # 0 /\ c0.type \notin {"free", "opening"} /\ m \in Msg
        <4>1. Speaks(c0, c, m) /\ m \in Msg
          BY <2>2 DEF Turn
        <4>2. m.inst = c0.inst /\ m.id = c0.remote_id /\ m.id \in Ids
          BY <4>1 DEF Speaks, Msg
        <4>3. c0.remote_id # NoId
          BY <4>2, MaxChannelsAssumption DEF Ids, NoId
        <4>4. LocalOK(c0) /\ (c0.type = "free" <=> c0.inst = 0)
          BY <3>0 DEF Table
        <4>5. c0.type \notin {"free", "opening"}
          BY <4>3, <4>4 DEF LocalOK
        <4> QED BY <4>1, <4>2, <4>4, <4>5
      <3>2. Paired(B[j], c0, i) /\ Paired(c0, B[j], j)
        BY <1>0, <1>1, <3>1 DEF Half
      <3>3. Speaks(c0, c, m)
        BY <2>2 DEF Turn
      <3>4. m.t \in Real => m.t # "REPLY"
        BY DEF Real
      <3> QED BY <3>1, <3>2, <3>3, <3>4 DEF Speaks, Paired, Comes, Est
    <2> QED BY <2>1, <2>2
  <1>2. ASSUME NEW j \in Ids, NEW m \in PA, B[j].inst = m.inst
        PROVE  Went(B[j], m)
    BY <1>0, <1>2 DEF Half
  <1>3. ASSUME NEW m \in PB1
        PROVE  Routed(B, A1, PA, m)
    <2>1. CASE m \in PB
      <3>1. Routed(B, A, PA, m)
        BY <1>0, <2>1 DEF Half
      <3>2. m.id \in Ids /\ m.self \in Ids \cup {NoId}
        BY <2>1 DEF Linked, Numbers, Msg
      <3>3. ASSUME NEW k \in Ids
            PROVE  /\ A1[k].ctype = A[k].ctype
                   /\ (A[k].type = "opening" => A1[k].type = "opening")
                   /\ (A[k].type \in Est => A1[k].type \in Est)
        BY <1>0 DEF Moved, Kin, Est
      <3>4. ASSUME m.t = "OPEN" PROVE OpenOK(B, A1, PA, m)
        BY <1>0, <3>1, <3>2, <3>3, <3>4 DEF Routed, OpenOK
      <3>5. ASSUME m.t = "CONFIRM" PROVE ConfirmOK(B, A1, m)
        BY <1>0, <3>1, <3>2, <3>3, <3>5 DEF Routed, ConfirmOK
      <3> QED BY <3>1, <3>4, <3>5 DEF Routed
    <2>2. CASE m \in X
      <3>1. Speaks(c0, c, m) /\ m.inst = c0.inst /\ c0.inst # 0 /\ m \in Msg
        BY <1>0, <2>2, TurnInst DEF Turn
      <3>2. ASSUME m.t \in Real \ {"OPEN"}
            PROVE  B[m.id].inst = m.inst /\ B[m.id].ctype = m.ctype
        <4>1. c0.type \in Est /\ "CLOSE_SENT" \notin c0.flags /\ m.id = c0.remote_id
              /\ m.ctype = c0.ctype /\ m.id \in Ids
          BY <3>1, <3>2 DEF Speaks, Real, Msg
        <4>2. B[m.id].inst = c0.inst
          BY <1>0, <4>1 DEF Half, HasPeer
        <4>3. Paired(c0, B[m.id], m.id)
          BY <1>0, <3>1, <4>1, <4>2 DEF Half
        <4> QED BY <3>1, <4>1, <4>2, <4>3 DEF Paired
      <3> QED BY <3>1, <3>2 DEF Routed, Speaks
    <2> QED BY <2>1, <2>2
  <1>4. ASSUME NEW j \in Ids, NEW k \in Ids, B[j].inst = A1[k].inst, B[j].inst # 0
        PROVE  Paired(B[j], A1[k], k) /\ ConfirmAhead(B[j], A1[k], PB1)
    <2>1. Paired(B[j], A[k], k) /\ ConfirmAhead(B[j], A[k], PB)
      BY <1>0, <1>4 DEF Half
    <2>2. CASE k = i
      <3>1. Paired(B[j], c, i)
        BY <1>0, <2>1, <2>2 DEF Kin, Paired, Est
      <3>2. ConfirmAhead(B[j], c, PB1)
        BY <1>0, <2>1, <2>2 DEF Kin, ConfirmAhead, Est
      <3> QED BY <2>2, <3>1, <3>2
    <2>3. CASE k # i
      BY <2>1, <2>3 DEF Moved, ConfirmAhead
    <2> QED BY <2>2, <2>3
  <1>5. ASSUME NEW j \in Ids
        PROVE  HasPeer(B[j], A1) /\ WaitsForAnswer(B[j], PB1)
    <2>1. HasPeer(B[j], A) /\ WaitsForAnswer(B[j], PB)
      BY <1>0 DEF Half
    <2>2. HasPeer(B[j], A1)
      <3>1. B[j].type \in Est \cup {"connecting"} => B[j].remote_id \in Ids
        BY <1>0 DEF Table, LocalOK, Channel
      <3> QED BY <1>0, <2>1, <3>1 DEF HasPeer
    <2>3. ASSUME B[j].type = "opening", NEW m \in X, m.inst = B[j].inst, m.t \in Real
          PROVE  \E k \in PB1 : k.inst = B[j].inst /\ k.t \in {"CONFIRM", "OPENFAIL"}
      <3>1. m.inst = c0.inst /\ c0.inst # 0 /\ Speaks(c0, c, m)
        BY <1>0, <2>3, TurnInst DEF Turn
      <3>2. c0.type \in Est
        BY <2>3, <3>1 DEF Speaks, Real
      <3>3. ConfirmAhead(B[j], c0, PB)
        BY <1>0, <2>3, <3>1 DEF Half
      <3> QED BY <2>3, <3>2, <3>3 DEF ConfirmAhead
    <2> QED BY <2>1, <2>2, <2>3 DEF WaitsForAnswer
  <1> QED BY <1>1, <1>2, <1>3, <1>4, <1>5 DEF Half

\* A handler keeps the two ends in step.
LEMMA UpdateLinked ==
  ASSUME NEW A, NEW B, NEW PA, NEW PB, NEW last \in Nat, Linked(A, B, PA, PB, last),
         NEW i \in Ids, NEW A1, NEW X,
         Moved(A, A1, i, A1[i]), Turn(A[i], A1[i], X)
  PROVE  Linked(A1, B, PA, PB \cup X, last)
  <1>1. Half(A1, B, PA, PB \cup X) /\ Half(B, A1, PB \cup X, PA)
    BY UpdateNear, UpdateFar
  <1>2. Table(A1, last)
    BY UpdateTable DEF Linked
  <1>3. Numbers(PB \cup X, last)
    BY TurnInst DEF Linked, Numbers
  <1> QED BY <1>1, <1>2, <1>3 DEF Linked

\* Taking the first packet m off a queue whose packets are PA leaves PA1.
Popped(PA, PA1, m) ==
  /\ m \in PA /\ PA1 \subseteq PA /\ PA \subseteq PA1 \cup {m}
  /\ \A k \in PA1 : k.inst = m.inst => MayFollow(m.t, k.t)

\* Freeing a slot keeps the table.
LEMMA FreeTable ==
  ASSUME NEW A, NEW last \in Nat, Table(A, last), NEW i \in Ids, NEW A1,
         Moved(A, A1, i, FreeChan)
  PROVE  Table(A1, last)
  <1>1. /\ LocalOK(FreeChan) /\ ShutFirst(FreeChan) /\ FreeChan.inst = 0
        /\ FreeChan.type = "free"
    BY DEF FreeChan, LocalOK, ShutFirst, Fresh, Accounted, Est
  <1>2. \A k \in Ids : LocalOK(A1[k]) /\ ShutFirst(A1[k]) /\ A1[k].inst <= last
    BY <1>1 DEF Table, Moved
  <1>3. \A k \in Ids : A1[k].type = "free" <=> A1[k].inst = 0
    BY <1>1 DEF Table, Moved
  <1>4. \A k, l \in Ids : A1[k].inst = A1[l].inst /\ A1[k].inst # 0 => k = l
    BY <1>1 DEF Table, Moved
  <1> QED BY <1>2, <1>3, <1>4 DEF Table, Moved

\* A channel that is over can be freed: nothing is on its way to it.
LEMMA FreeLinked ==
  ASSUME NEW A, NEW B, NEW PA, NEW PB, NEW last \in Nat, Linked(A, B, PA, PB, last),
         NEW i \in Ids, NEW A1,
         Moved(A, A1, i, FreeChan), Over(A[i])
  PROVE  Linked(A1, B, PA, PB, last)
  <1> DEFINE c == A[i]
  <1>0. /\ Table(A, last) /\ Table(B, last) /\ Half(A, B, PA, PB) /\ Half(B, A, PB, PA)
        /\ Numbers(PA, last) /\ Numbers(PB, last)
    BY DEF Linked
  <1>a. Table(A1, last)
    BY <1>0, FreeTable
  <1>b. \A k \in Ids : A1[k].inst # 0 => A1[k] = A[k]
    BY DEF Moved, FreeChan
  <1>c. A1[i].inst = 0 /\ \A k \in Ids : k # i => A1[k] = A[k]
    BY DEF Moved, FreeChan
  <1>d. /\ \A m \in PA : m.inst # 0 /\ m.id \in Ids /\ m.t \in MsgType
        /\ \A m \in PB : m.inst # 0 /\ m.id \in Ids /\ m.self \in Ids \cup {NoId}
    BY <1>0 DEF Numbers, Msg
  <1>e. c.type = "zombie" \/ "CLOSE_RCVD" \in c.flags
    BY DEF Over, chan_is_dead
  <1>1. ASSUME NEW m \in PA, m.t \in Real \ {"OPEN"}
        PROVE  m.id # i
    <2>1. SUFFICES ASSUME m.id = i PROVE FALSE
      OBVIOUS
    <2>2. c.inst = m.inst
      BY <1>0, <1>1, <2>1 DEF Half, Routed
    <2>3. Comes(c, m)
      BY <1>0, <2>2 DEF Half
    <2> QED BY <1>1, <1>e, <2>3 DEF Comes, Real
  <1>2. ASSUME NEW j \in Ids, B[j].inst = c.inst, c.inst # 0
        PROVE  /\ B[j].type \notin {"opening", "connecting"} \/ c.type = "zombie"
               /\ B[j].type # "connecting"
               /\ B[j].type \in Est => "CLOSE_SENT" \in B[j].flags
    <2>1. Paired(c, B[j], j) /\ Paired(B[j], c, i)
      BY <1>0, <1>2 DEF Half
    <2>2. c.type # "opening"
      BY <1>0, <1>e DEF Table, LocalOK, Fresh
    <2>3. B[j].type \in {"opening", "connecting"} => B[j].flags = {}
      BY <1>0 DEF Table, LocalOK, Fresh
    <2> QED BY <1>e, <2>1, <2>2, <2>3 DEF Paired, Est
  <1>3. Half(A1, B, PA, PB)
    <2>1. ASSUME NEW m \in PA
          PROVE  Routed(A1, B, PB, m)
      <3>1. Routed(A, B, PB, m) /\ m.id \in Ids
        BY <1>0, <1>d DEF Half
      <3>2. CASE m.t = "OPEN"
        <4>1. OpenOK(A, B, PB, m)
          BY <3>1, <3>2 DEF Routed
        <4>2. OpenOK(A1, B, PB, m)
          BY <1>b, <1>d, <4>1 DEF OpenOK
        <4> QED BY <3>2, <4>2 DEF Routed
      <3>3. CASE m.t \in Real \ {"OPEN"}
        <4>1. A1[m.id] = A[m.id]
          BY <1>1, <1>c, <3>1, <3>3
        <4> QED BY <3>1, <3>3, <4>1 DEF Routed, ConfirmOK
      <3>4. CASE m.t \notin Real
        BY <3>4 DEF Routed, Real, MsgType
      <3> QED BY <3>2, <3>3, <3>4
    <2>2. \A k \in Ids, m \in PA : A1[k].inst = m.inst => Comes(A1[k], m)
      BY <1>0, <1>b, <1>d DEF Half
    <2>3. \A k \in Ids, m \in PB : A1[k].inst = m.inst => Went(A1[k], m)
      BY <1>0, <1>b, <1>d DEF Half
    <2>4. \A k, j \in Ids :
            A1[k].inst = B[j].inst /\ A1[k].inst # 0 =>
              Paired(A1[k], B[j], j) /\ ConfirmAhead(A1[k], B[j], PA)
      BY <1>0, <1>b DEF Half
    <2>5. ASSUME NEW k \in Ids
          PROVE  HasPeer(A1[k], B) /\ WaitsForAnswer(A1[k], PA)
      <3>1. CASE k = i
        BY <3>1 DEF Moved, FreeChan, HasPeer, WaitsForAnswer, Est
      <3>2. CASE k # i
        BY <1>0, <1>c, <3>2 DEF Half
      <3> QED BY <3>1, <3>2
    <2> QED BY <2>1, <2>2, <2>3, <2>4, <2>5 DEF Half
  <1>4. Half(B, A1, PB, PA)
    <2>1. ASSUME NEW m \in PB
          PROVE  Routed(B, A1, PA, m)
      <3>1. Routed(B, A, PA, m) /\ m.id \in Ids /\ m.inst # 0 /\ m.self \in Ids \cup {NoId}
        BY <1>0, <1>d DEF Half
      <3>2. ASSUME m.t = "OPEN" PROVE OpenOK(B, A1, PA, m)
        <4>1. OpenOK(B, A, PA, m)
          BY <3>1, <3>2 DEF Routed
        <4>2. A[m.id].type = "opening"
          BY <4>1 DEF OpenOK
        <4>3. m.id # i
          BY <1>0, <1>e, <4>2 DEF Table, LocalOK, Fresh
        <4>4. A1[m.id] = A[m.id]
          BY <1>c, <3>1, <4>3
        <4> QED BY <4>1, <4>4 DEF OpenOK
      <3>3. ASSUME m.t = "CONFIRM" PROVE ConfirmOK(B, A1, m)
        <4>1. ConfirmOK(B, A, m) /\ B[m.id].inst = m.inst
          BY <3>1, <3>3 DEF Routed, Real, MsgType
        <4>2. /\ A[m.self].inst = m.inst /\ m.self # NoId /\ B[m.id].type = "opening"
              /\ A[m.self].type \in Est
          BY <4>1 DEF ConfirmOK
        <4>3. m.self # i
          BY <1>2, <3>1, <4>1, <4>2 DEF Est
        <4>4. A1[m.self] = A[m.self]
          BY <1>c, <3>1, <4>2, <4>3
        <4> QED BY <4>1, <4>4 DEF ConfirmOK
      <3> QED BY <3>1, <3>2, <3>3 DEF Routed
    <2>2. \A j \in Ids, m \in PB : B[j].inst = m.inst => Comes(B[j], m)
      BY <1>0 DEF Half
    <2>3. \A j \in Ids, m \in PA : B[j].inst = m.inst => Went(B[j], m)
      BY <1>0 DEF Half
    <2>4. \A j, k \in Ids :
            B[j].inst = A1[k].inst /\ B[j].inst # 0 =>
              Paired(B[j], A1[k], k) /\ ConfirmAhead(B[j], A1[k], PB)
      BY <1>0, <1>b DEF Half
    <2>5. ASSUME NEW j \in Ids
          PROVE  HasPeer(B[j], A1) /\ WaitsForAnswer(B[j], PB)
      <3>1. HasPeer(B[j], A) /\ WaitsForAnswer(B[j], PB)
        BY <1>0 DEF Half
      <3>2. ASSUME \/ B[j].type = "connecting"
                   \/ B[j].type \in Est /\ "CLOSE_SENT" \notin B[j].flags
            PROVE  A1[B[j].remote_id].inst = B[j].inst
        <4>1. A[B[j].remote_id].inst = B[j].inst
          BY <3>1, <3>2 DEF HasPeer
        <4>2. B[j].remote_id \in Ids /\ B[j].inst # 0
          BY <1>0, <3>2 DEF Table, LocalOK, Channel, Est
        <4>3. B[j].remote_id # i
          BY <1>2, <3>2, <4>1, <4>2
        <4> QED BY <1>c, <4>1, <4>2, <4>3
      <3> QED BY <3>1, <3>2 DEF HasPeer
    <2> QED BY <2>1, <2>2, <2>3, <2>4, <2>5 DEF Half
  <1> QED BY <1>0, <1>a, <1>3, <1>4 DEF Linked

\* A packet that is no answer to an OPEN may go.
LEMMA PopLinked ==
  ASSUME NEW A, NEW B, NEW PA, NEW PB, NEW last \in Nat, Linked(A, B, PA, PB, last),
         NEW PA1, NEW m, Popped(PA, PA1, m), m.t \notin {"CONFIRM", "OPENFAIL"}
  PROVE  Linked(A, B, PA1, PB, last)
  <1>0. /\ Half(A, B, PA, PB) /\ Half(B, A, PB, PA) /\ Numbers(PA, last)
        /\ PA1 \subseteq PA /\ PA \subseteq PA1 \cup {m}
    BY DEF Linked, Popped
  <1>1. Numbers(PA1, last)
    BY <1>0 DEF Numbers
  <1>2. ASSUME NEW i \in Ids
        PROVE  WaitsForAnswer(A[i], PA1)
    <2>1. WaitsForAnswer(A[i], PA)
      BY <1>0 DEF Half
    <2> QED BY <1>0, <2>1 DEF WaitsForAnswer
  <1>3. ASSUME NEW i \in Ids, NEW j \in Ids, A[i].inst = B[j].inst, A[i].inst # 0
        PROVE  ConfirmAhead(A[i], B[j], PA1)
    <2>1. ConfirmAhead(A[i], B[j], PA)
      BY <1>0, <1>3 DEF Half
    <2> QED BY <1>0, <2>1 DEF ConfirmAhead
  <1>4. Half(A, B, PA1, PB)
    BY <1>0, <1>2, <1>3 DEF Half
  <1>5. ASSUME NEW k \in PB
        PROVE  Routed(B, A, PA1, k)
    <2>1. Routed(B, A, PA, k)
      BY <1>0 DEF Half
    <2> QED BY <1>0, <2>1 DEF Routed, OpenOK
  <1>6. Half(B, A, PB, PA1)
    BY <1>0, <1>5 DEF Half
  <1> QED BY <1>1, <1>4, <1>6 DEF Linked

\* The packets of a channel find it, and find it accepted; the answer to an
\* OPEN finds it opening.
LEMMA Finds ==
  ASSUME NEW A, NEW B, NEW PA, NEW PB, NEW last \in Nat, Linked(A, B, PA, PB, last),
         NEW PA1, NEW m, Popped(PA, PA1, m), m.t \in Real \ {"OPEN"}
  PROVE  /\ m.id \in Ids /\ A[m.id].inst = m.inst /\ A[m.id].ctype = m.ctype
         /\ A[m.id].inst # 0
         /\ m.t \in {"CONFIRM", "OPENFAIL"} => A[m.id].type = "opening"
         /\ m.t \notin {"CONFIRM", "OPENFAIL"} => A[m.id].type \in Est
         /\ Comes(A[m.id], m)
  <1>0. /\ Table(A, last) /\ Half(A, B, PA, PB) /\ m \in PA /\ m.id \in Ids
        /\ m.inst # 0 /\ m.t \in MsgType
    BY DEF Linked, Popped, Numbers, Msg
  <1>1. Routed(A, B, PB, m)
    BY <1>0 DEF Half
  <1>2. A[m.id].inst = m.inst /\ A[m.id].ctype = m.ctype
    BY <1>1 DEF Routed
  <1>3. m.t \in {"CONFIRM", "OPENFAIL"} => A[m.id].type = "opening"
    BY <1>1 DEF Routed, ConfirmOK
  <1>4. Comes(A[m.id], m) /\ WaitsForAnswer(A[m.id], PA)
    BY <1>0, <1>2 DEF Half
  <1>5. ASSUME A[m.id].type = "opening"
        PROVE  m.t \in {"CONFIRM", "OPENFAIL"}
    <2>1. PICK k \in PA : k.inst = m.inst /\ k.t \in {"CONFIRM", "OPENFAIL"}
      BY <1>0, <1>2, <1>4, <1>5 DEF WaitsForAnswer
    <2>2. k # m => MayFollow(m.t, k.t)
      BY <2>1 DEF Popped
    <2>3. CASE k = m
      BY <2>1, <2>3
    <2>4. CASE k # m
      BY <2>1, <2>2, <2>4 DEF MayFollow, Real
    <2> QED BY <2>3, <2>4
  <1>6. A[m.id].type \notin {"free", "connecting", "zombie"}
    BY <1>0, <1>2, <1>4 DEF Table, Comes
  <1>7. A[m.id].type \in ChanType
    BY <1>0 DEF Table, Channel
  <1> QED BY <1>0, <1>2, <1>3, <1>4, <1>5, <1>6, <1>7 DEF ChanType, Est

\* The channel c once the peer's EOF or CLOSE is noted as d.
Marked(c, d, f) ==
  /\ d \in Channel /\ LocalOK(d) /\ ShutFirst(d)
  /\ d.flags = c.flags \cup {f}
  /\ d.type = c.type /\ d.ctype = c.ctype /\ d.inst = c.inst /\ d.remote_id = c.remote_id

\* Noting EOF or CLOSE keeps the table.
LEMMA MarkTable ==
  ASSUME NEW A, NEW last \in Nat, Table(A, last), NEW i \in Ids, NEW A1, NEW f,
         Moved(A, A1, i, A1[i]), Marked(A[i], A1[i], f)
  PROVE  Table(A1, last)
  <1>1. \A k \in Ids : A1[k].inst = A[k].inst /\ LocalOK(A1[k]) /\ ShutFirst(A1[k])
    BY DEF Moved, Marked, Table
  <1>2. \A k \in Ids : A1[k].type = A[k].type
    BY DEF Moved, Marked
  <1> QED BY <1>1, <1>2 DEF Table, Moved

\* EOF or CLOSE is taken from the queue and noted.
LEMMA MarkLinked ==
  ASSUME NEW A, NEW B, NEW PA, NEW PB, NEW last \in Nat, Linked(A, B, PA, PB, last),
         NEW PA1, NEW m, Popped(PA, PA1, m), m.t \in {"EOF", "CLOSE"}, NEW f,
         f = IF m.t = "EOF" THEN "EOF_RCVD" ELSE "CLOSE_RCVD",
         NEW A1, Moved(A, A1, m.id, A1[m.id]), Marked(A[m.id], A1[m.id], f)
  PROVE  Linked(A1, B, PA1, PB, last)
  <1> DEFINE i == m.id
             c0 == A[i]
             c == A1[i]
  <1>z. Linked(A, B, PA1, PB, last)
    BY PopLinked
  <1>y. Numbers(PA, last) /\ m \in PA
        /\ \A k \in PA1 : k.inst = m.inst => MayFollow(m.t, k.t)
    BY DEF Popped, Linked
  <1>0. /\ Linked(A, B, PA1, PB, last) /\ m \in PA /\ m \in Msg
        /\ \A k \in PA1 : k.inst = m.inst => MayFollow(m.t, k.t)
    BY <1>z, <1>y DEF Numbers
  <1>1. /\ Table(A, last) /\ Table(B, last) /\ Half(A, B, PA1, PB) /\ Half(B, A, PB, PA1)
        /\ Numbers(PA1, last) /\ Numbers(PB, last) /\ Half(B, A, PB, PA)
    BY <1>0 DEF Linked
  <1>2. /\ i \in Ids /\ c0.inst = m.inst /\ c0.inst # 0 /\ c0.type \in Est
    BY Finds DEF Real, MsgType
  <1>a. \A k \in Ids : /\ A1[k].inst = A[k].inst /\ A1[k].type = A[k].type
                       /\ A1[k].ctype = A[k].ctype /\ A1[k].remote_id = A[k].remote_id
    BY <1>2 DEF Moved, Marked
  <1>b. Table(A1, last)
    BY <1>1, <1>2, MarkTable
  <1>c. ASSUME NEW j \in Ids, B[j].inst = m.inst
        PROVE  /\ m.t = "CLOSE" => "CLOSE_SENT" \in B[j].flags
               /\ m.t = "EOF" => "EOF_SENT" \in B[j].flags
    <2>1. Went(B[j], m)
      BY <1>0, <1>1, <1>c DEF Half
    <2> QED BY <2>1 DEF Went
  <1>3. Half(A1, B, PA1, PB)
    <2>1. ASSUME NEW k \in Ids, NEW p \in PA1, A1[k].inst = p.inst
          PROVE  Comes(A1[k], p)
      <3>1. Comes(A[k], p)
        BY <1>1, <1>a, <2>1 DEF Half
      <3>2. CASE k = i
        <4>1. MayFollow(m.t, p.t)
          BY <1>0, <1>2, <1>a, <2>1, <3>2
        <4>2. c.flags = c0.flags \cup {f} /\ c.type = c0.type
          BY DEF Marked
        <4> QED BY <3>1, <3>2, <4>1, <4>2 DEF Comes, MayFollow
      <3> QED BY <3>1, <3>2 DEF Moved
    <2>2. ASSUME NEW k \in Ids, NEW p \in PB, A1[k].inst = p.inst
          PROVE  Went(A1[k], p)
      <3>1. Went(A[k], p)
        BY <1>1, <1>a, <2>2 DEF Half
      <3> QED BY <1>2, <3>1 DEF Moved, Marked, Went
    <2>3. ASSUME NEW p \in PA1
          PROVE  Routed(A1, B, PB, p)
      <3>1. Routed(A, B, PB, p) /\ p.id \in Ids
        BY <1>1 DEF Half, Numbers, Msg
      <3> QED BY <1>a, <3>1 DEF Routed, OpenOK, ConfirmOK
    <2>4. ASSUME NEW k \in Ids, NEW j \in Ids, A1[k].inst = B[j].inst, A1[k].inst # 0
          PROVE  Paired(A1[k], B[j], j) /\ ConfirmAhead(A1[k], B[j], PA1)
      <3>1. Paired(A[k], B[j], j) /\ ConfirmAhead(A[k], B[j], PA1)
        BY <1>1, <1>a, <2>4 DEF Half
      <3>2. CASE k = i
        <4>1. c.flags = c0.flags \cup {f}
          BY DEF Marked
        <4>2. f \in {"EOF_RCVD", "CLOSE_RCVD"}
          OBVIOUS
        <4>3. Paired(c, B[j], j)
          BY <1>2, <1>a, <1>c, <2>4, <3>1, <3>2, <4>1, <4>2 DEF Paired
        <4> QED BY <1>a, <3>1, <3>2, <4>3 DEF ConfirmAhead
      <3> QED BY <3>1, <3>2 DEF Moved
    <2>5. ASSUME NEW k \in Ids
          PROVE  HasPeer(A1[k], B) /\ WaitsForAnswer(A1[k], PA1)
      <3>1. HasPeer(A[k], B) /\ WaitsForAnswer(A[k], PA1)
        BY <1>1 DEF Half
      <3>2. "CLOSE_SENT" \notin A1[k].flags => "CLOSE_SENT" \notin A[k].flags
        BY <1>2 DEF Moved, Marked
      <3> QED BY <1>a, <3>1, <3>2 DEF HasPeer, WaitsForAnswer
    <2> QED BY <2>1, <2>2, <2>3, <2>4, <2>5 DEF Half
  <1>4. Half(B, A1, PB, PA1)
    <2>3. ASSUME NEW p \in PB
          PROVE  Routed(B, A1, PA1, p)
      <3>1. Routed(B, A, PA1, p) /\ p.id \in Ids /\ p.self \in Ids \cup {NoId}
        BY <1>1 DEF Half, Numbers, Msg
      <3> QED BY <1>a, <3>1 DEF Routed, OpenOK, ConfirmOK
    <2>4. ASSUME NEW j \in Ids, NEW k \in Ids, B[j].inst = A1[k].inst, B[j].inst # 0
          PROVE  Paired(B[j], A1[k], k) /\ ConfirmAhead(B[j], A1[k], PB)
      <3>1. Paired(B[j], A[k], k) /\ ConfirmAhead(B[j], A[k], PB)
        BY <1>1, <1>a, <2>4 DEF Half
      <3>2. A[k].flags \subseteq A1[k].flags
        BY <1>2 DEF Moved, Marked
      <3> QED BY <1>a, <3>1, <3>2 DEF Paired, ConfirmAhead
    <2>5. ASSUME NEW j \in Ids
          PROVE  HasPeer(B[j], A1) /\ WaitsForAnswer(B[j], PB)
      <3>1. HasPeer(B[j], A) /\ WaitsForAnswer(B[j], PB)
        BY <1>1 DEF Half
      <3>2. B[j].type \in Est \cup {"connecting"} => B[j].remote_id \in Ids
        BY <1>1 DEF Table, LocalOK, Channel
      <3> QED BY <1>a, <3>1, <3>2 DEF HasPeer
    <2> QED BY <1>1, <2>3, <2>4, <2>5 DEF Half
  <1> QED BY <1>1, <1>b, <1>3, <1>4 DEF Linked

\* The answer to an OPEN: c0 was opening, c is open or dead.
Answered(c0, c, m) ==
  /\ c \in Channel /\ LocalOK(c) /\ ShutFirst(c)
  /\ c.flags = {} /\ c.ctype = c0.ctype /\ c.inst = c0.inst
  /\ m.t = "CONFIRM" => c.type = "open" /\ c.remote_id = m.self
  /\ m.t = "OPENFAIL" => c.type = "zombie"

\* The answer to an OPEN is taken from the queue and noted.
LEMMA AnsweredLinked ==
  ASSUME NEW A, NEW B, NEW PA, NEW PB, NEW last \in Nat, Linked(A, B, PA, PB, last),
         NEW PA1, NEW m, Popped(PA, PA1, m), m.t \in {"CONFIRM", "OPENFAIL"},
         NEW A1, Moved(A, A1, m.id, A1[m.id]), Answered(A[m.id], A1[m.id], m)
  PROVE  Linked(A1, B, PA1, PB, last)
  <1> DEFINE i == m.id
             c0 == A[i]
             c == A1[i]
  <1>0. /\ m \in PA /\ m \in Msg /\ m.id \in Ids /\ PA1 \subseteq PA /\ PA \subseteq PA1 \cup {m}
        /\ \A k \in PA1 : k.inst = m.inst => MayFollow(m.t, k.t)
    BY DEF Popped, Linked, Numbers, Msg
  <1>1. /\ Table(A, last) /\ Table(B, last) /\ Half(A, B, PA, PB) /\ Half(B, A, PB, PA)
        /\ Numbers(PA, last) /\ Numbers(PB, last)
    BY DEF Linked
  <1>2. /\ i \in Ids /\ c0.inst = m.inst /\ c0.inst # 0 /\ c0.type = "opening"
    BY Finds DEF Real, MsgType
  <1>a. /\ \A k \in Ids : A1[k].inst = A[k].inst /\ A1[k].ctype = A[k].ctype
        /\ \A k \in Ids : k # i => A1[k] = A[k]
    BY <1>2 DEF Moved, Answered
  <1>b. Table(A1, last)
    <2>1. \A k \in Ids : LocalOK(A1[k]) /\ ShutFirst(A1[k])
      BY <1>1 DEF Moved, Answered, Table
    <2>2. \A k \in Ids : A1[k].type = "free" <=> A[k].type = "free"
      BY <1>2, <1>a DEF Answered
    <2> QED BY <1>1, <1>a, <2>1, <2>2 DEF Table, Moved
  <1>c. ASSUME NEW p \in PB, p.inst = m.inst PROVE FALSE
    <2>1. Went(c0, p)
      BY <1>1, <1>2, <1>c DEF Half
    <2>2. OpenOK(B, A, PA, p)
      BY <1>1, <1>2, <2>1 DEF Went, Half, Routed
    <2> QED BY <1>0, <1>c, <2>2 DEF OpenOK
  <1>d. ASSUME NEW k \in PA1, k.inst = m.inst
        PROVE  /\ k.t \notin {"CONFIRM", "OPENFAIL", "OPEN"}
               /\ m.t = "OPENFAIL" => k.t \notin Real
    BY <1>0, <1>d DEF MayFollow
  <1>e. ASSUME NEW j \in Ids, B[j].inst = m.inst
        PROVE  /\ m.t = "CONFIRM" => B[j].type \in Est /\ m.self = j
               /\ m.t = "OPENFAIL" => B[j].type = "zombie"
               /\ B[j].flags \cap {"CLOSE_RCVD", "EOF_RCVD"} = {}
               /\ B[j].ctype = c0.ctype
               /\ B[j].type \in Est \cup {"connecting"} => B[j].remote_id = i
    <2>1. Went(B[j], m) /\ Routed(A, B, PB, m)
      BY <1>0, <1>1, <1>e DEF Half
    <2>2. Paired(B[j], c0, i)
      BY <1>1, <1>2, <1>e DEF Half
    <2>3. c0.flags = {}
      BY <1>1, <1>2 DEF Table, LocalOK, Fresh
    <2>4. m.t = "CONFIRM" =>
            B[m.self].inst = m.inst /\ B[m.self].type \in Est /\ m.self \in Ids
      BY <1>0, <2>1 DEF Routed, ConfirmOK, Msg
    <2>5. m.t = "CONFIRM" => m.self = j
      BY <1>1, <1>2, <1>e, <2>4 DEF Table
    <2> QED BY <2>1, <2>2, <2>3, <2>4, <2>5 DEF Went, Paired
  <1>3. Half(A1, B, PA1, PB)
    <2>1. ASSUME NEW k \in Ids, NEW p \in PA1, A1[k].inst = p.inst
          PROVE  Comes(A1[k], p)
      <3>1. CASE k = i
        BY <1>2, <1>a, <1>d, <2>1, <3>1 DEF Answered, Comes
      <3>2. CASE k # i
        BY <1>0, <1>1, <1>a, <2>1, <3>2 DEF Half
      <3> QED BY <3>1, <3>2
    <2>2. ASSUME NEW k \in Ids, NEW p \in PB, A1[k].inst = p.inst
          PROVE  Went(A1[k], p)
      <3>1. k # i
        BY <1>2, <1>a, <1>c, <2>2
      <3> QED BY <1>1, <1>a, <2>2, <3>1 DEF Half
    <2>3. ASSUME NEW p \in PA1
          PROVE  Routed(A1, B, PB, p)
      <3>1. Routed(A, B, PB, p) /\ p.id \in Ids
        BY <1>0, <1>1 DEF Half, Numbers, Msg
      <3>2. p.t \in {"CONFIRM", "OPENFAIL"} => A[p.id].inst = p.inst
        BY <3>1 DEF Routed, Real, MsgType
      <3>3. p.t \in {"CONFIRM", "OPENFAIL"} => p.id # i
        BY <1>2, <1>d, <3>2
      <3> QED BY <1>a, <3>1, <3>3 DEF Routed, OpenOK, ConfirmOK
    <2>4. ASSUME NEW k \in Ids, NEW j \in Ids, A1[k].inst = B[j].inst, A1[k].inst # 0
          PROVE  Paired(A1[k], B[j], j) /\ ConfirmAhead(A1[k], B[j], PA1)
      <3>1. CASE k = i
        <4>1. B[j].inst = m.inst
          BY <1>2, <1>a, <2>4, <3>1
        <4>2. c.type \in {"open", "zombie"} /\ c.flags = {} /\ c.ctype = c0.ctype
              /\ (c.type = "open" => m.t = "CONFIRM" /\ c.remote_id = m.self)
          BY DEF Answered
        <4> QED BY <1>e, <3>1, <4>1, <4>2 DEF Paired, ConfirmAhead, Est
      <3>2. CASE k # i
        <4>1. A1[k] = A[k] /\ A[k].inst # m.inst
          BY <1>1, <1>2, <1>a, <2>4, <3>2 DEF Table
        <4>2. Paired(A[k], B[j], j) /\ ConfirmAhead(A[k], B[j], PA)
          BY <1>1, <2>4, <4>1 DEF Half
        <4> QED BY <1>0, <4>1, <4>2 DEF ConfirmAhead
      <3> QED BY <3>1, <3>2
    <2>5. ASSUME NEW k \in Ids
          PROVE  HasPeer(A1[k], B) /\ WaitsForAnswer(A1[k], PA1)
      <3>1. CASE k = i
        <4>1. m.t = "CONFIRM" => ConfirmOK(A, B, m)
          BY <1>0, <1>1 DEF Half, Routed
        <4>2. m.t = "CONFIRM" => B[m.self].inst = m.inst
          BY <4>1 DEF ConfirmOK
        <4> QED BY <1>2, <1>a, <3>1, <4>2 DEF Answered, HasPeer, WaitsForAnswer, Est
      <3>2. CASE k # i
        <4>1. HasPeer(A[k], B) /\ WaitsForAnswer(A[k], PA) /\ A1[k] = A[k]
          BY <1>1, <1>a, <3>2 DEF Half
        <4>2. A[k].type = "opening" => A[k].inst # m.inst
          BY <1>1, <1>2, <3>2 DEF Table
        <4> QED BY <1>0, <4>1, <4>2 DEF WaitsForAnswer
      <3> QED BY <3>1, <3>2
    <2> QED BY <2>1, <2>2, <2>3, <2>4, <2>5 DEF Half
  <1>4. Half(B, A1, PB, PA1)
    <2>1. \A j \in Ids, p \in PB : B[j].inst = p.inst => Comes(B[j], p)
      BY <1>1 DEF Half
    <2>2. \A j \in Ids, p \in PA1 : B[j].inst = p.inst => Went(B[j], p)
      BY <1>0, <1>1 DEF Half
    <2>3. ASSUME NEW p \in PB
          PROVE  Routed(B, A1, PA1, p)
      <3>1. Routed(B, A, PA, p) /\ p.id \in Ids /\ p.self \in Ids \cup {NoId}
        BY <1>1 DEF Half, Numbers, Msg
      <3>2. ASSUME p.t = "OPEN" PROVE OpenOK(B, A1, PA1, p)
        <4>1. OpenOK(B, A, PA, p)
          BY <3>1, <3>2 DEF Routed
        <4>2. p.id # i
          BY <1>0, <1>2, <4>1 DEF OpenOK
        <4> QED BY <1>0, <1>a, <3>1, <4>1, <4>2 DEF OpenOK
      <3>3. ASSUME p.t = "CONFIRM" PROVE ConfirmOK(B, A1, p)
        <4>1. ConfirmOK(B, A, p)
          BY <3>1, <3>3 DEF Routed
        <4>2. p.self # i
          BY <1>2, <4>1 DEF ConfirmOK, Est
        <4> QED BY <1>a, <3>1, <4>1, <4>2 DEF ConfirmOK
      <3> QED BY <3>1, <3>2, <3>3 DEF Routed
    <2>4. ASSUME NEW j \in Ids, NEW k \in Ids, B[j].inst = A1[k].inst, B[j].inst # 0
          PROVE  Paired(B[j], A1[k], k) /\ ConfirmAhead(B[j], A1[k], PB)
      <3>1. Paired(B[j], A[k], k) /\ ConfirmAhead(B[j], A[k], PB)
        BY <1>1, <1>a, <2>4 DEF Half
      <3>2. CASE k = i
        <4>1. B[j].inst = m.inst
          BY <1>2, <1>a, <2>4, <3>2
        <4>2. B[j].type \in Est \cup {"zombie"} /\ (B[j].type \in Est => c.type = "open")
          BY <1>e, <4>1 DEF Answered, Est
        <4> QED BY <1>a, <1>e, <3>2, <4>1, <4>2 DEF Paired, ConfirmAhead, Est
      <3>3. CASE k # i
        BY <1>a, <3>1, <3>3
      <3> QED BY <3>2, <3>3
    <2>5. ASSUME NEW j \in Ids
          PROVE  HasPeer(B[j], A1) /\ WaitsForAnswer(B[j], PB)
      <3>1. HasPeer(B[j], A) /\ WaitsForAnswer(B[j], PB)
        BY <1>1 DEF Half
      <3>2. B[j].type \in Est \cup {"connecting"} => B[j].remote_id \in Ids
        BY <1>1 DEF Table, LocalOK, Channel
      <3> QED BY <1>a, <3>1, <3>2 DEF HasPeer
    <2> QED BY <2>1, <2>2, <2>3, <2>4, <2>5 DEF Half
  <1>5. Numbers(PA1, last)
    BY <1>0, <1>1 DEF Numbers
  <1> QED BY <1>1, <1>b, <1>3, <1>4, <1>5 DEF Linked

\* A channel that has just been made in a free slot.
Made(c, n) ==
  /\ c \in Channel /\ LocalOK(c) /\ ShutFirst(c) /\ c.flags = {}
  /\ c.inst = n /\ c.type \in {"opening", "connecting", "larval"}

\* A new channel keeps the numbers unique.
LEMMA MadeTable ==
  ASSUME NEW A, NEW last \in Nat, NEW n \in Nat \ {0}, NEW i \in Ids, NEW A1,
         Table(A, last), Moved(A, A1, i, A1[i]), Made(A1[i], n), A[i].type = "free",
         \A k \in Ids : A[k].inst # n
  PROVE  /\ last <= n => Table(A1, n)
         /\ n <= last => Table(A1, last)
         /\ A[i].inst = 0 /\ A1[i].inst = n
         /\ \A k \in Ids : k # i => A1[k] = A[k]
         /\ \A k \in Ids : A1[k].inst = n => k = i
  <1>1. \A k \in Ids : LocalOK(A1[k]) /\ ShutFirst(A1[k])
    BY DEF Moved, Made, Table
  <1>2. \A k \in Ids : A1[k].type = "free" <=> A1[k].inst = 0
    BY DEF Moved, Made, Table
  <1>3. \A k, l \in Ids : A1[k].inst = A1[l].inst /\ A1[k].inst # 0 => k = l
    BY DEF Moved, Made, Table
  <1>4. /\ A1[i].inst = n /\ \A k \in Ids : k # i => A1[k] = A[k]
        /\ A1 \in [Ids -> Channel]
    BY DEF Moved, Made
  <1>5. \A k \in Ids : A[k].inst \in Nat /\ A[k].inst <= last
    BY DEF Table, Channel
  <1>6. \A k \in Ids : (last <= n => A1[k].inst <= n) /\ (n <= last => A1[k].inst <= last)
    BY <1>4, <1>5
  <1>7. A[i].inst = 0
    BY DEF Table
  <1>8. \A k \in Ids : A1[k].inst = n => k = i
    BY <1>4
  <1> QED BY <1>1, <1>2, <1>3, <1>4, <1>6, <1>7, <1>8 DEF Table

\* A slot that a channel in another table or a packet refers to is in use, so
\* that a new channel in a free slot changes none of them.
LEMMA MadeElsewhere ==
  ASSUME NEW A, NEW B, NEW PA, NEW PB, NEW last \in Nat, Linked(A, B, PA, PB, last),
         NEW i \in Ids, A[i].inst = 0
  PROVE  /\ \A m \in PA : m.t \in Real \ {"OPEN"} => m.id # i
         /\ \A m \in PB : /\ m.t = "OPEN" => m.id # i
                          /\ m.t = "CONFIRM" => m.self # i
         /\ \A j \in Ids : \/ B[j].type = "connecting"
                           \/ B[j].type \in Est /\ "CLOSE_SENT" \notin B[j].flags
                           => B[j].remote_id # i
  <1>1. /\ Half(A, B, PA, PB) /\ Half(B, A, PB, PA) /\ Table(B, last)
        /\ \A m \in PA \cup PB : m.inst # 0
    BY DEF Linked, Numbers
  <1>2. ASSUME NEW m \in PA, m.t \in Real \ {"OPEN"} PROVE m.id # i
    <2>1. Routed(A, B, PB, m)
      BY <1>1 DEF Half
    <2> QED BY <1>1, <1>2, <2>1 DEF Routed
  <1>3. ASSUME NEW m \in PB, m.t \in {"OPEN", "CONFIRM"}
        PROVE  (m.t = "OPEN" => m.id # i) /\ (m.t = "CONFIRM" => m.self # i)
    <2>1. Routed(B, A, PA, m)
      BY <1>1 DEF Half
    <2> QED BY <1>1, <1>3, <2>1 DEF Routed, OpenOK, ConfirmOK
  <1>4. ASSUME NEW j \in Ids,
               \/ B[j].type = "connecting"
               \/ B[j].type \in Est /\ "CLOSE_SENT" \notin B[j].flags
        PROVE  B[j].remote_id # i
    <2>1. HasPeer(B[j], A)
      BY <1>1 DEF Half
    <2>2. B[j].inst # 0
      BY <1>1, <1>4 DEF Table, Est
    <2> QED BY <1>4, <2>1, <2>2 DEF HasPeer
  <1> QED BY <1>2, <1>3, <1>4

\* The OPEN for a new channel.
LEMMA OpenLinked ==
  ASSUME NEW A, NEW B, NEW PA, NEW PB, NEW last \in Nat, Linked(A, B, PA, PB, last),
         NEW i \in Ids, A[i].type = "free", NEW A1, Moved(A, A1, i, A1[i]),
         Made(A1[i], last + 1), A1[i].type = "opening",
         NEW m \in Msg, m.t = "OPEN", m.id = i, m.n = Window, m.ctype = A1[i].ctype,
         m.inst = last + 1
  PROVE  Linked(A1, B, PA, PB \cup {m}, last + 1)
  <1> DEFINE c == A1[i]
             n == last + 1
             PB1 == PB \cup {m}
  <1>0. /\ Table(A, last) /\ Table(B, last) /\ Half(A, B, PA, PB) /\ Half(B, A, PB, PA)
        /\ Numbers(PA, last) /\ Numbers(PB, last)
    BY DEF Linked
  <1>1. /\ n \in Nat \ {0} /\ last <= n
        /\ \A k \in Ids : A[k].inst # n /\ B[k].inst # n
        /\ \A p \in PA \cup PB : p.inst # n
    BY <1>0 DEF Table, Numbers, Channel
  <1>2. /\ Table(A1, n) /\ A[i].inst = 0 /\ c.inst = n
        /\ \A k \in Ids : k # i => A1[k] = A[k]
        /\ \A k \in Ids : A1[k].inst = n => k = i
    BY <1>0, <1>1, MadeTable
  <1>3. Table(B, n) /\ Numbers(PA, n) /\ Numbers(PB1, n)
    <2>1. \A k \in Ids : B[k].inst \in Nat /\ B[k].inst <= last
      BY <1>0 DEF Table, Channel
    <2>2. \A k \in Ids : B[k].inst <= n
      BY <2>1
    <2> QED BY <1>0, <2>2 DEF Table, Numbers
  <1>4. /\ \A p \in PA : p.t \in Real \ {"OPEN"} => p.id # i
        /\ \A p \in PB : (p.t = "OPEN" => p.id # i) /\ (p.t = "CONFIRM" => p.self # i)
        /\ \A j \in Ids : \/ B[j].type = "connecting"
                          \/ B[j].type \in Est /\ "CLOSE_SENT" \notin B[j].flags
                          => B[j].remote_id # i
    BY <1>2, MadeElsewhere
  <1>5. Half(A1, B, PA, PB1)
    <2>1. \A k \in Ids, p \in PA : A1[k].inst = p.inst => Comes(A1[k], p)
      BY <1>0, <1>1, <1>2 DEF Half
    <2>2. ASSUME NEW k \in Ids, NEW p \in PB1, A1[k].inst = p.inst
          PROVE  Went(A1[k], p)
      <3>1. CASE k = i
        <4>1. p = m
          BY <1>1, <1>2, <2>2, <3>1
        <4> QED BY <3>1, <4>1 DEF Went
      <3>2. CASE k # i
        BY <1>0, <1>1, <1>2, <2>2, <3>2 DEF Half
      <3> QED BY <3>1, <3>2
    <2>3. ASSUME NEW p \in PA
          PROVE  Routed(A1, B, PB1, p)
      <3>1. Routed(A, B, PB, p) /\ p.id \in Ids /\ p.t \in MsgType
        BY <1>0 DEF Half, Numbers, Msg
      <3>2. ASSUME p.t = "OPEN" PROVE OpenOK(A1, B, PB1, p)
        BY <1>1, <1>2, <3>1, <3>2 DEF Routed, OpenOK
      <3>3. ASSUME p.t \in Real \ {"OPEN"} PROVE A1[p.id] = A[p.id]
        BY <1>2, <1>4, <3>1, <3>3
      <3>4. p.t \in {"CONFIRM", "OPENFAIL"} => p.t \in Real \ {"OPEN"}
        BY DEF Real, MsgType
      <3> QED BY <3>1, <3>2, <3>3, <3>4 DEF Routed, ConfirmOK
    <2>4. \A k, j \in Ids :
            A1[k].inst = B[j].inst /\ A1[k].inst # 0 =>
              Paired(A1[k], B[j], j) /\ ConfirmAhead(A1[k], B[j], PA)
      BY <1>0, <1>1, <1>2 DEF Half
    <2>5. ASSUME NEW k \in Ids
          PROVE  HasPeer(A1[k], B) /\ WaitsForAnswer(A1[k], PA)
      <3>1. CASE k = i
        BY <1>1, <1>2, <3>1 DEF HasPeer, WaitsForAnswer, Est
      <3>2. CASE k # i
        BY <1>0, <1>2, <3>2 DEF Half
      <3> QED BY <3>1, <3>2
    <2> QED BY <2>1, <2>2, <2>3, <2>4, <2>5 DEF Half
  <1>6. Half(B, A1, PB1, PA)
    <2>1. \A j \in Ids, p \in PB1 : B[j].inst = p.inst => Comes(B[j], p)
      BY <1>0, <1>1 DEF Half
    <2>2. \A j \in Ids, p \in PA : B[j].inst = p.inst => Went(B[j], p)
      BY <1>0 DEF Half
    <2>3. ASSUME NEW p \in PB1
          PROVE  Routed(B, A1, PA, p)
      <3>1. CASE p = m
        <4>1. OpenOK(B, A1, PA, m)
          BY <1>1, <1>2 DEF OpenOK
        <4> QED BY <3>1, <4>1 DEF Routed
      <3>2. CASE p \in PB
        <4>1. Routed(B, A, PA, p) /\ p.id \in Ids /\ p.self \in Ids \cup {NoId}
          BY <1>0, <3>2 DEF Half, Numbers, Msg
        <4> QED BY <1>2, <1>4, <3>2, <4>1 DEF Routed, OpenOK, ConfirmOK
      <3> QED BY <3>1, <3>2
    <2>4. ASSUME NEW j \in Ids, NEW k \in Ids, B[j].inst = A1[k].inst, B[j].inst # 0
          PROVE  Paired(B[j], A1[k], k) /\ ConfirmAhead(B[j], A1[k], PB1)
      <3>1. k # i
        BY <1>1, <1>2, <2>4
      <3>2. Paired(B[j], A[k], k) /\ ConfirmAhead(B[j], A[k], PB)
        BY <1>0, <1>2, <2>4, <3>1 DEF Half
      <3> QED BY <1>2, <3>1, <3>2 DEF ConfirmAhead
    <2>5. ASSUME NEW j \in Ids
          PROVE  HasPeer(B[j], A1) /\ WaitsForAnswer(B[j], PB1)
      <3>1. HasPeer(B[j], A) /\ WaitsForAnswer(B[j], PB)
        BY <1>0 DEF Half
      <3>2. B[j].type \in Est \cup {"connecting"} => B[j].remote_id \in Ids
        BY <1>0 DEF Table, LocalOK, Channel
      <3>3. HasPeer(B[j], A1)
        BY <1>2, <1>4, <3>1, <3>2 DEF HasPeer
      <3> QED BY <1>1, <3>1, <3>3 DEF WaitsForAnswer
    <2> QED BY <2>1, <2>2, <2>3, <2>4, <2>5 DEF Half
  <1> QED BY <1>2, <1>3, <1>5, <1>6 DEF Linked

\* When an OPEN arrives nothing but the opening channel knows its number.
LEMMA OpenArrives ==
  ASSUME NEW A, NEW B, NEW PA, NEW PB, NEW last \in Nat, Linked(A, B, PA, PB, last),
         NEW PA1, NEW m, Popped(PA, PA1, m), m.t = "OPEN"
  PROVE  /\ m \in Msg /\ m.id \in Ids /\ m.inst \in 1 .. last /\ m.inst \in Nat \ {0}
         /\ m.n = Window
         /\ B[m.id].inst = m.inst /\ B[m.id].type = "opening" /\ B[m.id].ctype = m.ctype
         /\ B[m.id].flags = {}
         /\ \A j \in Ids : B[j].inst = m.inst => j = m.id
         /\ \A k \in Ids : A[k].inst # m.inst
         /\ \A p \in PA1 \cup PB : p.inst # m.inst
  <1>0. /\ Table(B, last) /\ Half(A, B, PA, PB) /\ Half(B, A, PB, PA)
        /\ m \in Msg /\ m.id \in Ids /\ m.inst \in 1 .. last /\ m \in PA /\ PA1 \subseteq PA
    BY DEF Linked, Numbers, Popped, Msg
  <1>1. OpenOK(A, B, PB, m)
    BY <1>0 DEF Half, Routed
  <1>2. /\ B[m.id].inst = m.inst /\ B[m.id].type = "opening" /\ B[m.id].ctype = m.ctype
        /\ m.n = Window /\ \A k \in Ids : A[k].inst # m.inst
        /\ \A p \in PB : p.inst # m.inst
    BY <1>1 DEF OpenOK
  <1>3. ASSUME NEW p \in PA1, p.inst = m.inst PROVE FALSE
    <2>1. Went(B[m.id], p)
      BY <1>0, <1>2, <1>3 DEF Half
    <2>2. MayFollow(m.t, p.t)
      BY <1>3 DEF Popped
    <2> QED BY <1>2, <2>1, <2>2 DEF Went, MayFollow
  <1>4. B[m.id].flags = {} /\ \A j \in Ids : B[j].inst = m.inst => j = m.id
    BY <1>0, <1>2 DEF Table, LocalOK, Fresh
  <1> QED BY <1>0, <1>2, <1>3, <1>4

\* The channel c accepts the OPEN m in slot i, with the answer X.
Accepts(c, i, m, X) ==
  /\ Made(c, m.inst) /\ c.type \in {"larval", "connecting"}
  /\ c.remote_id = m.id /\ c.ctype = m.ctype
  /\ X \subseteq Msg
  /\ \A p \in X : /\ p.t = "CONFIRM" /\ p.id = m.id /\ p.self = i
                  /\ p.inst = m.inst /\ p.ctype = m.ctype
  /\ c.type = "larval" <=> X # {}

\* An OPEN is taken from the queue and a channel made for it.
LEMMA AcceptLinked ==
  ASSUME NEW A, NEW B, NEW PA, NEW PB, NEW last \in Nat, Linked(A, B, PA, PB, last),
         NEW PA1, NEW m, Popped(PA, PA1, m), m.t = "OPEN",
         NEW i \in Ids, A[i].type = "free", NEW A1, Moved(A, A1, i, A1[i]),
         NEW X, Accepts(A1[i], i, m, X)
  PROVE  Linked(A1, B, PA1, PB \cup X, last)
  <1> DEFINE c == A1[i]
             PB1 == PB \cup X
  <1>0. Linked(A, B, PA1, PB, last)
    BY PopLinked
  <1>1. /\ Table(A, last) /\ Table(B, last) /\ Half(A, B, PA1, PB) /\ Half(B, A, PB, PA1)
        /\ Numbers(PA1, last) /\ Numbers(PB, last)
    BY <1>0 DEF Linked
  <1>2. /\ m \in Msg /\ m.id \in Ids /\ m.inst \in 1 .. last /\ m.inst \in Nat \ {0}
        /\ B[m.id].inst = m.inst /\ B[m.id].type = "opening" /\ B[m.id].ctype = m.ctype
        /\ B[m.id].flags = {}
        /\ \A j \in Ids : B[j].inst = m.inst => j = m.id
        /\ \A k \in Ids : A[k].inst # m.inst
        /\ \A p \in PA1 \cup PB : p.inst # m.inst
    BY OpenArrives
  <1>3. /\ Made(c, m.inst) /\ c.type \in {"larval", "connecting"} /\ c.flags = {}
        /\ c.remote_id = m.id /\ c.ctype = m.ctype /\ X \subseteq Msg
        /\ \A p \in X : /\ p.t = "CONFIRM" /\ p.id = m.id /\ p.self = i
                        /\ p.inst = m.inst /\ p.ctype = m.ctype
        /\ c.type = "larval" <=> X # {}
    BY DEF Accepts, Made
  <1>4. /\ Table(A1, last) /\ A[i].inst = 0 /\ c.inst = m.inst
        /\ \A k \in Ids : k # i => A1[k] = A[k]
        /\ \A k \in Ids : A1[k].inst = m.inst => k = i
    BY <1>1, <1>2, <1>3, MadeTable
  <1>5. Numbers(PB1, last)
    BY <1>1, <1>2, <1>3 DEF Numbers
  <1>6. /\ \A p \in PA1 : p.t \in Real \ {"OPEN"} => p.id # i
        /\ \A p \in PB : (p.t = "OPEN" => p.id # i) /\ (p.t = "CONFIRM" => p.self # i)
        /\ \A j \in Ids : \/ B[j].type = "connecting"
                          \/ B[j].type \in Est /\ "CLOSE_SENT" \notin B[j].flags
                          => B[j].remote_id # i
    BY <1>0, <1>4, MadeElsewhere
  <1>7. Half(A1, B, PA1, PB1)
    <2>1. \A k \in Ids, p \in PA1 : A1[k].inst = p.inst => Comes(A1[k], p)
      BY <1>1, <1>2, <1>4 DEF Half
    <2>2. ASSUME NEW k \in Ids, NEW p \in PB1, A1[k].inst = p.inst
          PROVE  Went(A1[k], p)
      <3>1. CASE k = i
        <4>1. p \in X
          BY <1>2, <1>4, <2>2, <3>1
        <4> QED BY <1>3, <3>1, <4>1 DEF Went
      <3>2. CASE k # i
        BY <1>1, <1>3, <1>4, <2>2, <3>2 DEF Half
      <3> QED BY <3>1, <3>2
    <2>3. ASSUME NEW p \in PA1
          PROVE  Routed(A1, B, PB1, p)
      <3>1. Routed(A, B, PB, p) /\ p.id \in Ids /\ p.t \in MsgType
        BY <1>1 DEF Half, Numbers, Msg
      <3>2. ASSUME p.t = "OPEN" PROVE OpenOK(A1, B, PB1, p)
        <4>1. OpenOK(A, B, PB, p) /\ p.inst # m.inst
          BY <1>2, <3>1, <3>2 DEF Routed
        <4> QED BY <1>3, <1>4, <4>1 DEF OpenOK
      <3>3. ASSUME p.t \in Real \ {"OPEN"} PROVE A1[p.id] = A[p.id]
        BY <1>4, <1>6, <3>1, <3>3
      <3>4. p.t \in {"CONFIRM", "OPENFAIL"} => p.t \in Real \ {"OPEN"}
        BY DEF Real, MsgType
      <3> QED BY <3>1, <3>2, <3>3, <3>4 DEF Routed, ConfirmOK
    <2>4. ASSUME NEW k \in Ids, NEW j \in Ids, A1[k].inst = B[j].inst, A1[k].inst # 0
          PROVE  Paired(A1[k], B[j], j) /\ ConfirmAhead(A1[k], B[j], PA1)
      <3>1. CASE k = i
        <4>1. j = m.id
          BY <1>2, <1>4, <2>4, <3>1
        <4> QED BY <1>2, <1>3, <3>1, <4>1 DEF Paired, ConfirmAhead, Est
      <3>2. CASE k # i
        BY <1>1, <1>4, <2>4, <3>2 DEF Half
      <3> QED BY <3>1, <3>2
    <2>5. ASSUME NEW k \in Ids
          PROVE  HasPeer(A1[k], B) /\ WaitsForAnswer(A1[k], PA1)
      <3>1. CASE k = i
        BY <1>2, <1>3, <1>4, <3>1 DEF HasPeer, WaitsForAnswer
      <3>2. CASE k # i
        BY <1>1, <1>4, <3>2 DEF Half
      <3> QED BY <3>1, <3>2
    <2> QED BY <2>1, <2>2, <2>3, <2>4, <2>5 DEF Half
  <1>8. Half(B, A1, PB1, PA1)
    <2>1. ASSUME NEW j \in Ids, NEW p \in PB1, B[j].inst = p.inst
          PROVE  Comes(B[j], p)
      <3>1. CASE p \in X
        <4>1. j = m.id
          BY <1>2, <1>3, <2>1, <3>1
        <4> QED BY <1>2, <4>1 DEF Comes
      <3>2. CASE p \in PB
        BY <1>1, <2>1, <3>2 DEF Half
      <3> QED BY <3>1, <3>2
    <2>2. \A j \in Ids, p \in PA1 : B[j].inst = p.inst => Went(B[j], p)
      BY <1>1 DEF Half
    <2>3. ASSUME NEW p \in PB1
          PROVE  Routed(B, A1, PA1, p)
      <3>1. CASE p \in X
        <4>1. ConfirmOK(B, A1, p)
          <5>1. i # NoId
            BY MaxChannelsAssumption DEF Ids, NoId
          <5> QED BY <1>2, <1>3, <1>4, <3>1, <5>1 DEF ConfirmOK, Est
        <4> QED BY <1>2, <1>3, <3>1, <4>1 DEF Routed
      <3>2. CASE p \in PB
        <4>1. Routed(B, A, PA1, p) /\ p.id \in Ids /\ p.self \in Ids \cup {NoId}
          BY <1>1, <3>2 DEF Half, Numbers, Msg
        <4> QED BY <1>4, <1>6, <3>2, <4>1 DEF Routed, OpenOK, ConfirmOK
      <3> QED BY <3>1, <3>2
    <2>4. ASSUME NEW j \in Ids, NEW k \in Ids, B[j].inst = A1[k].inst, B[j].inst # 0
          PROVE  Paired(B[j], A1[k], k) /\ ConfirmAhead(B[j], A1[k], PB1)
      <3>1. CASE k = i
        <4>1. j = m.id
          BY <1>2, <1>4, <2>4, <3>1
        <4>2. c.type \in Est => \E p \in PB1 : p.inst = m.inst /\ p.t = "CONFIRM"
          BY <1>3 DEF Est
        <4> QED BY <1>2, <1>3, <3>1, <4>1, <4>2 DEF Paired, ConfirmAhead, Est
      <3>2. CASE k # i
        <4>1. Paired(B[j], A[k], k) /\ ConfirmAhead(B[j], A[k], PB)
          BY <1>1, <1>4, <2>4, <3>2 DEF Half
        <4> QED BY <1>4, <3>2, <4>1 DEF ConfirmAhead
      <3> QED BY <3>1, <3>2
    <2>5. ASSUME NEW j \in Ids
          PROVE  HasPeer(B[j], A1) /\ WaitsForAnswer(B[j], PB1)
      <3>1. HasPeer(B[j], A) /\ WaitsForAnswer(B[j], PB)
        BY <1>1 DEF Half
      <3>2. B[j].type \in Est \cup {"connecting"} => B[j].remote_id \in Ids
        BY <1>1 DEF Table, LocalOK, Channel
      <3>3. HasPeer(B[j], A1)
        BY <1>4, <1>6, <3>1, <3>2 DEF HasPeer
      <3> QED BY <1>3, <3>1, <3>3 DEF WaitsForAnswer
    <2> QED BY <2>1, <2>2, <2>3, <2>4, <2>5 DEF Half
  <1> QED BY <1>1, <1>4, <1>5, <1>7, <1>8 DEF Linked

\* An OPEN refused at once.
LEMMA RefuseLinked ==
  ASSUME NEW A, NEW B, NEW PA, NEW PB, NEW last \in Nat, Linked(A, B, PA, PB, last),
         NEW PA1, NEW m, Popped(PA, PA1, m), m.t = "OPEN",
         NEW r \in Msg, r.t = "OPENFAIL", r.id = m.id, r.inst = m.inst, r.ctype = m.ctype
  PROVE  Linked(A, B, PA1, PB \cup {r}, last)
  <1> DEFINE PB1 == PB \cup {r}
  <1>0. Linked(A, B, PA1, PB, last)
    BY PopLinked
  <1>1. /\ Table(A, last) /\ Table(B, last) /\ Half(A, B, PA1, PB) /\ Half(B, A, PB, PA1)
        /\ Numbers(PA1, last) /\ Numbers(PB, last)
    BY <1>0 DEF Linked
  <1>2. /\ m \in Msg /\ m.id \in Ids /\ m.inst \in 1 .. last /\ m.inst \in Nat \ {0}
        /\ B[m.id].inst = m.inst /\ B[m.id].type = "opening" /\ B[m.id].ctype = m.ctype
        /\ B[m.id].flags = {}
        /\ \A j \in Ids : B[j].inst = m.inst => j = m.id
        /\ \A k \in Ids : A[k].inst # m.inst
        /\ \A p \in PA1 \cup PB : p.inst # m.inst
    BY OpenArrives
  <1>3. Numbers(PB1, last)
    BY <1>1, <1>2 DEF Numbers
  <1>4. Half(A, B, PA1, PB1)
    <2>2. \A k \in Ids, p \in PB1 : A[k].inst = p.inst => Went(A[k], p)
      BY <1>1, <1>2 DEF Half
    <2>3. ASSUME NEW p \in PA1
          PROVE  Routed(A, B, PB1, p)
      <3>1. Routed(A, B, PB, p) /\ p.inst # m.inst
        BY <1>1, <1>2 DEF Half
      <3> QED BY <3>1 DEF Routed, OpenOK
    <2> QED BY <1>1, <2>2, <2>3 DEF Half
  <1>5. Half(B, A, PB1, PA1)
    <2>1. ASSUME NEW j \in Ids, NEW p \in PB1, B[j].inst = p.inst
          PROVE  Comes(B[j], p)
      <3>1. CASE p = r
        <4>1. j = m.id
          BY <1>2, <2>1, <3>1
        <4> QED BY <1>2, <4>1 DEF Comes
      <3>2. CASE p \in PB
        BY <1>1, <2>1, <3>2 DEF Half
      <3> QED BY <3>1, <3>2
    <2>3. ASSUME NEW p \in PB1
          PROVE  Routed(B, A, PA1, p)
      <3>1. CASE p = r
        BY <1>2, <3>1 DEF Routed
      <3>2. CASE p \in PB
        BY <1>1, <3>2 DEF Half
      <3> QED BY <3>1, <3>2
    <2>4. ASSUME NEW j \in Ids, NEW k \in Ids, B[j].inst = A[k].inst, B[j].inst # 0
          PROVE  Paired(B[j], A[k], k) /\ ConfirmAhead(B[j], A[k], PB1)
      <3>1. Paired(B[j], A[k], k) /\ ConfirmAhead(B[j], A[k], PB)
        BY <1>1, <2>4 DEF Half
      <3> QED BY <3>1 DEF ConfirmAhead
    <2>5. ASSUME NEW j \in Ids
          PROVE  HasPeer(B[j], A) /\ WaitsForAnswer(B[j], PB1)
      <3>1. HasPeer(B[j], A) /\ WaitsForAnswer(B[j], PB)
        BY <1>1 DEF Half
      <3> QED BY <3>1 DEF WaitsForAnswer
    <2> QED BY <1>1, <2>1, <2>3, <2>4, <2>5 DEF Half
  <1> QED BY <1>1, <1>3, <1>4, <1>5 DEF Linked

\* The end of a connect: c0 was connecting, c is open or dead, and p says so.
Settles(c0, c, i, p) ==
  /\ c \in Channel /\ LocalOK(c) /\ ShutFirst(c) /\ c.flags = {}
  /\ c.ctype = c0.ctype /\ c.inst = c0.inst /\ c.remote_id = c0.remote_id
  /\ p \in Msg /\ p.id = c0.remote_id /\ p.inst = c0.inst /\ p.ctype = c0.ctype
  /\ \/ c.type = "open" /\ p.t = "CONFIRM" /\ p.self = i
     \/ c.type = "zombie" /\ p.t = "OPENFAIL"

\* A connect ends, and the peer is told.
LEMMA SettlesLinked ==
  ASSUME NEW A, NEW B, NEW PA, NEW PB, NEW last \in Nat, Linked(A, B, PA, PB, last),
         NEW i \in Ids, A[i].type = "connecting", NEW A1, Moved(A, A1, i, A1[i]),
         NEW p, Settles(A[i], A1[i], i, p)
  PROVE  /\ Linked(A1, B, PA, PB \cup {p}, last)
         /\ \A k \in PA : k.inst # A[i].inst
         /\ \A k \in PB : k.inst = A[i].inst => k.t = "REPLY"
         /\ A[i].inst # 0
         /\ \A j \in Ids : B[j].inst = A[i].inst => B[j].type = "opening"
  <1> DEFINE c0 == A[i]
             c == A1[i]
             PB1 == PB \cup {p}
  <1>0. /\ Table(A, last) /\ Table(B, last) /\ Half(A, B, PA, PB) /\ Half(B, A, PB, PA)
        /\ Numbers(PA, last) /\ Numbers(PB, last)
    BY DEF Linked
  <1>1. /\ c \in Channel /\ LocalOK(c) /\ ShutFirst(c) /\ c.flags = {}
        /\ c.ctype = c0.ctype /\ c.inst = c0.inst /\ c.remote_id = c0.remote_id
        /\ p \in Msg /\ p.id = c0.remote_id /\ p.inst = c0.inst /\ p.ctype = c0.ctype
        /\ p.id \in Ids
    BY DEF Settles, Msg
  <1>s. \/ c.type = "open" /\ p.t = "CONFIRM" /\ p.self = i
        \/ c.type = "zombie" /\ p.t = "OPENFAIL"
    BY DEF Settles
  <1>2. c0.inst # 0 /\ c0.inst \in 1 .. last
    BY <1>0 DEF Table, Channel
  <1>3. /\ \A k \in Ids : A1[k].inst = A[k].inst /\ A1[k].ctype = A[k].ctype
                          /\ A1[k].remote_id = A[k].remote_id
        /\ \A k \in Ids : k # i => A1[k] = A[k]
        /\ \A k \in Ids : A1[k].inst = c0.inst => k = i
    BY <1>0, <1>1, <1>2 DEF Moved, Table
  <1>4. Table(A1, last)
    <2>1. \A k \in Ids : LocalOK(A1[k]) /\ ShutFirst(A1[k])
      BY <1>0, <1>1, <1>3 DEF Table
    <2>2. \A k \in Ids : A1[k].type = "free" <=> A[k].type = "free"
      BY <1>s, <1>3
    <2> QED BY <1>0, <1>3, <2>1, <2>2 DEF Table, Moved
  <1>5. \A k \in PA : k.inst # c0.inst
    BY <1>0 DEF Half, Comes
  <1>6. \A k \in PB : k.inst = c0.inst => k.t = "REPLY"
    BY <1>0 DEF Half, Went
  <1>7. /\ B[p.id].inst = c0.inst /\ B[p.id].type = "opening" /\ B[p.id].ctype = c0.ctype
        /\ B[p.id].flags = {}
        /\ \A j \in Ids : B[j].inst = c0.inst => j = p.id
    <2>1. B[p.id].inst = c0.inst
      BY <1>0, <1>1 DEF Half, HasPeer
    <2>2. Paired(c0, B[p.id], p.id)
      BY <1>0, <1>1, <1>2, <2>1 DEF Half
    <2>3. B[p.id].type = "opening" /\ B[p.id].ctype = c0.ctype
      BY <2>2 DEF Paired
    <2>4. B[p.id].flags = {}
      BY <1>0, <1>1, <2>3 DEF Table, LocalOK, Fresh
    <2>5. \A j \in Ids : B[j].inst = c0.inst => j = p.id
      BY <1>0, <1>1, <1>2, <2>1 DEF Table
    <2> QED BY <2>1, <2>3, <2>4, <2>5
  <1>8. Half(A1, B, PA, PB1)
    <2>1. ASSUME NEW k \in Ids, NEW q \in PA, A1[k].inst = q.inst
          PROVE  Comes(A1[k], q)
      <3>1. k # i
        BY <1>3, <1>5, <2>1
      <3> QED BY <1>0, <1>3, <2>1, <3>1 DEF Half
    <2>2. ASSUME NEW k \in Ids, NEW q \in PB1, A1[k].inst = q.inst
          PROVE  Went(A1[k], q)
      <3>1. CASE k = i
        <4>1. q = p \/ q.t = "REPLY"
          BY <1>3, <1>6, <2>2, <3>1
        <4> QED BY <1>s, <3>1, <4>1 DEF Went
      <3>2. CASE k # i
        <4>1. q \in PB
          BY <1>1, <1>3, <2>2, <3>2
        <4> QED BY <1>0, <1>3, <2>2, <3>2, <4>1 DEF Half
      <3> QED BY <3>1, <3>2
    <2>3. ASSUME NEW q \in PA
          PROVE  Routed(A1, B, PB1, q)
      <3>1. Routed(A, B, PB, q) /\ q.id \in Ids /\ q.inst # c0.inst
        BY <1>0, <1>5 DEF Half, Numbers, Msg
      <3>2. A[q.id].type = "opening" => A1[q.id].type = "opening"
        BY <1>3, <3>1
      <3> QED BY <1>1, <1>3, <3>1, <3>2 DEF Routed, OpenOK, ConfirmOK
    <2>4. ASSUME NEW k \in Ids, NEW j \in Ids, A1[k].inst = B[j].inst, A1[k].inst # 0
          PROVE  Paired(A1[k], B[j], j) /\ ConfirmAhead(A1[k], B[j], PA)
      <3>1. CASE k = i
        <4>1. j = p.id
          BY <1>3, <1>7, <2>4, <3>1
        <4> QED BY <1>1, <1>s, <1>7, <3>1, <4>1 DEF Paired, ConfirmAhead, Est
      <3>2. CASE k # i
        BY <1>0, <1>3, <2>4, <3>2 DEF Half
      <3> QED BY <3>1, <3>2
    <2>5. ASSUME NEW k \in Ids
          PROVE  HasPeer(A1[k], B) /\ WaitsForAnswer(A1[k], PA)
      <3>1. CASE k = i
        BY <1>1, <1>s, <1>7, <3>1 DEF HasPeer, WaitsForAnswer
      <3>2. CASE k # i
        BY <1>0, <1>3, <3>2 DEF Half
      <3> QED BY <3>1, <3>2
    <2> QED BY <2>1, <2>2, <2>3, <2>4, <2>5 DEF Half
  <1>9. Half(B, A1, PB1, PA)
    <2>1. ASSUME NEW j \in Ids, NEW q \in PB1, B[j].inst = q.inst
          PROVE  Comes(B[j], q)
      <3>1. CASE q = p
        <4>1. j = p.id
          BY <1>1, <1>7, <2>1, <3>1
        <4> QED BY <1>7, <4>1 DEF Comes
      <3>2. CASE q \in PB
        BY <1>0, <2>1, <3>2 DEF Half
      <3> QED BY <3>1, <3>2
    <2>2. \A j \in Ids, q \in PA : B[j].inst = q.inst => Went(B[j], q)
      BY <1>0 DEF Half
    <2>3. ASSUME NEW q \in PB1
          PROVE  Routed(B, A1, PA, q)
      <3>1. CASE q = p
        <4>1. p.t = "CONFIRM" => ConfirmOK(B, A1, p)
          <5>1. i # NoId
            BY MaxChannelsAssumption DEF Ids, NoId
          <5> QED BY <1>1, <1>s, <1>7, <5>1 DEF ConfirmOK, Est
        <4> QED BY <1>1, <1>s, <1>7, <3>1, <4>1 DEF Routed
      <3>2. CASE q \in PB
        <4>1. Routed(B, A, PA, q) /\ q.id \in Ids /\ q.self \in Ids \cup {NoId}
          BY <1>0, <3>2 DEF Half, Numbers, Msg
        <4>2. ASSUME NEW k \in Ids
              PROVE  (A[k].type = "opening" => A1[k].type = "opening")
                     /\ (A[k].type \in Est => A1[k].type \in Est)
          BY <1>3 DEF Est
        <4> QED BY <1>3, <4>1, <4>2 DEF Routed, OpenOK, ConfirmOK
      <3> QED BY <3>1, <3>2
    <2>4. ASSUME NEW j \in Ids, NEW k \in Ids, B[j].inst = A1[k].inst, B[j].inst # 0
          PROVE  Paired(B[j], A1[k], k) /\ ConfirmAhead(B[j], A1[k], PB1)
      <3>1. CASE k = i
        <4>1. j = p.id
          BY <1>3, <1>7, <2>4, <3>1
        <4>2. c.type \in Est => p.t = "CONFIRM"
          BY <1>s DEF Est
        <4> QED BY <1>1, <1>7, <3>1, <4>1, <4>2 DEF Paired, ConfirmAhead, Est
      <3>2. CASE k # i
        <4>1. Paired(B[j], A[k], k) /\ ConfirmAhead(B[j], A[k], PB)
          BY <1>0, <1>3, <2>4, <3>2 DEF Half
        <4> QED BY <1>3, <3>2, <4>1 DEF ConfirmAhead
      <3> QED BY <3>1, <3>2
    <2>5. ASSUME NEW j \in Ids
          PROVE  HasPeer(B[j], A1) /\ WaitsForAnswer(B[j], PB1)
      <3>1. HasPeer(B[j], A) /\ WaitsForAnswer(B[j], PB)
        BY <1>0 DEF Half
      <3>2. B[j].type \in Est \cup {"connecting"} => B[j].remote_id \in Ids
        BY <1>0 DEF Table, LocalOK, Channel
      <3>3. HasPeer(B[j], A1)
        BY <1>3, <3>1, <3>2 DEF HasPeer
      <3> QED BY <1>s, <3>1, <3>3 DEF WaitsForAnswer
    <2> QED BY <2>1, <2>2, <2>3, <2>4, <2>5 DEF Half
  <1>10. Numbers(PB1, last)
    BY <1>0, <1>1, <1>2 DEF Numbers
  <1> QED BY <1>0, <1>2, <1>4, <1>5, <1>6, <1>7, <1>8, <1>9, <1>10 DEF Linked

\* The probe of client_alive_check on a channel that looks open.
LEMMA ProbeLinked ==
  ASSUME NEW A, NEW B, NEW PA, NEW PB, NEW last \in Nat, Linked(A, B, PA, PB, last),
         NEW i \in Ids, A[i].type \in {"larval", "open"},
         NEW p \in Msg, p.t = "KEEPALIVE", p.inst = A[i].inst
  PROVE  Linked(A, B, PA, PB \cup {p}, last)
  <1> DEFINE c == A[i]
             PB1 == PB \cup {p}
  <1>0. /\ Table(A, last) /\ Table(B, last) /\ Half(A, B, PA, PB) /\ Half(B, A, PB, PA)
        /\ Numbers(PA, last) /\ Numbers(PB, last)
    BY DEF Linked
  <1>2. c.inst # 0 /\ c.inst \in 1 .. last /\ \A k \in Ids : A[k].inst = c.inst => k = i
    BY <1>0 DEF Table, Channel
  <1>3. Numbers(PB1, last)
    BY <1>0, <1>2 DEF Numbers
  <1>4. Half(A, B, PA, PB1)
    <2>2. ASSUME NEW k \in Ids, NEW q \in PB1, A[k].inst = q.inst
          PROVE  Went(A[k], q)
      <3>1. CASE q = p
        <4>1. k = i
          BY <1>2, <2>2, <3>1
        <4> QED BY <3>1, <4>1 DEF Went
      <3>2. CASE q \in PB
        BY <1>0, <2>2, <3>2 DEF Half
      <3> QED BY <3>1, <3>2
    <2>3. ASSUME NEW q \in PA
          PROVE  Routed(A, B, PB1, q)
      <3>1. Routed(A, B, PB, q)
        BY <1>0 DEF Half
      <3> QED BY <3>1 DEF Routed, OpenOK
    <2> QED BY <1>0, <2>2, <2>3 DEF Half
  <1>5. Half(B, A, PB1, PA)
    <2>1. ASSUME NEW j \in Ids, NEW q \in PB1, B[j].inst = q.inst
          PROVE  Comes(B[j], q)
      <3>1. CASE q = p
        <4>1. Paired(B[j], c, i)
          BY <1>0, <1>2, <2>1, <3>1 DEF Half
        <4> QED BY <3>1, <4>1 DEF Paired, Comes, Real, Carrying
      <3>2. CASE q \in PB
        BY <1>0, <2>1, <3>2 DEF Half
      <3> QED BY <3>1, <3>2
    <2>3. ASSUME NEW q \in PB1
          PROVE  Routed(B, A, PA, q)
      <3>1. CASE q = p
        BY <3>1 DEF Routed, Real
      <3>2. CASE q \in PB
        BY <1>0, <3>2 DEF Half
      <3> QED BY <3>1, <3>2
    <2>4. ASSUME NEW j \in Ids, NEW k \in Ids, B[j].inst = A[k].inst, B[j].inst # 0
          PROVE  Paired(B[j], A[k], k) /\ ConfirmAhead(B[j], A[k], PB1)
      <3>1. Paired(B[j], A[k], k) /\ ConfirmAhead(B[j], A[k], PB)
        BY <1>0, <2>4 DEF Half
      <3> QED BY <3>1 DEF ConfirmAhead
    <2>5. ASSUME NEW j \in Ids
          PROVE  HasPeer(B[j], A) /\ WaitsForAnswer(B[j], PB1)
      <3>1. HasPeer(B[j], A) /\ WaitsForAnswer(B[j], PB)
        BY <1>0 DEF Half
      <3> QED BY <3>1 DEF WaitsForAnswer, Real
    <2> QED BY <1>0, <2>1, <2>3, <2>4, <2>5 DEF Half
  <1> QED BY <1>0, <1>3, <1>4, <1>5 DEF Linked

(* Queues.                                                                 *)

\* Packets are the elements of a queue.
LEMMA PacketsOf ==
  ASSUME NEW q \in Seq(Msg)
  PROVE  /\ Packets(q) \subseteq Msg
         /\ \A k \in 1 .. Len(q) : q[k] \in Packets(q)
         /\ \A m \in Packets(q) : \E k \in 1 .. Len(q) : q[k] = m
  BY DEF Packets

\* Sending one packet.
LEMMA PacketsAppend ==
  ASSUME NEW q \in Seq(Msg), NEW m \in Msg
  PROVE  Packets(Append(q, m)) = Packets(q) \cup {m}
  <1>1. /\ Len(Append(q, m)) = Len(q) + 1 /\ Append(q, m)[Len(q) + 1] = m
        /\ \A k \in 1 .. Len(q) : Append(q, m)[k] = q[k]
        /\ Len(q) \in Nat
    OBVIOUS
  <1>2. \A k \in 1 .. Len(q) + 1 : k \in 1 .. Len(q) \/ k = Len(q) + 1
    BY <1>1
  <1>3. \A k \in 1 .. Len(q) : k \in 1 .. Len(q) + 1
    BY <1>1
  <1>4. Len(q) + 1 \in 1 .. Len(q) + 1
    BY <1>1
  <1> QED BY <1>1, <1>2, <1>3, <1>4 DEF Packets

\* Sending several packets.
LEMMA PacketsConcat ==
  ASSUME NEW q \in Seq(Msg), NEW t \in Seq(Msg)
  PROVE  Packets(q \o t) = Packets(q) \cup Packets(t)
  <1> DEFINE s == q \o t
  <1>1. /\ Len(s) = Len(q) + Len(t) /\ Len(q) \in Nat /\ Len(t) \in Nat
        /\ \A k \in 1 .. Len(s) : s[k] = IF k <= Len(q) THEN q[k] ELSE t[k - Len(q)]
    OBVIOUS
  <1> HIDE DEF s
  <1>2. ASSUME NEW k \in 1 .. Len(s) PROVE s[k] \in Packets(q) \cup Packets(t)
    <2>1. CASE k <= Len(q)
      BY <1>1, <2>1 DEF Packets
    <2>2. CASE ~(k <= Len(q))
      <3>1. k - Len(q) \in 1 .. Len(t) /\ s[k] = t[k - Len(q)]
        BY <1>1, <2>2
      <3> QED BY <3>1 DEF Packets
    <2> QED BY <2>1, <2>2
  <1>3. ASSUME NEW k \in 1 .. Len(q) PROVE q[k] \in Packets(s)
    <2>1. k \in 1 .. Len(s) /\ s[k] = q[k]
      BY <1>1
    <2> QED BY <2>1 DEF Packets
  <1>4. ASSUME NEW k \in 1 .. Len(t) PROVE t[k] \in Packets(s)
    <2>1. k + Len(q) \in 1 .. Len(s) /\ s[k + Len(q)] = t[k]
      BY <1>1
    <2> QED BY <2>1 DEF Packets
  <1> QED BY <1>2, <1>3, <1>4 DEF Packets, s

\* Consuming the first packet of a queue.
LEMMA TailPopped ==
  ASSUME NEW q \in Seq(Msg), q # <<>>, Ordered(q)
  PROVE  /\ Popped(Packets(q), Packets(Tail(q)), Head(q))
         /\ Ordered(Tail(q)) /\ Tail(q) \in Seq(Msg) /\ Head(q) \in Msg
  <1> DEFINE t == Tail(q)
  <1>1. /\ Len(q) \in Nat /\ Len(q) > 0 /\ Len(t) = Len(q) - 1 /\ Head(q) = q[1]
        /\ \A k \in 1 .. Len(t) : t[k] = q[k + 1]
        /\ t \in Seq(Msg) /\ Head(q) \in Msg
    OBVIOUS
  <1> HIDE DEF t
  <1>2. \A k \in 1 .. Len(t) : k + 1 \in 1 .. Len(q) /\ 1 < k + 1
    BY <1>1
  <1>3. 1 \in 1 .. Len(q)
    BY <1>1
  <1>4. Head(q) \in Packets(q)
    BY <1>1, <1>3 DEF Packets
  <1>5. Packets(t) \subseteq Packets(q)
    BY <1>1, <1>2 DEF Packets
  <1>6. ASSUME NEW k \in 1 .. Len(q) PROVE q[k] \in Packets(t) \cup {Head(q)}
    <2>1. CASE k = 1
      BY <1>1, <2>1
    <2>2. CASE k # 1
      <3>1. k - 1 \in 1 .. Len(t) /\ t[k - 1] = q[k]
        BY <1>1, <2>2
      <3> QED BY <3>1 DEF Packets
    <2> QED BY <2>1, <2>2
  <1>7. Packets(q) \subseteq Packets(t) \cup {Head(q)}
    BY <1>6 DEF Packets
  <1>8. ASSUME NEW m \in Packets(t), m.inst = Head(q).inst
        PROVE  MayFollow(Head(q).t, m.t)
    <2>1. PICK k \in 1 .. Len(t) : t[k] = m
      BY DEF Packets
    <2> QED BY <1>1, <1>2, <1>3, <1>8, <2>1 DEF Ordered
  <1>9. ASSUME NEW k \in 1 .. Len(t), NEW l \in 1 .. Len(t), k < l, t[k].inst = t[l].inst
        PROVE  MayFollow(t[k].t, t[l].t)
    <2>1. k + 1 < l + 1
      BY <1>9
    <2> QED BY <1>1, <1>2, <1>9, <2>1 DEF Ordered
  <1> QED BY <1>1, <1>4, <1>5, <1>7, <1>8, <1>9 DEF Popped, Ordered, t

\* Two queues in order, joined.
LEMMA OrderedConcat ==
  ASSUME NEW q \in Seq(Msg), NEW t \in Seq(Msg), Ordered(q), Ordered(t),
         \A a \in Packets(q), b \in Packets(t) : a.inst = b.inst => MayFollow(a.t, b.t)
  PROVE  Ordered(q \o t)
  <1> DEFINE s == q \o t
  <1>1. /\ Len(s) = Len(q) + Len(t) /\ Len(q) \in Nat /\ Len(t) \in Nat
        /\ \A k \in 1 .. Len(s) : s[k] = IF k <= Len(q) THEN q[k] ELSE t[k - Len(q)]
    OBVIOUS
  <1> HIDE DEF s
  <1>2. ASSUME NEW k \in 1 .. Len(s), NEW l \in 1 .. Len(s), k < l, s[k].inst = s[l].inst
        PROVE  MayFollow(s[k].t, s[l].t)
    <2>1. CASE l <= Len(q)
      <3>1. k \in 1 .. Len(q) /\ l \in 1 .. Len(q) /\ s[k] = q[k] /\ s[l] = q[l]
        BY <1>1, <1>2, <2>1
      <3> QED BY <1>2, <3>1 DEF Ordered
    <2>2. CASE k <= Len(q) /\ ~(l <= Len(q))
      <3>1. /\ k \in 1 .. Len(q) /\ l - Len(q) \in 1 .. Len(t)
            /\ s[k] = q[k] /\ s[l] = t[l - Len(q)]
        BY <1>1, <1>2, <2>2
      <3>2. s[k] \in Packets(q) /\ s[l] \in Packets(t)
        BY <3>1 DEF Packets
      <3> QED BY <1>2, <3>2
    <2>3. CASE ~(k <= Len(q)) /\ ~(l <= Len(q))
      <3>1. /\ k - Len(q) \in 1 .. Len(t) /\ l - Len(q) \in 1 .. Len(t)
            /\ s[k] = t[k - Len(q)] /\ s[l] = t[l - Len(q)]
            /\ k - Len(q) < l - Len(q)
        BY <1>1, <1>2, <2>3
      <3> QED BY <1>2, <3>1 DEF Ordered
    <2> QED BY <1>1, <1>2, <2>1, <2>2, <2>3
  <1> QED BY <1>2 DEF Ordered, s

\* Packets that count in the accounts.
Counting == {"DATA", "EXTDATA", "ADJUST", "CONFIRM"}

\* The sums the accounts of channel n look at are the same in q and p.
SameSums(q, p, n) ==
  /\ DataIn(q, n) = DataIn(p, n)
  /\ CreditIn(q, n) = CreditIn(p, n)
  /\ PlainIn(q, n) = PlainIn(p, n)

\* Packets that carry nothing add nothing.
LEMMA InFlightNone ==
  ASSUME NEW s \in Seq(Msg), NEW n, NEW ts,
         \A k \in 1 .. Len(s) : Bytes(s[k], n, ts) = 0
  PROVE  InFlight(s, n, ts) = 0
  <1> DEFINE P(x) == (\A k \in 1 .. Len(x) : Bytes(x[k], n, ts) = 0) => InFlight(x, n, ts) = 0
             S == {l \in Nat : \A x \in Seq(Msg) : Len(x) = l => P(x)}
  <1>1. 0 \in S
    <2> SUFFICES ASSUME NEW x \in Seq(Msg), Len(x) = 0 PROVE P(x)
      OBVIOUS
    <2>1. x = <<>>
      OBVIOUS
    <2> QED BY <2>1, InFlightEmpty
  <1>2. ASSUME NEW l \in Nat, l \in S
        PROVE  l + 1 \in S
    <2> SUFFICES ASSUME NEW x \in Seq(Msg), Len(x) = l + 1,
                        \A k \in 1 .. Len(x) : Bytes(x[k], n, ts) = 0
                 PROVE  InFlight(x, n, ts) = 0
      OBVIOUS
    <2>1. PICK r \in Seq(Msg), m \in Msg : Len(r) = l /\ x = Append(r, m)
      BY SplitLast, ZenonT(60)
    <2>2. /\ x[l + 1] = m /\ \A k \in 1 .. Len(r) : x[k] = r[k]
      BY <2>1
    <2>3. l + 1 \in 1 .. Len(x) /\ \A k \in 1 .. Len(r) : k \in 1 .. Len(x)
      BY <2>1
    <2>4. Bytes(m, n, ts) = 0 /\ \A k \in 1 .. Len(r) : Bytes(r[k], n, ts) = 0
      BY <2>2, <2>3
    <2>5. P(r)
      BY <1>2, <2>1
    <2>6. InFlight(r, n, ts) = 0
      BY <2>4, <2>5
    <2>7. InFlight(x, n, ts) = InFlight(r, n, ts) + Bytes(m, n, ts)
      BY <2>1, InFlightAppend
    <2> QED BY <2>4, <2>6, <2>7
  <1>3. Nat \subseteq S
    <2> HIDE DEF S
    <2> QED BY <1>1, <1>2, Induct
  <1>4. Len(s) \in Nat
    OBVIOUS
  <1> QED BY <1>3, <1>4

\* No packet of the queue counts for channel n.
LEMMA SumsNone ==
  ASSUME NEW q \in Seq(Msg), NEW n,
         \A m \in Packets(q) : m.inst = n => m.t \notin Counting
  PROVE  /\ DataIn(q, n) = 0
         /\ CreditIn(q, n) = 0
         /\ PlainIn(q, n) = 0
  <1>1. \A k \in 1 .. Len(q) : q[k].inst = n => q[k].t \notin Counting
    BY DEF Packets
  <1>2. \A k \in 1 .. Len(q) : /\ Bytes(q[k], n, {"DATA", "EXTDATA"}) = 0
                               /\ Bytes(q[k], n, {"ADJUST", "CONFIRM"}) = 0
                               /\ Bytes(q[k], n, {"DATA"}) = 0
    BY <1>1 DEF Bytes, Counting
  <1> QED BY <1>2, InFlightNone DEF DataIn, CreditIn, PlainIn

\* Sending packets that do not count leaves the sums alone.
LEMMA ConcatSums ==
  ASSUME NEW q \in Seq(Msg), NEW t \in Seq(Msg), NEW n,
         \A m \in Packets(t) : m.inst = n => m.t \notin Counting
  PROVE  SameSums(q, q \o t, n)
  <1>1. /\ DataIn(t, n) = 0
        /\ CreditIn(t, n) = 0
        /\ PlainIn(t, n) = 0
    BY SumsNone
  <1>2. /\ DataIn(q, n) \in Nat
        /\ CreditIn(q, n) \in Nat
        /\ PlainIn(q, n) \in Nat
    BY InFlightNat DEF DataIn, CreditIn, PlainIn
  <1>3. DataIn(q \o t, n) = DataIn(q, n)
    BY <1>1, <1>2, InFlightConcat DEF DataIn, CreditIn, PlainIn
  <1>4. CreditIn(q \o t, n) = CreditIn(q, n)
    BY <1>1, <1>2, InFlightConcat DEF DataIn, CreditIn, PlainIn
  <1>5. PlainIn(q \o t, n) = PlainIn(q, n)
    BY <1>1, <1>2, InFlightConcat DEF DataIn, CreditIn, PlainIn
  <1> QED BY <1>3, <1>4, <1>5 DEF SameSums

\* Consuming a packet that does not count leaves the sums alone.
LEMMA TailSums ==
  ASSUME NEW q \in Seq(Msg), q # <<>>, NEW n,
         Head(q).inst = n => Head(q).t \notin Counting
  PROVE  SameSums(q, Tail(q), n)
  <1>1. Tail(q) \in Seq(Msg)
    OBVIOUS
  <1>2. /\ Bytes(Head(q), n, {"DATA", "EXTDATA"}) = 0
        /\ Bytes(Head(q), n, {"ADJUST", "CONFIRM"}) = 0
        /\ Bytes(Head(q), n, {"DATA"}) = 0
    BY DEF Bytes, Counting
  <1>3. /\ DataIn(Tail(q), n) \in Nat
        /\ CreditIn(Tail(q), n) \in Nat
        /\ PlainIn(Tail(q), n) \in Nat
    BY <1>1, InFlightNat DEF DataIn, CreditIn, PlainIn
  <1>4. DataIn(q, n) = DataIn(Tail(q), n)
    BY <1>2, <1>3, InFlightTail DEF DataIn, CreditIn, PlainIn
  <1>5. CreditIn(q, n) = CreditIn(Tail(q), n)
    BY <1>2, <1>3, InFlightTail DEF DataIn, CreditIn, PlainIn
  <1>6. PlainIn(q, n) = PlainIn(Tail(q), n)
    BY <1>2, <1>3, InFlightTail DEF DataIn, CreditIn, PlainIn
  <1> QED BY <1>4, <1>5, <1>6 DEF SameSums

\* The accounts only look at the sums.
LEMMA SameBoth ==
  ASSUME NEW c, NEW d, c.inst = d.inst, NEW qA, NEW qB, Both(c, d, qA, qB),
         NEW pA, NEW pB, SameSums(qA, pA, c.inst), SameSums(qB, pB, c.inst)
  PROVE  Both(c, d, pA, pB)
  <1>1. Total(c, qA, qB) = Total(c, pA, pB) /\ Total(d, qB, qA) = Total(d, pB, pA)
    BY DEF Total, SameSums
  <1>2. BytesOK(c, d, pB) /\ BytesOK(d, c, pA)
    BY DEF Both, BytesOK, SameSums
  <1>3. CreditOK(c, d, pA, pB) /\ CreditOK(d, c, pB, pA)
    BY <1>1 DEF Both, CreditOK
  <1> QED BY <1>2, <1>3 DEF Both

\* Only the accounts of the channel that changed have to be looked at.
LEMMA FlowStep ==
  ASSUME NEW A, NEW B, NEW qA, NEW qB, Flow(A, B, qA, qB), NEW i \in Ids,
         NEW A1, Moved(A, A1, i, A1[i]), NEW pA, NEW pB,
         \A k \in Ids : k # i /\ A[k].inst # 0 =>
           SameSums(qA, pA, A[k].inst) /\ SameSums(qB, pB, A[k].inst),
         \A j \in Ids : B[j].inst = A1[i].inst /\ A1[i].inst # 0 =>
           Both(A1[i], B[j], pA, pB)
  PROVE  Flow(A1, B, pA, pB)
  <1> SUFFICES ASSUME NEW k \in Ids, NEW j \in Ids, A1[k].inst = B[j].inst, A1[k].inst # 0
               PROVE  Both(A1[k], B[j], pA, pB)
    BY DEF Flow
  <1>1. CASE k = i
    BY <1>1
  <1>2. CASE k # i
    <2>1. A1[k] = A[k]
      BY <1>2 DEF Moved
    <2>2. Both(A[k], B[j], qA, qB)
      BY <2>1 DEF Flow
    <2> QED BY <1>2, <2>1, <2>2, SameBoth
  <1> QED BY <1>1, <1>2

\* The counters of a channel that the accounts look at.
Counts(c) ==
  /\ c.remote_window \in Nat /\ c.local_window \in Nat
  /\ c.taken \in Nat /\ c.input \in Nat /\ c.output \in Nat /\ c.got \in Nat

\* The counters of a channel are numbers.
LEMMA CountsOf ==
  ASSUME NEW c \in Channel
  PROVE  Counts(c)
  BY DEF Channel, Counts

\* A handler's own account carries over to the pair.
LEMMA UpdateBoth ==
  ASSUME NEW c0, NEW c, NEW d, Counts(c0), Counts(c), Counts(d), NEW j, NEW i,
         c0.inst = d.inst, NEW tx \in Seq(Msg),
         Kin(c0, c), Tally(c0, c, tx, FALSE), NEW qA \in Seq(Msg), NEW qB \in Seq(Msg),
         Both(c0, d, qA, qB),
         Paired(c0, d, j), Paired(d, c0, i), LocalOK(d), ShutFirst(d)
  PROVE  Both(c, d, qA, qB \o tx)
  <1> DEFINE n == c0.inst
             p == qB \o tx
  <1>1. /\ DataIn(p, n)
             = DataIn(qB, n) + DataIn(tx, n)
        /\ CreditIn(p, n)
             = CreditIn(qB, n) + CreditIn(tx, n)
        /\ PlainIn(p, n) = PlainIn(qB, n) + PlainIn(tx, n)
    BY InFlightConcat DEF DataIn, CreditIn, PlainIn
  <1>2. /\ DataIn(qB, n) \in Nat
        /\ DataIn(tx, n) \in Nat
        /\ CreditIn(qB, n) \in Nat
        /\ CreditIn(tx, n) \in Nat
        /\ PlainIn(qB, n) \in Nat /\ PlainIn(tx, n) \in Nat
        /\ DataIn(qA, n) \in Nat
        /\ CreditIn(qA, n) \in Nat
        /\ PlainIn(qA, n) \in Nat
    BY InFlightNat DEF DataIn, CreditIn, PlainIn
  <1>3. /\ c.remote_window \in Nat /\ c0.remote_window \in Nat /\ d.remote_window \in Nat
        /\ c.local_window \in Nat /\ c0.local_window \in Nat /\ d.local_window \in Nat
        /\ c.taken \in Nat /\ c0.taken \in Nat /\ d.taken \in Nat
        /\ c.input \in Nat /\ c0.input \in Nat /\ d.input \in Nat
        /\ c.output \in Nat /\ c0.output \in Nat /\ d.output \in Nat
        /\ c.got \in Nat /\ c0.got \in Nat /\ d.got \in Nat
    BY DEF Counts
  <1> HIDE DEF p
  <1>4. c.inst = n /\ d.inst = n /\ c0.inst = n
    BY DEF Kin
  <1>5. /\ c.remote_window + DataIn(tx, n) = c0.remote_window
        /\ c.local_window = c0.local_window + CreditIn(tx, n)
    BY DEF Tally, DataIn, CreditIn, PlainIn
  <1>5a. \/ c.type = "abandoned"
         \/ c.taken + c0.input = c0.taken + c.input + PlainIn(tx, n)
    BY DEF Tally, DataIn, CreditIn, PlainIn
  <1> HIDE DEF n
  <1>6. CreditOK(c, d, qA, p)
    <2>0. /\ Total(c, qA, p) = c.remote_window + DataIn(p, n) + CreditIn(qA, n)
          /\ Total(c0, qA, qB) = c0.remote_window + DataIn(qB, n) + CreditIn(qA, n)
      BY <1>4 DEF Total
    <2>1. Total(c, qA, p) = Total(c0, qA, qB)
      <3>1. /\ c.remote_window \in Nat /\ c0.remote_window \in Nat
            /\ DataIn(qB, n) \in Nat /\ DataIn(tx, n) \in Nat /\ CreditIn(qA, n) \in Nat
        BY <1>2, <1>3
      <3>2. /\ c.remote_window + DataIn(tx, n) = c0.remote_window
            /\ DataIn(p, n) = DataIn(qB, n) + DataIn(tx, n)
        BY <1>1, <1>5
      <3>3. c.remote_window + DataIn(p, n) + CreditIn(qA, n)
              = c0.remote_window + DataIn(qB, n) + CreditIn(qA, n)
        BY <3>1, <3>2
      <3> QED BY <2>0, <3>3
    <2> QED BY <2>1 DEF Both, CreditOK
  <1>7. CreditOK(d, c, p, qA)
    <2>0. /\ Total(d, p, qA) = d.remote_window + DataIn(qA, n) + CreditIn(p, n)
          /\ Total(d, qB, qA) = d.remote_window + DataIn(qA, n) + CreditIn(qB, n)
      BY <1>4 DEF Total
    <2>1. Total(d, p, qA) = Total(d, qB, qA) + CreditIn(tx, n)
      <3>1. /\ d.remote_window \in Nat /\ DataIn(qA, n) \in Nat
            /\ CreditIn(qB, n) \in Nat /\ CreditIn(tx, n) \in Nat
        BY <1>2, <1>3
      <3>2. CreditIn(p, n) = CreditIn(qB, n) + CreditIn(tx, n)
        BY <1>1
      <3> QED BY <2>0, <3>1, <3>2
    <2>2. Total(d, qB, qA) \in Nat
      <3>1. d.remote_window \in Nat /\ DataIn(qA, n) \in Nat /\ CreditIn(qB, n) \in Nat
        BY <1>2, <1>3
      <3>2. Total(d, qB, qA) = d.remote_window + DataIn(qA, n) + CreditIn(qB, n)
        BY <2>0
      <3> QED BY <3>1, <3>2
    <2>3. c.type \in Est \cup {"opening"} => c0.type \in Est \cup {"opening"}
      BY DEF Kin, Est
    <2>4. Accounted(c) => Accounted(c0)
      BY DEF Kin
    <2>5. CreditOK(d, c0, qB, qA)
      BY DEF Both
    <2>6. /\ c.local_window = c0.local_window + CreditIn(tx, n)
          /\ c0.local_window \in Nat /\ CreditIn(tx, n) \in Nat
      BY <1>2, <1>3, <1>5
    <2> QED BY <2>1, <2>2, <2>3, <2>4, <2>5, <2>6 DEF CreditOK
  <1>8. BytesOK(d, c, qA)
    <2>1. BytesOK(d, c0, qA)
      BY DEF Both
    <2>2. ASSUME ~c.wfail
          PROVE  ~c0.wfail /\ c.output + c.got = c0.output + c0.got
      BY <2>2 DEF Kin, Tally
    <2> SUFFICES ASSUME ~c.wfail, d.type # "abandoned"
                 PROVE  /\ d.taken = d.input + PlainIn(qA, d.inst) + c.output + c.got
                        /\ EofDrained(d)
      BY DEF BytesOK
    <2>3. d.taken = d.input + PlainIn(qA, n) + c0.output + c0.got /\ EofDrained(d)
      BY <1>4, <2>1, <2>2 DEF BytesOK
    <2>4. /\ d.input \in Nat /\ PlainIn(qA, n) \in Nat /\ c0.output \in Nat
          /\ c0.got \in Nat /\ c.output \in Nat /\ c.got \in Nat
      BY <1>2, <1>3
    <2>5. c.output + c.got = c0.output + c0.got
      BY <2>2
    <2>6. d.input + PlainIn(qA, n) + c0.output + c0.got
            = d.input + PlainIn(qA, n) + c.output + c.got
      <3> DEFINE a == d.input
                 b == PlainIn(qA, n)
                 x == c0.output
                 y == c0.got
                 u == c.output
                 v == c.got
      <3>1. /\ a \in Nat /\ b \in Nat /\ x \in Nat /\ y \in Nat /\ u \in Nat /\ v \in Nat
            /\ u + v = x + y
        BY <2>4, <2>5
      <3> HIDE DEF a, b, x, y, u, v
      <3>2. a + b + x + y = a + b + u + v
        BY <3>1
      <3> QED BY <3>2 DEF a, b, x, y, u, v
    <2> QED BY <1>4, <2>3, <2>6
  <1>9. BytesOK(c, d, p)
    <2> SUFFICES ASSUME ~d.wfail, c.type # "abandoned"
                 PROVE  /\ c.taken = c.input + PlainIn(p, n) + d.output + d.got
                        /\ EofDrained(c)
      BY <1>4 DEF BytesOK
    <2>1. c0.type # "abandoned"
      BY DEF Kin
    <2>2. /\ c0.taken = c0.input + PlainIn(qB, n) + d.output + d.got
          /\ EofDrained(c0)
      BY <1>4, <2>1 DEF Both, BytesOK
    <2>3. c.taken + c0.input = c0.taken + c.input + PlainIn(tx, n)
      BY <1>5a
    <2>4. EofDrained(c)
      <3>1. SUFFICES ASSUME "CLOSE_RCVD" \in c.flags,
                            c0.flags \cap {"EOF_SENT", "CLOSE_SENT"} = {}
                     PROVE  FALSE
        BY <2>2 DEF Tally
      <3>2. "CLOSE_RCVD" \in c0.flags
        BY <3>1 DEF Kin
      <3>3. "CLOSE_SENT" \in d.flags
        BY <3>2 DEF Paired
      <3>4. d.ostate = "closed"
        BY <3>3 DEF ShutFirst
      <3>5. d.flags \cap {"EOF_RCVD", "CLOSE_RCVD"} # {}
        BY <3>4 DEF LocalOK
      <3> QED BY <3>1, <3>5 DEF Paired
    <2>5. /\ c.taken \in Nat /\ c0.taken \in Nat /\ c.input \in Nat /\ c0.input \in Nat
          /\ d.output \in Nat /\ d.got \in Nat /\ PlainIn(qB, n) \in Nat
          /\ PlainIn(tx, n) \in Nat
      BY <1>2, <1>3
    <2>6. PlainIn(p, n) = PlainIn(qB, n) + PlainIn(tx, n)
      BY <1>1
    <2>7. c0.taken = c0.input + PlainIn(qB, n) + d.output + d.got
      BY <2>2
    <2>8. c.taken = c.input + (PlainIn(qB, n) + PlainIn(tx, n)) + d.output + d.got
      <3> DEFINE t == c.taken
                 t0 == c0.taken
                 b == c.input
                 b0 == c0.input
                 f == PlainIn(qB, n)
                 k == PlainIn(tx, n)
                 x == d.output
                 y == d.got
      <3>1. /\ t \in Nat /\ t0 \in Nat /\ b \in Nat /\ b0 \in Nat /\ f \in Nat /\ k \in Nat
            /\ x \in Nat /\ y \in Nat
            /\ t + b0 = t0 + b + k /\ t0 = b0 + f + x + y
        BY <2>3, <2>5, <2>7
      <3> HIDE DEF t, t0, b, b0, f, k, x, y
      <3>2. t = b + (f + k) + x + y
        BY <3>1
      <3> QED BY <3>2 DEF t, t0, b, b0, f, k, x, y
    <2> QED BY <2>4, <2>6, <2>8
  <1> QED BY <1>6, <1>7, <1>8, <1>9 DEF Both, p

\* What World says, part by part.
LEMMA WorldParts ==
  ASSUME NEW A, NEW B, NEW qA, NEW qB, NEW last, NEW e, NEW alive,
         World(A, B, qA, qB, last, e, alive)
  PROVE  /\ last \in Nat /\ qA \in Seq(Msg) /\ qB \in Seq(Msg)
         /\ Linked(A, B, Packets(qA), Packets(qB), last)
         /\ Ordered(qA) /\ Ordered(qB) /\ Flow(A, B, qA, qB)
         /\ SideOK(A, Packets(qA), e, alive) /\ SideOK(B, Packets(qB), Peer(e), alive)
         /\ Table(A, last) /\ Table(B, last)
         /\ Half(A, B, Packets(qA), Packets(qB)) /\ Half(B, A, Packets(qB), Packets(qA))
  BY DEF World, Linked

\* World seen from the other end.
LEMMA WorldSwap ==
  ASSUME NEW A, NEW B, NEW qA, NEW qB, NEW last, NEW e \in Endpoint, NEW alive,
         World(A, B, qA, qB, last, e, alive)
  PROVE  World(B, A, qB, qA, last, Peer(e), alive)
  <1>1. Peer(Peer(e)) = e
    BY DEF Peer, Endpoint
  <1>2. Linked(B, A, Packets(qB), Packets(qA), last)
    BY WorldParts DEF Linked
  <1>3. Flow(B, A, qB, qA)
    BY WorldParts DEF Flow, Both
  <1> QED BY <1>1, <1>2, <1>3, WorldParts DEF World

\* What a table says of one slot.
LEMMA TableAt ==
  ASSUME NEW A, NEW last \in Nat, Table(A, last), NEW i \in Ids
  PROVE  /\ A[i] \in Channel /\ LocalOK(A[i]) /\ ShutFirst(A[i])
         /\ A[i].type = "free" <=> A[i].inst = 0
         /\ \A k \in Ids : A[k].inst = A[i].inst /\ A[i].inst # 0 => k = i
  BY DEF Table

\* A handler, as the tables and the queues see it.
LEMMA TellsTurn ==
  ASSUME NEW c0, NEW w \in Tells(c0, FALSE)
  PROVE  /\ Turn(c0, w.c, Packets(w.tx)) /\ w.tx \in Seq(Msg) /\ w.c \in Channel
         /\ Ordered(w.tx) /\ Kin(c0, w.c) /\ Tally(c0, w.c, w.tx, FALSE)
         /\ \A m \in Packets(w.tx) : Speaks(c0, w.c, m)
  <1>1. /\ w \in Work /\ w.err = "none" /\ ShutFirst(w.c) /\ LocalOK(w.c) /\ Kin(c0, w.c)
        /\ Told(c0, w.c, w.tx) /\ Tally(c0, w.c, w.tx, FALSE)
        /\ w.tx \in Seq(Msg) /\ w.c \in Channel
    BY DEF Tells, Work
  <1>2. Packets(w.tx) \subseteq Msg
    BY <1>1, PacketsOf
  <1>3. \A m \in Packets(w.tx) : Speaks(c0, w.c, m)
    BY <1>1 DEF Told, Packets
  <1>4. Ordered(w.tx)
    BY <1>1 DEF Told
  <1>5. Turn(c0, w.c, Packets(w.tx))
    BY <1>1, <1>2, <1>3 DEF Turn
  <1> QED BY <1>1, <1>3, <1>4, <1>5

\* The step of a handler.
LEMMA UpdateWorld ==
  ASSUME NEW A, NEW B, NEW qA, NEW qB, NEW last, NEW e \in Endpoint, NEW alive,
         World(A, B, qA, qB, last, e, alive), NEW i \in Ids,
         NEW w \in Tells(A[i], FALSE), NEW A1, Moved(A, A1, i, w.c)
  PROVE  World(A1, B, qA, qB \o w.tx, last, e, alive)
  <1> DEFINE c0 == A[i]
             c == w.c
             tx == w.tx
             p == qB \o tx
  <1>0. /\ last \in Nat /\ qA \in Seq(Msg) /\ qB \in Seq(Msg)
        /\ Linked(A, B, Packets(qA), Packets(qB), last)
        /\ Ordered(qA) /\ Ordered(qB) /\ Flow(A, B, qA, qB)
        /\ SideOK(A, Packets(qA), e, alive) /\ SideOK(B, Packets(qB), Peer(e), alive)
        /\ Table(A, last) /\ Table(B, last)
        /\ Half(A, B, Packets(qA), Packets(qB)) /\ Half(B, A, Packets(qB), Packets(qA))
    BY WorldParts
  <1>1. /\ Turn(c0, c, Packets(tx)) /\ tx \in Seq(Msg) /\ c \in Channel
        /\ Ordered(tx) /\ Kin(c0, c) /\ Tally(c0, c, tx, FALSE)
        /\ \A m \in Packets(tx) : Speaks(c0, c, m)
    BY TellsTurn
  <1>2. A1[i] = c /\ Moved(A, A1, i, A1[i]) /\ \A k \in Ids : k # i => A1[k] = A[k]
    BY DEF Moved
  <1>3. /\ c0 \in Channel /\ LocalOK(c0) /\ ShutFirst(c0)
        /\ \A k \in Ids : A[k].inst = c0.inst /\ c0.inst # 0 => k = i
    BY <1>0, TableAt
  <1>4. Packets(p) = Packets(qB) \cup Packets(tx) /\ p \in Seq(Msg)
    BY <1>0, <1>1, PacketsConcat
  <1>5. Linked(A1, B, Packets(qA), Packets(p), last)
    <2>1. Turn(A[i], A1[i], Packets(tx))
      BY <1>1, <1>2
    <2>2. Linked(A1, B, Packets(qA), Packets(qB) \cup Packets(tx), last)
      BY <1>0, <1>2, <2>1, UpdateLinked
    <2> QED BY <1>4, <2>2
  <1>6. ASSUME NEW m \in Packets(tx)
        PROVE  m.inst = c0.inst /\ c0.inst # 0 /\ c0.type \notin {"free", "opening"}
    BY <1>0, <1>1, TurnInst
  <1>7. Ordered(p)
    <2>1. ASSUME NEW a \in Packets(qB), NEW b \in Packets(tx), a.inst = b.inst
          PROVE  MayFollow(a.t, b.t)
      <3>1. Speaks(c0, c, b) /\ a.inst = c0.inst
        BY <1>1, <1>6, <2>1
      <3>2. Went(c0, a)
        BY <1>0, <3>1 DEF Half
      <3> QED BY <3>1, <3>2 DEF Speaks, Went, MayFollow, Est, Real
    <2> QED BY <1>0, <1>1, <2>1, OrderedConcat
  <1>8. Flow(A1, B, qA, p)
    <2>1. ASSUME NEW k \in Ids, k # i, A[k].inst # 0
          PROVE  SameSums(qA, qA, A[k].inst) /\ SameSums(qB, p, A[k].inst)
      <3>1. \A m \in Packets(tx) : m.inst # A[k].inst
        BY <1>3, <1>6, <2>1
      <3>2. SameSums(qB, p, A[k].inst)
        BY <1>0, <1>1, <3>1, ConcatSums
      <3> QED BY <3>2 DEF SameSums
    <2>2. ASSUME NEW j \in Ids, B[j].inst = A1[i].inst, A1[i].inst # 0
          PROVE  Both(A1[i], B[j], qA, p)
      <3>1. c0.inst = B[j].inst /\ c0.inst # 0
        BY <1>1, <1>2, <2>2 DEF Kin
      <3>2. Both(c0, B[j], qA, qB)
        BY <1>0, <3>1 DEF Flow
      <3>3. Paired(c0, B[j], j) /\ Paired(B[j], c0, i)
        BY <1>0, <3>1 DEF Half
      <3>4. B[j] \in Channel /\ LocalOK(B[j]) /\ ShutFirst(B[j])
        BY <1>0, TableAt
      <3>5. Counts(c0) /\ Counts(c) /\ Counts(B[j])
        BY <1>1, <1>3, <3>4, CountsOf
      <3>6. Both(c, B[j], qA, p)
        BY <1>0, <1>1, <3>1, <3>2, <3>3, <3>4, <3>5, UpdateBoth
      <3> QED BY <1>2, <3>6
    <2> HIDE DEF p
    <2> QED BY <1>0, <1>2, <2>1, <2>2, FlowStep
  <1>9. SideOK(A1, Packets(qA), e, alive)
    <2>1. ASSUME NEW k \in Ids, A1[k].ctype = "session"
          PROVE  A1[k].extended_usage = "write" <=> e = "client"
      <3>1. CASE k = i
        BY <1>0, <1>1, <1>2, <2>1, <3>1 DEF SideOK, Kin
      <3>2. CASE k # i
        BY <1>0, <1>2, <2>1, <3>2 DEF SideOK
      <3> QED BY <3>1, <3>2
    <2> QED BY <1>0, <2>1 DEF SideOK
  <1>10. SideOK(B, Packets(p), Peer(e), alive)
    <2>1. ASSUME NEW m \in Packets(tx)
          PROVE  /\ m.t \in {"DATA", "EXTDATA"} => m.n <= MaxPacket
                 /\ m.t = "EXTDATA" => Peer(e) = "client" /\ m.ctype = "session"
                 /\ m.t # "OPEN" /\ m.t # "KEEPALIVE"
      <3>1. Speaks(c0, c, m)
        BY <1>1
      <3>2. m.t = "EXTDATA" => e # "client"
        BY <1>0, <3>1 DEF SideOK, Speaks
      <3> QED BY <3>1, <3>2 DEF Speaks, Peer, Endpoint
    <2> QED BY <1>0, <1>4, <2>1 DEF SideOK
  <1> QED BY <1>0, <1>4, <1>5, <1>7, <1>8, <1>9, <1>10 DEF World

\* channel_free on a channel that is over.
LEMMA FreeWorld ==
  ASSUME NEW A, NEW B, NEW qA, NEW qB, NEW last, NEW e \in Endpoint, NEW alive,
         World(A, B, qA, qB, last, e, alive), NEW i \in Ids,
         Over(A[i]), NEW A1, Moved(A, A1, i, FreeChan)
  PROVE  World(A1, B, qA, qB, last, e, alive)
  <1>0. /\ last \in Nat /\ qA \in Seq(Msg) /\ qB \in Seq(Msg)
        /\ Linked(A, B, Packets(qA), Packets(qB), last)
        /\ Ordered(qA) /\ Ordered(qB) /\ Flow(A, B, qA, qB)
        /\ SideOK(A, Packets(qA), e, alive) /\ SideOK(B, Packets(qB), Peer(e), alive)
    BY WorldParts
  <1>1. Linked(A1, B, Packets(qA), Packets(qB), last)
    BY <1>0, FreeLinked
  <1>2. A1[i].inst = 0 /\ A1[i].ctype = "tcp" /\ \A k \in Ids : k # i => A1[k] = A[k]
    BY DEF Moved, FreeChan
  <1>3. Flow(A1, B, qA, qB)
    BY <1>0, <1>2 DEF Flow
  <1>4. SideOK(A1, Packets(qA), e, alive)
    BY <1>0, <1>2 DEF SideOK
  <1> QED BY <1>0, <1>1, <1>3, <1>4 DEF World

\* A handler that ends with the collector.
LEMMA EndedWorld ==
  ASSUME NEW A, NEW B, NEW qA, NEW qB, NEW last, NEW e \in Endpoint, NEW alive,
         World(A, B, qA, qB, last, e, alive), NEW i \in Ids,
         NEW g, Ended(A[i], g), NEW A1, Moved(A, A1, i, g.c)
  PROVE  World(A1, B, qA, qB \o g.tx, last, e, alive) /\ g.err = "none"
  <1>1. PICK v \in Tells(A[i], FALSE) :
           /\ g.tx = v.tx /\ g.err = "none"
           /\ g.c = v.c \/ (g.c = FreeChan /\ Over(v.c))
    BY DEF Ended
  <1>2. CASE g.c = v.c
    BY <1>1, <1>2, UpdateWorld
  <1>3. CASE g.c = FreeChan /\ Over(v.c)
    <2> DEFINE A2 == [A EXCEPT ![i] = v.c]
    <2>1. v.c \in Channel /\ A \in [Ids -> Channel]
      BY TellsTurn, WorldParts DEF Table
    <2>2. Moved(A, A2, i, v.c)
      BY <2>1 DEF Moved
    <2>3. A2[i] = v.c /\ Moved(A2, A1, i, FreeChan)
      BY <1>3, <2>1 DEF Moved
    <2> HIDE DEF A2
    <2>4. World(A2, B, qA, qB \o v.tx, last, e, alive)
      BY <2>2, UpdateWorld
    <2>5. World(A1, B, qA, qB \o v.tx, last, e, alive)
      <3> DEFINE p == qB \o v.tx
      <3>1. World(A2, B, qA, p, last, e, alive)
        BY <2>4
      <3> HIDE DEF p
      <3>2. World(A1, B, qA, p, last, e, alive)
        BY <1>3, <2>3, <3>1, FreeWorld
      <3> QED BY <3>2 DEF p
    <2> QED BY <1>1, <2>5
  <1> QED BY <1>1, <1>2, <1>3

\* What the first packet takes out of the sums when it is consumed.
LEMMA HeadSums ==
  ASSUME NEW q \in Seq(Msg), q # <<>>, NEW n, Head(q).inst = n
  PROVE  /\ Head(q).n \in Nat
         /\ DataIn(Tail(q), n) \in Nat /\ PlainIn(Tail(q), n) \in Nat
         /\ CreditIn(Tail(q), n) \in Nat
         /\ Head(q).t \in {"DATA", "EXTDATA"} => DataIn(q, n) = Head(q).n + DataIn(Tail(q), n)
         /\ Head(q).t \notin {"DATA", "EXTDATA"} => DataIn(q, n) = DataIn(Tail(q), n)
         /\ Head(q).t = "DATA" => PlainIn(q, n) = Head(q).n + PlainIn(Tail(q), n)
         /\ Head(q).t # "DATA" => PlainIn(q, n) = PlainIn(Tail(q), n)
         /\ Head(q).t \in {"ADJUST", "CONFIRM"} =>
              CreditIn(q, n) = Head(q).n + CreditIn(Tail(q), n)
         /\ Head(q).t \notin {"ADJUST", "CONFIRM"} => CreditIn(q, n) = CreditIn(Tail(q), n)
  <1> DEFINE h == Head(q)
             t == Tail(q)
  <1>1. h \in Msg /\ t \in Seq(Msg)
    OBVIOUS
  <1>2. h.n \in Nat
    BY <1>1 DEF Msg
  <1>3. DataIn(t, n) \in Nat /\ PlainIn(t, n) \in Nat /\ CreditIn(t, n) \in Nat
    BY <1>1, InFlightNat DEF DataIn, CreditIn, PlainIn
  <1>4. /\ DataIn(q, n) = Bytes(h, n, {"DATA", "EXTDATA"}) + DataIn(t, n)
        /\ PlainIn(q, n) = Bytes(h, n, {"DATA"}) + PlainIn(t, n)
        /\ CreditIn(q, n) = Bytes(h, n, {"ADJUST", "CONFIRM"}) + CreditIn(t, n)
    BY InFlightTail DEF DataIn, CreditIn, PlainIn
  <1>5. /\ Bytes(h, n, {"DATA", "EXTDATA"}) = IF h.t \in {"DATA", "EXTDATA"} THEN h.n ELSE 0
        /\ Bytes(h, n, {"DATA"}) = IF h.t = "DATA" THEN h.n ELSE 0
        /\ Bytes(h, n, {"ADJUST", "CONFIRM"}) = IF h.t \in {"ADJUST", "CONFIRM"} THEN h.n ELSE 0
    BY DEF Bytes
  <1> HIDE DEF h, t
  <1>6. /\ h.t \in {"DATA", "EXTDATA"} => DataIn(q, n) = h.n + DataIn(t, n)
        /\ h.t \notin {"DATA", "EXTDATA"} => DataIn(q, n) = DataIn(t, n)
    BY <1>3, <1>4, <1>5
  <1>7. /\ h.t = "DATA" => PlainIn(q, n) = h.n + PlainIn(t, n)
        /\ h.t # "DATA" => PlainIn(q, n) = PlainIn(t, n)
    BY <1>3, <1>4, <1>5
  <1>8. /\ h.t \in {"ADJUST", "CONFIRM"} => CreditIn(q, n) = h.n + CreditIn(t, n)
        /\ h.t \notin {"ADJUST", "CONFIRM"} => CreditIn(q, n) = CreditIn(t, n)
    BY <1>3, <1>4, <1>5
  <1> QED BY <1>2, <1>3, <1>6, <1>7, <1>8 DEF h, t

\* What stays the same when a packet of the peer is taken in.
Keeps(c0, c) ==
  /\ c.inst = c0.inst /\ c.taken = c0.taken /\ c.input = c0.input /\ c.got = c0.got
  /\ c.wfail = c0.wfail /\ (c.type = "abandoned" <=> c0.type = "abandoned")
  /\ (c.type \in Est \cup {"opening"} => c0.type \in Est \cup {"opening"})
  /\ (EofDrained(c0) => EofDrained(c))

\* channel_input_data and channel_input_extended_data: n bytes off the window
\* and k into the output buffer.
Gets(c0, c, n, k) ==
  /\ Keeps(c0, c) /\ c.remote_window = c0.remote_window
  /\ c.local_window + n >= c0.local_window
  /\ Accounted(c) => Accounted(c0) /\ c.local_window + n = c0.local_window
  /\ ~c0.wfail => c.output = c0.output + k

\* Bytes move from the queue to the receiver.
LEMMA GetsBoth ==
  ASSUME NEW c0, NEW c, NEW d, Counts(c0), Counts(c), Counts(d), c0.inst = d.inst,
         NEW qA \in Seq(Msg), qA # <<>>, NEW qB \in Seq(Msg), Both(c0, d, qA, qB),
         Head(qA).inst = c0.inst, Head(qA).t \in {"DATA", "EXTDATA"},
         Gets(c0, c, Head(qA).n, IF Head(qA).t = "DATA" THEN Head(qA).n ELSE 0)
  PROVE  Both(c, d, Tail(qA), qB)
  <1> DEFINE n == c0.inst
             m == Head(qA)
             q == Tail(qA)
             k == IF m.t = "DATA" THEN m.n ELSE 0
  <1>1. /\ m.n \in Nat /\ DataIn(q, n) \in Nat /\ PlainIn(q, n) \in Nat
        /\ DataIn(qA, n) = m.n + DataIn(q, n)
        /\ CreditIn(qA, n) = CreditIn(q, n)
    BY HeadSums
  <1>2. k \in Nat /\ PlainIn(qA, n) = k + PlainIn(q, n)
    BY HeadSums
  <1>3. c.inst = n /\ d.inst = n /\ c0.inst = n /\ Gets(c0, c, m.n, k)
    BY DEF Gets, Keeps
  <1>4. CreditIn(qB, n) \in Nat
    BY InFlightNat DEF CreditIn
  <1> HIDE DEF n, m, q, k
  <1>5. CreditOK(c, d, q, qB)
    <2>1. Total(c, q, qB) = Total(c0, qA, qB)
      BY <1>1, <1>3 DEF Total, Gets
    <2> QED BY <2>1 DEF Both, CreditOK
  <1>6. BytesOK(c, d, qB)
    BY <1>3 DEF Both, BytesOK, Gets, Keeps
  <1>7. CreditOK(d, c, qB, q)
    <2> DEFINE T0 == Total(d, qB, qA)
               T == Total(d, qB, q)
               x == d.remote_window
               y == DataIn(q, n)
               z == CreditIn(qB, n)
               b == m.n
               l == c.local_window
               l0 == c0.local_window
    <2>1. T0 = x + DataIn(qA, n) + z /\ T = x + y + z
      BY <1>3 DEF Total
    <2>2. x \in Nat /\ y \in Nat /\ z \in Nat /\ b \in Nat /\ l \in Nat /\ l0 \in Nat
      BY <1>1, <1>4 DEF Counts
    <2>3. DataIn(qA, n) = b + y
      BY <1>1
    <2>4. /\ l + b >= l0 /\ (Accounted(c) => Accounted(c0) /\ l + b = l0)
          /\ (c.type \in Est \cup {"opening"} => c0.type \in Est \cup {"opening"})
      BY <1>3 DEF Gets, Keeps
    <2>5. c0.type \in Est \cup {"opening"} => T0 <= l0 /\ (Accounted(c0) => T0 = l0)
      BY DEF Both, CreditOK
    <2>6. SUFFICES c.type \in Est \cup {"opening"} => T <= l /\ (Accounted(c) => T = l)
      BY DEF CreditOK
    <2> HIDE DEF T0, T, x, y, z, b, l, l0
    <2>7. T0 = x + (b + y) + z /\ T = x + y + z
      BY <2>1, <2>3
    <2>8. T0 = T + b /\ T \in Nat /\ T0 \in Nat
      BY <2>2, <2>7
    <2> QED BY <2>2, <2>4, <2>5, <2>8
  <1>8. BytesOK(d, c, q)
    <2> DEFINE t == d.taken
               x == d.input
               y == PlainIn(q, n)
               o == c.output
               o0 == c0.output
               g == c.got
    <2> SUFFICES ASSUME ~c.wfail, d.type # "abandoned"
                 PROVE  t = x + y + o + g /\ EofDrained(d)
      BY <1>3 DEF BytesOK
    <2>1. ~c0.wfail /\ c0.got = g /\ o = o0 + k
      BY <1>3 DEF Gets, Keeps
    <2>2. t = x + PlainIn(qA, n) + o0 + g /\ EofDrained(d)
      BY <1>3, <2>1 DEF Both, BytesOK
    <2>3. x \in Nat /\ y \in Nat /\ o0 \in Nat /\ g \in Nat
      BY <1>1 DEF Counts
    <2>4. k \in Nat /\ PlainIn(qA, n) = k + y
      BY <1>2
    <2>5. t = x + (k + y) + o0 + g
      BY <2>2, <2>4
    <2> HIDE DEF t, x, y, o, o0, g
    <2> QED BY <2>1, <2>2, <2>3, <2>4, <2>5
  <1> QED BY <1>5, <1>6, <1>7, <1>8 DEF Both, q

\* channel_input_window_adjust and channel_input_open_confirmation: n bytes
\* of credit.
Credited(c0, c, n) ==
  /\ Keeps(c0, c) /\ c.output = c0.output /\ c.local_window = c0.local_window
  /\ Accounted(c) => Accounted(c0)
  /\ c.remote_window = c0.remote_window + n

\* Credit moves from the queue to the sender.
LEMMA CreditedBoth ==
  ASSUME NEW c0, NEW c, NEW d, Counts(c0), Counts(c), Counts(d), c0.inst = d.inst,
         NEW qA \in Seq(Msg), qA # <<>>, NEW qB \in Seq(Msg), Both(c0, d, qA, qB),
         Head(qA).inst = c0.inst, Head(qA).t \in {"ADJUST", "CONFIRM"},
         Credited(c0, c, Head(qA).n)
  PROVE  Both(c, d, Tail(qA), qB)
  <1> DEFINE n == c0.inst
             m == Head(qA)
             q == Tail(qA)
  <1>1. /\ m.n \in Nat /\ CreditIn(q, n) \in Nat
        /\ CreditIn(qA, n) = m.n + CreditIn(q, n)
        /\ DataIn(qA, n) = DataIn(q, n) /\ PlainIn(qA, n) = PlainIn(q, n)
    BY HeadSums
  <1>3. c.inst = n /\ d.inst = n /\ c0.inst = n /\ Credited(c0, c, m.n)
    BY DEF Credited, Keeps
  <1>4. DataIn(qB, n) \in Nat
    BY InFlightNat DEF DataIn
  <1> HIDE DEF n, m, q
  <1>5. CreditOK(c, d, q, qB)
    <2> DEFINE x == c.remote_window
               x0 == c0.remote_window
               y == DataIn(qB, n)
               z == CreditIn(q, n)
               b == m.n
    <2>1. Total(c, q, qB) = x + y + z /\ Total(c0, qA, qB) = x0 + y + (b + z)
      BY <1>1, <1>3 DEF Total
    <2>2. x = x0 + b /\ x0 \in Nat /\ y \in Nat /\ z \in Nat /\ b \in Nat
      BY <1>1, <1>3, <1>4 DEF Credited, Counts
    <2> HIDE DEF x, x0, y, z, b
    <2>3. x + y + z = x0 + y + (b + z)
      BY <2>2
    <2>4. Total(c, q, qB) = Total(c0, qA, qB)
      BY <2>1, <2>3
    <2> QED BY <2>4 DEF Both, CreditOK
  <1>6. BytesOK(c, d, qB)
    BY <1>3 DEF Both, BytesOK, Credited, Keeps
  <1>7. CreditOK(d, c, qB, q)
    <2>1. Total(d, qB, q) = Total(d, qB, qA)
      BY <1>1, <1>3 DEF Total
    <2> QED BY <1>3, <2>1 DEF Both, CreditOK, Credited, Keeps
  <1>8. BytesOK(d, c, q)
    BY <1>1, <1>3 DEF Both, BytesOK, Credited, Keeps
  <1> QED BY <1>5, <1>6, <1>7, <1>8 DEF Both, q

\* A packet that carries nothing, or none at all: the pair keeps its accounts.
LEMMA StillBoth ==
  ASSUME NEW c0, NEW c, NEW d, c0.inst = d.inst,
         NEW qA, NEW qB, Both(c0, d, qA, qB), NEW pA, NEW pB,
         SameSums(qA, pA, c0.inst), SameSums(qB, pB, c0.inst),
         Keeps(c0, c), c.output = c0.output, c.local_window = c0.local_window,
         Accounted(c) => Accounted(c0), c.remote_window = c0.remote_window
  PROVE  Both(c, d, pA, pB)
  <1>1. Both(c0, d, pA, pB) /\ c.inst = c0.inst
    BY SameBoth DEF Keeps
  <1>2. Total(c, pA, pB) = Total(c0, pA, pB)
    BY <1>1 DEF Total
  <1>3. CreditOK(c, d, pA, pB)
    BY <1>1, <1>2 DEF Both, CreditOK
  <1>4. CreditOK(d, c, pB, pA)
    BY <1>1 DEF Both, CreditOK, Keeps
  <1>5. BytesOK(c, d, pB) /\ BytesOK(d, c, pA)
    BY <1>1 DEF Both, BytesOK, Keeps
  <1> QED BY <1>3, <1>4, <1>5 DEF Both

\* The handler w took its packet in silence.
Silent(c0, w) == w.err = "none" /\ w.tx = <<>> /\ Turn(c0, w.c, {})

\* The packet m carries nothing that the channel c0 could not take.
Fits(c0, n) ==
  /\ c0 \in Channel /\ LocalOK(c0) /\ ShutFirst(c0) /\ c0.type \in Est
  /\ c0.flags \cap {"EOF_RCVD", "CLOSE_RCVD"} = {}
  /\ n \in Nat /\ n <= MaxPacket
  /\ n <= c0.local_window \/ c0.ostate = "closed"

\* A channel that is left as it is.
LEMMA SameTurn ==
  ASSUME NEW c \in Channel, LocalOK(c), ShutFirst(c)
  PROVE  Turn(c, c, {})
  BY DEF Turn, Kin, Est

\* channel_input_data of a packet that fits: buffered while the half is open,
\* counted as consumed when it is not.
LEMMA InputDataGets ==
  ASSUME NEW c, NEW n, Fits(c, n)
  PROVE  LET w == channel_input_data(Begin(c), n)
         IN  Silent(c, w) /\ Gets(c, w.c, n, n)
  <1> DEFINE w == channel_input_data(Begin(c), n)
  <1>0. /\ c \in Channel /\ LocalOK(c) /\ ShutFirst(c) /\ c.type \in Est /\ n \in Nat
        /\ Begin(c).c = c /\ Begin(c).tx = <<>> /\ Begin(c).err = "none"
    BY DEF Fits, Begin
  <1>1. c.ostate # "open" => c.wfail
    BY DEF Fits, LocalOK
  <1>2. CASE c.type # "open"
    <2>1. w = Begin(c)
      BY <1>2 DEF channel_input_data, Begin
    <2>2. c.type \in {"larval", "abandoned"}
      BY <1>0, <1>2 DEF Est
    <2>3. c.ostate = "open" => n = 0
      <3> SUFFICES ASSUME c.ostate = "open" PROVE n = 0
        OBVIOUS
      <3>1. c.type = "larval"
        BY <2>2 DEF Fits, LocalOK
      <3>2. c.local_window = 0
        BY <3>1 DEF Fits, LocalOK
      <3> QED BY <3>2 DEF Fits
    <2>4. c.local_window \in Nat /\ c.output \in Nat
      BY <1>0 DEF Channel
    <2>5. Keeps(c, c)
      BY DEF Keeps
    <2>6. Gets(c, c, n, n)
      BY <1>0, <1>1, <2>3, <2>4, <2>5 DEF Gets, Accounted
    <2> QED BY <1>0, <2>1, <2>6, SameTurn DEF Silent
  <1>3. CASE c.type = "open" /\ c.ostate # "open"
    <2> DEFINE l == IF n > c.local_window THEN 0 ELSE c.local_window - n
               v == [c EXCEPT !.local_window = l, !.local_consumed = c.local_consumed + n]
    <2>1. w.c = v /\ w.tx = <<>> /\ w.err = "none"
      BY <1>3 DEF channel_input_data, Begin
    <2>2. c.local_window \in Nat /\ c.local_consumed \in Nat
      BY <1>0 DEF Channel
    <2>3. l \in Nat /\ c.local_consumed + n \in Nat /\ l + n >= c.local_window
      BY <1>0, <2>2
    <2> HIDE DEF l
    <2>4. /\ v \in Channel
          /\ v.type = c.type /\ v.ostate = c.ostate /\ v.istate = c.istate /\ v.flags = c.flags
          /\ v.wfail = c.wfail /\ v.extended_usage = c.extended_usage /\ v.efd = c.efd
          /\ v.ctype = c.ctype /\ v.inst = c.inst /\ v.remote_id = c.remote_id
          /\ v.output = c.output /\ v.input = c.input /\ v.taken = c.taken /\ v.got = c.got
          /\ v.local_window = l /\ v.remote_window = c.remote_window
      BY <1>0, <2>3 DEF Channel
    <2> HIDE DEF v
    <2>5. ~Accounted(v) /\ c.wfail
      BY <1>1, <1>3, <2>4 DEF Accounted
    <2>6. LocalOK(v)
      BY <1>0, <1>3, <2>4, <2>5 DEF LocalOK, Fresh, Est
    <2>7. Kin(c, v) /\ ShutFirst(v) /\ Keeps(c, v)
      BY <1>0, <2>4, <2>5 DEF Kin, ShutFirst, Keeps, EofDrained
    <2>8. Gets(c, v, n, n)
      BY <2>3, <2>4, <2>5, <2>7 DEF Gets
    <2> QED BY <2>1, <2>4, <2>6, <2>7, <2>8 DEF Silent, Turn
  <1>4. CASE c.type = "open" /\ c.ostate = "open"
    <2> DEFINE l == c.local_window - n
               v == [c EXCEPT !.output = c.output + n, !.local_window_exceeded = 0,
                              !.local_window = l]
    <2>1. n <= MaxPacket /\ n <= c.local_window
      BY <1>4 DEF Fits
    <2>2. c.local_window \in Nat /\ c.output \in Nat /\ MaxPacket \in Nat
      BY <1>0, ChannelsAssumption DEF Channel
    <2>2a. ~(n > MaxPacket) /\ ~(n > c.local_window)
      BY <1>0, <2>1, <2>2
    <2>3. w.c = v /\ w.tx = <<>> /\ w.err = "none"
      BY <1>4, <2>2a DEF channel_input_data, Begin
    <2>4. l \in Nat /\ l + n = c.local_window /\ c.output + n \in Nat
      BY <1>0, <2>1, <2>2
    <2> HIDE DEF l
    <2>5. /\ v \in Channel
          /\ v.type = c.type /\ v.ostate = c.ostate /\ v.istate = c.istate /\ v.flags = c.flags
          /\ v.wfail = c.wfail /\ v.extended_usage = c.extended_usage /\ v.efd = c.efd
          /\ v.ctype = c.ctype /\ v.inst = c.inst /\ v.remote_id = c.remote_id
          /\ v.output = c.output + n /\ v.input = c.input /\ v.taken = c.taken
          /\ v.got = c.got /\ v.extended = c.extended
          /\ v.local_consumed = c.local_consumed /\ v.local_window_max = c.local_window_max
          /\ v.local_window = l /\ v.remote_window = c.remote_window
      BY <1>0, <2>4 DEF Channel
    <2> HIDE DEF v
    <2>6. Accounted(v) <=> Accounted(c)
      BY <2>5 DEF Accounted
    <2>7. Accounted(c) =>
            v.local_window + v.output + v.local_consumed
              + (IF v.extended_usage = "write" THEN v.extended ELSE 0)
              = v.local_window_max
      <3> DEFINE x == IF c.extended_usage = "write" THEN c.extended ELSE 0
                 o == c.output
                 k == c.local_consumed
                 l0 == c.local_window
                 M == c.local_window_max
      <3> SUFFICES ASSUME Accounted(c)
                   PROVE  l + (o + n) + k + x = M
        BY <2>5
      <3>1. l0 + o + k + x = M
        BY <1>0 DEF LocalOK
      <3>2. l0 = l + n /\ l \in Nat /\ n \in Nat /\ o \in Nat /\ k \in Nat /\ x \in Nat
        BY <1>0, <2>4 DEF Channel
      <3> HIDE DEF x, o, k, l0, M
      <3> QED BY <3>1, <3>2
    <2>8. LocalOK(v)
      <3>1. v.type = "open" /\ v.ostate = "open"
        BY <1>4, <2>5
      <3>2. v.extended_usage = "read" => v.ctype = "session"
        BY <1>0, <2>5 DEF LocalOK
      <3>3. v.remote_id # NoId
        BY <1>0, <2>5 DEF LocalOK
      <3> QED BY <2>6, <2>7, <3>1, <3>2, <3>3 DEF LocalOK, Est
    <2>9. Kin(c, v) /\ ShutFirst(v) /\ Keeps(c, v)
      BY <1>0, <2>5, <2>6 DEF Kin, ShutFirst, Keeps, EofDrained
    <2>10. Gets(c, v, n, n)
      BY <2>2, <2>4, <2>5, <2>6, <2>9 DEF Gets
    <2> QED BY <2>3, <2>5, <2>8, <2>9, <2>10 DEF Silent, Turn
  <1> QED BY <1>2, <1>3, <1>4

\* channel_input_extended_data of a packet that fits, at the end that writes
\* stderr: buffered while the descriptor is there, dropped when it is not.
LEMMA InputExtGets ==
  ASSUME NEW c, NEW n, Fits(c, n), c.extended_usage = "write"
  PROVE  LET w == channel_input_extended_data(Begin(c), n)
         IN  Silent(c, w) /\ Gets(c, w.c, n, 0)
  <1> DEFINE w == channel_input_extended_data(Begin(c), n)
  <1>0. /\ c \in Channel /\ LocalOK(c) /\ ShutFirst(c) /\ c.type \in Est /\ n \in Nat
        /\ "EOF_RCVD" \notin c.flags
        /\ Begin(c).c = c /\ Begin(c).tx = <<>> /\ Begin(c).err = "none"
    BY DEF Fits, Begin
  <1>1. c.local_window \in Nat /\ c.output \in Nat /\ c.extended \in Nat
    BY <1>0 DEF Channel
  <1>2. CASE c.type # "open" \/ ~c.efd \/ n > c.local_window
    <2>1. w = Begin(c)
      BY <1>0, <1>2 DEF channel_input_extended_data, Begin
    <2>2. ~Accounted(c)
      <3>1. CASE c.type # "open"
        <4>1. c.type = "abandoned"
          BY <1>0, <3>1 DEF Est, LocalOK
        <4> QED BY <1>0, <4>1 DEF LocalOK, Accounted
      <3>2. CASE ~c.efd
        BY <3>2 DEF Accounted
      <3>3. CASE n > c.local_window
        <4>1. c.ostate = "closed"
          BY <1>0, <1>1, <3>3 DEF Fits
        <4> QED BY <4>1 DEF Accounted
      <3> QED BY <1>2, <3>1, <3>2, <3>3
    <2>3. Keeps(c, c)
      BY DEF Keeps
    <2>4. Gets(c, c, n, 0)
      BY <1>0, <1>1, <2>2, <2>3 DEF Gets
    <2> QED BY <1>0, <2>1, <2>4, SameTurn DEF Silent
  <1>3. CASE c.type = "open" /\ c.efd /\ ~(n > c.local_window)
    <2> DEFINE l == c.local_window - n
               v == [c EXCEPT !.extended = c.extended + n, !.local_window = l]
    <2>3. w.c = v /\ w.tx = <<>> /\ w.err = "none"
      BY <1>0, <1>3 DEF channel_input_extended_data, Begin
    <2>4. l \in Nat /\ l + n = c.local_window /\ c.extended + n \in Nat
      BY <1>0, <1>1, <1>3
    <2> HIDE DEF l
    <2>5. /\ v \in Channel
          /\ v.type = c.type /\ v.ostate = c.ostate /\ v.istate = c.istate /\ v.flags = c.flags
          /\ v.wfail = c.wfail /\ v.extended_usage = c.extended_usage /\ v.efd = c.efd
          /\ v.ctype = c.ctype /\ v.inst = c.inst /\ v.remote_id = c.remote_id
          /\ v.output = c.output /\ v.input = c.input /\ v.taken = c.taken
          /\ v.got = c.got /\ v.extended = c.extended + n
          /\ v.local_consumed = c.local_consumed /\ v.local_window_max = c.local_window_max
          /\ v.local_window = l /\ v.remote_window = c.remote_window
      BY <1>0, <2>4 DEF Channel
    <2> HIDE DEF v
    <2>6. Accounted(v) <=> Accounted(c)
      BY <2>5 DEF Accounted
    <2>7. Accounted(c) =>
            v.local_window + v.output + v.local_consumed
              + (IF v.extended_usage = "write" THEN v.extended ELSE 0)
              = v.local_window_max
      <3> DEFINE x == c.extended
                 o == c.output
                 k == c.local_consumed
                 l0 == c.local_window
                 M == c.local_window_max
      <3> SUFFICES ASSUME Accounted(c)
                   PROVE  l + o + k + (x + n) = M
        BY <2>5
      <3>1. l0 + o + k + x = M
        BY <1>0 DEF LocalOK
      <3>2. l0 = l + n /\ l \in Nat /\ n \in Nat /\ o \in Nat /\ k \in Nat /\ x \in Nat
        BY <1>0, <2>4 DEF Channel
      <3> HIDE DEF x, o, k, l0, M
      <3> QED BY <3>1, <3>2
    <2>8. LocalOK(v)
      <3>1. v.type = "open"
        BY <1>3, <2>5
      <3>2. /\ v.ostate = "closed" => v.output = 0
            /\ v.ostate # "open" /\ ~v.wfail => v.flags \cap {"EOF_RCVD", "CLOSE_RCVD"} # {}
            /\ v.extended_usage = "read" => v.ctype = "session"
        BY <1>0, <2>5 DEF LocalOK
      <3>3. v.remote_id # NoId
        BY <1>0, <2>5 DEF LocalOK
      <3> QED BY <2>6, <2>7, <3>1, <3>2, <3>3 DEF LocalOK, Est
    <2>9. Kin(c, v) /\ ShutFirst(v) /\ Keeps(c, v)
      BY <1>0, <2>5, <2>6 DEF Kin, ShutFirst, Keeps, EofDrained
    <2>10. Gets(c, v, n, 0)
      BY <1>1, <2>4, <2>5, <2>6, <2>9 DEF Gets
    <2> QED BY <2>3, <2>5, <2>8, <2>9, <2>10 DEF Silent, Turn
  <1> QED BY <1>2, <1>3

\* channel_input_window_adjust.
LEMMA AdjustCredits ==
  ASSUME NEW c \in Channel, LocalOK(c), ShutFirst(c), c.type \in Est, NEW n \in Nat
  PROVE  LET w == channel_input_window_adjust(Begin(c), n)
         IN  Silent(c, w) /\ Credited(c, w.c, n)
  <1> DEFINE w == channel_input_window_adjust(Begin(c), n)
             v == [c EXCEPT !.remote_window = c.remote_window + n]
  <1>1. w.c = v /\ w.tx = <<>> /\ w.err = "none"
    BY DEF channel_input_window_adjust, Begin
  <1>2. c.remote_window + n \in Nat
    BY DEF Channel
  <1>3. /\ v \in Channel
        /\ v.type = c.type /\ v.ostate = c.ostate /\ v.istate = c.istate /\ v.flags = c.flags
        /\ v.wfail = c.wfail /\ v.extended_usage = c.extended_usage /\ v.efd = c.efd
        /\ v.ctype = c.ctype /\ v.inst = c.inst /\ v.remote_id = c.remote_id
        /\ v.output = c.output /\ v.input = c.input /\ v.taken = c.taken
        /\ v.got = c.got /\ v.extended = c.extended
        /\ v.local_consumed = c.local_consumed /\ v.local_window_max = c.local_window_max
        /\ v.local_window = c.local_window /\ v.remote_window = c.remote_window + n
    BY <1>2 DEF Channel
  <1> HIDE DEF v
  <1>4. LocalOK(v)
    BY <1>3 DEF LocalOK, Accounted, Fresh, Est
  <1>5. Kin(c, v) /\ ShutFirst(v) /\ Keeps(c, v)
    BY <1>3 DEF Kin, ShutFirst, Keeps, EofDrained, Accounted
  <1>6. Credited(c, v, n)
    BY <1>3, <1>5 DEF Credited, Accounted
  <1> QED BY <1>1, <1>3, <1>4, <1>5, <1>6 DEF Silent, Turn

\* The first packet of qA is consumed and its channel becomes A1[i].
LEMMA TakeWorld ==
  ASSUME NEW A, NEW B, NEW qA, NEW qB, NEW last, NEW e \in Endpoint, NEW alive,
         World(A, B, qA, qB, last, e, alive), qA # <<>>,
         NEW i \in Ids, Head(qA).inst = A[i].inst,
         NEW A1, Moved(A, A1, i, A1[i]),
         Linked(A1, B, Packets(Tail(qA)), Packets(qB), last),
         A1[i].inst = A[i].inst, A1[i].ctype = A[i].ctype,
         A1[i].extended_usage = "write" <=> A[i].extended_usage = "write",
         \A j \in Ids : B[j].inst = A1[i].inst /\ A1[i].inst # 0 =>
           Both(A1[i], B[j], Tail(qA), qB)
  PROVE  World(A1, B, Tail(qA), qB, last, e, alive)
  <1>0. /\ last \in Nat /\ qA \in Seq(Msg) /\ qB \in Seq(Msg)
        /\ Ordered(qA) /\ Ordered(qB) /\ Flow(A, B, qA, qB) /\ Table(A, last)
        /\ SideOK(A, Packets(qA), e, alive) /\ SideOK(B, Packets(qB), Peer(e), alive)
    BY WorldParts
  <1>1. /\ Ordered(Tail(qA)) /\ Tail(qA) \in Seq(Msg)
        /\ Packets(Tail(qA)) \subseteq Packets(qA)
    BY <1>0, TailPopped DEF Popped
  <1>2. ASSUME NEW k \in Ids, k # i, A[k].inst # 0
        PROVE  SameSums(qA, Tail(qA), A[k].inst) /\ SameSums(qB, qB, A[k].inst)
    <2>1. Head(qA).inst # A[k].inst
      BY <1>0, <1>2, TableAt
    <2> QED BY <1>0, <2>1, TailSums DEF SameSums
  <1>3. Flow(A1, B, Tail(qA), qB)
    BY <1>0, <1>2, FlowStep
  <1>4. SideOK(A1, Packets(Tail(qA)), e, alive)
    <2>1. ASSUME NEW k \in Ids, A1[k].ctype = "session"
          PROVE  A1[k].extended_usage = "write" <=> e = "client"
      BY <1>0, <2>1 DEF SideOK, Moved
    <2> QED BY <1>0, <1>1, <2>1 DEF SideOK
  <1> QED BY <1>0, <1>1, <1>3, <1>4 DEF World

\* A packet that the channel tables do not notice.
LEMMA PopWorld ==
  ASSUME NEW A, NEW B, NEW qA, NEW qB, NEW last, NEW e \in Endpoint, NEW alive,
         World(A, B, qA, qB, last, e, alive), qA # <<>>,
         Head(qA).t \notin Counting \cup {"OPENFAIL"}
  PROVE  World(A, B, Tail(qA), qB, last, e, alive)
  <1>0. /\ last \in Nat /\ qA \in Seq(Msg) /\ qB \in Seq(Msg)
        /\ Ordered(qA) /\ Ordered(qB) /\ Flow(A, B, qA, qB)
        /\ Linked(A, B, Packets(qA), Packets(qB), last)
        /\ SideOK(A, Packets(qA), e, alive) /\ SideOK(B, Packets(qB), Peer(e), alive)
    BY WorldParts
  <1>1. /\ Ordered(Tail(qA)) /\ Tail(qA) \in Seq(Msg)
        /\ Popped(Packets(qA), Packets(Tail(qA)), Head(qA))
        /\ Packets(Tail(qA)) \subseteq Packets(qA)
    BY <1>0, TailPopped DEF Popped
  <1>2. Linked(A, B, Packets(Tail(qA)), Packets(qB), last)
    BY <1>0, <1>1, PopLinked DEF Counting
  <1>3. Flow(A, B, Tail(qA), qB)
    <2> SUFFICES ASSUME NEW i \in Ids, NEW j \in Ids, A[i].inst = B[j].inst, A[i].inst # 0
                 PROVE  Both(A[i], B[j], Tail(qA), qB)
      BY DEF Flow
    <2>1. Both(A[i], B[j], qA, qB)
      BY <1>0 DEF Flow
    <2>2. SameSums(qA, Tail(qA), A[i].inst) /\ SameSums(qB, qB, A[i].inst)
      BY <1>0, TailSums DEF SameSums
    <2> QED BY <2>1, <2>2, SameBoth
  <1>4. SideOK(A, Packets(Tail(qA)), e, alive)
    BY <1>0, <1>1 DEF SideOK
  <1> QED BY <1>0, <1>1, <1>2, <1>3, <1>4 DEF World

\* The first packet and the channel it is for.
LEMMA FindsHead ==
  ASSUME NEW A, NEW B, NEW qA, NEW qB, NEW last, NEW e \in Endpoint, NEW alive,
         World(A, B, qA, qB, last, e, alive), qA # <<>>,
         Head(qA).t \in Real \ {"OPEN"}
  PROVE  LET m == Head(qA)
             c == A[m.id]
         IN  /\ m \in Msg /\ m \in Packets(qA) /\ m.id \in Ids
             /\ c.inst = m.inst /\ c.ctype = m.ctype /\ c.inst # 0
             /\ c \in Channel /\ LocalOK(c) /\ ShutFirst(c)
             /\ m.t \in {"CONFIRM", "OPENFAIL"} => c.type = "opening"
             /\ m.t \notin {"CONFIRM", "OPENFAIL"} => c.type \in Est
             /\ Comes(c, m)
             /\ Popped(Packets(qA), Packets(Tail(qA)), m)
  <1>0. /\ last \in Nat /\ qA \in Seq(Msg) /\ Ordered(qA) /\ Table(A, last)
        /\ Linked(A, B, Packets(qA), Packets(qB), last)
    BY WorldParts
  <1>1. Popped(Packets(qA), Packets(Tail(qA)), Head(qA)) /\ Head(qA) \in Msg
    BY <1>0, TailPopped
  <1>2. Head(qA) \in Packets(qA)
    BY <1>1 DEF Popped
  <1> QED BY <1>0, <1>1, <1>2, Finds, TableAt

\* The packet about to be read, and the channel it is for.
LEMMA FindsNext ==
  ASSUME NEW A, NEW B, NEW qA, NEW qB, NEW last, NEW e \in Endpoint, NEW alive,
         World(A, B, qA, qB, last, e, alive), qA # <<>>,
         NEW m, m = Head(qA), m.t \in Real, m.t # "OPEN"
  PROVE  /\ m \in Msg /\ m \in Packets(qA) /\ m.id \in Ids
         /\ A[m.id].ctype = m.ctype
         /\ A[m.id] \in Channel /\ LocalOK(A[m.id]) /\ ShutFirst(A[m.id])
         /\ m.t \in {"CONFIRM", "OPENFAIL"} => A[m.id].type = "opening"
         /\ m.t \notin {"CONFIRM", "OPENFAIL"} => A[m.id].type \in Est
  <1>1. Head(qA).t \in Real \ {"OPEN"}
    OBVIOUS
  <1> QED BY <1>1, FindsHead

\* The window a sender counts on is there: what is in flight fits.
LEMMA HeadFits ==
  ASSUME NEW A, NEW B, NEW qA, NEW qB, NEW last, NEW e \in Endpoint, NEW alive,
         World(A, B, qA, qB, last, e, alive), qA # <<>>,
         Head(qA).t \in {"DATA", "EXTDATA"}
  PROVE  Fits(A[Head(qA).id], Head(qA).n)
  <1> DEFINE m == Head(qA)
             c == A[m.id]
  <1>0. /\ last \in Nat /\ qA \in Seq(Msg) /\ qB \in Seq(Msg) /\ Flow(A, B, qA, qB)
        /\ SideOK(A, Packets(qA), e, alive) /\ Half(A, B, Packets(qA), Packets(qB))
        /\ Table(B, last)
    BY WorldParts
  <1>1. m.t \in Real \ {"OPEN"} /\ m.t \notin {"CONFIRM", "OPENFAIL"} /\ m.t \in Carrying
    BY DEF Real, MsgType, Carrying
  <1>2. /\ m \in Msg /\ m \in Packets(qA) /\ m.id \in Ids /\ c.inst = m.inst /\ c.inst # 0
        /\ c \in Channel /\ LocalOK(c) /\ ShutFirst(c) /\ c.type \in Est /\ Comes(c, m)
    BY <1>1, FindsHead
  <1>3. c.flags \cap {"EOF_RCVD", "CLOSE_RCVD"} = {}
    BY <1>1, <1>2 DEF Comes
  <1>4. m.n \in Nat /\ m.n <= MaxPacket
    BY <1>0, <1>2 DEF SideOK, Msg
  <1>5. CASE "CLOSE_SENT" \in c.flags
    BY <1>2, <1>3, <1>4, <1>5 DEF Fits, ShutFirst
  <1>6. CASE "CLOSE_SENT" \notin c.flags
    <2> DEFINE d == B[c.remote_id]
    <2>1. d.inst = c.inst
      BY <1>0, <1>2, <1>6 DEF Half, HasPeer
    <2>2. c.remote_id \in Ids
      BY <1>2 DEF Channel, LocalOK
    <2>3. Both(c, d, qA, qB)
      BY <1>0, <1>2, <2>1, <2>2 DEF Flow
    <2>4. Total(d, qB, qA) <= c.local_window
      BY <1>2, <2>3 DEF Both, CreditOK
    <2>5. /\ DataIn(Tail(qA), c.inst) \in Nat
          /\ DataIn(qA, c.inst) = m.n + DataIn(Tail(qA), c.inst)
      BY <1>0, <1>2, HeadSums
    <2>6. Total(d, qB, qA) = d.remote_window + DataIn(qA, c.inst) + CreditIn(qB, c.inst)
      BY <2>1 DEF Total
    <2>7. CreditIn(qB, c.inst) \in Nat
      BY <1>0, InFlightNat DEF CreditIn
    <2>8. d.remote_window \in Nat /\ c.local_window \in Nat
      <3>1. d \in Channel
        BY <1>0, <2>2, TableAt
      <3> QED BY <1>2, <3>1 DEF Channel
    <2>9. m.n <= c.local_window
      <3> DEFINE a == m.n
                 b == DataIn(Tail(qA), c.inst)
                 x == d.remote_window
                 y == CreditIn(qB, c.inst)
                 l == c.local_window
      <3>1. x + (a + b) + y <= l
        BY <2>4, <2>5, <2>6
      <3>2. a \in Nat /\ b \in Nat /\ x \in Nat /\ y \in Nat /\ l \in Nat
        BY <1>4, <2>5, <2>7, <2>8
      <3> HIDE DEF a, b, x, y, l
      <3>3. a <= l
        BY <3>1, <3>2
      <3> QED BY <3>3 DEF a, l
    <2> QED BY <1>2, <1>3, <1>4, <2>9 DEF Fits
  <1> QED BY <1>5, <1>6

\* A packet taken in silence: data, stderr or credit.
LEMMA SilentWorld ==
  ASSUME NEW A, NEW B, NEW qA, NEW qB, NEW last, NEW e \in Endpoint, NEW alive,
         World(A, B, qA, qB, last, e, alive), qA # <<>>,
         Head(qA).t \in {"DATA", "EXTDATA", "ADJUST"},
         NEW w, Silent(A[Head(qA).id], w),
         Head(qA).t \in {"DATA", "EXTDATA"} =>
           Gets(A[Head(qA).id], w.c, Head(qA).n, IF Head(qA).t = "DATA" THEN Head(qA).n ELSE 0),
         Head(qA).t = "ADJUST" => Credited(A[Head(qA).id], w.c, Head(qA).n),
         NEW A1, Moved(A, A1, Head(qA).id, w.c)
  PROVE  World(A1, B, Tail(qA), qB, last, e, alive)
  <1> DEFINE m == Head(qA)
             i == m.id
             c0 == A[i]
             PA1 == Packets(Tail(qA))
  <1>0. /\ last \in Nat /\ qA \in Seq(Msg) /\ qB \in Seq(Msg) /\ Flow(A, B, qA, qB)
        /\ Linked(A, B, Packets(qA), Packets(qB), last) /\ Table(A, last) /\ Table(B, last)
    BY WorldParts
  <1>1. m.t \in Real \ {"OPEN"} /\ m.t \notin {"CONFIRM", "OPENFAIL"}
    BY DEF Real, MsgType
  <1>2. /\ i \in Ids /\ c0.inst = m.inst /\ c0.inst # 0 /\ c0 \in Channel
        /\ Popped(Packets(qA), PA1, m)
    BY <1>1, FindsHead
  <1>3. A1[i] = w.c /\ Turn(c0, A1[i], {}) /\ Moved(A, A1, i, A1[i])
    BY DEF Moved, Silent
  <1>4. Linked(A, B, PA1, Packets(qB), last)
    BY <1>0, <1>1, <1>2, PopLinked
  <1>5. Linked(A1, B, PA1, Packets(qB) \cup {}, last)
    BY <1>0, <1>2, <1>3, <1>4, UpdateLinked
  <1>6. Packets(qB) \cup {} = Packets(qB)
    OBVIOUS
  <1>7. /\ A1[i].inst = c0.inst /\ A1[i].ctype = c0.ctype /\ A1[i] \in Channel
        /\ (A1[i].extended_usage = "write" <=> c0.extended_usage = "write")
    BY <1>3 DEF Turn, Kin
  <1>8. ASSUME NEW j \in Ids, B[j].inst = A1[i].inst
        PROVE  Both(A1[i], B[j], Tail(qA), qB)
    <2>1. Both(c0, B[j], qA, qB)
      BY <1>0, <1>2, <1>7, <1>8 DEF Flow
    <2>2. Counts(c0) /\ Counts(A1[i]) /\ Counts(B[j])
      BY <1>0, <1>2, <1>7, CountsOf, TableAt
    <2>3. CASE m.t = "ADJUST"
      <3>1. Credited(c0, A1[i], Head(qA).n)
        BY <1>3, <2>3
      <3> QED BY <1>0, <1>2, <1>7, <1>8, <2>1, <2>2, <2>3, <3>1, CreditedBoth
    <2>4. CASE m.t \in {"DATA", "EXTDATA"}
      <3>1. Gets(c0, A1[i], Head(qA).n, IF Head(qA).t = "DATA" THEN Head(qA).n ELSE 0)
        BY <1>3, <2>4
      <3> QED BY <1>0, <1>2, <1>7, <1>8, <2>1, <2>2, <2>4, <3>1, GetsBoth
    <2> QED BY <2>3, <2>4
  <1> QED BY <1>2, <1>3, <1>5, <1>6, <1>7, <1>8, TakeWorld

\* EOF or CLOSE is noted in the channel it is for.
LEMMA MarkWorld ==
  ASSUME NEW A, NEW B, NEW qA, NEW qB, NEW last, NEW e \in Endpoint, NEW alive,
         World(A, B, qA, qB, last, e, alive), qA # <<>>,
         Head(qA).t \in {"EOF", "CLOSE"}, StaysAttached(A[Head(qA).id]),
         NEW f, f = IF Head(qA).t = "EOF" THEN "EOF_RCVD" ELSE "CLOSE_RCVD",
         NEW A1, Moved(A, A1, Head(qA).id, Noted(A[Head(qA).id], f))
  PROVE  World(A1, B, Tail(qA), qB, last, e, alive)
  <1> DEFINE m == Head(qA)
             i == m.id
             c0 == A[i]
             c == Noted(c0, f)
             PA1 == Packets(Tail(qA))
  <1>0. /\ last \in Nat /\ qA \in Seq(Msg) /\ qB \in Seq(Msg) /\ Flow(A, B, qA, qB)
        /\ Linked(A, B, Packets(qA), Packets(qB), last) /\ Table(A, last) /\ Table(B, last)
    BY WorldParts
  <1>1. m.t \in Real \ {"OPEN"} /\ m.t \notin {"CONFIRM", "OPENFAIL"} /\ m.t \notin Counting
    BY DEF Real, MsgType, Counting
  <1>2. /\ i \in Ids /\ c0.inst = m.inst /\ c0.inst # 0 /\ c0 \in Channel
        /\ LocalOK(c0) /\ ShutFirst(c0) /\ c0.type \in Est
        /\ Popped(Packets(qA), PA1, m)
    BY <1>1, FindsHead
  <1>3. f \in {"EOF_RCVD", "CLOSE_RCVD"}
    OBVIOUS
  <1>4. c \in Channel /\ LocalOK(c) /\ ShutFirst(c)
    <2>1. /\ Set_flag(Begin(c0), f) \in Sound(c, FALSE)
          /\ Set_flag(Begin(c0), f).c = c
      BY <1>2, <1>3, NotedSound
    <2> HIDE DEF c
    <2> QED BY <2>1, SoundParts
  <1>5. /\ c.flags = c0.flags \cup {f} /\ c.type = c0.type /\ c.ctype = c0.ctype
        /\ c.inst = c0.inst /\ c.remote_id = c0.remote_id /\ c.taken = c0.taken
        /\ c.input = c0.input /\ c.got = c0.got /\ c.wfail = c0.wfail /\ c.output = c0.output
        /\ c.local_window = c0.local_window /\ c.remote_window = c0.remote_window
        /\ c.ostate = c0.ostate /\ c.extended_usage = c0.extended_usage /\ c.efd = c0.efd
    BY <1>2 DEF Noted, Channel
  <1>6. A1[i] = c /\ Moved(A, A1, i, A1[i])
    BY DEF Moved
  <1> HIDE DEF c
  <1>7. Marked(c0, c, f)
    BY <1>4, <1>5 DEF Marked
  <1>8. Linked(A1, B, PA1, Packets(qB), last)
    BY <1>0, <1>2, <1>6, <1>7, MarkLinked
  <1>9. Keeps(c0, c) /\ (Accounted(c) => Accounted(c0))
    BY <1>3, <1>5 DEF Keeps, EofDrained, Accounted
  <1>10. ASSUME NEW j \in Ids, B[j].inst = A1[i].inst
         PROVE  Both(A1[i], B[j], Tail(qA), qB)
    <2>1. Both(c0, B[j], qA, qB)
      BY <1>0, <1>2, <1>5, <1>6, <1>10 DEF Flow
    <2>2. SameSums(qA, Tail(qA), c0.inst) /\ SameSums(qB, qB, c0.inst)
      BY <1>0, <1>1, TailSums DEF SameSums
    <2> QED BY <1>5, <1>6, <1>9, <1>10, <2>1, <2>2, StillBoth
  <1> QED BY <1>2, <1>5, <1>6, <1>8, <1>10, TakeWorld, ZenonT(60)

\* The opener's channel when the answer comes.
Opened(c, m) == [c EXCEPT !.remote_id = m.self, !.remote_window = m.n, !.type = "open"]

\* The same when the open was refused.
Refused(c) == [c EXCEPT !.type = "zombie"]

\* The channel after the answer to its OPEN is a channel.
LEMMA OpenedChannel ==
  ASSUME NEW c \in Channel, NEW m \in Msg
  PROVE  Opened(c, m) \in Channel /\ Refused(c) \in Channel
  <1>1. m.self \in Ids \cup {NoId} /\ m.n \in Nat
    BY DEF Msg
  <1>2. Opened(c, m) \in Channel
    BY <1>1 DEF Opened, Channel, ChanType
  <1>3. Refused(c) \in Channel
    BY DEF Refused, Channel, ChanType
  <1> QED BY <1>2, <1>3

\* The answer to an OPEN is noted in the channel it is for.
LEMMA AnswerWorld ==
  ASSUME NEW A, NEW B, NEW qA, NEW qB, NEW last, NEW e \in Endpoint, NEW alive,
         World(A, B, qA, qB, last, e, alive), qA # <<>>,
         Head(qA).t \in {"CONFIRM", "OPENFAIL"},
         NEW c, Head(qA).t = "CONFIRM" => c = Opened(A[Head(qA).id], Head(qA)),
         Head(qA).t = "OPENFAIL" => c = Refused(A[Head(qA).id]),
         NEW A1, Moved(A, A1, Head(qA).id, c)
  PROVE  World(A1, B, Tail(qA), qB, last, e, alive)
  <1> DEFINE m == Head(qA)
             i == m.id
             c0 == A[i]
             PA1 == Packets(Tail(qA))
  <1>0. /\ last \in Nat /\ qA \in Seq(Msg) /\ qB \in Seq(Msg) /\ Flow(A, B, qA, qB)
        /\ Linked(A, B, Packets(qA), Packets(qB), last) /\ Table(A, last) /\ Table(B, last)
        /\ Half(A, B, Packets(qA), Packets(qB))
    BY WorldParts
  <1>1. m.t \in Real \ {"OPEN"}
    BY DEF Real, MsgType
  <1>2. /\ i \in Ids /\ c0.inst = m.inst /\ c0.inst # 0 /\ c0 \in Channel
        /\ LocalOK(c0) /\ ShutFirst(c0) /\ c0.type = "opening"
        /\ m \in Msg /\ m \in Packets(qA) /\ Popped(Packets(qA), PA1, m)
    BY <1>1, FindsHead
  <1>3. m.t = "CONFIRM" => m.self # NoId
    BY <1>0, <1>2 DEF Half, Routed, ConfirmOK
  <1>4. m.self \in Ids \cup {NoId} /\ m.n \in Nat
    BY <1>2 DEF Msg
  <1>5. /\ c.flags = c0.flags /\ c.ctype = c0.ctype
        /\ c.inst = c0.inst /\ c.taken = c0.taken
        /\ c.input = c0.input /\ c.got = c0.got /\ c.wfail = c0.wfail /\ c.output = c0.output
        /\ c.local_window = c0.local_window /\ c.istate = c0.istate
        /\ c.ostate = c0.ostate /\ c.extended_usage = c0.extended_usage /\ c.efd = c0.efd
        /\ c.extended = c0.extended /\ c.local_window_max = c0.local_window_max
        /\ c.local_consumed = c0.local_consumed /\ c.child = c0.child
    BY <1>2, ZenonT(60) DEF Opened, Refused, Channel
  <1>6. /\ m.t = "CONFIRM" => c.type = "open" /\ c.remote_id = m.self /\ c.remote_window = m.n
        /\ m.t = "OPENFAIL" => /\ c.type = "zombie" /\ c.remote_id = c0.remote_id
                               /\ c.remote_window = c0.remote_window
    BY <1>2, ZenonT(60) DEF Opened, Refused, Channel
  <1>7. c \in Channel
    <2>1. Opened(A[Head(qA).id], Head(qA)) \in Channel /\ Refused(A[Head(qA).id]) \in Channel
      BY <1>2, OpenedChannel
    <2> QED BY <2>1
  <1>8. Fresh(c0) /\ c0.remote_window = 0
    BY <1>2 DEF LocalOK
  <1>9. LocalOK(c)
    <2>1. Accounted(c) <=> Accounted(c0)
      BY <1>5 DEF Accounted
    <2>2. c.type \in {"open", "zombie"} /\ (c.type = "open" => c.remote_id # NoId)
      BY <1>3, <1>6
    <2>3. Fresh(c) /\ c.ostate = "open"
      BY <1>5, <1>8 DEF Fresh
    <2>4. c.extended_usage = "read" => c.ctype = "session"
      BY <1>2, <1>5 DEF LocalOK
    <2>5. Accounted(c) =>
            c.local_window + c.output + c.local_consumed
              + (IF c.extended_usage = "write" THEN c.extended ELSE 0) = c.local_window_max
      BY <1>2, <1>5, <2>1 DEF LocalOK
    <2> QED BY <2>2, <2>3, <2>4, <2>5 DEF LocalOK, Est
  <1>10. Answered(c0, c, m)
    BY <1>5, <1>6, <1>7, <1>8, <1>9, <1>2 DEF Answered, Fresh, ShutFirst
  <1>11. A1[i] = c /\ Moved(A, A1, i, A1[i])
    BY DEF Moved
  <1>12. Linked(A1, B, PA1, Packets(qB), last)
    BY <1>0, <1>2, <1>10, <1>11, AnsweredLinked
  <1>13. Keeps(c0, c) /\ (Accounted(c) => Accounted(c0))
    BY <1>2, <1>5, <1>6, <1>8 DEF Keeps, EofDrained, Accounted, Fresh
  <1>14. ASSUME NEW j \in Ids, B[j].inst = A1[i].inst
         PROVE  Both(A1[i], B[j], Tail(qA), qB)
    <2>1. Both(c0, B[j], qA, qB) /\ c0.inst = B[j].inst
      BY <1>0, <1>2, <1>5, <1>11, <1>14 DEF Flow
    <2>2. CASE m.t = "OPENFAIL"
      <3>1. SameSums(qA, Tail(qA), c0.inst) /\ SameSums(qB, qB, c0.inst)
        BY <1>0, <2>2, TailSums DEF SameSums, Counting
      <3>2. c.remote_window = c0.remote_window
        BY <1>6, <2>2
      <3>3. c.output = c0.output /\ c.local_window = c0.local_window
        BY <1>5
      <3>4. Both(c, B[j], Tail(qA), qB)
        BY <1>13, <2>1, <3>1, <3>2, <3>3, StillBoth
      <3> QED BY <1>11, <3>4
    <2>3. CASE m.t = "CONFIRM"
      <3>1. Counts(c0) /\ Counts(c) /\ Counts(B[j])
        BY <1>0, <1>2, <1>7, CountsOf, TableAt
      <3>2. Credited(c0, c, Head(qA).n)
        BY <1>4, <1>5, <1>6, <1>8, <1>13, <2>3 DEF Credited
      <3>3. Both(c, B[j], Tail(qA), qB)
        BY <1>0, <1>2, <2>1, <2>3, <3>1, <3>2, CreditedBoth
      <3> QED BY <1>11, <3>3
    <2> QED BY <2>2, <2>3
  <1>15. World(A1, B, Tail(qA), qB, last, e, alive)
    <2>1. /\ A1[i].inst = A[i].inst /\ A1[i].ctype = A[i].ctype
          /\ (A1[i].extended_usage = "write" <=> A[i].extended_usage = "write")
      BY <1>5, <1>11
    <2>2. i \in Ids /\ Head(qA).inst = A[i].inst
      BY <1>2
    <2> HIDE DEF i, c0
    <2> QED BY <1>11, <1>12, <1>14, <2>1, <2>2, TakeWorld
  <1>16. m.t = "CONFIRM" => c.remote_id # NoId /\ c.flags = {} /\ c.type = "open"
    BY <1>3, <1>5, <1>6, <1>8 DEF Fresh
  <1> QED BY <1>5, <1>15, <1>16

\* One more packet at the end of a queue.
LEMMA OneMore ==
  ASSUME NEW q \in Seq(Msg), Ordered(q), NEW p \in Msg,
         \A a \in Packets(q) : a.inst = p.inst => MayFollow(a.t, p.t)
  PROVE  /\ q \o <<p>> \in Seq(Msg) /\ Ordered(q \o <<p>>)
         /\ Packets(q \o <<p>>) = Packets(q) \cup {p}
         /\ p.t \notin Counting => SameSums(q, q \o <<p>>, p.inst)
         /\ \A n : n # p.inst => SameSums(q, q \o <<p>>, n)
  <1> DEFINE t == <<p>>
  <1>1. t \in Seq(Msg) /\ Len(t) = 1 /\ t[1] = p
    OBVIOUS
  <1> HIDE DEF t
  <1>2. Packets(t) = {p}
    BY <1>1 DEF Packets
  <1>3. Ordered(t)
    BY <1>1 DEF Ordered
  <1>4. Ordered(q \o t)
    BY <1>1, <1>2, <1>3, OrderedConcat
  <1>5. Packets(q \o t) = Packets(q) \cup {p}
    BY <1>1, <1>2, PacketsConcat
  <1>6. \A n : (n = p.inst => p.t \notin Counting) => SameSums(q, q \o t, n)
    BY <1>1, <1>2, ConcatSums
  <1>7. q \o t \in Seq(Msg)
    BY <1>1
  <1> QED BY <1>4, <1>5, <1>6, <1>7 DEF t

\* OPEN goes out with a new channel.
LEMMA OpenWorld ==
  ASSUME NEW A, NEW B, NEW qA, NEW qB, NEW last, NEW e \in Endpoint, NEW alive,
         World(A, B, qA, qB, last, e, alive),
         NEW i \in Ids, A[i].type = "free", NEW A1, Moved(A, A1, i, A1[i]),
         Made(A1[i], last + 1), A1[i].type = "opening",
         A1[i].ctype = "session" => A1[i].extended_usage = "write" /\ e = "client",
         NEW m \in Msg, m.t = "OPEN", m.id = i, m.n = Window, m.ctype = A1[i].ctype,
         m.inst = last + 1
  PROVE  World(A1, B, qA, qB \o <<m>>, last + 1, e, alive)
  <1> DEFINE p == qB \o <<m>>
  <1>0. /\ last \in Nat /\ qA \in Seq(Msg) /\ qB \in Seq(Msg) /\ Flow(A, B, qA, qB)
        /\ Ordered(qA) /\ Ordered(qB) /\ Table(A, last) /\ Table(B, last)
        /\ Linked(A, B, Packets(qA), Packets(qB), last)
        /\ SideOK(A, Packets(qA), e, alive) /\ SideOK(B, Packets(qB), Peer(e), alive)
    BY WorldParts
  <1>1. \A a \in Packets(qB) : a.inst # m.inst
    BY <1>0 DEF Linked, Numbers
  <1>2. /\ p \in Seq(Msg) /\ Ordered(p) /\ Packets(p) = Packets(qB) \cup {m}
        /\ \A n : SameSums(qB, p, n)
    BY <1>0, <1>1, OneMore DEF Counting
  <1>3. Linked(A1, B, Packets(qA), Packets(p), last + 1)
    BY <1>0, <1>2, OpenLinked
  <1>4. Flow(A1, B, qA, p)
    <2>1. \A j \in Ids : B[j].inst # A1[i].inst
      BY <1>0, SMTT(30) DEF Table, Made, Channel
    <2>2. \A n : SameSums(qA, qA, n)
      BY DEF SameSums
    <2> QED BY <1>0, <1>2, <2>1, <2>2, FlowStep
  <1>5. SideOK(A1, Packets(qA), e, alive)
    BY <1>0 DEF SideOK, Moved
  <1>6. SideOK(B, Packets(p), Peer(e), alive)
    <2>1. m.ctype = "session" => Peer(e) = "server"
      BY DEF Peer
    <2> QED BY <1>0, <1>2, <2>1 DEF SideOK
  <1>7. last + 1 \in Nat
    BY <1>0
  <1> QED BY <1>0, <1>2, <1>3, <1>4, <1>5, <1>6, <1>7 DEF World

\* The accounts of a pair in which neither end has moved a byte.
LEMMA NewBoth ==
  ASSUME NEW c, NEW d, c.inst = d.inst, NEW qA, NEW qB,
         DataIn(qA, c.inst) = 0, PlainIn(qA, c.inst) = 0, CreditIn(qA, c.inst) = 0,
         DataIn(qB, c.inst) = 0, PlainIn(qB, c.inst) = 0,
         c.remote_window = Window, d.remote_window = 0, d.local_window = Window,
         c.type \in Est => CreditIn(qB, c.inst) = c.local_window,
         c.type # "opening", c.local_window \in Nat, c.flags = {}, d.flags = {},
         c.taken = 0, c.input = 0, c.output = 0, c.got = 0,
         d.taken = 0, d.input = 0, d.output = 0, d.got = 0
  PROVE  Both(c, d, qA, qB)
  <1>1. Window \in Nat
    BY ChannelsAssumption
  <1>2. Total(c, qA, qB) = Window
    BY <1>1 DEF Total
  <1>3. c.type \in Est => Total(d, qB, qA) = c.local_window
    BY DEF Total
  <1>4. CreditOK(c, d, qA, qB)
    BY <1>1, <1>2 DEF CreditOK
  <1>5. CreditOK(d, c, qB, qA)
    BY <1>3 DEF CreditOK
  <1>6. BytesOK(c, d, qB) /\ BytesOK(d, c, qA)
    BY DEF BytesOK, EofDrained
  <1> QED BY <1>4, <1>5, <1>6 DEF Both

\* The channel c that the OPEN m starts, and the packets t that answer it.
Begun(c, i, m, t) ==
  /\ c.remote_window = m.n /\ c.taken = 0 /\ c.input = 0 /\ c.output = 0 /\ c.got = 0
  /\ c.extended_usage # "write"
  /\ t \in Seq(Msg) /\ Accepts(c, i, m, Packets(t))
  /\ t = <<>> \/ \E p \in Msg : t = <<p>> /\ p.n = c.local_window

\* An OPEN is accepted: a session at once, a forwarding to begin with.
LEMMA AcceptWorld ==
  ASSUME NEW A, NEW B, NEW qA, NEW qB, NEW last, NEW e \in Endpoint, NEW alive,
         World(A, B, qA, qB, last, e, alive), qA # <<>>, Head(qA).t = "OPEN",
         NEW i \in Ids, A[i].type = "free", NEW A1, Moved(A, A1, i, A1[i]),
         NEW t, Begun(A1[i], i, Head(qA), t)
  PROVE  World(A1, B, Tail(qA), qB \o t, last, e, alive)
  <1> DEFINE m == Head(qA)
             c == A1[i]
             d == B[m.id]
             PA1 == Packets(Tail(qA))
             X == Packets(t)
             q == qB \o t
  <1>0. /\ last \in Nat /\ qA \in Seq(Msg) /\ qB \in Seq(Msg) /\ Flow(A, B, qA, qB)
        /\ Ordered(qA) /\ Ordered(qB) /\ Table(A, last) /\ Table(B, last)
        /\ Linked(A, B, Packets(qA), Packets(qB), last)
        /\ SideOK(A, Packets(qA), e, alive) /\ SideOK(B, Packets(qB), Peer(e), alive)
    BY WorldParts
  <1>1. /\ Ordered(Tail(qA)) /\ Tail(qA) \in Seq(Msg) /\ m \in Packets(qA)
        /\ Popped(Packets(qA), PA1, m) /\ PA1 \subseteq Packets(qA)
    BY <1>0, TailPopped DEF Popped
  <1>2. /\ m.n = Window /\ m.id \in Ids
        /\ d.inst = m.inst /\ d.type = "opening" /\ d.flags = {}
        /\ \A j \in Ids : B[j].inst = m.inst => j = m.id
        /\ \A k \in Ids : A[k].inst # m.inst
        /\ \A p \in PA1 \cup Packets(qB) : p.inst # m.inst
    BY <1>0, <1>1, OpenArrives
  <1>3. Accepts(c, i, m, X) /\ t \in Seq(Msg) /\ Made(c, m.inst)
    BY DEF Begun, Accepts
  <1>4. /\ c \in Channel /\ c.inst = m.inst /\ c.type \in {"larval", "connecting"}
        /\ c.flags = {} /\ c.ctype = m.ctype
    BY <1>3 DEF Accepts, Made
  <1>5. /\ q \in Seq(Msg) /\ Ordered(q) /\ Packets(q) = Packets(qB) \cup X
        /\ \A n : n # m.inst => SameSums(qB, q, n)
    <2>1. CASE t = <<>>
      <3>1. q = qB /\ X = {}
        BY <1>0, <2>1 DEF Packets
      <3> QED BY <1>0, <3>1 DEF SameSums
    <2>2. ASSUME NEW p \in Msg, t = <<p>>
          PROVE  /\ q \in Seq(Msg) /\ Ordered(q) /\ Packets(q) = Packets(qB) \cup X
                 /\ \A n : n # m.inst => SameSums(qB, q, n)
      <3>1. X = {p}
        BY <2>2 DEF Packets
      <3>2. p.inst = m.inst
        BY <1>3, <3>1 DEF Accepts
      <3> QED BY <1>0, <1>2, <2>2, <3>1, <3>2, OneMore
    <2> QED BY <2>1, <2>2 DEF Begun
  <1>6. Linked(A1, B, PA1, Packets(q), last)
    <2>1. Linked(A1, B, PA1, Packets(qB) \cup X, last)
      <3>1. /\ Linked(A, B, Packets(qA), Packets(qB), last) /\ last \in Nat
            /\ Popped(Packets(qA), PA1, m) /\ m.t = "OPEN" /\ Accepts(A1[i], i, m, X)
        BY <1>0, <1>1, <1>3
      <3> HIDE DEF PA1, X, m
      <3> QED BY <3>1, AcceptLinked
    <2> QED BY <1>5, <2>1
  <1>7. /\ DataIn(Tail(qA), c.inst) = 0 /\ PlainIn(Tail(qA), c.inst) = 0
        /\ CreditIn(Tail(qA), c.inst) = 0
    BY <1>1, <1>2, <1>4, SumsNone, ZenonT(60)
  <1>8. DataIn(q, c.inst) = 0 /\ PlainIn(q, c.inst) = 0
        /\ CreditIn(q, c.inst) = CreditIn(t, c.inst)
    <2>1. /\ DataIn(qB, c.inst) = 0 /\ PlainIn(qB, c.inst) = 0 /\ CreditIn(qB, c.inst) = 0
      BY <1>0, <1>2, <1>4, SumsNone
    <2>2. /\ DataIn(q, c.inst) = DataIn(qB, c.inst) + DataIn(t, c.inst)
          /\ PlainIn(q, c.inst) = PlainIn(qB, c.inst) + PlainIn(t, c.inst)
          /\ CreditIn(q, c.inst) = CreditIn(qB, c.inst) + CreditIn(t, c.inst)
      BY <1>0, <1>3, InFlightConcat DEF DataIn, PlainIn, CreditIn
    <2>3. \A k \in 1 .. Len(t) : t[k].t = "CONFIRM"
      BY <1>3 DEF Accepts, Packets
    <2>4. DataIn(t, c.inst) = 0 /\ PlainIn(t, c.inst) = 0
      <3>1. \A k \in 1 .. Len(t) : /\ Bytes(t[k], c.inst, {"DATA", "EXTDATA"}) = 0
                                   /\ Bytes(t[k], c.inst, {"DATA"}) = 0
        BY <2>3 DEF Bytes
      <3> QED BY <1>3, <3>1, InFlightNone DEF DataIn, PlainIn
    <2>5. CreditIn(t, c.inst) \in Nat
      BY <1>3, InFlightNat DEF CreditIn
    <2> QED BY <2>1, <2>2, <2>4, <2>5
  <1>9. c.type \in Est => CreditIn(q, c.inst) = c.local_window
    <2> SUFFICES ASSUME c.type \in Est PROVE CreditIn(t, c.inst) = c.local_window
      BY <1>8
    <2>1. c.type = "larval" /\ X # {}
      BY <1>3, <1>4 DEF Est, Accepts
    <2>2. c.local_window = 0
      BY <1>3, <2>1 DEF Made, LocalOK
    <2>3. t # <<>>
      BY <2>1 DEF Packets
    <2>4. PICK p \in Msg : t = <<p>> /\ p.n = c.local_window
      BY <2>3 DEF Begun
    <2>5. Len(t) = 1 /\ t[1] = p
      BY <2>4
    <2>6. \A k \in 1 .. Len(t) : Bytes(t[k], c.inst, {"ADJUST", "CONFIRM"}) = 0
      BY <2>2, <2>4, <2>5 DEF Bytes
    <2> QED BY <1>3, <2>2, <2>6, InFlightNone DEF CreditIn
  <1>10. Both(c, d, Tail(qA), q)
    <2>1. d \in Channel /\ LocalOK(d)
      BY <1>0, <1>2, TableAt
    <2>2. /\ d.remote_window = 0 /\ d.local_window = Window
          /\ d.taken = 0 /\ d.input = 0 /\ d.output = 0 /\ d.got = 0
      BY <1>2, <2>1 DEF LocalOK
    <2>3. /\ c.remote_window = Window /\ c.local_window \in Nat
          /\ c.taken = 0 /\ c.input = 0 /\ c.output = 0 /\ c.got = 0
      BY <1>2, <1>4 DEF Begun, Channel
    <2>4. c.type # "opening" /\ c.inst = d.inst
      BY <1>2, <1>4
    <2> HIDE DEF c, d, q
    <2> QED BY <1>2, <1>4, <1>7, <1>8, <1>9, <2>2, <2>3, <2>4, NewBoth
  <1>11. Flow(A1, B, Tail(qA), q)
    <2>1. ASSUME NEW k \in Ids, k # i, A[k].inst # 0
          PROVE  SameSums(qA, Tail(qA), A[k].inst) /\ SameSums(qB, q, A[k].inst)
      BY <1>0, <1>2, <1>5, TailSums
    <2>2. ASSUME NEW j \in Ids, B[j].inst = A1[i].inst
          PROVE  Both(A1[i], B[j], Tail(qA), q)
      <3>1. j = m.id
        BY <1>2, <1>4, <2>2
      <3> QED BY <1>10, <3>1
    <2> QED BY <1>0, <2>1, <2>2, FlowStep
  <1>12. SideOK(A1, PA1, e, alive)
    <2>1. m.ctype = "session" => e = "server"
      BY <1>0, <1>1 DEF SideOK
    <2>2. c.extended_usage # "write"
      BY DEF Begun
    <2> QED BY <1>0, <1>1, <1>4, <2>1, <2>2 DEF SideOK, Moved
  <1>13. SideOK(B, Packets(q), Peer(e), alive)
    <2>1. \A p \in X : p.t = "CONFIRM"
      BY <1>3 DEF Accepts
    <2> QED BY <1>0, <1>5, <2>1 DEF SideOK
  <1> QED BY <1>0, <1>1, <1>5, <1>6, <1>11, <1>12, <1>13 DEF World

\* An OPEN that is refused at once.
LEMMA RefuseWorld ==
  ASSUME NEW A, NEW B, NEW qA, NEW qB, NEW last, NEW e \in Endpoint, NEW alive,
         World(A, B, qA, qB, last, e, alive), qA # <<>>, Head(qA).t = "OPEN",
         NEW r \in Msg, r.t = "OPENFAIL", r.id = Head(qA).id, r.inst = Head(qA).inst,
         r.ctype = Head(qA).ctype
  PROVE  World(A, B, Tail(qA), qB \o <<r>>, last, e, alive)
  <1> DEFINE m == Head(qA)
             PA1 == Packets(Tail(qA))
             q == qB \o <<r>>
  <1>0. /\ last \in Nat /\ qA \in Seq(Msg) /\ qB \in Seq(Msg) /\ Flow(A, B, qA, qB)
        /\ Ordered(qA) /\ Ordered(qB)
        /\ Linked(A, B, Packets(qA), Packets(qB), last)
        /\ SideOK(A, Packets(qA), e, alive) /\ SideOK(B, Packets(qB), Peer(e), alive)
    BY WorldParts
  <1>1. /\ Ordered(Tail(qA)) /\ Tail(qA) \in Seq(Msg) /\ m \in Packets(qA)
        /\ Popped(Packets(qA), PA1, m) /\ PA1 \subseteq Packets(qA)
    BY <1>0, TailPopped DEF Popped
  <1>2. \A p \in Packets(qB) : p.inst # r.inst
    BY <1>0, <1>1, OpenArrives
  <1>3. /\ q \in Seq(Msg) /\ Ordered(q) /\ Packets(q) = Packets(qB) \cup {r}
        /\ \A n : SameSums(qB, q, n)
    BY <1>0, <1>2, OneMore DEF Counting
  <1>4. Linked(A, B, PA1, Packets(q), last)
    <2>1. /\ Linked(A, B, Packets(qA), Packets(qB), last) /\ last \in Nat
          /\ Popped(Packets(qA), PA1, m) /\ m.t = "OPEN" /\ r.id = m.id /\ r.inst = m.inst
          /\ r.ctype = m.ctype
      BY <1>0, <1>1
    <2>2. Linked(A, B, PA1, Packets(qB) \cup {r}, last)
      <3> HIDE DEF PA1, m
      <3> QED BY <2>1, RefuseLinked
    <2> QED BY <1>3, <2>2
  <1>5. Flow(A, B, Tail(qA), q)
    <2> SUFFICES ASSUME NEW i \in Ids, NEW j \in Ids, A[i].inst = B[j].inst, A[i].inst # 0
                 PROVE  Both(A[i], B[j], Tail(qA), q)
      BY DEF Flow
    <2>1. Both(A[i], B[j], qA, qB)
      BY <1>0 DEF Flow
    <2>2. SameSums(qA, Tail(qA), A[i].inst)
      BY <1>0, TailSums DEF Counting
    <2> HIDE DEF q
    <2> QED BY <1>3, <2>1, <2>2, SameBoth
  <1>6. SideOK(A, PA1, e, alive)
    BY <1>0, <1>1 DEF SideOK
  <1>7. SideOK(B, Packets(q), Peer(e), alive)
    BY <1>0, <1>3 DEF SideOK
  <1> QED BY <1>0, <1>1, <1>3, <1>4, <1>5, <1>6, <1>7 DEF World

\* A connect that came to an end: the channel c0 becomes c and the packet p
\* tells the opener.
Concluded(c0, c, i, p) ==
  /\ Settles(c0, c, i, p)
  /\ p.t = "CONFIRM" => p.n = c.local_window
  /\ c.remote_window = c0.remote_window /\ c.local_window = c0.local_window
  /\ c.taken = c0.taken /\ c.input = c0.input /\ c.output = c0.output /\ c.got = c0.got
  /\ c.wfail = c0.wfail /\ c.extended_usage = c0.extended_usage

\* The connect of a forwarding succeeds or fails.
LEMMA SettleWorld ==
  ASSUME NEW A, NEW B, NEW qA, NEW qB, NEW last, NEW e \in Endpoint, NEW alive,
         World(A, B, qA, qB, last, e, alive),
         NEW i \in Ids, A[i].type = "connecting", NEW A1, Moved(A, A1, i, A1[i]),
         NEW p, Concluded(A[i], A1[i], i, p)
  PROVE  World(A1, B, qA, qB \o <<p>>, last, e, alive)
  <1> DEFINE c0 == A[i]
             c == A1[i]
             n == c0.inst
             q == qB \o <<p>>
  <1>0. /\ last \in Nat /\ qA \in Seq(Msg) /\ qB \in Seq(Msg) /\ Flow(A, B, qA, qB)
        /\ Ordered(qA) /\ Ordered(qB) /\ Table(A, last) /\ Table(B, last)
        /\ Linked(A, B, Packets(qA), Packets(qB), last)
        /\ SideOK(A, Packets(qA), e, alive) /\ SideOK(B, Packets(qB), Peer(e), alive)
    BY WorldParts
  <1>1. Settles(c0, c, i, p) /\ p \in Msg /\ p.inst = n /\ c.inst = n
    BY DEF Concluded, Settles
  <1>2. /\ Linked(A1, B, Packets(qA), Packets(qB) \cup {p}, last)
        /\ \A k \in Packets(qA) : k.inst # n
        /\ \A k \in Packets(qB) : k.inst = n => k.t = "REPLY"
        /\ n # 0
        /\ \A j \in Ids : B[j].inst = n => B[j].type = "opening"
    <2> DEFINE PA == Packets(qA)
               PB == Packets(qB)
    <2>1. /\ Linked(A, B, PA, PB, last) /\ last \in Nat /\ Settles(A[i], A1[i], i, p)
          /\ A[i].type = "connecting" /\ Moved(A, A1, i, A1[i])
      BY <1>0, <1>1
    <2> HIDE DEF PA, PB
    <2>2. Linked(A1, B, PA, PB \cup {p}, last)
      BY <2>1, SettlesLinked
    <2>3. Half(A, B, PA, PB) /\ Table(A, last)
      BY <2>1 DEF Linked
    <2>4. ASSUME NEW k \in PA PROVE k.inst # A[i].inst
      BY <2>1, <2>3 DEF Half, Comes
    <2>5. ASSUME NEW k \in PB, k.inst = A[i].inst PROVE k.t = "REPLY"
      BY <2>1, <2>3, <2>5 DEF Half, Went
    <2>6. A[i].inst # 0
      BY <2>1, <2>3 DEF Table
    <2>7. ASSUME NEW j \in Ids, B[j].inst = A[i].inst PROVE B[j].type = "opening"
      BY <2>1, <2>3, <2>6, <2>7 DEF Half, Paired
    <2> QED BY <2>2, <2>4, <2>5, <2>6, <2>7 DEF PA, PB
  <1>3. p.t \in {"CONFIRM", "OPENFAIL"}
    BY <1>1 DEF Settles
  <1>4. /\ q \in Seq(Msg) /\ Ordered(q) /\ Packets(q) = Packets(qB) \cup {p}
        /\ \A k : k # n => SameSums(qB, q, k)
    <2>1. \A a \in Packets(qB) : a.inst = p.inst => MayFollow(a.t, p.t)
      BY <1>1, <1>2, <1>3 DEF MayFollow
    <2> QED BY <1>0, <1>1, <2>1, OneMore
  <1>5. /\ DataIn(qA, n) = 0 /\ CreditIn(qA, n) = 0 /\ PlainIn(qA, n) = 0
    BY <1>0, <1>2, SumsNone
  <1>6. /\ DataIn(qB, n) = 0 /\ CreditIn(qB, n) = 0 /\ PlainIn(qB, n) = 0
    BY <1>0, <1>2, SumsNone DEF Counting
  <1>7. /\ DataIn(q, n) = 0 /\ PlainIn(q, n) = 0
        /\ c.type \in Est => CreditIn(q, n) = c.local_window
    <2> DEFINE t == <<p>>
    <2>1. t \in Seq(Msg) /\ Len(t) = 1 /\ t[1] = p /\ t # <<>> /\ Head(t) = p /\ Tail(t) = <<>>
      BY <1>1
    <2>2. /\ DataIn(q, n) = DataIn(qB, n) + DataIn(t, n)
          /\ PlainIn(q, n) = PlainIn(qB, n) + PlainIn(t, n)
          /\ CreditIn(q, n) = CreditIn(qB, n) + CreditIn(t, n)
      <3>1. q = qB \o t
        OBVIOUS
      <3> HIDE DEF t, q, n
      <3> QED BY <1>0, <2>1, <3>1, InFlightConcat DEF DataIn, PlainIn, CreditIn
    <2>3. p.n \in Nat
      BY <1>1 DEF Msg
    <2> HIDE DEF t
    <2>4. /\ DataIn(<<>>, n) = 0 /\ PlainIn(<<>>, n) = 0 /\ CreditIn(<<>>, n) = 0
      BY InFlightEmpty DEF DataIn, PlainIn, CreditIn
    <2>5. /\ DataIn(t, n) = 0 /\ PlainIn(t, n) = 0
          /\ p.t = "CONFIRM" => CreditIn(t, n) = p.n + 0
      <3>1. Head(t).inst = n /\ Head(t).t = p.t /\ Head(t).n = p.n /\ Tail(t) = <<>>
        BY <1>1, <2>1
      <3>2. t \in Seq(Msg) /\ t # <<>>
        BY <2>1
      <3> HIDE DEF n
      <3>3. /\ p.t \notin {"DATA", "EXTDATA"} => DataIn(t, n) = DataIn(<<>>, n)
            /\ p.t # "DATA" => PlainIn(t, n) = PlainIn(<<>>, n)
            /\ p.t \in {"ADJUST", "CONFIRM"} => CreditIn(t, n) = p.n + CreditIn(<<>>, n)
        BY <3>1, <3>2, HeadSums
      <3> QED BY <1>3, <2>4, <3>3
    <2>6. c.type \in Est => p.t = "CONFIRM" /\ p.n = c.local_window
      BY <1>1 DEF Settles, Est, Concluded
    <2> QED BY <1>6, <2>2, <2>3, <2>5, <2>6
  <1>8. c0 \in Channel /\ c \in Channel /\ LocalOK(c0)
    BY <1>0, <1>1, TableAt DEF Settles
  <1>9. ASSUME NEW j \in Ids, B[j].inst = A1[i].inst
        PROVE  Both(A1[i], B[j], qA, q)
    <2> DEFINE d == B[j]
    <2>1. d.type = "opening" /\ d \in Channel /\ LocalOK(d) /\ d.inst = n
      BY <1>0, <1>1, <1>2, <1>9, TableAt
    <2>2. /\ d.remote_window = 0 /\ d.local_window = Window /\ d.flags = {}
          /\ d.taken = 0 /\ d.input = 0 /\ d.output = 0 /\ d.got = 0
      BY <2>1 DEF LocalOK, Fresh
    <2>3. /\ c.local_window \in Nat /\ c.remote_window = c0.remote_window
          /\ c.taken = 0 /\ c.input = 0 /\ c.output = 0 /\ c.got = 0
          /\ c.flags = {} /\ c.type # "opening"
      BY <1>1, <1>8 DEF LocalOK, Concluded, Settles, Channel
    <2>4. Both(c0, d, qA, qB)
      BY <1>0, <1>2, <2>1 DEF Flow
    <2>5. c.remote_window <= Window /\ (Accounted(d) => c.remote_window = Window)
      <3>1. /\ Total(c0, qA, qB) <= d.local_window
            /\ Accounted(d) => Total(c0, qA, qB) = d.local_window
        BY <2>1, <2>4 DEF Both, CreditOK
      <3>2. Total(c0, qA, qB) = c0.remote_window + 0 + 0
        BY <1>5, <1>6 DEF Total
      <3>3. c0.remote_window \in Nat
        BY <1>8 DEF Channel
      <3> QED BY <2>2, <2>3, <3>1, <3>2, <3>3
    <2>6. CreditOK(c, d, qA, q)
      <3>1. Total(c, qA, q) = c.remote_window + 0 + 0
        BY <1>1, <1>5, <1>7 DEF Total
      <3>2. c.remote_window \in Nat
        BY <1>8 DEF Channel
      <3> QED BY <2>2, <2>5, <3>1, <3>2 DEF CreditOK
    <2>7. CreditOK(d, c, q, qA)
      <3>1. c.type \in Est => Total(d, q, qA) = 0 + 0 + c.local_window
        BY <1>5, <1>7, <2>1, <2>2 DEF Total
      <3> QED BY <2>3, <3>1 DEF CreditOK
    <2>8. BytesOK(c, d, q) /\ BytesOK(d, c, qA)
      BY <1>1, <1>5, <1>7, <2>1, <2>2, <2>3 DEF BytesOK, EofDrained
    <2> QED BY <2>6, <2>7, <2>8 DEF Both
  <1>10. Flow(A1, B, qA, q)
    <2>1. ASSUME NEW k \in Ids, k # i, A[k].inst # 0
          PROVE  SameSums(qA, qA, A[k].inst) /\ SameSums(qB, q, A[k].inst)
      <3>1. A[k].inst # n
        BY <1>0, <2>1, TableAt
      <3> QED BY <1>4, <3>1 DEF SameSums
    <2> QED BY <1>0, <1>9, <2>1, FlowStep
  <1>11. SideOK(A1, Packets(qA), e, alive)
    <2>1. c.ctype = c0.ctype /\ c.extended_usage = c0.extended_usage
      BY <1>1 DEF Settles, Concluded
    <2> QED BY <1>0, <2>1 DEF SideOK, Moved
  <1>12. SideOK(B, Packets(q), Peer(e), alive)
    BY <1>0, <1>3, <1>4 DEF SideOK
  <1> QED BY <1>0, <1>2, <1>4, <1>10, <1>11, <1>12 DEF World

\* A keepalive probe of the server.
LEMMA ProbeWorld ==
  ASSUME NEW A, NEW B, NEW qA, NEW qB, NEW last, NEW e \in Endpoint, NEW alive \in Nat,
         World(A, B, qA, qB, last, e, alive), e = "server",
         NEW i \in Ids, A[i].type \in {"larval", "open"},
         NEW p \in Msg, p.t = "KEEPALIVE", p.inst = A[i].inst
  PROVE  World(A, B, qA, qB \o <<p>>, last, e, alive + 1)
  <1> DEFINE q == qB \o <<p>>
  <1>0. /\ last \in Nat /\ qA \in Seq(Msg) /\ qB \in Seq(Msg) /\ Flow(A, B, qA, qB)
        /\ Ordered(qA) /\ Ordered(qB)
        /\ Linked(A, B, Packets(qA), Packets(qB), last)
        /\ SideOK(A, Packets(qA), e, alive) /\ SideOK(B, Packets(qB), Peer(e), alive)
    BY WorldParts
  <1>1. \A a \in Packets(qB) : a.inst = p.inst => MayFollow(a.t, p.t)
    BY DEF MayFollow, Carrying, Real
  <1>2. /\ q \in Seq(Msg) /\ Ordered(q) /\ Packets(q) = Packets(qB) \cup {p}
        /\ \A n : SameSums(qB, q, n)
    BY <1>0, <1>1, OneMore DEF Counting
  <1>3. Linked(A, B, Packets(qA), Packets(q), last)
    BY <1>0, <1>2, ProbeLinked
  <1>4. Flow(A, B, qA, q)
    <2> SUFFICES ASSUME NEW k \in Ids, NEW j \in Ids, A[k].inst = B[j].inst, A[k].inst # 0
                 PROVE  Both(A[k], B[j], qA, q)
      BY DEF Flow
    <2>1. Both(A[k], B[j], qA, qB) /\ SameSums(qA, qA, A[k].inst)
      BY <1>0 DEF Flow, SameSums
    <2> HIDE DEF q
    <2> QED BY <1>2, <2>1, SameBoth
  <1>5. alive + 1 > 0 /\ Peer(e) = "client"
    BY DEF Peer
  <1>6. SideOK(A, Packets(qA), e, alive + 1)
    BY <1>0, <1>5 DEF SideOK
  <1>7. SideOK(B, Packets(q), Peer(e), alive + 1)
    BY <1>0, <1>2, <1>5 DEF SideOK
  <1> QED BY <1>0, <1>2, <1>3, <1>4, <1>6, <1>7 DEF World

\* The invariant seen from either end.
LEMMA Looks ==
  ASSUME LinkInv, NEW e \in Endpoint
  PROVE  World(chan[e], chan[Peer(e)], net[e], net[Peer(e)], opens, e, probes)
  <1>1. World(chan["client"], chan["server"], net["client"], net["server"], opens,
              "client", probes)
    BY DEF LinkInv
  <1>2. "client" \in Endpoint /\ Peer("client") = "server"
    BY DEF Endpoint, Peer
  <1>3. World(chan["server"], chan["client"], net["server"], net["client"], opens,
              "server", probes)
    BY <1>1, <1>2, WorldSwap
  <1>4. CASE e = "client"
    BY <1>1, <1>2, <1>4
  <1>5. CASE e = "server"
    <2>1. Peer(e) = "client"
      BY <1>5 DEF Peer
    <2> QED BY <1>3, <1>5, <2>1
  <1> QED BY <1>4, <1>5 DEF Endpoint

\* The same for the state after a step.
LEMMA Seen ==
  ASSUME NEW e \in Endpoint,
         World(chan'[e], chan'[Peer(e)], net'[e], net'[Peer(e)], opens', e, probes')
  PROVE  LinkInv'
  <1>1. CASE e = "client"
    <2>1. Peer(e) = "server"
      BY <1>1 DEF Peer
    <2> QED BY <1>1, <2>1 DEF LinkInv
  <1>2. CASE e = "server"
    <2>1. Peer(e) = "client" /\ Peer("server") = "client"
      BY <1>2 DEF Peer
    <2>2. World(chan'["client"], chan'["server"], net'["client"], net'["server"], opens',
                Peer("server"), probes')
      BY <1>2, <2>1, WorldSwap
    <2> QED BY <2>1, <2>2 DEF LinkInv
  <1> QED BY <1>1, <1>2 DEF Endpoint

\* A step that ends well, or with the one failure that can happen.
LEMMA Spares ==
  ASSUME IndInv, GivesUp, NEW e \in Endpoint, NEW x, err' = [err EXCEPT ![e] = x],
         x = "none" \/ (x = "fatal" /\ e = "client" /\ probes > 0),
         probes' = probes
  PROVE  GivesUp'
  <1>1. err \in [Endpoint -> Errors]
    BY DEF IndInv, TypeOK
  <1> SUFFICES ASSUME NEW f \in Endpoint
               PROVE  err'[f] = "none" \/ (err'[f] = "fatal" /\ f = "client" /\ probes' > 0)
    BY DEF GivesUp
  <1>2. CASE f = e
    BY <1>1, <1>2
  <1>3. CASE f # e
    BY <1>1, <1>3 DEF GivesUp
  <1> QED BY <1>2, <1>3

\* The tables and queues after one slot was stored and packets were sent.
LEMMA StoredAt ==
  ASSUME IndInv, NEW e \in Endpoint, NEW i \in Ids, NEW c \in Channel,
         chan' = [chan EXCEPT ![e][i] = c]
  PROVE  /\ Moved(chan[e], chan'[e], i, c)
         /\ chan'[Peer(e)] = chan[Peer(e)]
  <1>1. chan \in [Endpoint -> [Ids -> Channel]]
    BY DEF IndInv, TypeOK
  <1>2. Peer(e) \in Endpoint /\ Peer(e) # e
    BY DEF Endpoint, Peer
  <1>3. chan'[e] = [chan[e] EXCEPT ![i] = c] /\ chan'[Peer(e)] = chan[Peer(e)]
    BY <1>1, <1>2
  <1>4. chan[e] \in [Ids -> Channel]
    BY <1>1
  <1> QED BY <1>3, <1>4 DEF Moved

\* SendAll adds to the queue of the peer only.
LEMMA SentAt ==
  ASSUME IndInv, NEW e \in Endpoint, NEW w, SendAll(e, w)
  PROVE  net'[Peer(e)] = net[Peer(e)] \o w.tx /\ net'[e] = net[e]
  <1>1. net \in [Endpoint -> Seq(Msg)]
    BY DEF IndInv, TypeOK
  <1>2. Peer(e) \in Endpoint /\ Peer(e) # e
    BY DEF Endpoint, Peer
  <1> QED BY <1>1, <1>2 DEF SendAll

\* Answer consumes one packet and adds to the queue of the peer.
LEMMA AnsweredAt ==
  ASSUME IndInv, NEW e \in Endpoint, NEW tx, Answer(e, tx)
  PROVE  net'[Peer(e)] = net[Peer(e)] \o tx /\ net'[e] = Tail(net[e])
  <1>1. net \in [Endpoint -> Seq(Msg)]
    BY DEF IndInv, TypeOK
  <1>2. Peer(e) \in Endpoint /\ Peer(e) # e
    BY DEF Endpoint, Peer
  <1> QED BY <1>1, <1>2 DEF Answer

\* What the first invariant says of the channel in slot i.
LEMMA SlotGood ==
  ASSUME IndInv, LinkInv, NEW e \in Endpoint, NEW i \in Ids
  PROVE  /\ chan[e][i] \in Channel /\ ShutFirst(chan[e][i]) /\ StaysAttached(chan[e][i])
         /\ LocalOK(chan[e][i])
         /\ Begin(chan[e][i]) \in Sound(chan[e][i], FALSE)
         /\ Begin(chan[e][i]).c = chan[e][i]
  <1>1. Table(chan[e], opens) /\ opens \in Nat
    BY Looks, WorldParts
  <1>2. chan[e][i] \in Channel /\ ShutFirst(chan[e][i]) /\ LocalOK(chan[e][i])
    BY <1>1, TableAt
  <1>3. StaysAttached(chan[e][i])
    BY DEF IndInv, SessionAttached
  <1> QED BY <1>2, <1>3, BeginSound

\* One slot is handled and ends as GarbageCollectEnded says.
LEMMA EndedStep ==
  ASSUME IndInv, LinkInv, GivesUp, NEW e \in Endpoint, NEW i \in Ids, NEW g,
         Ended(chan[e][i], g), Store(e, i, g), SendAll(e, g),
         UNCHANGED <<opens, probes>>
  PROVE  LinkInv' /\ GivesUp'
  <1>1. g.c \in Channel /\ g.err = "none"
    <2>1. PICK v \in Tells(chan[e][i], FALSE) :
            /\ g.tx = v.tx /\ g.err = "none"
            /\ g.c = v.c \/ (g.c = FreeChan /\ Over(v.c))
      BY DEF Ended
    <2>2. v.c \in Channel
      BY TellsTurn
    <2>3. FreeChan \in Channel
      BY FreeChanGood
    <2> QED BY <2>1, <2>2, <2>3
  <1>2. chan' = [chan EXCEPT ![e][i] = g.c] /\ err' = [err EXCEPT ![e] = g.err]
    BY DEF Store
  <1>3. Moved(chan[e], chan'[e], i, g.c) /\ chan'[Peer(e)] = chan[Peer(e)]
    BY <1>1, <1>2, StoredAt
  <1>4. net'[Peer(e)] = net[Peer(e)] \o g.tx /\ net'[e] = net[e]
    BY SentAt
  <1>5. World(chan[e], chan[Peer(e)], net[e], net[Peer(e)], opens, e, probes)
    BY Looks
  <1>6. World(chan'[e], chan[Peer(e)], net[e], net[Peer(e)] \o g.tx, opens, e, probes)
    BY <1>3, <1>5, EndedWorld
  <1>7. LinkInv'
    BY <1>3, <1>4, <1>6, Seen
  <1>8. GivesUp'
    BY <1>1, <1>2, Spares
  <1> QED BY <1>7, <1>8

\* The output phase.
LEMMA OutputPollLinks ==
  ASSUME IndInv, LinkInv, GivesUp, NEW e \in Endpoint, OutputPoll(e)
  PROVE  LinkInv' /\ GivesUp'
  <1> DEFINE c == chan[e][cur[e]]
             w == channel_output_poll(Begin(c))
  <1>1. cur[e] \in Ids
    BY DEF IndInv, TypeOK
  <1>2. c \in Channel /\ Begin(c) \in Sound(c, FALSE)
    BY <1>1, SlotGood
  <1>3. w \in Tells(c, FALSE)
    BY <1>2, OutputPollSound, SoundTells
  <1>4. Ended(c, w)
    BY <1>3, SoundEnded
  <1>5. Store(e, cur[e], w) /\ SendAll(e, w) /\ UNCHANGED <<opens, probes>>
    BY DEF OutputPoll
  <1> HIDE DEF w
  <1> QED BY <1>1, <1>4, <1>5, EndedStep

\* The exit of a command.
LEMMA ChildExitLinks ==
  ASSUME IndInv, LinkInv, GivesUp, NEW e \in Endpoint, NEW i \in Ids, ChildExit(e, i)
  PROVE  LinkInv' /\ GivesUp'
  <1> DEFINE c == chan[e][i]
             w == session_exit_message(Begin(c))
  <1>2. Begin(c) \in Sound(c, FALSE) /\ Begin(c).c = c /\ c.child
    BY SlotGood DEF ChildExit
  <1>3. w \in Tells(c, FALSE)
    BY <1>2, SessionExitSound, SoundTells
  <1>4. Ended(c, w)
    BY <1>3, SoundEnded
  <1>5. Store(e, i, w) /\ SendAll(e, w) /\ UNCHANGED <<opens, probes>>
    BY DEF ChildExit
  <1> HIDE DEF w
  <1> QED BY <1>4, <1>5, EndedStep

\* The PRE phase, timeout and collector included.
LEMMA PreLinks ==
  ASSUME IndInv, LinkInv, GivesUp, NEW e \in Endpoint, NEW expired \in BOOLEAN,
         Pre(e, expired)
  PROVE  LinkInv' /\ GivesUp'
  <1> DEFINE c == chan[e][cur[e]]
             d == [c EXCEPT !.delayed = FALSE]
             b == Begin(d)
             w == IF expired THEN channel_force_close(b) ELSE channel_pre(b)
             g == channel_garbage_collect(w)
  <1>1. cur[e] \in Ids
    BY DEF IndInv, TypeOK
  <1>2. /\ c \in Channel /\ ShutFirst(c) /\ StaysAttached(c)
        /\ Begin(c) \in Sound(c, FALSE) /\ Begin(c).c = c
    BY <1>1, SlotGood
  <1>3. d \in Channel /\ Control(d) = Control(c)
    BY <1>2, Zenon DEF Channel, Control
  <1>4. Wire(d) = Wire(c) /\ d.istate = c.istate /\ d.type = c.type
    BY <1>2 DEF Wire, Channel
  <1>5. /\ Store(e, cur[e], g) /\ SendAll(e, g) /\ UNCHANGED <<opens, probes>>
        /\ expired => b.c.type = "open"
    BY DEF Pre
  <1> HIDE DEF d, c
  <1>6. ShutFirst(d) /\ StaysAttached(d)
    BY <1>2, <1>3 DEF Control, ShutFirst, StaysAttached, Attached
  <1>7. b \in Good
    BY <1>3, <1>6, BeginGood
  <1>8. b.c = d /\ b.tx = Begin(c).tx /\ b.err = Begin(c).err
    BY DEF Begin
  <1> HIDE DEF b
  <1>9. b \in Sound(c, FALSE)
    BY <1>2, <1>4, <1>7, <1>8, SameWire
  <1>10. w \in Sound(c, FALSE)
    BY <1>5, <1>9, ForceCloseSound, PreSound
  <1> HIDE DEF w
  <1>11. Ended(c, g)
    BY <1>10, GarbageCollectEnded
  <1> HIDE DEF g
  <1> QED BY <1>1, <1>5, <1>11, EndedStep DEF c

\* Clearing io_want after the slot is done.
LEMMA IoEnded ==
  ASSUME NEW c0, NEW w \in Work, Ended(c0, w)
  PROVE  Ended(c0, [w EXCEPT !.c.io_want = {}])
  <1> DEFINE g == [w EXCEPT !.c.io_want = {}]
  <1>1. PICK v \in Tells(c0, FALSE) :
          /\ w.tx = v.tx /\ w.err = "none"
          /\ w.c = v.c \/ (w.c = FreeChan /\ Over(v.c))
    BY DEF Ended
  <1>2. w.c \in Channel /\ v \in Work /\ v.c \in Channel /\ v.err = "none"
    BY DEF Work, Tells
  <1>3. g.tx = w.tx /\ g.err = w.err /\ g.c = [w.c EXCEPT !.io_want = {}]
    BY DEF Work
  <1>4. CASE w.c = FreeChan /\ Over(v.c)
    <2>1. [FreeChan EXCEPT !.io_want = {}] = FreeChan
      <3>1. ASSUME NEW c \in Channel, c.io_want = {}
            PROVE  [c EXCEPT !.io_want = {}] = c
        BY <3>1 DEF Channel
      <3>2. FreeChan \in Channel /\ FreeChan.io_want = {}
        BY FreeChanGood DEF FreeChan
      <3> QED BY <3>1, <3>2
    <2> QED BY <1>1, <1>3, <1>4, <2>1 DEF Ended
  <1>5. CASE w.c = v.c
    <2> DEFINE u == [v EXCEPT !.c.io_want = {}]
    <2>1. u.tx = v.tx /\ u.err = v.err /\ u.c = [v.c EXCEPT !.io_want = {}] /\ u \in Work
      BY <1>2 DEF Work, Channel
    <2>2. Wire(u.c) = Wire(v.c) /\ u.c.istate = v.c.istate
      BY <1>2, <2>1 DEF Wire, Channel
    <2> HIDE DEF u
    <2>3. u \in Tells(c0, FALSE)
      BY <2>1, <2>2, SameWireTells
    <2>4. g.tx = u.tx /\ g.err = "none" /\ g.c = u.c
      BY <1>1, <1>3, <1>5, <2>1
    <2> QED BY <2>3, <2>4 DEF Ended
  <1> QED BY <1>1, <1>4, <1>5

\* The collector frees a channel that was marked dead.
LEMMA ZombieCollect ==
  ASSUME NEW w \in Good, w.c.type = "zombie"
  PROVE  LET g == channel_garbage_collect(w)
         IN  g.c = FreeChan /\ g.tx = w.tx /\ g.err = w.err
  <1> DEFINE g == channel_garbage_collect(w)
             u == DetachUser(w, FALSE)
  <1>1. w \in Work /\ ~w.c.child
    BY DEF Good, StaysAttached
  <1>2. \A v \in {w, u} : v \in Work /\ v.c.type = "zombie" /\ v.tx = w.tx /\ v.err = w.err
    <2>1. u \in Work /\ u.c.type = "zombie" /\ u.tx = w.tx /\ u.err = w.err
      BY <1>1, ZenonT(60) DEF DetachUser, session_close_by_channel, channel_cancel_cleanup,
                              Work, Channel
    <2> QED BY <1>1, <2>1
  <1>3. u.c.detach_user = "none"
    <2>1. w.c.detach_user \in {"none", "session", "client"}
      BY <1>1 DEF Work, Channel
    <2> QED BY <1>1, <2>1
            DEF DetachUser, session_close_by_channel, channel_cancel_cleanup, Work, Channel
  <1>4. ASSUME NEW v \in Work, v.c.type = "zombie"
        PROVE  /\ CollectDetached(v).c = FreeChan
               /\ CollectDetached(v).tx = v.tx /\ CollectDetached(v).err = v.err
    <2>1. SendClose(v, TRUE) = v
      BY <1>4 DEF SendClose
    <2>2. CollectDetached(v) = channel_free(v)
      BY <1>4, <2>1 DEF CollectDetached, chan_is_dead
    <2> QED BY <2>2 DEF channel_free, Work
  <1>5. CASE w.c.detach_user = "none"
    <2>1. g = CollectDetached(w)
      BY <1>5 DEF channel_garbage_collect
    <2> QED BY <1>1, <1>4, <2>1
  <1>6. CASE w.c.detach_user # "none"
    <2>1. SendClose(w, w.c.detach_close) = w
      BY DEF SendClose
    <2>2. chan_is_dead(w.c, w.c.detach_close)
      BY DEF chan_is_dead
    <2>3. g = CollectDetached(u)
      BY <1>3, <1>6, <2>1, <2>2 DEF channel_garbage_collect
    <2>4. u \in Work /\ u.c.type = "zombie" /\ u.tx = w.tx /\ u.err = w.err
      BY <1>2
    <2> HIDE DEF u
    <2> QED BY <1>4, <2>3, <2>4
  <1> QED BY <1>5, <1>6

\* The collector leaves a channel alone whose halves are open.
LEMMA FreshCollect ==
  ASSUME NEW w, w.c.istate = "open", w.c.type # "zombie"
  PROVE  channel_garbage_collect(w) = w
  <1>1. \A b \in {TRUE, w.c.detach_close} :
          SendClose(w, b) = w /\ ~chan_is_dead(w.c, b)
    BY DEF SendClose, chan_is_dead, HalvesClosed
  <1> QED BY <1>1 DEF channel_garbage_collect, CollectDetached

\* The end of a connect, seen from channel_post_connecting: the two outcomes
\* and the packet that reports each.
LEMMA ConnectingEnds ==
  ASSUME NEW c \in Channel, ShutFirst(c), StaysAttached(c), LocalOK(c),
         c.type = "connecting", NEW i \in Ids
  PROVE  LET o == [Confirm(Begin(c), i) EXCEPT !.c.type = "open"]
             f == chan_mark_dead(Send(Begin(c), "OPENFAIL", 0))
         IN  /\ o.c.istate = "open" /\ o.c.type = "open" /\ o.err = "none"
             /\ f \in Good /\ f.c.type = "zombie" /\ f.err = "none"
             /\ \E p \in Msg : /\ o.tx = <<p>>
                               /\ Concluded(c, [o EXCEPT !.c.io_want = {}].c, i, p)
             /\ \E p \in Msg : f.tx = <<p>> /\ Concluded(c, f.c, i, p)
  <1> DEFINE o == [Confirm(Begin(c), i) EXCEPT !.c.type = "open"]
             f == chan_mark_dead(Send(Begin(c), "OPENFAIL", 0))
             a == [c EXCEPT !.type = "open"]
             b == [a EXCEPT !.io_want = {}]
             z == [c EXCEPT !.type = "zombie"]
             p == [t |-> "CONFIRM", id |-> c.remote_id, self |-> i, n |-> c.local_window,
                   ctype |-> c.ctype, inst |-> c.inst]
             r == [t |-> "OPENFAIL", id |-> c.remote_id, self |-> NoId, n |-> 0,
                   ctype |-> c.ctype, inst |-> c.inst]
  <1>1. c.remote_id \in Ids /\ c.remote_id # NoId /\ Fresh(c)
    BY DEF LocalOK, Channel
  <1>2. p \in Msg /\ r \in Msg
    BY <1>1 DEF Msg, Channel, MsgType
  <1>3. o.c = a /\ o.tx = <<p>> /\ o.err = "none"
    <2>1. Confirm(Begin(c), i) = [Begin(c) EXCEPT !.tx = Append(@, p)]
      BY <1>1 DEF Confirm, SendFrom, Begin
    <2>2. Append(<<>>, p) = <<p>>
      OBVIOUS
    <2> HIDE DEF p
    <2> QED BY <2>1, <2>2 DEF Begin
  <1>4. f.c = z /\ f.tx = <<r>> /\ f.err = "none"
    <2>1. Send(Begin(c), "OPENFAIL", 0) = [Begin(c) EXCEPT !.tx = Append(@, r)]
      BY <1>1 DEF Send, SendFrom, Begin
    <2>2. Append(<<>>, r) = <<r>>
      OBVIOUS
    <2> HIDE DEF r
    <2> QED BY <2>1, <2>2 DEF Begin, chan_mark_dead
  <1>5. f \in Good
    <2>1. Begin(c) \in Good
      BY BeginGood
    <2>2. "OPENFAIL" \in MsgType /\ 0 \in Nat
      BY DEF MsgType
    <2>3. Send(Begin(c), "OPENFAIL", 0) \in Good /\ Send(Begin(c), "OPENFAIL", 0).c = c
      BY <2>1, <2>2, SendGood DEF Begin
    <2> HIDE DEF r
    <2> QED BY <2>3, MarkDeadGood
  <1>6. /\ [o EXCEPT !.c.io_want = {}].c = b
    <2> HIDE DEF b, p
    <2>1. o = [c |-> a, tx |-> <<p>>, err |-> "none"]
      <3>1. Confirm(Begin(c), i) = [Begin(c) EXCEPT !.tx = Append(@, p)]
        BY <1>1 DEF Confirm, SendFrom, Begin, p
      <3>2. Append(<<>>, p) = <<p>>
        OBVIOUS
      <3> QED BY <3>1, <3>2 DEF Begin
    <2> HIDE DEF o, a
    <2>2. [o EXCEPT !.c.io_want = {}].c = [o.c EXCEPT !.io_want = {}]
      BY <2>1
    <2> QED BY <1>3, <2>2 DEF b, a
  <1>7. a.istate = "open" /\ a.type = "open"
    BY <1>1 DEF Channel, Fresh
  <1> DEFINE Like(v) ==
               /\ v.ctype = c.ctype /\ v.istate = c.istate /\ v.ostate = c.ostate
               /\ v.flags = c.flags /\ v.remote_id = c.remote_id /\ v.input = c.input
               /\ v.output = c.output /\ v.extended = c.extended /\ v.efd = c.efd
               /\ v.extended_usage = c.extended_usage /\ v.local_window = c.local_window
               /\ v.local_window_max = c.local_window_max
               /\ v.local_consumed = c.local_consumed
               /\ v.remote_window = c.remote_window /\ v.inst = c.inst /\ v.taken = c.taken
               /\ v.got = c.got /\ v.wfail = c.wfail
  <1>8. b \in Channel /\ b.type = "open" /\ Like(b)
    BY DEF Channel, ChanType
  <1>8a. z \in Channel /\ z.type = "zombie" /\ Like(z)
    BY DEF Channel, ChanType
  <1> HIDE DEF b, z
  <1>9. LocalOK(b) /\ LocalOK(z) /\ ShutFirst(b) /\ ShutFirst(z)
    BY <1>1, <1>8, <1>8a DEF LocalOK, Accounted, Fresh, Est, ShutFirst
  <1>10. Concluded(c, b, i, p)
    BY <1>1, <1>2, <1>8, <1>9 DEF Concluded, Settles, Fresh
  <1>11. Concluded(c, z, i, r)
    BY <1>1, <1>2, <1>8a, <1>9 DEF Concluded, Settles, Fresh
  <1> HIDE DEF p, r, a, o, f
  <1>12. \E k \in Msg : o.tx = <<k>> /\ Concluded(c, [o EXCEPT !.c.io_want = {}].c, i, k)
    BY <1>2, <1>3, <1>6, <1>10
  <1>13. \E k \in Msg : f.tx = <<k>> /\ Concluded(c, f.c, i, k)
    BY <1>2, <1>4, <1>11
  <1>14. /\ o.c.istate = "open" /\ o.c.type = "open" /\ o.err = "none"
         /\ f.c.type = "zombie" /\ f.err = "none"
    BY <1>3, <1>4, <1>7, <1>8a
  <1> QED BY <1>5, <1>12, <1>13, <1>14 DEF o, f

\* The POST phase on a channel that waits for its connect.
LEMMA ConnectedLinks ==
  ASSUME IndInv, LinkInv, GivesUp, NEW e \in Endpoint, NEW i \in Ids,
         chan[e][i].type = "connecting",
         NEW g, NEW p \in Msg, g.tx = <<p>>, g.err = "none",
         \/ Concluded(chan[e][i], g.c, i, p)
         \/ g.c = FreeChan /\ \E z : z.type = "zombie" /\ Concluded(chan[e][i], z, i, p),
         Store(e, i, g), SendAll(e, g), UNCHANGED <<opens, probes>>
  PROVE  LinkInv' /\ GivesUp'
  <1> DEFINE A == chan[e]
             B == chan[Peer(e)]
             qA == net[e]
             qB == net[Peer(e)]
  <1>1. World(A, B, qA, qB, opens, e, probes) /\ A \in [Ids -> Channel]
    BY Looks DEF IndInv, TypeOK
  <1>2. chan' = [chan EXCEPT ![e][i] = g.c] /\ err' = [err EXCEPT ![e] = g.err]
    BY DEF Store
  <1>3. g.c \in Channel
    BY FreeChanGood DEF Concluded, Settles
  <1>4. Moved(A, chan'[e], i, g.c) /\ chan'[Peer(e)] = B
    BY <1>2, <1>3, StoredAt
  <1>5. net'[Peer(e)] = qB \o <<p>> /\ net'[e] = qA
    BY SentAt
  <1>6. World(chan'[e], B, qA, qB \o <<p>>, opens, e, probes)
    <2>1. CASE Concluded(A[i], g.c, i, p)
      <3>1. chan'[e][i] = g.c
        BY <1>4 DEF Moved
      <3> QED BY <1>1, <1>4, <2>1, <3>1, SettleWorld
    <2>2. ASSUME NEW z, g.c = FreeChan, z.type = "zombie", Concluded(A[i], z, i, p)
          PROVE  World(chan'[e], B, qA, qB \o <<p>>, opens, e, probes)
      <3> DEFINE A2 == [A EXCEPT ![i] = z]
      <3>1. z \in Channel
        BY <2>2 DEF Concluded, Settles
      <3>2. Moved(A, A2, i, z) /\ A2[i] = z
        BY <1>1, <3>1 DEF Moved
      <3>3. Moved(A2, chan'[e], i, FreeChan)
        BY <1>4, <2>2, <3>2 DEF Moved
      <3> HIDE DEF A2
      <3>4. World(A2, B, qA, qB \o <<p>>, opens, e, probes)
        BY <1>1, <2>2, <3>2, SettleWorld
      <3>5. Over(A2[i])
        BY <2>2, <3>2 DEF Over
      <3> QED BY <3>3, <3>4, <3>5, FreeWorld
    <2> QED BY <2>1, <2>2
  <1>7. LinkInv'
    BY <1>4, <1>5, <1>6, Seen
  <1>8. GivesUp'
    BY <1>2, Spares
  <1> QED BY <1>7, <1>8

\* The POST phase, whatever poll reports.
LEMMA PostLinks ==
  ASSUME IndInv, LinkInv, GivesUp, NEW e \in Endpoint, Post(e)
  PROVE  LinkInv' /\ GivesUp'
  <1> DEFINE i == cur[e]
             c == chan[e][i]
             P(io) == channel_post(Begin(c), io, i)
             W(io) == channel_garbage_collect(P(io))
             V(io) == [W(io) EXCEPT !.c.io_want = {}]
             G(io) == IF c.delayed THEN Begin(c) ELSE V(io)
  <1>1. PICK io \in PollResults(c) :
          /\ Store(e, i, G(io)) /\ SendAll(e, G(io))
          /\ UNCHANGED <<opens, probes>>
    BY DEF Post, PostWith
  <1>2. i \in Ids
    BY DEF IndInv, TypeOK
  <1>3. /\ c \in Channel /\ ShutFirst(c) /\ StaysAttached(c) /\ LocalOK(c)
        /\ Begin(c) \in Sound(c, FALSE) /\ Begin(c).c = c
    BY <1>2, SlotGood
  <1>4. Begin(c) \in Good
    BY <1>3, SoundParts
  <1>5. P(io) \in Good
    BY <1>1, <1>2, <1>3, <1>4, PostGood
  <1>6. W(io) \in Work
    <2> HIDE DEF P
    <2> QED BY <1>5, GarbageCollectGood DEF Good
  <1>7. CASE c.delayed
    <2>1. Store(e, i, Begin(c)) /\ SendAll(e, Begin(c))
      BY <1>1, <1>7
    <2>2. Ended(c, Begin(c))
      BY <1>3, SoundTells, SoundEnded
    <2> QED BY <1>1, <1>2, <2>1, <2>2, EndedStep
  <1>8. ASSUME ~c.delayed, P(io) \in Sound(c, FALSE)
        PROVE  LinkInv' /\ GivesUp'
    <2>1. Store(e, i, V(io)) /\ SendAll(e, V(io))
      BY <1>1, <1>8
    <2>2. Ended(c, W(io))
      BY <1>8, GarbageCollectEnded
    <2>3. Ended(c, V(io))
      <3> HIDE DEF W
      <3> QED BY <1>6, <2>2, IoEnded
    <2> HIDE DEF V
    <2> QED BY <1>1, <1>2, <2>1, <2>3, EndedStep
  <1>9. CASE ~c.delayed /\ c.type = "open"
    <2>1. P(io) \in Sound(c, FALSE)
      BY <1>1, <1>3, <1>9, PostOpenSound DEF channel_post
    <2> QED BY <1>8, <1>9, <2>1
  <1>10. CASE ~c.delayed /\ c.type \notin {"open", "connecting"}
    <2>1. P(io) = Begin(c)
      BY <1>3, <1>10 DEF channel_post
    <2> QED BY <1>3, <1>8, <1>10, <2>1
  <1>11. CASE ~c.delayed /\ c.type = "connecting"
    <2> DEFINE o == [Confirm(Begin(c), i) EXCEPT !.c.type = "open"]
               f == chan_mark_dead(Send(Begin(c), "OPENFAIL", 0))
    <2>1. P(io) = channel_post_connecting(Begin(c), io, i)
      BY <1>3, <1>11 DEF channel_post
    <2>2. Store(e, i, V(io)) /\ SendAll(e, V(io))
      BY <1>1, <1>11
    <2>3. /\ o.c.istate = "open" /\ o.c.type = "open" /\ o.err = "none"
          /\ f \in Good /\ f.c.type = "zombie" /\ f.err = "none"
          /\ \E p \in Msg : o.tx = <<p>> /\ Concluded(c, [o EXCEPT !.c.io_want = {}].c, i, p)
          /\ \E p \in Msg : f.tx = <<p>> /\ Concluded(c, f.c, i, p)
      BY <1>2, <1>3, <1>11, ConnectingEnds
    <2>4. CASE io.s \notin {"ok", "fail"}
      <3>1. P(io) = Begin(c)
        BY <2>1, <2>4 DEF channel_post_connecting
      <3> QED BY <1>3, <1>8, <1>11, <3>1
    <2>5. CASE io.s = "ok"
      <3>1. P(io) = o
        BY <2>1, <2>5 DEF channel_post_connecting
      <3> HIDE DEF o, f
      <3>2. W(io) = o
        BY <2>3, <3>1, FreshCollect
      <3>3. V(io) = [o EXCEPT !.c.io_want = {}]
        BY <3>2
      <3>4. V(io).tx = o.tx /\ V(io).err = "none"
        BY <1>6, <2>3, <3>2 DEF Work
      <3>5. PICK p \in Msg : o.tx = <<p>> /\ Concluded(c, [o EXCEPT !.c.io_want = {}].c, i, p)
        BY <2>3
      <3>6. V(io).tx = <<p>> /\ Concluded(c, V(io).c, i, p)
        BY <3>3, <3>4, <3>5
      <3> HIDE DEF V
      <3> QED BY <1>1, <1>2, <1>11, <2>2, <3>4, <3>6, ConnectedLinks
    <2>6. CASE io.s = "fail"
      <3>1. P(io) = f
        BY <2>1, <2>6 DEF channel_post_connecting
      <3> HIDE DEF o, f
      <3>2. W(io).c = FreeChan /\ W(io).tx = f.tx /\ W(io).err = "none"
        BY <2>3, <3>1, ZombieCollect
      <3> HIDE DEF W
      <3>3. V(io).tx = f.tx /\ V(io).err = "none" /\ V(io).c = FreeChan
        <4>1. [FreeChan EXCEPT !.io_want = {}] = FreeChan
          <5>1. ASSUME NEW x \in Channel, x.io_want = {}
                PROVE  [x EXCEPT !.io_want = {}] = x
            BY <5>1 DEF Channel
          <5>2. FreeChan \in Channel /\ FreeChan.io_want = {}
            BY FreeChanGood DEF FreeChan
          <5> QED BY <5>1, <5>2
        <4> QED BY <1>6, <3>2, <4>1 DEF Work
      <3>4. PICK p \in Msg : f.tx = <<p>> /\ Concluded(c, f.c, i, p)
        BY <2>3
      <3>5. V(io).tx = <<p>> /\ \E z : z.type = "zombie" /\ Concluded(c, z, i, p)
        BY <2>3, <3>3, <3>4
      <3> HIDE DEF V
      <3> QED BY <1>1, <1>2, <1>11, <2>2, <3>3, <3>5, ConnectedLinks
    <2> QED BY <2>4, <2>5, <2>6
  <1> QED BY <1>7, <1>9, <1>10, <1>11

\* Refusing an open.
LEMMA RefuseOpenLinks ==
  ASSUME IndInv, LinkInv, GivesUp, NEW e \in Endpoint, RefuseOpen(e)
  PROVE  LinkInv' /\ GivesUp'
  <1> DEFINE m == Head(net[e])
             r == [m EXCEPT !.t = "OPENFAIL", !.self = NoId, !.n = 0]
  <1>1. /\ net[e] # <<>> /\ m \in Msg /\ m.t = "OPEN"
        /\ Answer(e, <<r>>) /\ UNCHANGED <<chan, pc, cur, err, opens, probes>>
    BY IncomingMsg DEF RefuseOpen, IndInv, Incoming
  <1>2. /\ r \in Msg /\ r.t = "OPENFAIL" /\ r.id = m.id /\ r.inst = m.inst
        /\ r.ctype = m.ctype
    <2> HIDE DEF m
    <2> QED BY <1>1 DEF Msg, MsgType
  <1> HIDE DEF r
  <1>3. World(chan[e], chan[Peer(e)], net[e], net[Peer(e)], opens, e, probes)
    BY Looks
  <1>4. World(chan[e], chan[Peer(e)], Tail(net[e]), net[Peer(e)] \o <<r>>, opens, e, probes)
    BY <1>1, <1>2, <1>3, RefuseWorld
  <1>5. net'[Peer(e)] = net[Peer(e)] \o <<r>> /\ net'[e] = Tail(net[e])
    BY <1>1, AnsweredAt
  <1>6. LinkInv'
    BY <1>1, <1>4, <1>5, Seen
  <1>7. GivesUp'
    BY <1>1 DEF GivesUp
  <1> QED BY <1>6, <1>7

\* A keepalive probe.
LEMMA ClientAliveCheckLinks ==
  ASSUME IndInv, LinkInv, GivesUp, NEW i \in Ids, ClientAliveCheck(i)
  PROVE  LinkInv' /\ GivesUp'
  <1> DEFINE e == "server"
             c == chan[e][i]
             w == Send(Begin(c), "KEEPALIVE", 0)
  <1>1. e \in Endpoint /\ "KEEPALIVE" \in MsgType /\ probes \in Nat
    BY DEF Endpoint, MsgType, IndInv, TypeOK
  <1>2. /\ c.type \in {"larval", "open"} /\ SendAll(e, w) /\ probes' = probes + 1
        /\ UNCHANGED <<chan, err, opens>>
    BY DEF ClientAliveCheck
  <1>3. /\ c \in Channel /\ LocalOK(c) /\ Begin(c) \in Sound(c, FALSE) /\ Begin(c).c = c
        /\ Begin(c).tx = <<>>
    BY <1>1, SlotGood DEF Begin
  <1>4. c.remote_id # NoId
    BY <1>2, <1>3 DEF LocalOK, Est
  <1>5. PICK p \in Msg : /\ w.tx = Append(<<>>, p) /\ p.t = "KEEPALIVE" /\ p.inst = c.inst
    <2>1. Begin(c) \in Work
      BY <1>3, SoundParts
    <2> QED BY <1>1, <1>3, <1>4, <2>1, SendTx
  <1>6. w.tx = <<p>>
    BY <1>5
  <1> HIDE DEF w
  <1>7. net'[Peer(e)] = net[Peer(e)] \o <<p>> /\ net'[e] = net[e]
    BY <1>1, <1>2, <1>6, SentAt
  <1>8. World(chan[e], chan[Peer(e)], net[e], net[Peer(e)], opens, e, probes)
    BY <1>1, Looks
  <1>9. World(chan[e], chan[Peer(e)], net[e], net[Peer(e)] \o <<p>>, opens, e, probes + 1)
    BY <1>1, <1>2, <1>5, <1>8, ProbeWorld
  <1>10. LinkInv'
    <2>1. World(chan'[e], chan'[Peer(e)], net'[e], net'[Peer(e)], opens', e, probes')
      BY <1>2, <1>7, <1>9
    <2> QED BY <1>1, <2>1, Seen
  <1>11. GivesUp'
    <2>1. probes' > 0
      BY <1>1, <1>2
    <2> QED BY <1>2, <2>1 DEF GivesUp
  <1> QED BY <1>10, <1>11

\* What channel_new sets and what it leaves as in a free slot.
Blank(c, window) ==
  /\ c.flags = {} /\ c.istate = "open" /\ c.ostate = "open"
  /\ c.input = 0 /\ c.output = 0 /\ c.extended = 0 /\ c.local_consumed = 0
  /\ c.taken = 0 /\ c.got = 0 /\ ~c.wfail
  /\ c.local_window = window /\ c.local_window_max = window

\* channel_new makes a blank channel.
LEMMA NewBlank ==
  ASSUME NEW type \in ChanType, NEW ctype \in {"session", "tcp"},
         NEW window \in Nat, NEW inst \in Nat
  PROVE  LET c == channel_new(type, ctype, window, inst)
         IN  /\ c \in Channel /\ Blank(c, window)
             /\ c.type = type /\ c.ctype = ctype /\ c.inst = inst
             /\ c.remote_id = NoId /\ c.remote_window = 0 /\ c.extended_usage = "ignore"
  <1> DEFINE c == channel_new(type, ctype, window, inst)
  <1>1. c \in Channel
    BY NewChannel
  <1>2. FreeChan \in Channel
    BY FreeChanGood
  <1>3. /\ c.type = type /\ c.ctype = ctype /\ c.inst = inst
        /\ c.local_window = window /\ c.local_window_max = window
    BY <1>2 DEF channel_new, Channel
  <1>4. /\ c.flags = FreeChan.flags /\ c.istate = FreeChan.istate
        /\ c.ostate = FreeChan.ostate /\ c.input = FreeChan.input
        /\ c.output = FreeChan.output /\ c.extended = FreeChan.extended
        /\ c.local_consumed = FreeChan.local_consumed /\ c.taken = FreeChan.taken
        /\ c.got = FreeChan.got /\ c.wfail = FreeChan.wfail
        /\ c.remote_id = FreeChan.remote_id /\ c.remote_window = FreeChan.remote_window
        /\ c.extended_usage = FreeChan.extended_usage
    BY <1>2 DEF channel_new, Channel
  <1> HIDE DEF c
  <1> QED BY <1>1, <1>3, <1>4 DEF Blank, FreeChan, c

\* A blank channel of the types that start one.
LEMMA BlankMade ==
  ASSUME NEW c \in Channel, NEW window \in Nat, Blank(c, window),
         c.type \in {"opening", "connecting", "larval"},
         c.type # "larval" => window = Window,
         c.type = "larval" => window = 0 /\ c.ctype = "session" /\ c.extended_usage # "write",
         c.extended_usage # "read",
         c.type = "opening" => c.remote_id = NoId /\ c.remote_window = 0,
         c.type # "opening" => c.remote_id # NoId
  PROVE  Made(c, c.inst)
  <1>1. ShutFirst(c)
    BY DEF Blank, ShutFirst
  <1>2. LocalOK(c)
    BY DEF Blank, LocalOK, Fresh, Est
  <1> QED BY <1>1, <1>2 DEF Made, Blank

\* Opening a channel.
LEMMA OpenChannelLinks ==
  ASSUME IndInv, LinkInv, GivesUp, NEW e \in Endpoint, NEW k \in {"session", "tcp"},
         OpenChannel(e, k)
  PROVE  LinkInv' /\ GivesUp'
  <1> DEFINE new == channel_new("opening", k, Window, opens + 1)
             ses == [new EXCEPT !.efd = TRUE, !.extended_usage = "write",
                                !.detach_user = "client"]
             c == IF k = "session" THEN ses ELSE new
             M(i) == [t |-> "OPEN", id |-> i, self |-> i, n |-> Window,
                      ctype |-> k, inst |-> opens + 1]
  <1>1. PICK i \in Ids :
          /\ chan[e][i].type = "free"
          /\ chan' = [chan EXCEPT ![e][i] = c]
          /\ net' = [net EXCEPT ![Peer(e)] = Append(@, M(i))]
    BY DEF OpenChannel, FirstFree
  <1>2. /\ opens \in Nat /\ opens' = opens + 1 /\ UNCHANGED <<err, probes>>
        /\ opens + 1 \in Nat /\ Window \in Nat /\ <<e, k>> \in Openers
    BY MaxPacketIsNat DEF OpenChannel, IndInv, TypeOK
  <1>3. k = "session" => e = "client"
    BY <1>2, ChannelsAssumption
  <1>4. /\ new \in Channel /\ Blank(new, Window) /\ new.type = "opening" /\ new.ctype = k
        /\ new.inst = opens + 1 /\ new.remote_id = NoId /\ new.remote_window = 0
        /\ new.extended_usage = "ignore"
    <2>1. "opening" \in ChanType
      BY DEF ChanType
    <2> QED BY <1>2, <2>1, NewBlank
  <1> HIDE DEF new
  <1>5. /\ ses \in Channel /\ Blank(ses, Window) /\ ses.type = "opening" /\ ses.ctype = k
        /\ ses.inst = opens + 1 /\ ses.remote_id = NoId /\ ses.remote_window = 0
        /\ ses.extended_usage = "write"
    BY <1>4, ZenonT(60) DEF Channel, Blank
  <1> HIDE DEF ses
  <1>6. /\ c \in Channel /\ Blank(c, Window) /\ c.type = "opening" /\ c.ctype = k
        /\ c.inst = opens + 1 /\ c.remote_id = NoId /\ c.remote_window = 0
        /\ c.extended_usage \in {"ignore", "write"}
        /\ k = "session" => c.extended_usage = "write"
    BY <1>4, <1>5
  <1> HIDE DEF c
  <1>7. Made(c, opens + 1)
    BY <1>2, <1>6, BlankMade
  <1> DEFINE m == M(i)
  <1>8. /\ m \in Msg /\ m.t = "OPEN" /\ m.id = i /\ m.n = Window /\ m.ctype = k
        /\ m.inst = opens + 1
    BY <1>2 DEF Msg, MsgType
  <1> HIDE DEF m
  <1>9. Moved(chan[e], chan'[e], i, c) /\ chan'[Peer(e)] = chan[Peer(e)] /\ chan'[e][i] = c
    BY <1>1, <1>6, StoredAt DEF Moved
  <1>10. net'[Peer(e)] = net[Peer(e)] \o <<m>> /\ net'[e] = net[e]
    <2>1. net \in [Endpoint -> Seq(Msg)] /\ Peer(e) \in Endpoint /\ Peer(e) # e
      BY DEF IndInv, TypeOK, Peer, Endpoint
    <2>2. net'[Peer(e)] = Append(net[Peer(e)], m) /\ net'[e] = net[e]
      BY <1>1, <2>1 DEF m
    <2>3. net[Peer(e)] \in Seq(Msg)
      BY <2>1
    <2>4. Append(net[Peer(e)], m) = net[Peer(e)] \o <<m>>
      BY <1>8, <2>3
    <2> QED BY <2>2, <2>4
  <1>11. World(chan[e], chan[Peer(e)], net[e], net[Peer(e)], opens, e, probes)
    BY Looks
  <1>12. World(chan'[e], chan[Peer(e)], net[e], net[Peer(e)] \o <<m>>, opens + 1, e, probes)
    BY <1>1, <1>3, <1>6, <1>7, <1>8, <1>9, <1>11, OpenWorld
  <1>13. LinkInv'
    BY <1>2, <1>9, <1>10, <1>12, Seen
  <1>14. GivesUp'
    BY <1>2 DEF GivesUp
  <1> QED BY <1>13, <1>14

\* Accepting an open.
LEMMA InputOpenLinks ==
  ASSUME IndInv, LinkInv, GivesUp, NEW e \in Endpoint, InputOpen(e)
  PROVE  LinkInv' /\ GivesUp'
  <1> DEFINE m == Head(net[e])
             lar == channel_new("larval", "session", 0, m.inst)
             ses == [lar EXCEPT !.detach_user = "session"]
             tcp == channel_new("connecting", "tcp", Window, m.inst)
             new == IF m.ctype = "session" THEN ses ELSE tcp
             c == [new EXCEPT !.remote_id = m.id, !.remote_window = m.n]
             T(i) == IF m.ctype = "session" THEN Confirm(Begin(c), i).tx ELSE <<>>
  <1>1. PICK i \in Ids :
          /\ chan[e][i].type = "free"
          /\ chan' = [chan EXCEPT ![e][i] = c]
          /\ Answer(e, T(i))
    BY DEF InputOpen, FirstFree
  <1>2. UNCHANGED <<err, opens, probes>>
    BY DEF InputOpen
  <1>3. net[e] # <<>> /\ m \in Msg /\ m.t = "OPEN"
    BY IncomingMsg DEF InputOpen, IndInv, Incoming
  <1>4. /\ m.id \in Ids /\ m.id # NoId /\ m.n \in Nat /\ m.inst \in Nat
        /\ m.ctype \in {"session", "tcp"}
    BY <1>3, MaxChannelsAssumption DEF Msg, Ids, NoId
  <1> DEFINE win == IF m.ctype = "session" THEN 0 ELSE Window
             typ == IF m.ctype = "session" THEN "larval" ELSE "connecting"
  <1> HIDE DEF m
  <1>5. /\ new \in Channel /\ Blank(new, win) /\ new.type = typ
        /\ new.ctype = m.ctype /\ new.inst = m.inst /\ new.extended_usage = "ignore"
        /\ win \in Nat
    <2>1. "larval" \in ChanType /\ "connecting" \in ChanType /\ 0 \in Nat /\ Window \in Nat
      BY MaxPacketIsNat DEF ChanType
    <2>2. /\ lar \in Channel /\ Blank(lar, 0) /\ lar.type = "larval" /\ lar.ctype = "session"
          /\ lar.inst = m.inst /\ lar.extended_usage = "ignore"
      BY <1>4, <2>1, NewBlank
    <2>3. /\ tcp \in Channel /\ Blank(tcp, Window) /\ tcp.type = "connecting"
          /\ tcp.ctype = "tcp" /\ tcp.inst = m.inst /\ tcp.extended_usage = "ignore"
      BY <1>4, <2>1, NewBlank
    <2> HIDE DEF lar, tcp
    <2>4. /\ ses \in Channel /\ Blank(ses, 0) /\ ses.type = "larval" /\ ses.ctype = "session"
          /\ ses.inst = m.inst /\ ses.extended_usage = "ignore"
      BY <2>2 DEF Channel, Blank
    <2> HIDE DEF ses
    <2> QED BY <1>4, <2>1, <2>3, <2>4
  <1> HIDE DEF new
  <1>6. /\ c \in Channel /\ Blank(c, win) /\ c.type = typ /\ c.ctype = m.ctype
        /\ c.inst = m.inst /\ c.extended_usage = "ignore" /\ c.remote_id = m.id
        /\ c.remote_window = m.n
    BY <1>4, <1>5 DEF Channel, Blank
  <1> HIDE DEF c
  <1>7. Made(c, m.inst)
    <2>1. /\ c.type \in {"opening", "connecting", "larval"} /\ c.type # "opening"
          /\ c.type # "larval" => win = Window
          /\ c.type = "larval" => win = 0 /\ c.ctype = "session"
      BY <1>4, <1>6
    <2>2. win \in Nat
      BY <1>5
    <2> HIDE DEF win
    <2> QED BY <1>4, <1>6, <2>1, <2>2, BlankMade
  <1> DEFINE t == T(i)
             p == [t |-> "CONFIRM", id |-> m.id, self |-> i, n |-> c.local_window,
                   ctype |-> m.ctype, inst |-> m.inst]
  <1>8. /\ p \in Msg /\ p.t = "CONFIRM" /\ p.id = m.id /\ p.self = i
        /\ p.n = c.local_window /\ p.ctype = m.ctype /\ p.inst = m.inst
    BY <1>4, <1>6 DEF Msg, MsgType, Channel
  <1>9. t = IF m.ctype = "session" THEN <<p>> ELSE <<>>
    <2>1. Confirm(Begin(c), i).tx = Append(<<>>, p)
      BY <1>4, <1>6 DEF Confirm, SendFrom, Begin
    <2>2. Append(<<>>, p) = <<p>>
      OBVIOUS
    <2> HIDE DEF p
    <2> QED BY <2>1, <2>2
  <1> HIDE DEF p
  <1>10. Answer(e, t)
    BY <1>1
  <1> HIDE DEF t
  <1>11. Begun(c, i, m, t)
    <2>1. t \in Seq(Msg) /\ (t = <<>> \/ (t = <<p>> /\ p.n = c.local_window))
      BY <1>8, <1>9
    <2>2. CASE m.ctype = "session"
      <3>1. t = <<p>>
        BY <1>9, <2>2
      <3>2. Packets(t) = {p}
        BY <3>1 DEF Packets
      <3>3. Accepts(c, i, m, Packets(t))
        BY <1>6, <1>7, <1>8, <2>2, <3>2 DEF Accepts
      <3> QED BY <1>6, <1>8, <2>1, <3>3 DEF Begun, Blank
    <2>3. CASE m.ctype # "session"
      <3>1. t = <<>>
        BY <1>9, <2>3
      <3>2. Packets(t) = {}
        BY <3>1 DEF Packets
      <3>3. Accepts(c, i, m, Packets(t))
        BY <1>6, <1>7, <2>3, <3>2 DEF Accepts
      <3> QED BY <1>6, <1>8, <2>1, <3>3 DEF Begun, Blank
    <2> QED BY <2>2, <2>3
  <1>12. Moved(chan[e], chan'[e], i, c) /\ chan'[Peer(e)] = chan[Peer(e)] /\ chan'[e][i] = c
    BY <1>1, <1>6, StoredAt DEF Moved
  <1>13. net'[Peer(e)] = net[Peer(e)] \o t /\ net'[e] = Tail(net[e])
    BY <1>10, AnsweredAt
  <1>14. World(chan[e], chan[Peer(e)], net[e], net[Peer(e)], opens, e, probes)
    BY Looks
  <1>15. World(chan'[e], chan[Peer(e)], Tail(net[e]), net[Peer(e)] \o t, opens, e, probes)
    BY <1>1, <1>3, <1>11, <1>12, <1>14, AcceptWorld DEF m
  <1>16. LinkInv'
    BY <1>2, <1>12, <1>13, <1>15, Seen
  <1>17. GivesUp'
    BY <1>2 DEF GivesUp
  <1> QED BY <1>16, <1>17

\* Sending nothing leaves the wire as it is.
LEMMA NothingSent ==
  ASSUME NEW q \in Seq(Msg)
  PROVE  q \o <<>> = q
  OBVIOUS

\* channel_input_open_confirmation's three assignments to the channel.
LEMMA OpenedBegin ==
  ASSUME NEW c, NEW m
  PROVE  [Begin(c) EXCEPT !.c.remote_id = m.self, !.c.remote_window = m.n,
                          !.c.type = "open"] = Begin(Opened(c, m))
  <1> DEFINE x == [c EXCEPT !.remote_id = m.self]
             y == [x EXCEPT !.remote_window = m.n]
             z == [y EXCEPT !.type = "open"]
  <1>1. [Begin(c) EXCEPT !.c.remote_id = m.self] = Begin(x)
    BY DEF Begin
  <1>2. \A u : [Begin(u) EXCEPT !.c.remote_window = m.n]
                = Begin([u EXCEPT !.remote_window = m.n])
    BY DEF Begin
  <1>3. \A u : [Begin(u) EXCEPT !.c.type = "open"] = Begin([u EXCEPT !.type = "open"])
    BY DEF Begin
  <1>4. [[[Begin(c) EXCEPT !.c.remote_id = m.self]
            EXCEPT !.c.remote_window = m.n] EXCEPT !.c.type = "open"] = Begin(z)
    BY <1>1, <1>2, <1>3
  <1>5. z = Opened(c, m)
    BY Zenon DEF Opened
  <1> QED BY <1>4, <1>5

\* What channel_input_open_confirmation does to a channel that is being opened.
LEMMA ConfirmationBegins ==
  ASSUME NEW c, NEW m, c.type = "opening"
  PROVE  channel_input_open_confirmation(Begin(c), m)
           = IF c.ctype = "session" THEN Send(Begin(Opened(c, m)), "EXEC", 0)
             ELSE Begin(Opened(c, m))
  <1> DEFINE o == [Begin(c) EXCEPT !.c.remote_id = m.self, !.c.remote_window = m.n,
                                   !.c.type = "open"]
  <1>1. Begin(c).c = c
    BY DEF Begin
  <1>2. o = Begin(Opened(c, m))
    BY OpenedBegin
  <1>3. channel_input_open_confirmation(Begin(c), m)
          = IF Begin(c).c.type # "opening" THEN Fail(Begin(c), "not opening")
            ELSE IF Begin(c).c.ctype = "session" THEN Send(o, "EXEC", 0) ELSE o
    BY Zenon DEF channel_input_open_confirmation
  <1> HIDE DEF o
  <1> QED BY <1>1, <1>2, <1>3

\* A packet is consumed, its channel updated and the answer sent.
LEMMA PacketStep ==
  ASSUME IndInv, LinkInv, GivesUp, NEW e \in Endpoint, NEW w,
         World(chan'[e], chan[Peer(e)], Tail(net[e]), net[Peer(e)] \o w.tx, opens, e, probes),
         chan'[Peer(e)] = chan[Peer(e)], Answer(e, w.tx),
         err' = [err EXCEPT ![e] = w.err],
         w.err = "none" \/ (w.err = "fatal" /\ e = "client" /\ probes > 0),
         UNCHANGED <<opens, probes>>
  PROVE  LinkInv' /\ GivesUp'
  <1>1. net'[Peer(e)] = net[Peer(e)] \o w.tx /\ net'[e] = Tail(net[e])
    BY AnsweredAt
  <1>2. LinkInv'
    BY <1>1, Seen
  <1>3. GivesUp'
    BY Spares
  <1> QED BY <1>2, <1>3

\* The packet changed the table to A2 and the handler then told w.
LEMMA HandledStep ==
  ASSUME IndInv, LinkInv, GivesUp, NEW e \in Endpoint, NEW i \in Ids, NEW A2,
         World(A2, chan[Peer(e)], Tail(net[e]), net[Peer(e)], opens, e, probes),
         Moved(chan[e], A2, i, A2[i]), NEW w \in Tells(A2[i], FALSE),
         Store(e, i, w), Answer(e, w.tx), UNCHANGED <<opens, probes>>
  PROVE  LinkInv' /\ GivesUp'
  <1>1. w.c \in Channel /\ w.err = "none"
    BY TellsTurn DEF Tells
  <1>2. chan' = [chan EXCEPT ![e][i] = w.c] /\ err' = [err EXCEPT ![e] = w.err]
    BY DEF Store
  <1>3. Moved(chan[e], chan'[e], i, w.c) /\ chan'[Peer(e)] = chan[Peer(e)]
    BY <1>1, <1>2, StoredAt
  <1>4. Moved(A2, chan'[e], i, w.c)
    BY <1>3 DEF Moved
  <1>5. World(chan'[e], chan[Peer(e)], Tail(net[e]), net[Peer(e)] \o w.tx, opens, e, probes)
    BY <1>4, UpdateWorld
  <1> QED BY <1>1, <1>2, <1>3, <1>5, PacketStep

\* A packet that only its handler notices.
LEMMA PoppedStep ==
  ASSUME IndInv, LinkInv, GivesUp, NEW e \in Endpoint, net[e] # <<>>,
         Head(net[e]).t \notin Counting \cup {"OPENFAIL"}, Head(net[e]).id \in Ids,
         NEW w \in Tells(chan[e][Head(net[e]).id], FALSE),
         Store(e, Head(net[e]).id, w), Answer(e, w.tx), UNCHANGED <<opens, probes>>
  PROVE  LinkInv' /\ GivesUp'
  <1>1. World(chan[e], chan[Peer(e)], net[e], net[Peer(e)], opens, e, probes)
    BY Looks
  <1>2. World(chan[e], chan[Peer(e)], Tail(net[e]), net[Peer(e)], opens, e, probes)
    BY <1>1, PopWorld
  <1>3. Moved(chan[e], chan[e], Head(net[e]).id, chan[e][Head(net[e]).id])
    BY DEF Moved, IndInv, TypeOK
  <1> QED BY <1>2, <1>3, HandledStep

\* DATA, EXTDATA and ADJUST.
LEMMA SilentStep ==
  ASSUME IndInv, LinkInv, GivesUp, NEW e \in Endpoint, net[e] # <<>>, NEW m,
         m = Head(net[e]), m.t \in {"DATA", "EXTDATA", "ADJUST"},
         NEW w, w = InputHandler(Begin(chan[e][m.id]), m),
         Store(e, m.id, w), Answer(e, w.tx), UNCHANGED <<opens, probes>>
  PROVE  LinkInv' /\ GivesUp'
  <1> DEFINE c == chan[e][m.id]
  <1>1. World(chan[e], chan[Peer(e)], net[e], net[Peer(e)], opens, e, probes)
    BY Looks
  <1>2. m.t \in Real \ {"OPEN"} /\ m.t \notin {"CONFIRM", "OPENFAIL"}
    BY DEF Real, MsgType
  <1>3. /\ m \in Msg /\ m \in Packets(net[e]) /\ m.id \in Ids /\ c.ctype = m.ctype
        /\ c \in Channel /\ LocalOK(c) /\ ShutFirst(c) /\ c.type \in Est
    <2> DEFINE A == chan[e]
               B == chan[Peer(e)]
               q == net[e]
               p == net[Peer(e)]
    <2>1. m.t \in Real /\ m.t # "OPEN" /\ q # <<>> /\ m = Head(q)
      BY <1>2
    <2>2. World(A, B, q, p, opens, e, probes)
      BY <1>1, Zenon
    <2> HIDE DEF A, B, q, p
    <2>3. /\ m \in Msg /\ m \in Packets(q) /\ m.id \in Ids
          /\ A[m.id].ctype = m.ctype
          /\ A[m.id] \in Channel /\ LocalOK(A[m.id]) /\ ShutFirst(A[m.id])
          /\ m.t \in {"CONFIRM", "OPENFAIL"} => A[m.id].type = "opening"
          /\ m.t \notin {"CONFIRM", "OPENFAIL"} => A[m.id].type \in Est
      BY <2>1, <2>2, FindsNext, ZenonT(60)
    <2> USE DEF A, q
    <2> QED BY <1>2, <2>3, ZenonT(60)
  <1>4. m.n \in Nat
    BY <1>3 DEF Msg
  <1>5. /\ Silent(c, w)
        /\ m.t \in {"DATA", "EXTDATA"} =>
             Gets(c, w.c, m.n, IF m.t = "DATA" THEN m.n ELSE 0)
        /\ m.t = "ADJUST" => Credited(c, w.c, m.n)
    <2>1. CASE m.t = "DATA"
      <3>1. w = channel_input_data(Begin(c), m.n)
        BY <2>1 DEF InputHandler
      <3>2. Fits(c, m.n)
        BY <1>1, <2>1, HeadFits
      <3>3. Silent(c, w) /\ Gets(c, w.c, m.n, m.n)
        BY <3>1, <3>2, InputDataGets
      <3> QED BY <2>1, <3>3
    <2>2. CASE m.t = "EXTDATA"
      <3>1. w = channel_input_extended_data(Begin(c), m.n)
        BY <2>2 DEF InputHandler
      <3>2. Fits(c, m.n)
        BY <1>1, <2>2, HeadFits
      <3>3. SideOK(chan[e], Packets(net[e]), e, probes)
        BY <1>1, WorldParts
      <3>4. c.extended_usage = "write"
        BY <1>3, <2>2, <3>3 DEF SideOK
      <3>5. Silent(c, w) /\ Gets(c, w.c, m.n, 0)
        BY <3>1, <3>2, <3>4, InputExtGets
      <3> QED BY <2>2, <3>5
    <2>3. CASE m.t = "ADJUST"
      <3>1. w = channel_input_window_adjust(Begin(c), m.n)
        BY <2>3 DEF InputHandler
      <3>2. Silent(c, w) /\ Credited(c, w.c, m.n)
        BY <1>3, <1>4, <3>1, AdjustCredits
      <3> QED BY <2>3, <3>2
    <2> QED BY <2>1, <2>2, <2>3
  <1>6. w.c \in Channel /\ w.tx = <<>> /\ w.err = "none"
    BY <1>5 DEF Silent, Turn
  <1>7. chan' = [chan EXCEPT ![e][m.id] = w.c] /\ err' = [err EXCEPT ![e] = w.err]
    BY DEF Store
  <1>8. Moved(chan[e], chan'[e], m.id, w.c) /\ chan'[Peer(e)] = chan[Peer(e)]
    BY <1>3, <1>6, <1>7, StoredAt
  <1>9. World(chan'[e], chan[Peer(e)], Tail(net[e]), net[Peer(e)], opens, e, probes)
    BY <1>1, <1>5, <1>8, SilentWorld
  <1>10. net[Peer(e)] \o w.tx = net[Peer(e)]
    <2>1. net[Peer(e)] \in Seq(Msg)
      BY <1>1, WorldParts
    <2> QED BY <1>6, <2>1, NothingSent
  <1> QED BY <1>6, <1>7, <1>8, <1>9, <1>10, PacketStep

\* EOF and CLOSE.
LEMMA MarkedStep ==
  ASSUME IndInv, LinkInv, GivesUp, NEW e \in Endpoint, net[e] # <<>>, NEW m,
         m = Head(net[e]), m.t \in {"EOF", "CLOSE"},
         NEW w, w = InputHandler(Begin(chan[e][m.id]), m),
         Store(e, m.id, w), Answer(e, w.tx), UNCHANGED <<opens, probes>>
  PROVE  LinkInv' /\ GivesUp'
  <1> DEFINE c == chan[e][m.id]
             f == IF m.t = "EOF" THEN "EOF_RCVD" ELSE "CLOSE_RCVD"
             d == Noted(c, f)
             A2 == [chan[e] EXCEPT ![m.id] = d]
  <1>1. World(chan[e], chan[Peer(e)], net[e], net[Peer(e)], opens, e, probes)
    BY Looks
  <1>2. m.t \in Real \ {"OPEN"} /\ m.t \notin {"CONFIRM", "OPENFAIL"}
    BY DEF Real, MsgType
  <1>3. m.id \in Ids /\ c \in Channel /\ LocalOK(c) /\ ShutFirst(c) /\ c.type \in Est
    BY <1>1, <1>2, FindsHead
  <1>4. StaysAttached(c) /\ chan[e] \in [Ids -> Channel]
    BY <1>3 DEF IndInv, SessionAttached, TypeOK
  <1>5. w \in Sound(d, FALSE)
    <2>1. CASE m.t = "EOF"
      <3>1. w = chan_rcvd_ieof(Begin(c))
        BY <2>1 DEF InputHandler
      <3> QED BY <1>3, <1>4, <2>1, <3>1, RcvdIeofSound
    <2>2. CASE m.t = "CLOSE"
      <3>1. w = chan_rcvd_oclose(Begin(c))
        BY <2>2 DEF InputHandler
      <3> QED BY <1>3, <1>4, <2>2, <3>1, RcvdOcloseSound
    <2> QED BY <2>1, <2>2
  <1>6. d \in Channel
    BY <1>3, ZenonT(60) DEF Noted, Channel, ChanFlag
  <1>7. Moved(chan[e], A2, m.id, d) /\ A2[m.id] = d
    BY <1>3, <1>4, <1>6 DEF Moved
  <1> HIDE DEF A2
  <1>8. World(A2, chan[Peer(e)], Tail(net[e]), net[Peer(e)], opens, e, probes)
    BY <1>1, <1>4, <1>7, MarkWorld
  <1>9. w \in Tells(A2[m.id], FALSE)
    BY <1>5, <1>7, SoundTells
  <1> QED BY <1>3, <1>7, <1>8, <1>9, HandledStep

\* CONFIRM and OPENFAIL.
LEMMA OpenAnsweredStep ==
  ASSUME IndInv, LinkInv, GivesUp, NEW e \in Endpoint, net[e] # <<>>, NEW m,
         m = Head(net[e]), m.t \in {"CONFIRM", "OPENFAIL"},
         NEW w, w = InputHandler(Begin(chan[e][m.id]), m),
         Store(e, m.id, w), Answer(e, w.tx), UNCHANGED <<opens, probes>>
  PROVE  LinkInv' /\ GivesUp'
  <1> DEFINE c == chan[e][m.id]
             d == IF m.t = "CONFIRM" THEN Opened(c, m) ELSE Refused(c)
             A2 == [chan[e] EXCEPT ![m.id] = d]
  <1>1. World(chan[e], chan[Peer(e)], net[e], net[Peer(e)], opens, e, probes)
    BY Looks
  <1>2. m.t \in Real \ {"OPEN"}
    BY DEF Real, MsgType
  <1>3. /\ m.id \in Ids /\ m \in Msg
        /\ c \in Channel /\ LocalOK(c) /\ ShutFirst(c) /\ c.type = "opening"
    <2> DEFINE A == chan[e]
               B == chan[Peer(e)]
               q == net[e]
               p == net[Peer(e)]
    <2>1. m.t \in Real /\ m.t # "OPEN" /\ q # <<>> /\ m = Head(q)
      BY <1>2
    <2>2. World(A, B, q, p, opens, e, probes)
      BY <1>1, Zenon
    <2> HIDE DEF A, B, q, p
    <2>3. /\ m \in Msg /\ m \in Packets(q) /\ m.id \in Ids
          /\ A[m.id].ctype = m.ctype
          /\ A[m.id] \in Channel /\ LocalOK(A[m.id]) /\ ShutFirst(A[m.id])
          /\ m.t \in {"CONFIRM", "OPENFAIL"} => A[m.id].type = "opening"
          /\ m.t \notin {"CONFIRM", "OPENFAIL"} => A[m.id].type \in Est
      BY <2>1, <2>2, FindsNext, ZenonT(60)
    <2> USE DEF A, q
    <2> QED BY <1>2, <2>3, ZenonT(60)
  <1>4. StaysAttached(c) /\ chan[e] \in [Ids -> Channel] /\ Begin(c).c = c
    BY <1>3 DEF IndInv, SessionAttached, TypeOK, Begin
  <1>5. ~c.child
    BY <1>3, <1>4 DEF StaysAttached
  <1>6. d \in Channel
    <2> HIDE DEF c
    <2>1. Opened(c, m) \in Channel /\ Refused(c) \in Channel
      BY <1>3, OpenedChannel
    <2> QED BY <2>1
  <1>7. Moved(chan[e], A2, m.id, d) /\ A2[m.id] = d
    BY <1>3, <1>4, <1>6 DEF Moved
  <1>8. World(A2, chan[Peer(e)], Tail(net[e]), net[Peer(e)], opens, e, probes)
    <2>1. /\ Head(net[e]).t = "CONFIRM" =>
               d = Opened(chan[e][Head(net[e]).id], Head(net[e]))
          /\ Head(net[e]).t = "OPENFAIL" => d = Refused(chan[e][Head(net[e]).id])
      OBVIOUS
    <2>2. Moved(chan[e], A2, Head(net[e]).id, d) /\ Head(net[e]).t \in {"CONFIRM", "OPENFAIL"}
      BY <1>7
    <2> HIDE DEF A2, d, c
    <2> QED BY <1>1, <2>1, <2>2, AnswerWorld
  <1>8a. /\ m.t = "CONFIRM" => d.remote_id # NoId /\ d.flags = {} /\ d.type = "open"
         /\ d.child = c.child
    <2>1. c.flags = {} /\ (m.t = "CONFIRM" => m.self # NoId)
      <3>1. Half(chan[e], chan[Peer(e)], Packets(net[e]), Packets(net[Peer(e)]))
        BY <1>1, WorldParts
      <3>2. m \in Packets(net[e])
        BY <1>1, <1>2, FindsHead
      <3>3. Routed(chan[e], chan[Peer(e)], Packets(net[Peer(e)]), m)
        BY <3>1, <3>2 DEF Half
      <3>4. m.t = "CONFIRM" => m.self # NoId
        BY <3>3 DEF Routed, ConfirmOK
      <3>5. c.flags = {}
        BY <1>3 DEF LocalOK, Fresh
      <3> QED BY <3>4, <3>5
    <2> HIDE DEF c
    <2> QED BY <1>3, <2>1 DEF Opened, Refused, Channel
  <1> HIDE DEF A2
  <1>9. /\ LocalOK(d) /\ ShutFirst(d)
    <2>1. Table(A2, opens) /\ opens \in Nat
      BY <1>8, WorldParts
    <2> HIDE DEF d
    <2>2. LocalOK(A2[m.id]) /\ ShutFirst(A2[m.id])
      BY <1>3, <2>1, TableAt, Zenon
    <2>3. A2[m.id] = d
      BY <1>7, Zenon
    <2> QED BY <2>2, <2>3, Zenon
  <1>9a. d.type # "larval"
    BY <1>3 DEF Opened, Refused, Channel
  <1>10. StaysAttached(d)
    BY <1>5, <1>8a, <1>9a DEF StaysAttached
  <1>11. Begin(d) \in Sound(d, FALSE) /\ Begin(d).c = d
    BY <1>6, <1>9, <1>10, BeginSound
  <1>12. w \in Sound(d, FALSE)
    <2>1. CASE m.t = "OPENFAIL"
      <3>1. w = chan_mark_dead(Begin(c))
        BY <1>3, <1>4, <2>1 DEF InputHandler, channel_input_open_failure
      <3>2. w = Begin(d)
        BY <2>1, <3>1 DEF chan_mark_dead, Begin, Refused
      <3> QED BY <1>11, <3>2
    <2>2. CASE m.t = "CONFIRM"
      <3>1. w = channel_input_open_confirmation(Begin(c), m)
        BY <2>2 DEF InputHandler
      <3>2. d = Opened(c, m)
        BY <2>2
      <3>3. w = IF c.ctype = "session" THEN Send(Begin(d), "EXEC", 0) ELSE Begin(d)
        <4> HIDE DEF d, c
        <4> QED BY <1>3, <3>1, <3>2, ConfirmationBegins
      <3>4. d.remote_id # NoId /\ "CLOSE_SENT" \notin d.flags /\ d.type \in Est
        BY <1>8a, <2>2 DEF Est
      <3> HIDE DEF d
      <3>5. Send(Begin(d), "EXEC", 0) \in Sound(d, FALSE)
        BY <1>11, <3>4, PlainSound
      <3> QED BY <1>11, <3>3, <3>5
    <2> QED BY <2>1, <2>2
  <1>13. w \in Tells(A2[m.id], FALSE)
    BY <1>7, <1>12, SoundTells
  <1> QED BY <1>3, <1>7, <1>8, <1>13, HandledStep

\* EOW, EXIT and EXEC.
LEMMA RequestedStep ==
  ASSUME IndInv, LinkInv, GivesUp, NEW e \in Endpoint, net[e] # <<>>, NEW m,
         m = Head(net[e]), m.t \in {"EOW", "EXIT", "EXEC"}, NEW tty \in BOOLEAN,
         NEW w, m.t = "EXEC" => w = session_input_exec(Begin(chan[e][m.id]), tty),
         m.t # "EXEC" => w = InputHandler(Begin(chan[e][m.id]), m),
         Store(e, m.id, w), Answer(e, w.tx), UNCHANGED <<opens, probes>>
  PROVE  LinkInv' /\ GivesUp'
  <1> DEFINE c == chan[e][m.id]
  <1>1. World(chan[e], chan[Peer(e)], net[e], net[Peer(e)], opens, e, probes)
    BY Looks
  <1>2. /\ m.t \in Real \ {"OPEN"} /\ m.t \notin {"CONFIRM", "OPENFAIL"}
        /\ m.t \notin Counting \cup {"OPENFAIL"}
    BY DEF Real, MsgType, Counting
  <1>3. m.id \in Ids /\ c \in Channel /\ LocalOK(c) /\ ShutFirst(c) /\ c.type \in Est
    BY <1>1, <1>2, FindsHead
  <1>4. StaysAttached(c)
    BY <1>3 DEF IndInv, SessionAttached
  <1>5. Begin(c) \in Sound(c, FALSE) /\ Begin(c).c = c
    BY <1>3, <1>4, BeginSound
  <1>6. w \in Sound(c, FALSE)
    <2>1. CASE m.t = "EXEC"
      <3> HIDE DEF c
      <3>1. w = session_input_exec(Begin(c), tty)
        BY <2>1 DEF c
      <3> QED BY <1>3, <1>4, <3>1, InputExecSound
    <2>2. CASE m.t = "EOW"
      <3>1. w = chan_rcvd_eow(Begin(c))
        BY <2>2 DEF InputHandler
      <3> HIDE DEF c
      <3> QED BY <1>3, <1>5, <3>1, RcvdEowSound
    <2>3. CASE m.t = "EXIT"
      <3>1. w = Begin(c)
        BY <2>3 DEF InputHandler
      <3> QED BY <1>5, <3>1
    <2> QED BY <2>1, <2>2, <2>3
  <1>7. w \in Tells(chan[e][Head(net[e]).id], FALSE)
    BY <1>6, SoundTells
  <1>8. /\ Head(net[e]).t \notin Counting \cup {"OPENFAIL"} /\ Head(net[e]).id \in Ids
        /\ Store(e, Head(net[e]).id, w)
    BY <1>2, <1>3
  <1> QED BY <1>7, <1>8, PoppedStep

\* A packet that changes no channel: it is consumed, and the client may give up
\* on a probe it cannot answer.
LEMMA IdleStep ==
  ASSUME IndInv, LinkInv, GivesUp, NEW e \in Endpoint, net[e] # <<>>,
         Head(net[e]).t \notin Counting \cup {"OPENFAIL"}, NEW w,
         w.tx = <<>>, w.err = "none" \/ (w.err = "fatal" /\ e = "client" /\ probes > 0),
         chan' = chan, err' = [err EXCEPT ![e] = w.err],
         Answer(e, w.tx), UNCHANGED <<opens, probes>>
  PROVE  LinkInv' /\ GivesUp'
  <1>1. World(chan[e], chan[Peer(e)], net[e], net[Peer(e)], opens, e, probes)
    BY Looks
  <1>2. World(chan[e], chan[Peer(e)], Tail(net[e]), net[Peer(e)], opens, e, probes)
    BY <1>1, PopWorld
  <1>3. net[Peer(e)] \in Seq(Msg)
    BY <1>1, WorldParts
  <1>4. net[Peer(e)] \o w.tx = net[Peer(e)]
    BY <1>3, NothingSent
  <1>5. World(chan'[e], chan[Peer(e)], Tail(net[e]), net[Peer(e)] \o w.tx, opens, e, probes)
    BY <1>2, <1>4
  <1> QED BY <1>5, PacketStep

\* A keepalive only reaches the client.
LEMMA ProbeAtClient ==
  ASSUME IndInv, LinkInv, NEW e \in Endpoint, net[e] # <<>>,
         Head(net[e]).t = "KEEPALIVE"
  PROVE  e = "client" /\ probes > 0
  <1>1. World(chan[e], chan[Peer(e)], net[e], net[Peer(e)], opens, e, probes)
    BY Looks
  <1>2. /\ SideOK(chan[e], Packets(net[e]), e, probes)
        /\ net[e] \in Seq(Msg) /\ Ordered(net[e])
    BY <1>1, WorldParts
  <1>3. Head(net[e]) \in Packets(net[e])
    BY <1>2, TailPopped DEF Popped
  <1> QED BY <1>2, <1>3 DEF SideOK

\* REPLY and KEEPALIVE for a number that is in use, possibly by a successor of
\* the channel they were sent for.
LEMMA ProbedStep ==
  ASSUME IndInv, LinkInv, GivesUp, NEW e \in Endpoint, net[e] # <<>>, NEW m,
         m = Head(net[e]), m.id \in Ids, m.t \in {"REPLY", "KEEPALIVE"},
         NEW w, w = InputHandler(Begin(chan[e][m.id]), m),
         Store(e, m.id, w), Answer(e, w.tx), UNCHANGED <<opens, probes>>
  PROVE  LinkInv' /\ GivesUp'
  <1> DEFINE c == chan[e][m.id]
  <1>1. Head(net[e]).t \notin Counting \cup {"OPENFAIL"} /\ Head(net[e]).id \in Ids
    BY DEF Counting
  <1>2. /\ c \in Channel /\ ShutFirst(c) /\ StaysAttached(c) /\ LocalOK(c)
    BY SlotGood
  <1>3. /\ Begin(c) \in Sound(c, FALSE)
        /\ Begin(c).c = c /\ Begin(c).tx = <<>> /\ Begin(c).err = "none"
    BY <1>2, BeginSound
  <1>4. CASE w \in Sound(c, FALSE)
    <2>1. w \in Tells(chan[e][Head(net[e]).id], FALSE) /\ Store(e, Head(net[e]).id, w)
      BY <1>4, SoundTells
    <2> QED BY <1>1, <2>1, PoppedStep
  <1>5. CASE m.t = "REPLY"
    <2>1. w = Begin(c)
      BY <1>5 DEF InputHandler
    <2> QED BY <1>3, <1>4, <2>1
  <1>6. CASE m.t = "KEEPALIVE"
    <2>1. w = Reply(Begin(c))
      BY <1>6 DEF InputHandler
    <2>2. e = "client" /\ probes > 0
      BY <1>6, ProbeAtClient
    <2>3. CASE c.remote_id # NoId
      <3>1. w \in Sound(c, FALSE)
        <4> HIDE DEF c
        <4> QED BY <1>3, <2>1, <2>3, ReplySound
      <3> QED BY <1>4, <3>1
    <2>4. CASE c.remote_id = NoId
      <3>1. w.c = c /\ w.tx = <<>> /\ w.err \in {"none", "fatal"}
        <4> HIDE DEF c
        <4>1. w = Begin(c) \/ w = Fail(Begin(c), "fatal")
          BY <1>3, <2>1, <2>4 DEF Reply, Send, SendFrom
        <4> QED BY <1>3, <4>1 DEF Begin, Fail
      <3>2. chan' = chan /\ err' = [err EXCEPT ![e] = w.err]
        <4>1. chan \in [Endpoint -> [Ids -> Channel]]
          BY DEF IndInv, TypeOK
        <4> QED BY <3>1, <4>1 DEF Store
      <3> QED BY <1>1, <2>2, <3>1, <3>2, IdleStep
    <2> QED BY <2>3, <2>4
  <1> QED BY <1>5, <1>6

\* REPLY and KEEPALIVE for a number that is no longer in use.
LEMMA StrayStep ==
  ASSUME IndInv, LinkInv, GivesUp, NEW e \in Endpoint, net[e] # <<>>, NEW m,
         m = Head(net[e]), m.t \in {"REPLY", "KEEPALIVE"},
         NEW w, w = UnknownChannel(e, m), chan' = chan, err' = [err EXCEPT ![e] = w.err],
         Answer(e, w.tx), UNCHANGED <<opens, probes>>
  PROVE  LinkInv' /\ GivesUp'
  <1>1. Head(net[e]).t \notin Counting \cup {"OPENFAIL"}
    BY DEF Counting
  <1>2. m.t = "KEEPALIVE" => e = "client"
    BY ProbeAtClient
  <1>3. w = Begin(FreeChan)
    BY <1>2 DEF UnknownChannel
  <1>4. w.tx = <<>> /\ w.err = "none"
    BY <1>3 DEF Begin
  <1> QED BY <1>1, <1>4, IdleStep

\* A packet for a channel: whatever its type, it is one the channel expects.
LEMMA InputPacketLinks ==
  ASSUME IndInv, LinkInv, GivesUp, NEW e \in Endpoint, InputPacket(e)
  PROVE  LinkInv' /\ GivesUp'
  <1> DEFINE m == Head(net[e])
             c == chan[e][m.id]
             W(tty) == CASE c.type \notin Public -> UnknownChannel(e, m)
                         [] c.type \in Public /\ m.t = "EXEC" ->
                              session_input_exec(Begin(c), tty)
                         [] OTHER -> InputHandler(Begin(c), m)
  <1>1. PICK tty \in BOOLEAN :
          /\ IF c.type \in Public
             THEN Store(e, m.id, W(tty))
             ELSE /\ err' = [err EXCEPT ![e] = W(tty).err]
                  /\ chan' = chan
          /\ Answer(e, W(tty).tx)
    BY DEF InputPacket
  <1>2. UNCHANGED <<opens, probes>>
    BY DEF InputPacket
  <1>3. net[e] # <<>> /\ m \in Msg /\ m.id \in Ids /\ m.t \in MsgType \ {"OPEN"}
    BY IncomingMsg DEF InputPacket, Incoming, IndInv
  <1> DEFINE w == W(tty)
  <1>4. World(chan[e], chan[Peer(e)], net[e], net[Peer(e)], opens, e, probes)
    BY Looks
  <1>5. m.t \in Real => c.type \in Public
    <2>1. m.t \in Real => Head(net[e]).t \in Real \ {"OPEN"}
      BY <1>3
    <2>2. m.t \in Real => c.type \in Est \cup {"opening"}
      BY <1>3, <1>4, <2>1, FindsHead
    <2> QED BY <2>2 DEF Est, Public
  <1>6. c.type \notin Public =>
          w = UnknownChannel(e, m) /\ err' = [err EXCEPT ![e] = w.err] /\ chan' = chan
    BY <1>1
  <1>7. c.type \in Public =>
          /\ m.t = "EXEC" => w = session_input_exec(Begin(c), tty)
          /\ m.t # "EXEC" => w = InputHandler(Begin(c), m)
          /\ Store(e, m.id, w)
    BY <1>1
  <1>8. Answer(e, w.tx)
    BY <1>1
  <1> HIDE DEF w
  <1>9. \/ m.t \in {"DATA", "EXTDATA", "ADJUST"} \/ m.t \in {"EOF", "CLOSE"}
        \/ m.t \in {"CONFIRM", "OPENFAIL"} \/ m.t \in {"EOW", "EXIT", "EXEC"}
        \/ m.t \in {"REPLY", "KEEPALIVE"}
    BY <1>3 DEF MsgType
  <1>10. m.t \notin {"REPLY", "KEEPALIVE"} => m.t \in Real
    BY <1>3 DEF Real
  <1> HIDE DEF c
  <1>11. CASE m.t \in {"DATA", "EXTDATA", "ADJUST"}
    BY <1>2, <1>3, <1>5, <1>7, <1>8, <1>10, <1>11, SilentStep DEF c
  <1>12. CASE m.t \in {"EOF", "CLOSE"}
    BY <1>2, <1>3, <1>5, <1>7, <1>8, <1>10, <1>12, MarkedStep DEF c
  <1>13. CASE m.t \in {"CONFIRM", "OPENFAIL"}
    BY <1>2, <1>3, <1>5, <1>7, <1>8, <1>10, <1>13, OpenAnsweredStep DEF c
  <1>14. CASE m.t \in {"EOW", "EXIT", "EXEC"}
    BY <1>2, <1>3, <1>5, <1>7, <1>8, <1>10, <1>14, RequestedStep DEF c
  <1>15. CASE m.t \in {"REPLY", "KEEPALIVE"}
    <2>1. CASE c.type \in Public
      BY <1>2, <1>3, <1>7, <1>8, <1>15, <2>1, ProbedStep DEF c
    <2>2. CASE c.type \notin Public
      BY <1>2, <1>3, <1>6, <1>8, <1>15, <2>2, StrayStep
    <2> QED BY <2>1, <2>2
  <1> QED BY <1>9, <1>11, <1>12, <1>13, <1>14, <1>15

\* A free slot owes nothing.
LEMMA FreeLocal == LocalOK(FreeChan)
  BY DEF LocalOK, FreeChan, Accounted, Fresh, Est, NoId

\* Two empty tables and two empty connections.
LEMMA InitLinks == Init => LinkInv /\ GivesUp
  <1> SUFFICES ASSUME Init PROVE LinkInv /\ GivesUp
    OBVIOUS
  <1> DEFINE A == [i \in Ids |-> FreeChan]
  <1>1. /\ chan["client"] = A /\ chan["server"] = A
        /\ net["client"] = <<>> /\ net["server"] = <<>> /\ opens = 0
    BY DEF Init, Endpoint
  <1>2. GivesUp
    BY DEF Init, GivesUp
  <1>3. Packets(<<>>) = {} /\ <<>> \in Seq(Msg)
    BY DEF Packets
  <1>4. FreeChan.type = "free" /\ FreeChan.inst = 0 /\ FreeChan.ctype = "tcp"
    BY DEF FreeChan
  <1>5. \A i \in Ids : A[i] = FreeChan
    OBVIOUS
  <1>6. A \in [Ids -> Channel]
    BY FreeChanGood
  <1> HIDE DEF A
  <1>7. Table(A, 0)
    BY <1>4, <1>5, <1>6, FreeLocal, FreeChanGood DEF Table
  <1>8. Half(A, A, {}, {})
    BY <1>4, <1>5 DEF Half, HasPeer, WaitsForAnswer, Est
  <1>9. Linked(A, A, {}, {}, 0)
    BY <1>7, <1>8 DEF Linked, Numbers
  <1>10. Ordered(<<>>)
    BY DEF Ordered
  <1>11. Flow(A, A, <<>>, <<>>)
    BY <1>4, <1>5 DEF Flow
  <1>12. SideOK(A, {}, "client", probes) /\ SideOK(A, {}, Peer("client"), probes)
    BY <1>4, <1>5 DEF SideOK
  <1>13. World(A, A, <<>>, <<>>, 0, "client", probes)
    BY <1>3, <1>9, <1>10, <1>11, <1>12 DEF World
  <1> QED BY <1>1, <1>2, <1>13 DEF LinkInv

\* Every step of the system preserves the invariant of the two ends.
LEMMA NextLinks ==
  IndInv /\ LinkInv /\ GivesUp /\ [Next]_vars => LinkInv' /\ GivesUp'
  <1> SUFFICES ASSUME IndInv, LinkInv, GivesUp, [Next]_vars PROVE LinkInv' /\ GivesUp'
    OBVIOUS
  <1>0. ASSUME UNCHANGED <<chan, net, err, opens, probes>> PROVE LinkInv' /\ GivesUp'
    <2>1. LinkInv'
      BY <1>0 DEF LinkInv
    <2>2. GivesUp'
      BY <1>0 DEF GivesUp
    <2> QED BY <2>1, <2>2
  <1>1. ASSUME NEW e \in Endpoint, EndInput(e) \/ OutputHeld(e) PROVE LinkInv' /\ GivesUp'
    BY <1>0, <1>1 DEF EndInput, OutputHeld
  <1>2. ASSUME NEW e \in Endpoint, OutputPoll(e) PROVE LinkInv' /\ GivesUp'
    BY <1>2, OutputPollLinks
  <1>3. ASSUME NEW e \in Endpoint, NEW expired \in BOOLEAN, Pre(e, expired)
        PROVE  LinkInv' /\ GivesUp'
    BY <1>3, PreLinks
  <1>4. ASSUME NEW e \in Endpoint, Post(e) PROVE LinkInv' /\ GivesUp'
    BY <1>4, PostLinks
  <1>5. ASSUME NEW e \in Endpoint, InputOpen(e) PROVE LinkInv' /\ GivesUp'
    BY <1>5, InputOpenLinks
  <1>6. ASSUME NEW e \in Endpoint, RefuseOpen(e) PROVE LinkInv' /\ GivesUp'
    BY <1>6, RefuseOpenLinks
  <1>7. ASSUME NEW e \in Endpoint, InputPacket(e) PROVE LinkInv' /\ GivesUp'
    BY <1>7, InputPacketLinks
  <1>8. ASSUME NEW e \in Endpoint, NEW k \in {"session", "tcp"}, OpenChannel(e, k)
        PROVE  LinkInv' /\ GivesUp'
    BY <1>8, OpenChannelLinks
  <1>9. ASSUME NEW i \in Ids, ChildExit("server", i) PROVE LinkInv' /\ GivesUp'
    BY <1>9, ChildExitLinks DEF Endpoint
  <1>10. ASSUME NEW i \in Ids, ClientAliveCheck(i) PROVE LinkInv' /\ GivesUp'
    BY <1>10, ClientAliveCheckLinks
  <1>11. CASE UNCHANGED vars
    BY <1>0, <1>11 DEF vars
  <1> QED
    BY <1>1, <1>2, <1>3, <1>4, <1>5, <1>6, <1>7, <1>8, <1>9, <1>10, <1>11
       DEF Next, Loop, Dispatch

\* Every behaviour keeps the two tables and the packets between them in step.
THEOREM Linking == Spec => [](IndInv /\ LinkInv /\ GivesUp)
  <1>1. Init => IndInv /\ LinkInv /\ GivesUp
    BY InitInv, InitLinks
  <1>2. /\ (IndInv /\ LinkInv /\ GivesUp) /\ [Next]_vars
        => (IndInv /\ LinkInv /\ GivesUp)'
    BY NextInv, NextLinks
  <1> QED BY <1>1, <1>2, PTL DEF Spec

\* No packet of a channel follows its CLOSE but the keepalive probe, and
\* nothing that carries data follows its EOF.
THEOREM LastPackets == Spec => []CloseAndEofAreLast
  <1>1. LinkInv => CloseAndEofAreLast
    <2> SUFFICES ASSUME LinkInv, NEW e \in Endpoint, NEW k \in 1 .. Len(net[e]),
                        NEW l \in 1 .. Len(net[e]), k < l, net[e][k].inst = net[e][l].inst
                 PROVE  /\ net[e][k].t = "CLOSE" => net[e][l].t = "KEEPALIVE"
                        /\ net[e][k].t = "EOF" => net[e][l].t \notin {"DATA", "EXTDATA", "EOF"}
      BY DEF CloseAndEofAreLast
    <2>1. Ordered(net[e])
      BY Looks, WorldParts
    <2>2. MayFollow(net[e][k].t, net[e][l].t)
      BY <2>1 DEF Ordered
    <2> QED BY <2>2 DEF MayFollow, Carrying
  <1> QED BY <1>1, Linking, PTL

\* A channel number is not used again while a packet for the channel that had
\* it is on its way.
THEOREM FindsItsChannel == Spec => []ReachesItsChannel
  <1>1. LinkInv => ReachesItsChannel
    <2> SUFFICES ASSUME LinkInv, NEW e \in Endpoint, NEW k \in 1 .. Len(net[e]),
                        net[e][k].t \notin {"OPEN", "KEEPALIVE", "REPLY"}
                 PROVE  chan[e][net[e][k].id].inst = net[e][k].inst
      BY DEF ReachesItsChannel
    <2> DEFINE m == net[e][k]
    <2>1. /\ net[e] \in Seq(Msg)
          /\ Half(chan[e], chan[Peer(e)], Packets(net[e]), Packets(net[Peer(e)]))
      BY Looks, WorldParts
    <2>2. m \in Packets(net[e]) /\ m \in Msg
      BY <2>1 DEF Packets
    <2> HIDE DEF m
    <2>3. Routed(chan[e], chan[Peer(e)], Packets(net[Peer(e)]), m)
      BY <2>1, <2>2 DEF Half
    <2>4. m.t \in Real \ {"OPEN"}
      BY <2>2 DEF m, Real, Msg
    <2>5. chan[e][m.id].inst = m.inst
      BY <2>3, <2>4 DEF Routed
    <2> QED BY <2>5 DEF m
  <1> QED BY <1>1, Linking, PTL

\* Two ways to count the same packets agree.
LEMMA InFlightAlike ==
  ASSUME NEW s \in Seq(Msg), NEW n, NEW ts, NEW us,
         \A k \in 1 .. Len(s) : Bytes(s[k], n, ts) = Bytes(s[k], n, us)
  PROVE  InFlight(s, n, ts) = InFlight(s, n, us)
  <1> DEFINE P(x) == (\A k \in 1 .. Len(x) : Bytes(x[k], n, ts) = Bytes(x[k], n, us))
                       => InFlight(x, n, ts) = InFlight(x, n, us)
             S == {l \in Nat : \A x \in Seq(Msg) : Len(x) = l => P(x)}
  <1>1. 0 \in S
    <2> SUFFICES ASSUME NEW x \in Seq(Msg), Len(x) = 0 PROVE P(x)
      OBVIOUS
    <2>1. x = <<>>
      OBVIOUS
    <2> QED BY <2>1, InFlightEmpty
  <1>2. ASSUME NEW l \in Nat, l \in S
        PROVE  l + 1 \in S
    <2> SUFFICES ASSUME NEW x \in Seq(Msg), Len(x) = l + 1,
                        \A k \in 1 .. Len(x) : Bytes(x[k], n, ts) = Bytes(x[k], n, us)
                 PROVE  InFlight(x, n, ts) = InFlight(x, n, us)
      OBVIOUS
    <2>1. PICK r \in Seq(Msg), m \in Msg : Len(r) = l /\ x = Append(r, m)
      BY SplitLast, ZenonT(60)
    <2>2. /\ x[l + 1] = m /\ \A k \in 1 .. Len(r) : x[k] = r[k]
      BY <2>1
    <2>3. l + 1 \in 1 .. Len(x) /\ \A k \in 1 .. Len(r) : k \in 1 .. Len(x)
      BY <2>1
    <2>4. /\ Bytes(m, n, ts) = Bytes(m, n, us)
          /\ \A k \in 1 .. Len(r) : Bytes(r[k], n, ts) = Bytes(r[k], n, us)
      BY <2>2, <2>3
    <2>5. P(r)
      BY <1>2, <2>1
    <2>6. InFlight(r, n, ts) = InFlight(r, n, us)
      BY <2>4, <2>5
    <2>7. /\ InFlight(x, n, ts) = InFlight(r, n, ts) + Bytes(m, n, ts)
          /\ InFlight(x, n, us) = InFlight(r, n, us) + Bytes(m, n, us)
      BY <2>1, InFlightAppend
    <2> QED BY <2>4, <2>6, <2>7
  <1>3. Nat \subseteq S
    <2> HIDE DEF S
    <2> QED BY <1>1, <1>2, Induct
  <1>4. Len(s) \in Nat
    OBVIOUS
  <1> QED BY <1>3, <1>4

\* The window the sender believes in, the bytes and the credit in flight make
\* up the receiver's window; with what is buffered and consumed it makes up
\* local_window_max.  No credit is lost or invented, for any window.
THEOREM CreditKept == Spec => []CreditConserved
  <1>1. LinkInv => CreditConserved
    <2> SUFFICES ASSUME LinkInv, NEW e \in Endpoint, NEW i \in Ids, NEW j \in Ids,
                        NEW s, s = chan[e][i], NEW r, r = chan[Peer(e)][j],
                        s.type = "open", r.type = "open", s.inst = r.inst,
                        r.ostate = "open", r.extended_usage = "write" => r.efd
                 PROVE  /\ s.remote_window + InFlight(net[Peer(e)], s.inst, {"DATA", "EXTDATA"})
                             + InFlight(net[e], s.inst, {"ADJUST"}) = r.local_window
                        /\ r.local_window + r.output + r.local_consumed
                             + (IF r.extended_usage = "write" THEN r.extended ELSE 0)
                             = r.local_window_max
      BY DEF CreditConserved
    <2> DEFINE q == net[e]
    <2>1. /\ opens \in Nat /\ net[e] \in Seq(Msg)
          /\ Flow(chan[e], chan[Peer(e)], net[e], net[Peer(e)])
          /\ Table(chan[e], opens) /\ Table(chan[Peer(e)], opens)
          /\ Half(chan[e], chan[Peer(e)], Packets(net[e]), Packets(net[Peer(e)]))
      BY Looks, WorldParts
    <2>2. s.inst # 0 /\ LocalOK(r) /\ (\A k \in Ids : chan[e][k].inst = s.inst => k = i)
      BY <2>1, TableAt
    <2>3. Accounted(r)
      BY DEF Accounted
    <2>4. Both(s, r, net[e], net[Peer(e)])
      BY <2>1, <2>2 DEF Flow
    <2>5. Total(s, net[e], net[Peer(e)]) = r.local_window
      BY <2>3, <2>4 DEF Both, CreditOK, Est
    <2>6. CreditIn(net[e], s.inst) = InFlight(net[e], s.inst, {"ADJUST"})
      <3>1. ASSUME NEW k \in 1 .. Len(q)
            PROVE  Bytes(q[k], s.inst, {"ADJUST", "CONFIRM"}) = Bytes(q[k], s.inst, {"ADJUST"})
        <4> DEFINE m == q[k]
        <4>1. m \in Packets(net[e]) /\ m \in Msg
          BY <2>1 DEF Packets
        <4> HIDE DEF m
        <4>2. Routed(chan[e], chan[Peer(e)], Packets(net[Peer(e)]), m)
          BY <2>1, <4>1 DEF Half
        <4>3. m.id \in Ids
          BY <4>1 DEF Msg
        <4>4. m.t = "CONFIRM" => chan[e][m.id].inst = m.inst /\ chan[e][m.id].type = "opening"
          BY <4>2 DEF Routed, ConfirmOK, Real, MsgType
        <4>5. ~ (m.t = "CONFIRM" /\ m.inst = s.inst)
          BY <2>2, <4>3, <4>4
        <4>6. Bytes(m, s.inst, {"ADJUST", "CONFIRM"}) = Bytes(m, s.inst, {"ADJUST"})
          BY <4>5 DEF Bytes
        <4> QED BY <4>6 DEF m
      <3>2. q \in Seq(Msg)
        BY <2>1
      <3> HIDE DEF q
      <3>3. InFlight(q, s.inst, {"ADJUST", "CONFIRM"}) = InFlight(q, s.inst, {"ADJUST"})
        BY <3>1, <3>2, InFlightAlike
      <3> QED BY <3>3 DEF q, CreditIn
    <2>7. r.local_window + r.output + r.local_consumed
            + (IF r.extended_usage = "write" THEN r.extended ELSE 0) = r.local_window_max
      BY <2>2, <2>3 DEF LocalOK
    <2> QED BY <2>5, <2>6, <2>7 DEF Total, DataIn
  <1> QED BY <1>1, Linking, PTL

\* A program that reads the end of its input because the peer sent EOF has got
\* every byte the program at the other end wrote, in any interleaving.
THEOREM NothingTruncated == Spec => []EofDeliversAll
  <1>1. LinkInv => EofDeliversAll
    <2> SUFFICES ASSUME LinkInv, NEW e \in Endpoint, NEW i \in Ids, NEW j \in Ids,
                        NEW r, r = chan[e][i], NEW s, s = chan[Peer(e)][j],
                        r.type # "free", r.inst = s.inst, "EOF_RCVD" \in r.flags,
                        r.ostate = "closed", ~r.wfail, s.type # "abandoned"
                 PROVE  r.got = s.taken
      BY DEF EofDeliversAll
    <2> DEFINE q == net[e]
    <2>1. /\ opens \in Nat /\ net[e] \in Seq(Msg)
          /\ Flow(chan[e], chan[Peer(e)], net[e], net[Peer(e)])
          /\ Table(chan[e], opens) /\ Table(chan[Peer(e)], opens)
          /\ Half(chan[e], chan[Peer(e)], Packets(net[e]), Packets(net[Peer(e)]))
      BY Looks, WorldParts
    <2>2. r.inst # 0 /\ LocalOK(r) /\ r \in Channel /\ s \in Channel
      BY <2>1, TableAt
    <2>3. Both(r, s, net[e], net[Peer(e)]) /\ Paired(r, s, j)
      BY <2>1, <2>2 DEF Flow, Half
    <2>4. s.taken = s.input + PlainIn(q, s.inst) + r.output + r.got /\ EofDrained(s)
      BY <2>3 DEF Both, BytesOK
    <2>5. s.input = 0
      BY <2>3, <2>4 DEF Paired, EofDrained
    <2>6. r.output = 0
      BY <2>2 DEF LocalOK
    <2>7. PlainIn(q, s.inst) = 0
      <3>1. ASSUME NEW k \in 1 .. Len(q)
            PROVE  Bytes(q[k], s.inst, {"DATA"}) = 0
        <4> DEFINE m == q[k]
        <4>1. m \in Packets(net[e])
          BY DEF Packets
        <4> HIDE DEF m
        <4>2. m.inst = r.inst => Comes(r, m)
          BY <2>1, <4>1 DEF Half
        <4>3. ~ (m.inst = s.inst /\ m.t = "DATA")
          BY <4>2 DEF Comes, Carrying
        <4>4. Bytes(m, s.inst, {"DATA"}) = 0
          BY <4>3 DEF Bytes
        <4> QED BY <4>4 DEF m
      <3>2. q \in Seq(Msg)
        BY <2>1
      <3> HIDE DEF q
      <3>3. InFlight(q, s.inst, {"DATA"}) = 0
        BY <3>1, <3>2, InFlightNone
      <3> QED BY <3>3 DEF PlainIn
    <2>8. r.got \in Nat
      BY <2>2 DEF Channel
    <2> QED BY <2>4, <2>5, <2>6, <2>7, <2>8
  <1> QED BY <1>1, Linking, PTL

\* The server never disconnects or dies of a packet, and the client never
\* disconnects and dies of a fatal error only if the server has sent a
\* keepalive probe.
THEOREM OnlyProbesHurt == Spec => []GivesUp
  BY Linking, PTL

\* Without keepalive probes (ClientAliveInterval 0, the default) neither end
\* gives the other cause to disconnect.
THEOREM NeverDisconnects ==
  ASSUME MaxAlive = 0
  PROVE  Spec => []NoDisconnect
  <1>1. IndInv /\ GivesUp => NoDisconnect
    <2> SUFFICES ASSUME IndInv, GivesUp PROVE NoDisconnect
      OBVIOUS
    <2>1. probes = 0
      BY DEF IndInv, TypeOK
    <2> QED BY <2>1 DEF GivesUp, NoDisconnect
  <1> QED BY <1>1, Linking, PTL
=============================================================================
