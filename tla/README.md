# A TLA+ model of OpenSSH Server PN

OpenSSH Server PN is OpenSSH 10.5p1 with its Windows port (`src/src/`), an
installer, and a management console written in C#
(`src/tools/OpenSSH-Server-PN-Manager/`). This directory holds TLA+ modules
translated from that source, TLC configurations that check them on small
instances, and TLAPS proofs. `PROJECT.json` maps every definition to the lines
it models and lists runs, mutants, hazards, findings and theorems.

## Inventory

| Component | State | Operations | What is hard | What makes it correct |
|---|---|---|---|---|
| Channel state machine, `nchan.c` | `istate`, `ostate`, `flags` of a `Channel` | end of file, write error, EOF/EOW/CLOSE received, `chan_is_dead` | half-close in either order, both sides at once | CLOSE once, after both halves; EOF after the last byte |
| Connection layer, `channels.c` | table of `Channel`s: windows, buffers, descriptors | open, data, extended data, window adjust, poll handlers, collector, `ChannelTimeout` | crossing packets, number re-use, credit at the limit, drops | no credit lost, no packet for the wrong channel, everything closed is freed |
| Sessions, `session.c`, and server loop, `serverloop.c` | `Session` with its child, keepalive counter | exec, exit status, detach, keepalive probe | command outlives the client's close; exit races timeout | exit status before CLOSE; no close of a running command |
| Client loop, `clientloop.c` | its channels, pending replies | opens, requests, replies | requests that arrive late for a re-used number | requests answered only on channels whose peer is known |
| Multiplexing, `mux.c` | control-master clients | hello, new session, forwarding | clients that leave between request and reply | replies reach the right client |
| Packet layer, `packet.c`, `kex.c` | sequence numbers, keys, `outgoing` queue | send, receive, rekey | packets queued during key exchange | order kept, nothing but KEX while rekeying |
| Authentication, `auth2*.c`, and monitor, `monitor.c` | attempts, failures and method lists, in the child and again in the monitor; table of permitted requests | one handler per packet of the client, one per request of the child | the client chooses the order; the monitor decides after it has answered | a login is earned by one whole list; both processes come to the same result |
| Listener, `sshd.c`, `srclimit.c` | `children[]`, penalties | accept, child notices, reap, penalise | slots leaked or freed twice, expiry | never more than `MaxStartups`, every slot comes back |
| Agent, `ssh-agent.c` | identities, sockets, session binds | add, remove, sign, lock | lifetimes, constraints per hop | no signature outside the constraints |
| SFTP, `sftp-client.c` | outstanding requests | pipelined read and write | short reads, late errors | file complete or error |
| Windows I/O, `w32fd.c`, `fileio.c`, `socketio.c` | pending and completed overlapped operations | read, write, select, APC completion | completion races close | no lost wake-up, no lost byte |
| Configuration recovery, `ConfigurationRecovery.cs`, `ConfigurationTransaction.cs` | `pending.ini`, `previous.config`, scheduled task, mutex | save, arm, keep, extend, restore, abandon, the recovery task | crash between two durable writes; task, windows and editors at once | a change that is not kept goes back; an outside edit is not overwritten |
| Notification outbox, `NotificationOutbox.cs` | queue file, retries | enqueue, send, retry, expire | crash between send and dequeue | each event sent, bounded repeats |
| Transfer journal, `TransferJournal.cs`, `Transfers.cs` | journal of unfinished transfers | start, progress, finish, resume | crash, resume of a changed file | no finished transfer repeated |
| Keys, parsers, cryptography, GUI, installer | files, forms | | sequential | tests cover them better |

How they interact: the listener forks a session process per connection; the
session process authenticates through the monitor and then runs the server loop
over the connection layer and the packet layer. The client runs the same
connection layer under its own loop. The console edits `sshd_config`, restarts
the service and relies on the recovery journal to undo a change nobody
confirmed; its windows, the scheduled task and outside editors share only files
and one named mutex.

## Modules

`Nchan` is a constant-level module. A C function that updates a `Channel` and
sends packets is an operator from a work record (`c` the channel, `tx` the
packets sent, `err` why the process gave up) to a work record; callers compose
them in the order of the C calls. Buffers are byte counts. The C names are kept.

`Channels` extends it with the two processes. `chan[e][i]` is slot `i` of the
table of process `e`, `net[e]` the packets on their way to it (TCP: a FIFO),
`pc[e]` and `cur[e]` the place in the loop of `server_loop2`/`client_loop`:

| Phase | Code | Actions |
|---|---|---|
| `input` | `process_buffered_input_packets` | `InputOpen`, `RefuseOpen`, `InputPacket`, `EndInput` |
| `output` | `channel_output_poll`, one slot a step | `OutputPoll`, `OutputHeld` |
| `pre` | `collect_children`; `channel_handler(CHAN_PRE)` | `ChildExit`, `Pre` |
| `post` | `client_alive_check`, listeners; `channel_handler(CHAN_POST)` | `ClientAliveCheck`, `OpenChannel`, `Post` |

What `poll` and the system calls report is a choice over everything possible
for the descriptors the channel waits for (`PollResults`). The fields `inst`,
`taken`, `etaken`, `got` and `wfail` are history: no guard reads them except
the bounds `MaxData` and `MaxErr`.

Left out: channels that never reach the wire (`CHAN_LOCAL`), compatibility with
other implementations (`SSH_BUG_EXTEOF`), rekeying, datagram channels, filters,
X11, SOCKS and mux channels, a failing `do_exec`, the end of the connection
itself, and different packet sizes at the two ends. Of a channel's descriptors
only `efd` is kept, whose absence changes what the code does.

`ConfigRecovery` models the console's commit-confirmed change of `sshd_config`.
Its processes are the manager windows and the scheduled task of the SYSTEM
account; anybody may also edit the file or restart the service.

| State | Code |
|---|---|
| `live`, `previous`, `journal` | `sshd_config`, `previous.config`, `pending.ini`. A file is one value, which is also its hash; a backup's name carries its content, because a backup is written once |
| `since` | what the time of `sshd_config` tells (`ChangedSinceStart`): `changed`, it was written more than a second after the running `sshd` started; `young`, that second is not over; `counted`, the files that count as loaded: the one `sshd` loaded and those written within the second (history, for `ChainTarget`) |
| `task`, `late` | the scheduled task is registered; the deadline in the journal has passed |
| `firewall` | the ports the rule allows |
| `server`, `ran` | identity of the running `sshd` (process id and start time; 0 when it is stopped), and the file it loaded |
| `lock` | the machine-wide mutex of `ConfigurationTransaction.Locked` |
| `pc`, `mem` | the place of each process between two durable effects, and the locals it keeps |

One action is one durable effect: a file is renamed into place, the journal
written, the task registered, the firewall rule set, the service restarted. A
process may die (`Crash`) or a step throw (the `...Fails` actions) between any
two of them; a dead holder's mutex goes to the next one.

| Part | Code | Actions |
|---|---|---|
| saving | `ConfigurationTransaction.Save`, `Prepare`, `Unprepare` | `BeginSave`, `Prepare`, `PrepareRecord`, `CheckUnchanged`, `Replace`, `SaveFails`, `Unprepare` |
| firewall, restart or not | `OpenFirewallForPort`, `SaveSettings`, `RestartApplyingSaved` | `OpenFirewallForPort`, `SaveOnly`, `RestartApplyingSaved`, `PlainRestart` |
| arming | `ArmRecord`, `Schedule` | `CaptureFirewall`, `Arm`, `ArmRefused`, `ArmWrite`, `Schedule`, `Pend`, `ArmFails`, `RestartAnyway` |
| in effect | `RestartWithRollback`, `SetDeadline` | `Apply`, `ApplyFails`, `RestartService`, `RestartFails`, `SetDeadline`, `SetDeadlineFails`, `NoQuestion`, `Answer` |
| keeping | `ConfirmAsync`, `DisarmInactive` | `ConfirmBegin`, `ConfirmRefused`, `Keep`, `Commit`, `Disarm` |
| restoring | `RecoverPending`, from `RestoreNow` or `Run` | `RecoverBegin`, `RecoverLive`, `RecoverPhase`, `RecoverFirewall`, `RecoverPhase2`, `RecoverRestart`, `RecoverDone`, `RecoverFails`, `RestoreEnds` |
| stuck record | `ResolvePendingRecovery`, `Abandon` | `ResolvePendingRecovery`, `Abandon` |

Abstractions. The administrator is a choice at every question, including
"overwrite" when the file is not the one the window loaded, so that the
`LoadedHash` check is no guard. Outside programs write only files of `Foreign`,
never an earlier content. Of the clock there are three events: the deadline passes,
the first second of an `sshd` is over (`SecondPasses`, with any number of steps before
it), and the task runs. Left out are the text of `ReportFailure` and the two minutes a
record must be overdue before a window offers the way out of it (the window may
offer it as soon as the deadline has passed). A window that finds the mutex taken
may give up at any moment, not only after its time limit.

`Listener` models the `sshd` that accepts connections, `SrcLimit` (extended by it)
the per-source table and the penalties of `srclimit.c`.

| State | Code |
|---|---|
| `child`, `children_active`, `listening` | `children[]` (descriptor of the startup pipe, process, early, buffer, source) and the two counters |
| `limit`, `penalties` | the table of unauthenticated connections by source; the penalty tree with `npenalties`. A penalty is kept as the time left |
| `sighup`, `lameduck`, `mode` | signals received, listening sockets closed, how the listener ended |
| `proc`, `pipe` | the session processes and the startup pipes, as far as the listener can tell |

One action is one event of `server_accept_loop`: a connection is refused
(`Refuse`) or accepted (`Accept`, with a `fork` that may fail), a pipe can be
written (`Write`), read (`Read`) or is at its end (`HangUp`), a process was waited
for (`child_reap_all_exited`), a signal was received. `ppoll` reports any subset
of what is ready, so an iteration with several events is several iterations with
one. The session process reports that it has its configuration
(`Preliminaries`), that its user has authenticated (`Authenticated`), and exits
at any moment. Left out: an unlimited `PerSourceMaxStartups` (then there is no
table), an address that cannot be found out, and the second penalty tree, which
is one of the same kind.

`Transport` models both ends of `packet.c`, `kex.c` and the key exchange methods
(`kexgen.c`, `kexgexc.c`, `kexgexs.c`). A function of the code is an operator on
the record of one end; a packet carries the key, the sequence number and the
compression state it was sent with, and is corrupt for a reader whose own
differ. `sent` and `got` count the messages of the layers above. The guard
`due` says that a rekey limit is reached at a check: any check may find that.
`OrderedStream` is the abstract specification of the packet layer, and
`ImplementsStream` the refinement (the mapping is the identity on `sent` and
`got`, the rest of the state is hidden). Left out: PING, IGNORE and DEBUG, the
limit on packets before authentication, the contents of EXT_INFO, the handover
of the key state from the child to the session process.

`Monitor` models the privileged process of a login, `Auth` (which extends it) the
unprivileged child and the client, and composes the two over their pair of
pipes.

| State | Code |
|---|---|
| `conf` | `AuthenticationMethods` and the enabled methods |
| `mon` | the monitor: permitted entries of `mon_dispatch`, its `authctxt`, the key found allowed, `auth_opts`, the GSSAPI context |
| `toMon`, `toChild` | the pipes |
| `child` | the child: its `authctxt`, its dispatch table for GSSAPI messages, and what it waits for |
| `proved`, `child.excused` | history |

The client is any client: `FirstRequest`, `input_userauth_request` and the
`input_gssapi_...` actions take every packet it might send whenever the child
reads. A function that asks the monitor is two actions, the question and the
answer (`mm_auth_password`, `mm_user_key_allowed`, ...), and the monitor is two
as well, `monitor_read` with the handlers and `monitor_decide`, because the rest
of its loop runs after the answer is out. Left out: keyboard-interactive, PAM and
BSD authentication, hostbased (the same path as publickey), "none" as an element
of a list, submethods, certificates, the banner, the requests of the key
exchange, and the root check (no account of a Windows build has uid 0). Of a
key's options only the forced command is kept, of the flags of a GSSAPI context only
INTEG (MUTUAL, which `ssh_gssapi_accept_ctx` asks for as well, is taken as set), and
of `RefuseConnection` nothing: it ends the monitor at the first request.

`MCChannels`, `MCConfigRecovery`, `MCListener`, `MCTransport` and `MCAuth` hold the
sets and budgets of the instances.
`ChannelsProofs`, `ConfigRecoveryProofs`, `ListenerProofs`, `MonitorProofs`,
`AuthProofs` (which extends `MonitorProofs`) and `TransportProofs` (with the lemmas
in `TransportWire` and `TransportPair`) hold the theorems.

## Runs

| Run | Instance | Shows |
|---|---|---|
| `channels_flow` | one forwarding, 3 bytes each way, window 2, packets of 1 | Credit is conserved, a used-up window reopens, what is dropped is given back, EOF truncates nothing, nothing but a probe follows CLOSE, both ends free the channel |
| `channels_crossing` | two channels, opened by either side, no data, the server's inactivity timeout firing at any time | Opens, refusals, failures, timeouts and closes may cross: no disconnect, CLOSE only for shut channels, no packet for a re-used number |
| `channels_session` | a session with one byte each of input, stdout and stderr, the server's timeout and one keepalive probe, window 1 | A command is let go of only with its exit status on the wire, ahead of CLOSE; the session stays attached while its command runs; credit is conserved with stderr; freed in the end |
| `channels_stderr_stall` | 2 bytes of stderr, window 2 | Finding 1 |
| `channels_probe_reuse` | two channels, one probe | Finding 2 |
| `recovery_windows` | two windows, two saves, one service event, one fault | A pending change has its task, keep and restore exclude each other, the journal's phase is true, the record of the running `sshd` keeps as its target a file that counts as loaded by it, restored means running, decisions are final |
| `recovery_resolves` | one window, one save, one restart, one service event, one outside edit, two faults; every file has its own port | Under `FairSpec` a pending change is resolved, unless the file was edited or the recovery copy is another one; a restore opens every port again that was open before |
| `recovery_kept` | two windows, a save each, nothing else | Finding 3 |
| `recovery_first_save` | no `sshd_config` at the start, one save | Finding 4 |
| `listener` | two sources, `MaxStartups` 2, one connection per source, two processes, a penalty table of one entry | Counters, children table and per-source table agree in every order of end of file, exit and notice; the fatal errors of the table do not occur; every slot comes back; SIGHUP restarts, and leaves nobody without configuration |
| `transport` | 5 messages each way, sequence numbers modulo 5, three key names, both kinds of exchange | Exchanges started by either end or both never fail and complete; nothing but the exchange during one and nothing else in the clear; the stream above is ordered and complete |
| `auth` | four keys (one not authorized, two with different forced commands), `MaxAuthTries` 2, 4 requests, six settings | A login is earned, the same for both processes, and keeps forced commands; the child never asks what is not permitted; nobody waits for ever |

Bounds of the connection layer: two slots are enough for a number to be re-used
while another channel lives; a window of 2 with 3 bytes to carry means that the
window fills, empties and reopens; packets of one byte allow the largest number
of crossings. `MaxChannels` also bounds the channels opened in one run, so a
table never fills and `channels_alloc` needs no growth. With channels opened by
either side the two ends are alike, so a timeout at one of them is enough.
Deadlock is checked in
these runs: the loop of a process never blocks for good, unless it gave up.

Bounds of the recovery: `Budget` caps saves, restarts from the Dashboard,
service events, outside edits and faults. Two windows with a save each are
enough for every conflict over one record and for a record that continues an
earlier one; two faults let a restore fail, be resumed and fail again. `PhaseIsTrue`,
`ChainTarget` and `RestoredMeansRunning` are checked without outside edits, which the
code can detect only before it writes. Without ports that differ (`SamePort`) the
firewall question never comes up; `recovery_resolves` uses a port per file.
Deadlock is not checked in these runs: with the budgets used up and the record
resolved there is nothing left to do. The windows are symmetric, and the run
that uses it checks only safety.

Bounds of the listener: with two slots one is full, freed and taken again while
the other lives, and the limit is reached; one connection per source makes the
second one of a source be refused; a penalty table of one entry overflows with
the second source. Session processes end with status 255 (the other statuses only
choose another penalty), whose penalty of 1 is not enforced alone, accumulates to
the maximum of 2 and expires. `MaxProcs` 2 bounds the processes alive. Deadlock is not checked: SIGTERM ends the listener.

Bounds of the transport: `MaxData` bounds the messages, nothing bounds the
exchanges. Five sequence numbers wrap within one exchange after the first (in
which the code does not allow it); three names keep the keys of two exchanges in
a row and of the next apart. Deadlock is not checked: a client whose
authentication attempts were all refused stops.

Bounds of the login: two tries reach `MaxAuthTries` by every path, four requests
(1024 in the code) allow three keys and a failure in between. The six settings
are: any method; a list of two and one of three keys; two lists with the same
end; two lists of which one needs a method that is not enabled; only such a list.
Deadlock is not checked: a login ends.

## Findings

1. `channel_input_extended_data` drops stderr that cannot be written any more
   without counting it as consumed (as does `channel_handle_efd_write` after a
   write error), so the window it used is lost. `channel_input_data` takes care of
   the same situation, and its comment says why.
2. `client_alive_check` may probe a channel whose CLOSE has been sent. The client
   may meanwhile have given the number to a channel that is still opening, and
   the reply then trips `fatal_f("channel %d: no remote_id")`.
3. `ArmRecord` (`ConfigurationRecovery.cs:285`) compares a window's backup with
   the journal only while the journal is `prepared`. A window that saved first,
   and arms after another window saved and kept a change, makes a new record
   from its stale backup: an unanswered question then goes back behind the kept
   change, which `sshd` was running (the manager's `README.md:430-432`).
4. `RecoverPending` (`ConfigurationRecovery.cs:450`) deletes `sshd_config` when
   the record has no previous file, which *Save and restart* of a first file
   arms; `docs/AUDIT-2026-10-08-FOLLOWUP.md:77-78` says a first save never rolls
   back by deleting it.

Seen while modelling, without a run of their own:

- Output that a failed write leaves in the buffer (`chan_write_failed` resets it) never
  counts as consumed, and only a session tells its peer with EOW. A forwarding whose
  whole window lay in that buffer never gives credit again, until its other half
  closes. `WindowReopens` therefore excepts a receiver whose output half is shut;
  `DroppedIsGivenBack` is what holds of such a one: data that still arrives is given
  back.
- `RestartNeeded` (`Ssh.cs:314`) counts a file written up to a second after the
  start of `sshd` as loaded. When `sshd` restarts after a save has written its
  record and before it writes the file, and the file follows within that second,
  the next save records it as the rollback target of the new `sshd`, which loaded
  the older one; the comment at `ConfigurationRecovery.cs:202` says "Only a file the
  running sshd loaded can be its rollback target in a later save". With
  `journal.before = ran` as the conclusion of `ChainTarget` TLC finds this with one
  window, two saves and one service event. What holds, and is checked and proved, is
  that the target was loaded by that `sshd` or written within its first second, and
  never saved later.
- `RecoverPending` compares `sshd_config` with the record (`:434`) and replaces
  it later (`:448`); an edit between the two is overwritten, although the
  manager's `README.md:439-440` says that recovery refuses to.
- `previous.config` and the record that names it are two files (`:254`). A save
  that dies between them, when a service restart has made the older record one
  of an `sshd` that is gone, leaves that record with a copy that is not its own. `ContinuedRecord` notices; `ArmRecord` does not, and the restore of the
  record it arms stops at its integrity check. `Resolved` allows for that.
- A window that is delayed between arming and applying (`MainForm.cs:1576`) past
  the deadline widens the firewall rule after the task has restored it;
  `docs/AUDIT-2026-10-08.md:29` says configuration and firewall "belong to the
  same recovery decision". `RestoreReopens` shows that no port is closed by that.
- The wider rule is computed when the question is asked (`MainForm.cs:1287`) and
  written as a whole later, so of two windows that each add a port the later one
  takes the other's port out again; with two windows and a port per file TLC
  finds `RestoreReopens` violated.
- `srclimit_penalise` caps a penalty at the maximum only when it adds to one; a
  single penalty longer than the maximum is kept as it is (`srclimit.c:431`). And a
  penalty is enforced when it is longer than the minimum, not when it is as long.
- A session process that exits right after its user has authenticated may be
  waited for before its notice is read, and its source is then penalised for not
  authenticating (`child_reap` runs ahead of the pipes in `server_accept_loop`).
- `packet.c:1462` ("If this packet triggers a rekex, then skip the remaining
  packets in the queue for now") is never reached: `kex->done` is still 0 there,
  so `ssh_packet_need_rekeying` says no. The limit is noticed at the next packet.
- `mm_answer_authpassword` calls a first empty password "none" (`monitor.c:1074`),
  the child calls it "password". For an account whose password is empty, with
  `PermitEmptyPasswords` and `AuthenticationMethods`, the monitor then ends in
  "method not in AuthenticationMethods" after the child has told the client of
  its success; with `Blank = TRUE` TLC finds `NeverRefused` violated.
- A client that finishes a GSSAPI exchange behind a later request which failed on
  the server's account (an unknown mechanism) is counted a failure by the monitor
  and none by the child, because `server_caused_failure` is left from the later
  request. The monitor may then be the one to give up ("Shouldn't happen",
  `monitor.c:358`). `TriesAgree` excepts it (`child.excused`).
- `mm_answer_keyverify` ignores the result of `auth_activate_options`, and the
  child is sent "true" for every forced command. Two keys with different forced
  commands therefore lead to SUCCESS and to a session process that dies for want
  of options; `ForcedCommandKept` holds.
- On a Windows build `listening` is never counted up and SIGHUP never arrives
  (`FORK_NOT_SUPPORTED`); the run models the other build, `ForkSupported = FALSE`
  this one.

## Fairness

A process of the connection layer keeps going round its loop and reads what is
on the wire: it is a single thread whose only wait is `poll` with the connection
in its set. The programs behind a channel take or refuse in the end what is
offered to them, a `connect` ends, and in `SessionSpec` a command ends. Nothing
is assumed about what the programs write. Apart from one `WF` the assumptions
are `[]<>` formulas, that is, statements about what happens again and again.

For the recovery: the deadline passes, the task runs (it is registered with a
repetition of one minute, as SYSTEM), and a process that holds the mutex goes
on, because no step under it waits for a person. Nothing is asked of a window
outside the mutex: the administrator may never answer, and the window may be
gone. Crashes and faults are limited by the budget only.

For the listener: its loop serves every pipe that is ready, collects every
process that has ended and obeys SIGHUP, each of them again and again; a process
that has its configuration authenticates its user or ends, by `LoginGraceTime` at
the latest. For the transport: a process starts, goes on to its next phase and
reads what has arrived. For the login: one of the two processes takes a step as
long as one can; the client need not send anything and the alarm need not go
off.

## Proofs

All theorems hold for every value of the constants that the named assumptions
(`ChannelsAssumption`, `RecoveryAssumption`, `SrcLimitAssumption`,
`ListenerAssumption`, `KeysAssumption`, `TriesAssumption`, `ConfigsAssumption`,
`LimitAssumption`, `TransportAssumption`) allow. The assumptions give the constants
their types and keep the special values apart; those with content are
`MaxAuthTries` and the request limit above 0, and at least five sequence numbers
and three names of keys in `Transport` (2^32 and any number in the code). Five groups of
theorems have a hypothesis of their own, named below, each because the property
is false without it.

**`ChannelsProofs`.** Two inductive invariants. The first, `IndInv`, is about one
channel at a time: `TypeOK`, `CloseOnlyWhenShut` and `SessionAttached` together,
because the lemma of a caller needs all three of what its callees leave behind. The
argument runs along the call graph: `Good` is the set of work records whose channel
satisfies the invariant, there is one lemma per function of `nchan.c` and
`channels.c`, and each maps `Good` to `Good` (inside `chan_ibuf_empty`, where EOF
is out before the input half is closed, through the weaker `Closing`).
Theorems: `Inductive`, `TypeCorrect`, `ClosesShut`, `StaysWithSession`.
`TypeOK` of `Channels`, of `ConfigRecovery` and of `Transport` is proved and is in no run.

The second, `LinkInv`, relates the two tables and the two queues of packets. None of
`CloseAndEofAreLast`, `ReachesItsChannel`, `CreditConserved`, `EofDeliversAll` and
`NoDisconnect` is inductive, alone or together: whether a packet finds its channel
depends on what its sender knew when it sent it. `LinkInv` is `World` of the two ends:

- `Table`: no two slots hold the same channel, and every channel keeps its own
  accounts (`LocalOK`).
- `Half`, for either end: what may still be on its way to a channel in each of its
  states (`Comes`), what it may have sent (`Went`), that a packet is for the channel
  in the slot it names and an answer finds it still opening (`Routed`), what a channel
  knows of its peer (`Paired`, `HasPeer`), and that a channel hears nothing before the
  answer to its OPEN (`WaitsForAnswer`, `ConfirmAhead`).
- `Ordered`: which packet may follow which on the wire.
- `Flow`: the sender's window, the bytes and the credit in flight never exceed the
  receiver's window and equal it while the receiver writes what it gets (`CreditOK`);
  the bytes a program wrote are buffered, in flight or delivered (`BytesOK`). The
  inequality is what keeps a receiver that no longer writes from being overrun.
- `SideOK`: stderr and probes only go to the client, sessions are only opened by it.

For the handlers the argument runs along the call graph again, with `Sound(c0)` in
the place of `Good`: the work records a handler that began with `c0` may have
reached, with what it sent and the balance of windows and bytes (`Tells` once a
session has been detached, `Ended` when the slot may have been freed). For the world
there is one lemma per kind of step: a handler's update, a channel that is over and
freed, a packet consumed, EOF or CLOSE noted, an open answered, a channel made. `World`
is symmetric in the ends, so each is proved once. `InFlight` is a recursive sum; what
it does when a packet is sent or consumed is proved by induction on the length of the
queue, stated about a set of numbers (`Induct`, from `Least`), because the library's
induction rule takes an operator the provers cannot instantiate. Theorems: `Linking`,
`LastPackets`, `FindsItsChannel`, `CreditKept`, `NothingTruncated`, `OnlyProbesHurt`,
`NeverDisconnects`. `OnlyProbesHurt` holds without further hypotheses: the server never
gives up on the client, and the client never disconnects and dies of a fatal error
only if a keepalive probe has been sent. `NeverDisconnects` therefore assumes `MaxAlive = 0`
(`ClientAliveInterval 0`, the default), as the run `channels_crossing` does.

**`ConfigRecoveryProofs`.** None of the properties is inductive alone. `Step(p)`
says what process `p` knows at each place under the mutex: that it is the
holder, which status the journal has there, that the record it is about to write
has an id of its own, that the task is registered when the record is about to
become pending. `Ids` says that no id is above the counter, so that a new id is
new. `IndInv` is `TypeOK`, `Ids`, `TaskArmed` and `Step` of every process. A
process outside the mutex is at a place of which `Step` says nothing, so a step
of one process cannot falsify `Step` of another (lemma `Others`); `Moves` and
`Quiet` reduce each action to its types, the record after it and what holds where
it arrives. Theorems: `Inductive`, `Invariance`, `TypeCorrect`,
`PendingHasTask`, `KeepOrRestore`, `DecisionsAreFinal`.

`PhaseTellsTheTruth`, `ChainKeepsTarget` and `RestoredIsRunning` relate the journal to
the file and to sshd, and assume `Budget["edit"] = 0`: nobody but the manager writes
`sshd_config`. Each is false without it. An edit after the previous file was put back
falsifies the phase and the report; and a file that is edited, loaded by a restarted
sshd and edited back, all between the copy of a save and its comparison, gives a
record of that sshd with a target it does not count. The second invariant, `Alone`,
is inductive together with `IndInv`: a file that has not changed since sshd started
counts as loaded by it (`Loaded`); every record, in the journal or in the memory of a process, is
`RecordTrue` (it names no sshd later than the counter, and the running one only with
a file that one counts; prepared, it is in phase "applied"); and `Seen` says what
holds of the file at the steps of a save and of a restore that rely on it. That a new
sshd has an identity no record names is why a restart at any moment leaves every
record true (`StaysTrue`), also the ones that a save has replaced and may put back.

`RestoreReopensPorts` is for any outside edits and one window (`Windows = {w}`): two
windows overwrite each other's rule, as the comment of `RestoreReopens` says. Its
invariant, `Reopen(w)`, says that no record is pending from the save to the moment it
is armed, so that the rule the window captured, which the record restores, is within
the rule it plans to set (`WindowOK`); that a restore begins before the window keeps
the change only when the deadline has passed, which `ConfirmAsync` checks under the
mutex, so that nobody narrows the rule after it was restored; and that the rule holds
the record's whenever the journal is past that phase (`RuleBack`, `RestoreOK`).

**`ListenerProofs`.** `SlotsExact` and `SourcesExact` count, so the invariant says
slot by slot what is counted. `SlotInv(i)` has the descriptor, the process, the
early flag and the state of the process and of its pipe agree; `Distinct` says that
two slots share neither pipe nor process, `Procs` and `Fds` that no process and no
pipe is open outside a slot, `Entered` that entries of the per-source table and
open pipes correspond one to one, `Counted` that the counters are the sizes of
these sets, `Hup` what SIGHUP has closed, and `PenaltyOK` the same kind of facts of
the penalty table. A free descriptor for the next connection exists by counting
slots. `PenaltiesAreExact` assumes that no single penalty is configured longer
than the maximum (`PenaltySecs[t] <= PenaltyMax`), because `srclimit_penalise` keeps
such a penalty as it is. Theorems: `Inductive`, `TypeCorrect`, `SlotsAreExact`,
`SourcesAreExact`, `HealthyIsSpared`, `PenaltiesAreExact`, `TrackedToTheEnd`.

**`MonitorProofs` and `AuthProofs`.** `LoginIsEarned` and `ForcedCommandIsKept` are
what privilege separation promises: they follow from the monitor, whatever the
child asks. `MonitorInv` relates its lists to the credentials proved so far
(`ListsTrue`: what is left of each list is the list without its proved prefix),
and says that no key counts twice (`KeysOnce`) and that the options kept carry
every forced command seen (`OptionsKept`). Of the child only `Spoken` is needed, that
it sends requests of the protocol. `MonitorNeverRefuses`, `VerdictIsTheSame` and
`TriesAlwaysAgree` need both processes: `JointInv` has `ChildType`, what the child
knows while it waits (`Asking`), which requests the monitor permits at each place
of the child (`Together`), that a credential awaiting its decision is one some list
waits for (`Listed`), how the processes end (`Fate`) and the two counts of failures
(`Counts`). These three assume `~(Blank /\ PermitEmpty)`: with an account whose
password is empty and `PermitEmptyPasswords` they are false, as described under
Findings.

**`TransportWire`, `TransportPair`, `TransportProofs`.** `NeverFails` says that two
processes that never see each other's state agree on keys, counts, compression
and the place in the exchange at every packet, with any number of packets in
between. The invariant `Joint` has four parts. `Local` is about one end: its
exchange flags give its stage (`rest`, `sent`, `ask`, `key`, `over`), and the stage gives
its dispatch table, its keys, a bound on the counts of the first exchange, and
where its queue ends (`Flags`, `Handlers`, `Keys`, `Counts`, `Queue`). `Wire` is about
one direction: the packets on it, in their order, carry the key, number and
compression that their reader will have when it comes to them; `OnlyKexInKex` holds
of it; and the messages of the layers above are numbered without a gap from the
last one read to the first one in the queue (`SameKeys`, `SameCounts`,
`SameCompression`, `Shielded`, `Quiet`, `Numbered`, ...). `Row` is the table of the
exchange: which stages the two ends can be in together and which exchange messages
are then on their way, 19 rows. `First` and `Login` relate the ends during the first
exchange and during authentication, which the code does not let overlap with an
exchange. `Joint` is symmetric in the ends, so every step is proved once, from the
side of the end that takes it (`Pair`, lemma `JointIsPair`). Theorems:
`Inductive`, `TypeCorrect`, `ExchangeNeverFails`, `OnlyKexWhileRekeying`,
`RestIsComplete`, and `StreamSafety`, the refinement of `OrderedStream` without its
fairness: a read of a message of the layers above is the delivery of the next one,
because `Numbered` says its body is one more than the last. They hold for any number
of messages, `MaxData`. TLC has checked the invariant on an instance
with six sequence numbers and four messages each way.

## Only model-checked

Liveness under fairness is out of the prover's reach and stays with TLC:
`WindowReopens`, `DroppedIsGivenBack` and `ClosedIsFreed` of `Channels`, `Resolved` of
`ConfigRecovery`, `KexCompletes`, `SlotsComeBack`, `HupRestarts`, `RequestAnswered`, and the fairness part
of `ImplementsStream`. Every invariant and every action property of the passing runs is
proved, with the hypotheses named above, except `StatusSent`: `SessionAttached`, which
is proved, is the part of it that the collector relies on; that the step which lets
go of a command has also put the status on the wire is only checked.

## Not modelled

- Connection layer: channels that never reach the wire and the other channel
  types named above; rekeying; the end of the connection.
- Recovery: Include files, a journal that cannot be parsed (`SetAsideDamaged`),
  the access checks on the storage, unattended mode, pruning of backups.
- Listener, transport and login: what the sections on their modules leave out.
- The components marked `not_modelled` in `PROJECT.json`. The outbox, the transfer
  journal, multiplexing, the agent, file transfer and the overlapped I/O of the
  Windows port have state worth a model of their own. Parsers, cryptography, the
  windows' controls and the installer are sequential code, data conversion or
  calls of the operating system.

## Plan

Done: `Nchan`, `Channels`, `ConfigRecovery`, `SrcLimit`, `Listener`, `Transport` with the
refinement of `OrderedStream`, `Monitor` and `Auth`, all with runs and proofs. What is
left, most important first:

1. `NotificationOutbox.cs` and `TransferJournal.cs`, `mux.c`, `ssh-agent.c`,
   `sftp-client.c` and the overlapped I/O of the Windows port, as far as they fit.
2. More of the connection layer: the channel types it leaves out, and rekeying in the
   middle of an exchange of channel packets.

The runs stay few: an instance that answers two questions asks both.
