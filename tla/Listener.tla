------------------------------ MODULE Listener ------------------------------
(***************************************************************************)
(* The sshd process that listens (server_accept_loop in sshd.c), and the   *)
(* sshd-session processes it starts, up to their authentication.           *)
(*                                                                         *)
(* The listener keeps a slot for each session process that has not         *)
(* authenticated. Over the startup pipe it sends the configuration and the *)
(* host keys; the process answers with a 0 byte when it has them, and with *)
(* a 1 byte when its user has authenticated. A slot is given back when the *)
(* 1 byte arrives, or when the process is gone: its pipe is at end of file *)
(* and its exit status has been collected, in whichever order.             *)
(*                                                                         *)
(* One action is one event of the loop. ppoll may report any subset of the *)
(* descriptors that are ready, and waitpid finds the processes that have   *)
(* ended by then, so that an iteration that handles several events is one  *)
(* iteration per event.                                                    *)
(***************************************************************************)
EXTENDS SrcLimit, Sequences

CONSTANTS
    MaxStartupsBegin, MaxStartupsRate,   \* random early drop
    MaxProcs,       \* bound: session processes alive at a time
    ExitStatus,     \* how session processes end in this instance
    ForkSupported   \* FALSE: FORK_NOT_SUPPORTED (Windows)

VARIABLES
    child,              \* children[]
    children_active,
    listening,          \* early children, those SIGHUP has to wait for
    limit,              \* per-source table of srclimit.c
    penalties,          \* penalty table of srclimit.c
    sighup, lameduck,   \* SIGHUP received; listening sockets closed
    mode,               \* "run", or how the listener ended: "exit", "fatal"
    proc,               \* the session processes
    pipe                \* the startup pipes, by the listener's descriptor

vars == <<child, children_active, listening, limit, penalties, sighup,
          lameduck, mode, proc, pipe>>

Pid == 1 .. MaxProcs

\* Descriptors of the listener's ends of startup pipes; one more is open
\* while a connection is being refused.
Fd == 1 .. MaxStartups + 1

None == 0            \* -1 in the code: no descriptor, no process

\* What waitpid reports: an exit code, a signal that means a crash, or another.
Statuses == {"0", "EXIT_LOGIN_GRACE", "EXIT_CHILD_CRASH", "EXIT_AUTH_ATTEMPTED",
             "EXIT_INVALID_USER", "EXIT_CONFIG_REFUSED", "255", "SIGSEGV", "SIGTERM"}

ASSUME ListenerAssumption ==
    /\ MaxStartupsBegin \in Nat /\ MaxStartupsRate \in 0 .. 100
    /\ MaxStartupsBegin <= MaxStartups
    /\ MaxProcs \in Nat /\ ExitStatus \subseteq Statuses
    /\ ForkSupported \in BOOLEAN

\* have_status is set and cleared within child_reap_all_exited; buf is what
\* of config and keys is still to be sent.
FreeSlot == [pipefd |-> None, pid |-> None, early |-> FALSE, buf |-> "none",
             addr |-> NoSource]

\* A session process: st is how far it is ("zombie": it has exited and not
\* been waited for), fd the listener's end of its startup pipe, None once that
\* is closed.
NoProc == [st |-> "none", fd |-> None, status |-> "0"]

\* A startup pipe: the process has its end open, the messages it has been sent
\* and the bytes it has sent.
NoPipe == [open |-> FALSE, got |-> 0, sent |-> <<>>]

Alive(p) == proc[p].st \in {"init", "preauth", "auth"}

\* The loop of the listener is running.
Up == mode = "run"

-----------------------------------------------------------------------------
(* The children table.                                                     *)

\* child_register takes the first slot that is not in use.
Vacant(i) == child[i].pipefd = None /\ child[i].buf = "none" /\ child[i].pid = None

Used == {i \in Slot : ~Vacant(i)}

VacantSlots == Slot \ Used

child_register(i, fd, pid, s) ==
    [child EXCEPT ![i] = [pipefd |-> fd, pid |-> pid, early |-> TRUE,
                          buf |-> "config", addr |-> s]]

\* The listener closes its end of a pipe.
Close(fd) ==
    /\ pipe' = [pipe EXCEPT ![fd] = NoPipe]
    /\ proc' = [p \in Pid |-> IF proc[p].fd = fd THEN [proc[p] EXCEPT !.fd = None]
                              ELSE proc[p]]

\* child_finish on a table whose entry i has no pipe any more.
child_finish(tab, i) == [tab EXCEPT ![i] = FreeSlot]

\* Freeing an entry while the count is zero ends the listener.
Count(finishes) ==
    /\ children_active' = IF finishes /\ children_active > 0
                          THEN children_active - 1 ELSE children_active
    /\ mode' = IF finishes /\ children_active = 0 THEN "fatal" ELSE mode

\* When child_close also frees the slot: at once when the process has been
\* waited for or was never started, or when the caller insists.
Finishes(i, force) == child[i].pid = None \/ force

\* Mutant: the entry of the per-source table stays behind.
child_close_KeepsSource(i, force) ==
    /\ limit' = IF force THEN limit ELSE srclimit_done(limit, child[i].pipefd)
    /\ child' = IF Finishes(i, force) THEN child_finish(child, i)
                ELSE [child EXCEPT ![i].pipefd = None]
    /\ Count(Finishes(i, force))

child_close(i, force) ==
    /\ limit' = srclimit_done(limit, child[i].pipefd)
    /\ child' = IF Finishes(i, force) THEN child_finish(child, i)
                ELSE [child EXCEPT ![i].pipefd = None]
    /\ Count(Finishes(i, force))

-----------------------------------------------------------------------------
(* A connection arrives.                                                   *)

\* Mutant: one more than MaxStartups.
should_drop_connection_OneMore(startups) ==
    IF startups < MaxStartupsBegin THEN {FALSE}
    ELSE IF startups > MaxStartups THEN {TRUE} ELSE {TRUE, FALSE}

\* The results should_drop_connection can have: the chance to be dropped
\* rises from MaxStartupsRate at MaxStartupsBegin to 100 at MaxStartups.
should_drop_connection(startups) ==
    CASE startups < MaxStartupsBegin -> {FALSE}
      [] startups >= MaxStartupsBegin /\ startups >= MaxStartups -> {TRUE}
      [] MaxStartupsRate = 100 /\ startups >= MaxStartupsBegin /\ startups < MaxStartups -> {TRUE}
      [] OTHER -> {r < MaxStartupsRate + ((100 - MaxStartupsRate) * (startups - MaxStartupsBegin))
                         \div (MaxStartups - MaxStartupsBegin) : r \in {0, 99}}

NewFd == First({fd \in Fd : \A i \in Slot : child[i].pipefd # fd})

\* drop_connection refuses the connection, which is closed with both ends of
\* its pipe.
Refuse(s) ==
    /\ Up /\ ~lameduck
    /\ \/ ~srclimit_penalty_check_allow(penalties, s)
       \/ TRUE \in should_drop_connection(children_active)
       \/ ~Allowed(limit, s)
    /\ penalties' = PenaltyCheck(penalties, s)
    /\ UNCHANGED <<child, children_active, listening, limit, sighup, lameduck,
                   mode, proc, pipe>>

\* The connection gets a slot and a process. The slot is there, or the
\* listener gives up; pid is None when fork or posix_spawn has failed, and
\* then the other end of the pipe is closed at once.
Admit(s, pid) ==
    /\ Up /\ ~lameduck
    /\ srclimit_penalty_check_allow(penalties, s)
    /\ FALSE \in should_drop_connection(children_active)
    /\ Allowed(limit, s)
    /\ penalties' = PenaltyCheck(penalties, s)
    /\ limit' = srclimit_check_allow(limit, s, NewFd)
    /\ listening' = IF ForkSupported THEN listening + 1 ELSE listening
    /\ IF VacantSlots = {} \/ children_active >= MaxStartups
       THEN mode' = "fatal" /\ UNCHANGED <<child, children_active, proc, pipe>>
       ELSE /\ child' = child_register(First(VacantSlots), NewFd, pid, s)
            /\ children_active' = children_active + 1
            /\ proc' = IF pid = None THEN proc
                       ELSE [proc EXCEPT ![pid] = [st |-> "init", fd |-> NewFd, status |-> "0"]]
            /\ pipe' = [pipe EXCEPT ![NewFd].open = pid # None]
            /\ mode' = mode
    /\ UNCHANGED <<sighup, lameduck>>

\* fork fails at the latest when the bound on processes is reached. Which free
\* process id a new process gets makes no difference.
FreePids == {p \in Pid : proc[p].st = "none"}

Accept(s) ==
    \/ FreePids # {} /\ Admit(s, First(FreePids))
    \/ Admit(s, None)

-----------------------------------------------------------------------------
(* Events of the startup pipes.                                            *)

Early(i) == IF child[i].early THEN 1 ELSE 0

\* A buffer is sent (short writes only delay that); config is followed by keys.
Write(i) ==
    /\ Up /\ child[i].pipefd # None /\ child[i].buf # "none"
    /\ pipe[child[i].pipefd].open
    /\ child' = [child EXCEPT ![i].buf = IF @ = "config" THEN "keys" ELSE "none"]
    /\ pipe' = [pipe EXCEPT ![child[i].pipefd].got = @ + 1]
    /\ UNCHANGED <<children_active, listening, limit, penalties, sighup,
                   lameduck, mode, proc>>

\* Mutant: a process that dies early is still waited for by SIGHUP.
HangUp_KeepsListening(i) ==
    /\ Up /\ child[i].pipefd # None /\ ~pipe[child[i].pipefd].open
    /\ \/ child[i].buf # "none"
       \/ pipe[child[i].pipefd].sent = <<>>
    /\ listening' = IF child[i].buf = "none" THEN listening - Early(i) ELSE listening
    /\ child_close(i, FALSE)
    /\ Close(child[i].pipefd)
    /\ UNCHANGED <<penalties, sighup, lameduck>>

\* The other end of the pipe is closed: a write fails, a read finds the end.
HangUp(i) ==
    /\ Up /\ child[i].pipefd # None /\ ~pipe[child[i].pipefd].open
    /\ \/ child[i].buf # "none"
       \/ pipe[child[i].pipefd].sent = <<>>
    /\ listening' = listening - Early(i)
    /\ child_close(i, FALSE)
    /\ Close(child[i].pipefd)
    /\ UNCHANGED <<penalties, sighup, lameduck>>

\* A byte that cannot come at this point.
Unexpected(i, c) ==
    \/ child[i].buf = "config"
    \/ ~(child[i].early /\ c = 0) /\ ~(~child[i].early /\ c = 1)

\* problem_child: the process is told to end.
ProblemChild(i) ==
    /\ listening' = listening - Early(i)
    /\ child_close(i, FALSE)
    /\ pipe' = [pipe EXCEPT ![child[i].pipefd] = NoPipe]
    /\ proc' = [p \in Pid |->
                  CASE p = child[i].pid -> [NoProc EXCEPT !.st = "zombie", !.status = "SIGTERM"]
                    [] p # child[i].pid /\ proc[p].fd = child[i].pipefd -> [proc[p] EXCEPT !.fd = None]
                    [] OTHER -> proc[p]]

Read(i) ==
    /\ Up /\ child[i].pipefd # None
    /\ pipe[child[i].pipefd].sent # <<>>
    /\ LET fd == child[i].pipefd
           c  == Head(pipe[fd].sent)
       IN  CASE Unexpected(i, c) -> ProblemChild(i)
             [] ~Unexpected(i, c) /\ c = 0 ->
                  /\ listening' = listening - 1
                  /\ child' = [child EXCEPT ![i].early = FALSE]
                  /\ pipe' = [pipe EXCEPT ![fd].sent = Tail(@)]
                  /\ UNCHANGED <<children_active, limit, mode, proc>>
             [] OTHER ->
                  /\ child_close(i, TRUE)
                  /\ Close(fd)
                  /\ UNCHANGED listening
    /\ UNCHANGED <<penalties, sighup, lameduck>>

-----------------------------------------------------------------------------
(* Signals.                                                                *)

\* What the listener makes of an exit status.
PenaltyFor(status) ==
    CASE status \in {"0", "SIGTERM"} -> "none"
      [] status = "EXIT_LOGIN_GRACE" -> "grace"
      [] status \in {"EXIT_CHILD_CRASH", "SIGSEGV"} -> "crash"
      [] status = "EXIT_AUTH_ATTEMPTED" -> "authfail"
      [] status = "EXIT_INVALID_USER" -> "invaliduser"
      [] status = "EXIT_CONFIG_REFUSED" -> "refuseconnection"
      [] OTHER -> "noauth"

\* Mutant: the slot of a reaped process waits for its pipe even when that is
\* closed already.
child_reap_Waits(i, p) ==
    /\ penalties' = srclimit_penalise(penalties, child[i].addr, PenaltyFor(proc[p].status))
    /\ child' = [child EXCEPT ![i].pid = None]
    /\ Count(FALSE)

\* SIGCHLD: waitpid finds p. A slot that waits for it learns the exit status,
\* its source is penalised for it, and the slot is free if its pipe is closed.
child_reap(i, p) ==
    /\ penalties' = srclimit_penalise(penalties, child[i].addr, PenaltyFor(proc[p].status))
    /\ child' = IF child[i].pipefd = None THEN child_finish(child, i)
                ELSE [child EXCEPT ![i].pid = None]
    /\ Count(child[i].pipefd = None)

child_reap_all_exited(p) ==
    /\ Up /\ proc[p].st = "zombie"
    /\ proc' = [proc EXCEPT ![p] = NoProc]
    /\ \/ \E i \in Slot : child[i].pid = p /\ child_reap(i, p)
       \/ /\ \A i \in Slot : child[i].pid # p
          /\ UNCHANGED <<child, children_active, penalties, mode>>
    /\ UNCHANGED <<listening, limit, sighup, lameduck, pipe>>

Sighup ==
    /\ Up /\ ForkSupported /\ ~sighup /\ sighup' = TRUE
    /\ UNCHANGED <<child, children_active, listening, limit, penalties,
                   lameduck, mode, proc, pipe>>

CloseListenSocks ==
    /\ Up /\ sighup /\ ~lameduck /\ lameduck' = TRUE
    /\ UNCHANGED <<child, children_active, listening, limit, penalties,
                   sighup, mode, proc, pipe>>

\* The tables of a listener that starts, or that is gone.
ClearTables ==
    /\ child' = [i \in Slot |-> FreeSlot]
    /\ children_active' = 0 /\ listening' = 0
    /\ limit' = [i \in Slot |-> NoEntry]
    /\ penalties' = [pen |-> [s \in Source |-> NoPenalty], n |-> 0]
    /\ sighup' = FALSE /\ lameduck' = FALSE
    /\ pipe' = [fd \in Fd |-> NoPipe]

\* Mutant: the restart does not wait.
Restart_AtOnce ==
    /\ Up /\ lameduck
    /\ ClearTables
    /\ proc' = [p \in Pid |-> [proc[p] EXCEPT !.fd = None]]
    /\ UNCHANGED mode

\* sighup_restart: all pipes are closed and sshd runs itself again; the
\* session processes stay its children.
Restart ==
    /\ Up /\ lameduck /\ listening <= 0
    /\ ClearTables
    /\ proc' = [p \in Pid |-> [proc[p] EXCEPT !.fd = None]]
    /\ UNCHANGED mode

\* The listener ends; its session processes go on, and are not followed.
Sigterm ==
    /\ Up /\ mode' = "exit"
    /\ ClearTables
    /\ proc' = [p \in Pid |-> NoProc]

Tick ==
    /\ Up /\ penalties' = Elapse(penalties) /\ penalties' # penalties
    /\ UNCHANGED <<child, children_active, listening, limit, sighup, lameduck,
                   mode, proc, pipe>>

-----------------------------------------------------------------------------
(* sshd-session.                                                           *)

ListenerUnchanged == UNCHANGED <<child, children_active, listening, limit,
                                 penalties, sighup, lameduck, mode>>

\* The process goes on to st; a byte sent to a listener that is not there any
\* more is lost.
Says(p, st, c, open) ==
    /\ proc' = [proc EXCEPT ![p].st = st]
    /\ pipe' = IF proc[p].fd = None THEN pipe
               ELSE [pipe EXCEPT ![proc[p].fd] = [open |-> open, got |-> @.got,
                                                  sent |-> Append(@.sent, c)]]
    /\ ListenerUnchanged

\* Mutant: it reports before it has received anything.
Preliminaries_AtOnce(p) ==
    /\ proc[p].st = "init" /\ proc[p].fd # None
    /\ Says(p, "preauth", 0, TRUE)

\* recv_rexec_state has returned: the listener may be told.
Preliminaries(p) ==
    /\ proc[p].st = "init" /\ proc[p].fd # None /\ pipe[proc[p].fd].got = 2
    /\ Says(p, "preauth", 0, TRUE)

\* privsep_preauth has returned.
Authenticated(p) ==
    /\ proc[p].st = "preauth"
    /\ Says(p, "auth", 1, FALSE)

\* How it can end: fatal errors and crashes while it starts, everything that
\* can go wrong with an authentication, and whatever the session returns.
EndsWith(p) ==
    ExitStatus \cap (IF proc[p].st = "preauth" THEN Statuses
                     ELSE {"0", "255", "SIGSEGV", "SIGTERM"})

\* Its end of the pipe is closed with it; what it has said can still be read.
Exit(p) ==
    /\ Alive(p)
    /\ \E status \in EndsWith(p) :
         proc' = [proc EXCEPT ![p] = [st |-> "zombie", fd |-> @.fd, status |-> status]]
    /\ pipe' = IF proc[p].fd = None THEN pipe
               ELSE [pipe EXCEPT ![proc[p].fd].open = FALSE]
    /\ ListenerUnchanged

-----------------------------------------------------------------------------
Init ==
    /\ child = [i \in Slot |-> FreeSlot]
    /\ children_active = 0 /\ listening = 0
    /\ limit = [i \in Slot |-> NoEntry]
    /\ penalties = [pen |-> [s \in Source |-> NoPenalty], n |-> 0]
    /\ sighup = FALSE /\ lameduck = FALSE /\ mode = "run"
    /\ proc = [p \in Pid |-> NoProc]
    /\ pipe = [fd \in Fd |-> NoPipe]

Next ==
    \/ \E s \in Source : Refuse(s) \/ Accept(s)
    \/ \E i \in Slot : Write(i) \/ HangUp(i) \/ Read(i)
    \/ \E p \in Pid : \/ child_reap_all_exited(p)
                      \/ Preliminaries(p) \/ Authenticated(p) \/ Exit(p)
    \/ Sighup \/ CloseListenSocks \/ Restart \/ Sigterm \/ Tick

Spec == Init /\ [][Next]_vars

\* The startup pipe of slot i wants attention from the listener's loop.
Ready(i) ==
    /\ Up /\ child[i].pipefd # None
    /\ LET q == pipe[child[i].pipefd]
       IN  child[i].buf # "none" \/ ~q.open \/ q.sent # <<>>

\* Process p has something to do, or has ended and is to be waited for. One
\* that has its configuration authenticates its user or ends, by LoginGraceTime
\* at the latest; one that has lost its pipe before that ends.
Due(p) ==
    /\ Up
    /\ \/ proc[p].st \in {"preauth", "zombie"}
       \/ proc[p].st = "init" /\ proc[p].fd = None
       \/ proc[p].st = "init" /\ proc[p].fd # None /\ pipe[proc[p].fd].got = 2

\* The listener's loop serves every slot, SIGCHLD and SIGHUP again and again,
\* and session processes go on.
Fairness ==
    /\ \A i \in Slot : []<>~Ready(i)
    /\ \A p \in Pid : []<>~Due(p)
    /\ []<>~(Up /\ sighup /\ (~lameduck \/ listening <= 0))

FairSpec == Spec /\ Fairness

-----------------------------------------------------------------------------
(* Properties.                                                             *)

Penalty == [held : BOOLEAN, left : Int, active : BOOLEAN]

\* Types. penalties.n is npenalties, a size_t: it does not wrap round.
TypeOK ==
    /\ child \in [Slot -> [pipefd : Fd \cup {None}, pid : Pid \cup {None},
                           early : BOOLEAN, buf : {"config", "keys", "none"},
                           addr : Source \cup {NoSource}]]
    /\ children_active \in Nat /\ listening \in Int
    /\ limit \in [Slot -> [id : Fd \cup {Unused}, addr : Source \cup {NoSource}]]
    /\ penalties \in [pen : [Source -> Penalty], n : Nat]
    /\ sighup \in BOOLEAN /\ lameduck \in BOOLEAN
    /\ mode \in {"run", "exit", "fatal"}
    /\ proc \in [Pid -> [st : {"none", "init", "preauth", "auth", "zombie"},
                         fd : Fd \cup {None}, status : Statuses]]
    /\ pipe \in [Fd -> [open : BOOLEAN, got : Nat, sent : Seq({0, 1})]]

Tracked == {i \in Slot : child[i].pipefd # None \/ child[i].pid # None}

\* The processes SIGHUP has to wait for.
EarlySlots == {i \in Slot : child[i].pipefd # None /\ child[i].early}

\* The counts agree with the table through every order in which end of file,
\* exit status and authentication can arrive: a slot is counted exactly while
\* a pipe or a process belongs to it, two slots share neither, a process that
\* a slot waits for has not been waited for, and listening is the number of
\* processes that have not reported. So the fatal errors of child_register (no
\* slot for an accepted connection, more children than MaxStartups) and of
\* child_finish (underflow) do not occur.
SlotsExact ==
    /\ mode # "fatal"
    /\ Up => Used = Tracked /\ children_active = Cardinality(Used)
    /\ Up /\ ForkSupported => listening = Cardinality(EarlySlots)
    /\ Up =>
          /\ \A i, j \in Slot : i # j =>
               /\ child[i].pipefd # None => child[i].pipefd # child[j].pipefd
               /\ child[i].pid # None => child[i].pid # child[j].pid
          /\ \A i \in Slot : child[i].pid # None => proc[child[i].pid].st # "none"

\* The per-source table holds an entry for each open startup pipe, under the
\* source of its connection, and no other: no source is charged for a
\* connection that is gone, or for the next one with the same descriptor.
SourcesExact ==
    Up => /\ {limit[i] : i \in {j \in Slot : limit[j].id # Unused}}
               = {[id |-> child[i].pipefd, addr |-> child[i].addr] :
                     i \in {j \in Slot : child[j].pipefd # None}}
          /\ \A i, j \in Slot : i # j /\ limit[i].id # Unused => limit[i].id # limit[j].id

\* The counter of penalties agrees with the table, the table stays within its
\* limit, no penalty exceeds the maximum, and one that is not enforced has not
\* accumulated more than the minimum.
PenaltiesExact ==
    /\ penalties.n = Cardinality(Held(penalties))
    /\ penalties.n <= MaxSources
    /\ \A s \in Held(penalties) :
         /\ penalties.pen[s].left <= PenaltyMax
         /\ ~penalties.pen[s].active => penalties.pen[s].left <= PenaltyMin

\* The listener never ends a session process that does what it should:
\* whatever the order of writing config, writing keys and reading, the byte
\* it reads is the one it expects.
HealthyNotKilled ==
    \A i \in Slot :
        (Up /\ child[i].pipefd # None /\ pipe[child[i].pipefd].sent # <<>>) =>
            ~Unexpected(i, Head(pipe[child[i].pipefd].sent))

\* A slot forgets its process only when the exit status has been collected
\* (and the source penalised for it), when its user has authenticated, or when
\* the listener restarts: closing the pipe does not end the tracking, and a
\* restart leaves no process behind that still waits for its configuration or
\* its host keys, which the new listener would not send.
TrackedUntilExit ==
    [][\A i \in Slot :
         LET p == child[i].pid
         IN  (p # None /\ child'[i].pid # p) =>
               \/ proc[p].st = "zombie" /\ proc'[p].st = "none"
               \/ sighup /\ ~sighup' /\ proc[p].st # "init"
               \/ mode' # "run"
               \/ child[i].pipefd # None /\ pipe[child[i].pipefd].sent = <<1>>]_vars

\* Every slot comes back, and with it the entry of its source.
SlotsComeBack ==
    \A i \in Slot : (i \in Used) ~> (i \notin Used \/ ~Up)

\* SIGHUP is obeyed.
HupRestarts == sighup ~> (~sighup \/ ~Up)
=============================================================================
