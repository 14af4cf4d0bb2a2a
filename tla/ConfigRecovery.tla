---------------------------- MODULE ConfigRecovery ----------------------------
(***************************************************************************)
(* The manager's commit-confirmed change of sshd_config:                   *)
(* tools/OpenSSH-Server-PN-Manager/ConfigurationTransaction.cs (the lock,  *)
(* the save), ConfigurationRecovery.cs (the durable record and the task    *)
(* that restores) and the part of MainForm.cs that drives them (restart,   *)
(* the question "keep the new settings?", the way out of a stuck record).  *)
(*                                                                         *)
(* Several manager windows and one scheduled task of the SYSTEM account    *)
(* share four files (sshd_config, its backups, pending.ini and             *)
(* previous.config), the firewall rule and the sshd service.  A machine-   *)
(* wide mutex covers the steps on the files, but not the administrator's   *)
(* thinking, the firewall change or the restart; a process may die between *)
(* any two steps, other programs write sshd_config without the mutex, and  *)
(* anybody may restart sshd.                                               *)
(*                                                                         *)
(* A file is one value of Saved or Foreign, or Absent; its hash is the     *)
(* value.  Include files, a journal that cannot be parsed and the access   *)
(* checks on the storage are not modelled.                                 *)
(***************************************************************************)
EXTENDS Naturals, FiniteSets

CONSTANTS Windows,   \* the manager windows
          Task,      \* the scheduled recovery task
          Nobody,    \* the mutex is free
          Saved,     \* the files a window writes
          Foreign,   \* the files other programs write
          Absent,    \* there is no file
          Original,  \* sshd_config at the start, or Absent
          PortOf,    \* the port each file makes sshd listen on
          Budget     \* how often a save, a restart, a service event, an edit and a fault happen

Processes == Windows \cup {Task}
Files     == Saved \cup Foreign \cup {Absent}
Kinds     == {"save", "restart", "service", "edit", "fault"}

ASSUME RecoveryAssumption ==
    /\ Task \notin Windows /\ Nobody \notin Processes
    /\ Absent \notin Saved \cup Foreign
    /\ Original \in Saved \cup {Absent}
    /\ DOMAIN PortOf = Files \ {Absent}
    /\ Budget \in [Kinds -> Nat]

VARIABLES
    live,      \* sshd_config
    previous,  \* previous.config
    journal,   \* pending.ini
    since,     \* what was written to sshd_config since sshd started, as its time stamp tells
    task,      \* the recovery task is registered
    late,      \* the deadline in the journal has passed
    firewall,  \* the ports the firewall rule allows
    server,    \* identity of the running sshd process, 0 when it is stopped
    ran,       \* the file sshd last loaded
    lock,      \* holder of the mutex Locked takes
    pc,        \* where each process is
    mem,       \* what it remembers
    stamp,     \* the last id, backup name or process identity handed out
    left       \* what remains of Budget

files == <<live, previous, journal, since>>
host  == <<task, late, firewall, server, ran>>
procs == <<lock, pc, mem>>
count == <<stamp, left>>
vars  == <<files, host, procs, count>>

-----------------------------------------------------------------------------
(* Records.  A backup file never changes once it is written, so its name   *)
(* carries its content; path 0 is "no backup: there was no file before".   *)

NoBackup == [path |-> 0, content |-> Absent]
Backups  == [path : Nat, content : Files]

Ports(S) == {PortOf[c] : c \in S \ {Absent}}
AllPorts == Ports(Files)

NoPlan == [wide |-> {}, single |-> FALSE]
Plans  == [wide : SUBSET AllPorts, single : BOOLEAN]

Statuses == {"none", "prepared", "pending", "confirmed", "restored", "abandoned"}
Phases   == {"applied", "configuration-restored", "firewall-restored"}

Records ==
    [id : Nat, status : Statuses, phase : Phases, applied : Files, before : Files,
     backup : Backups, server : Nat, firewall : SUBSET AllPorts]

NoRecord ==
    [id |-> 0, status |-> "none", phase |-> "applied", applied |-> Absent, before |-> Absent,
     backup |-> NoBackup, server |-> 0, firewall |-> {}]

(* A window's memory: the bytes to save and their backup, whether Prepare  *)
(* continued a chain, the record to write (later the one it replaced), the *)
(* id it armed, the firewall rule it captured, the change of that rule it  *)
(* plans, and whether it applies a file saved earlier.                     *)
Memory ==
    [bytes : Files, backup : Backups, cont : BOOLEAN, rec : Records, id : Nat,
     captured : SUBSET AllPorts, plan : Plans, resume : BOOLEAN]

Blank ==
    [bytes |-> Absent, backup |-> NoBackup, cont |-> FALSE, rec |-> NoRecord, id |-> 0,
     captured |-> {}, plan |-> NoPlan, resume |-> FALSE]

Saving     == {"prepare", "record", "check", "replace", "unprepare"}
Arming     == {"armrec", "sched", "pend"}
Keeping    == {"keep", "commit"}
Restoring  == {"rlive", "rphase", "rfirewall", "rphase2", "rrestart", "rdone"}
Locking    == Saving \cup Arming \cup Keeping \cup Restoring \cup {"disarm"}
Unlocked   == {"idle", "saved", "planned", "arm", "offer", "plain", "apply", "restart",
               "restarted", "answer", "confirm", "restore", "abandon"}

(* ChangedSinceStart; whether sshd is at most a second old; and the files  *)
(* that count as loaded by it: the one it loaded and those written in its  *)
(* first second.                                                           *)
Since == [changed : BOOLEAN, young : BOOLEAN, counted : SUBSET Files]

Init ==
    /\ live = Original /\ previous = Absent /\ journal = NoRecord
    /\ since = [changed |-> FALSE, young |-> FALSE, counted |-> {Original}]
    /\ task = FALSE /\ late = TRUE
    /\ firewall = Ports({Original})
    /\ server = IF Original = Absent THEN 0 ELSE 1
    /\ ran = Original
    /\ lock = Nobody
    /\ pc = [p \in Processes |-> "idle"]
    /\ mem = [p \in Processes |-> Blank]
    /\ stamp = 1 /\ left = Budget

Goto(p, l)   == pc' = [pc EXCEPT ![p] = l]
Acquire(p)   == lock = Nobody /\ lock' = p
Release      == lock' = Nobody
Spend(kind)  == left[kind] > 0 /\ left' = [left EXCEPT ![kind] = @ - 1]
Pending      == journal.status = "pending"

(* Process p goes on with the memory m.                                    *)
Remember(p, m) == mem' = [mem EXCEPT ![p] = m]

(* The operation ended, with or without an exception.                      *)
Finish(p) == Goto(p, "idle") /\ Remember(p, Blank)

(* sshd starts: it reads sshd_config once.                                 *)
StartServer ==
    /\ server' = stamp + 1 /\ stamp' = stamp + 1
    /\ ran' = live /\ since' = [changed |-> FALSE, young |-> TRUE, counted |-> {live}]

(* RestartNeeded: a file written more than a second after sshd started has *)
(* changed since; one written within that second counts as loaded.         *)
Written(c) ==
    IF since.young THEN [since EXCEPT !.changed = FALSE, !.counted = @ \cup {c}]
                   ELSE [since EXCEPT !.changed = TRUE]

(* The ports of the saved and of the running configuration.                *)
ServerPorts == Ports({live} \cup IF server = 0 THEN {} ELSE {ran})

-----------------------------------------------------------------------------
(* Saving: ConfigurationTransaction.Save from Locked on, with Prepare.     *)

(* The copy the save makes of the file it replaces.                        *)
BackupOfLive == IF live = Absent THEN NoBackup ELSE [path |-> stamp + 1, content |-> live]

(* The check that the file is the one the window loaded is left to the     *)
(* administrator, who may save anyway.                                     *)
BeginSave(w) ==
    /\ pc[w] = "idle" /\ ~Pending
    /\ Spend("save") /\ Acquire(w) /\ Goto(w, "prepare")
    /\ stamp' = stamp + 1
    /\ \E c \in Saved : Remember(w, [mem[w] EXCEPT !.bytes = c, !.backup = BackupOfLive])
    /\ UNCHANGED <<files, host>>

NewRecord(backup, applied) ==
    [NoRecord EXCEPT !.id = stamp + 1, !.status = "prepared", !.applied = applied,
                     !.before = backup.content, !.backup = backup]

(* Another save while the same sshd runs: its rollback target stays.       *)
ContinuedRecord(r) ==
    /\ r.status = "prepared" /\ r.server # 0 /\ r.server = server
    /\ r.applied = live
    /\ r.before # Absent => previous = r.before

\* Mutant: a file written after sshd started counts as loaded.
ServerIdentity_AnyFile(requireLiveLoaded) == server

ServerIdentity(requireLiveLoaded) == IF requireLiveLoaded /\ since.changed THEN 0 ELSE server

Prepare(w) ==
    LET m == mem[w]
        new == NewRecord(m.backup, m.bytes)
        continued == ContinuedRecord(journal)
        rec == IF continued THEN [new EXCEPT !.before = journal.before, !.server = journal.server]
               ELSE [new EXCEPT !.server = IF m.backup = NoBackup THEN 0 ELSE ServerIdentity(TRUE)]
    IN /\ pc[w] = "prepare" /\ Goto(w, "record")
       /\ Remember(w, [m EXCEPT !.cont = continued, !.rec = rec])
       /\ previous' = IF continued \/ m.backup = NoBackup THEN previous ELSE m.backup.content
       /\ stamp' = stamp + 1
       /\ UNCHANGED <<live, journal, since, host, lock, left>>

PrepareRecord(w) ==
    /\ pc[w] = "record" /\ Goto(w, "check")
    /\ journal' = mem[w].rec
    /\ Remember(w, [mem[w] EXCEPT !.rec = journal, !.id = mem[w].rec.id])
    /\ UNCHANGED <<live, previous, since, host, lock, count>>

CheckUnchanged(w) ==
    /\ pc[w] = "check"
    /\ Goto(w, IF live = mem[w].backup.content THEN "replace" ELSE "unprepare")
    /\ UNCHANGED <<files, host, lock, mem, count>>

Replace(w) ==
    /\ pc[w] = "replace" /\ Goto(w, "saved") /\ Release
    /\ live' = mem[w].bytes /\ since' = Written(mem[w].bytes)
    /\ Remember(w, [Blank EXCEPT !.backup = mem[w].backup])
    /\ UNCHANGED <<previous, journal, host, count>>

(* A step of the save throws: only once the record is written does the     *)
(* save take it back.                                                      *)
SaveFails(w) ==
    /\ Spend("fault")
    /\ \/ pc[w] \in {"prepare", "record"} /\ Finish(w) /\ Release
       \/ pc[w] \in {"check", "replace"} /\ Goto(w, "unprepare") /\ UNCHANGED <<lock, mem>>
    /\ UNCHANGED <<files, host, stamp>>

Unprepare(w) ==
    /\ pc[w] = "unprepare" /\ Finish(w) /\ Release
    /\ journal' = IF mem[w].cont /\ journal.id = mem[w].id /\ journal.status = "prepared"
                  THEN mem[w].rec ELSE journal
    /\ UNCHANGED <<live, previous, since, host, count>>

-----------------------------------------------------------------------------
(* What goes with the change: the firewall rule, and whether to restart.   *)

(* The rule with the missing ports added; a rule of one port only is       *)
(* narrowed again once the change is kept.                                 *)
WiderRule == [wide |-> firewall \cup ServerPorts, single |-> Cardinality(firewall) = 1]

(* The rule misses a port and the administrator adds it, or not.           *)
OpenFirewallForPort(w) ==
    /\ pc[w] = "saved" /\ Goto(w, "planned")
    /\ \/ UNCHANGED mem
       \/ /\ firewall # {} /\ ~(ServerPorts \subseteq firewall)
          /\ Remember(w, [mem[w] EXCEPT !.plan = WiderRule])
    /\ UNCHANGED <<files, host, lock, count>>

Widened(w) == IF mem[w].plan = NoPlan THEN firewall ELSE mem[w].plan.wide

SaveOnly(w) ==
    /\ pc[w] = "planned" /\ ~mem[w].resume /\ Finish(w)
    /\ firewall' = Widened(w)
    /\ UNCHANGED <<files, task, late, server, ran, lock, count>>

(* RestartRollbackFor: the record of this very sshd names the way back.    *)
RestartRollback ==
    /\ journal.status = "prepared" /\ journal.applied = live
    /\ journal.server # 0 /\ journal.server = server
    /\ journal.backup # NoBackup

RestartApplyingSaved(w) ==
    /\ pc[w] = "idle" /\ Spend("restart")
    /\ \/ /\ RestartRollback /\ Goto(w, "saved")
          /\ Remember(w, [mem[w] EXCEPT !.backup = journal.backup, !.resume = TRUE])
       \/ ~RestartRollback /\ Goto(w, "plain") /\ UNCHANGED mem
    /\ UNCHANGED <<files, host, lock, stamp>>

PlainRestart(w) ==
    /\ pc[w] = "plain" /\ Finish(w) /\ StartServer
    /\ UNCHANGED <<live, previous, journal, task, late, firewall, lock, left>>

-----------------------------------------------------------------------------
(* Arming recovery: ArmRecord.                                             *)

(* The rule is captured before the mutex is taken.                         *)
CaptureFirewall(w) ==
    /\ pc[w] = "planned" /\ Goto(w, "arm")
    /\ Remember(w, [mem[w] EXCEPT !.captured = firewall])
    /\ UNCHANGED <<files, host, lock, count>>

ArmMatches(w) == journal.backup.path = mem[w].backup.path /\ journal.applied = live

Arm(w) ==
    /\ pc[w] = "arm" /\ Acquire(w) /\ Goto(w, "armrec") /\ ~Pending
    /\ \/ /\ journal.status = "prepared" /\ ArmMatches(w)
          /\ Remember(w, [mem[w] EXCEPT !.rec = journal])
          /\ UNCHANGED <<previous, stamp>>
       \/ /\ journal.status # "prepared"
          /\ previous' = IF mem[w].backup = NoBackup THEN previous ELSE mem[w].backup.content
          /\ Remember(w, [mem[w] EXCEPT !.rec = NewRecord(mem[w].backup, live)])
          /\ stamp' = stamp + 1
    /\ UNCHANGED <<live, journal, since, host, left>>

(* Busy, another change pending, or the record is of a different save.     *)
ArmRefused(w) ==
    /\ pc[w] = "arm" /\ Finish(w)
    /\ lock # Nobody \/ Pending \/ (journal.status = "prepared" /\ ~ArmMatches(w))
    /\ UNCHANGED <<files, host, lock, count>>

\* Mutant: the record is pending before the task is registered.
ArmWrite_Pending(w) ==
    /\ pc[w] = "armrec" /\ Goto(w, "sched")
    /\ journal' = [mem[w].rec EXCEPT !.firewall = mem[w].captured, !.status = "pending"]
    /\ late' = FALSE
    /\ Remember(w, [mem[w] EXCEPT !.id = mem[w].rec.id])
    /\ UNCHANGED <<live, previous, since, task, firewall, server, ran, lock, count>>

ArmWrite(w) ==
    /\ pc[w] = "armrec" /\ Goto(w, "sched")
    /\ journal' = [mem[w].rec EXCEPT !.firewall = mem[w].captured]
    /\ late' = FALSE
    /\ Remember(w, [mem[w] EXCEPT !.id = mem[w].rec.id])
    /\ UNCHANGED <<live, previous, since, task, firewall, server, ran, lock, count>>

Schedule(w) ==
    /\ pc[w] = "sched" /\ Goto(w, "pend")
    /\ task' = TRUE
    /\ UNCHANGED <<files, late, firewall, server, ran, lock, mem, count>>

Pend(w) ==
    /\ pc[w] = "pend" /\ Goto(w, "apply") /\ Release
    /\ journal' = [journal EXCEPT !.status = "pending"]
    /\ UNCHANGED <<live, previous, since, host, mem, count>>

(* Storage, service definition, firewall capture or task registration      *)
(* fails: the record stays prepared, and a Dashboard restart offers to go  *)
(* on without recovery.                                                    *)
ArmFails(w) ==
    /\ Spend("fault")
    /\ \/ pc[w] = "planned" /\ UNCHANGED lock
       \/ pc[w] \in Arming /\ Release
    /\ IF mem[w].resume THEN Goto(w, "offer") /\ UNCHANGED mem ELSE Finish(w)
    /\ UNCHANGED <<files, host, stamp>>

RestartAnyway(w) ==
    /\ pc[w] = "offer"
    /\ \/ Goto(w, "plain") /\ firewall' = Widened(w) /\ UNCHANGED mem
       \/ Finish(w) /\ UNCHANGED firewall
    /\ UNCHANGED <<files, task, late, server, ran, lock, count>>

-----------------------------------------------------------------------------
(* The change in effect: RestartWithRollback after the record is pending.  *)

Apply(w) ==
    /\ pc[w] = "apply" /\ Goto(w, "restart")
    /\ firewall' = Widened(w)
    /\ UNCHANGED <<files, task, late, server, ran, lock, mem, count>>

ApplyFails(w) ==
    /\ pc[w] = "apply" /\ mem[w].plan # NoPlan /\ Spend("fault") /\ Goto(w, "restore")
    /\ UNCHANGED <<files, host, lock, mem, stamp>>

RestartService(w) ==
    /\ pc[w] = "restart" /\ Goto(w, "restarted") /\ StartServer
    /\ UNCHANGED <<live, previous, journal, task, late, firewall, lock, mem, left>>

(* sshd does not stop, or does not start again.                            *)
RestartFails(w) ==
    /\ Spend("fault") /\ server' \in {server, 0}
    /\ \/ pc[w] = "restart" /\ Goto(w, "restore") /\ UNCHANGED mem
       \/ pc[w] = "plain" /\ Finish(w)
    /\ UNCHANGED <<files, task, late, firewall, ran, lock, stamp>>

\* Mutant: any pending record will do.
Mine_AnyRecord(w) == Pending

Mine(w) == Pending /\ journal.id = mem[w].id

(* The deadline of the question; a record already resolved, or late, ends  *)
(* the operation here.                                                     *)
SetDeadline(w) ==
    /\ pc[w] = "restarted" /\ lock = Nobody
    /\ \/ Mine(w) /\ ~late /\ task' = TRUE /\ Goto(w, "answer") /\ UNCHANGED mem
       \/ ~(Mine(w) /\ ~late) /\ Finish(w) /\ UNCHANGED task
    /\ UNCHANGED <<files, late, firewall, server, ran, lock, count>>

SetDeadlineFails(w) ==
    /\ pc[w] = "restarted" /\ Finish(w)
    /\ \/ lock # Nobody /\ UNCHANGED left
       \/ Spend("fault")
    /\ UNCHANGED <<files, host, lock, stamp>>

(* The question is switched off: the settings are kept at once.            *)
NoQuestion(w) ==
    /\ pc[w] = "restarted" /\ Goto(w, "confirm")
    /\ UNCHANGED <<files, host, lock, mem, count>>

Answer(w) ==
    /\ pc[w] = "answer"
    /\ Goto(w, "confirm") \/ Goto(w, "restore")
    /\ UNCHANGED <<files, host, lock, mem, count>>

-----------------------------------------------------------------------------
(* Keeping: ConfirmAsync holds the mutex while the firewall is narrowed.   *)

Confirmable(w) == Mine(w) /\ ~late /\ live = journal.applied

ConfirmBegin(w) ==
    /\ pc[w] = "confirm" /\ Confirmable(w) /\ Acquire(w) /\ Goto(w, "keep")
    /\ UNCHANGED <<files, host, mem, count>>

ConfirmRefused(w) ==
    /\ pc[w] = "confirm" /\ Goto(w, "restore")
    /\ lock # Nobody \/ ~Confirmable(w)
    /\ UNCHANGED <<files, host, lock, mem, count>>

Keep(w) ==
    /\ pc[w] = "keep" /\ Goto(w, "commit")
    /\ firewall' \in {firewall} \cup IF mem[w].plan.single THEN {ServerPorts} ELSE {}
    /\ UNCHANGED <<files, task, late, server, ran, lock, mem, count>>

Commit(w) ==
    /\ pc[w] = "commit"
    /\ \/ /\ live = journal.applied
          /\ journal' = [journal EXCEPT !.status = "confirmed"]
          /\ Goto(w, "disarm") /\ UNCHANGED lock
       \/ live # journal.applied /\ Goto(w, "restore") /\ Release /\ UNCHANGED journal
    /\ UNCHANGED <<live, previous, since, host, mem, count>>

(* Removing the task may fail: the resolved journal makes it harmless.     *)
Disarm(p) ==
    /\ pc[p] = "disarm" /\ Finish(p) /\ Release
    /\ task' \in {FALSE, task}
    /\ UNCHANGED <<files, late, firewall, server, ran, count>>

-----------------------------------------------------------------------------
(* Restoring: RecoverPending, by a window that asks for it (RestoreNow) or *)
(* by the task once the deadline has passed (Run).                         *)

MayRecover(p) ==
    IF p = Task THEN pc[p] = "idle" /\ task /\ late /\ Pending
                ELSE pc[p] = "restore" /\ Mine(p)

\* Mutant: a restore that put the file back and died is not resumed.
RecoverBegin_AppliedOnly(p) ==
    /\ MayRecover(p) /\ Acquire(p)
    /\ live = journal.applied
    /\ Goto(p, IF live = journal.before THEN "rphase" ELSE "rlive")
    /\ UNCHANGED <<files, host, mem, count>>

\* Mutant: the phase is recorded without putting the file back.
RecoverBegin_SkipFile(p) ==
    /\ MayRecover(p) /\ Acquire(p)
    /\ live \in {journal.applied, journal.before}
    /\ Goto(p, "rphase")
    /\ UNCHANGED <<files, host, mem, count>>

RecoverBegin(p) ==
    /\ MayRecover(p) /\ Acquire(p)
    /\ live \in {journal.applied, journal.before}
    /\ Goto(p, IF live = journal.before THEN "rphase" ELSE "rlive")
    /\ UNCHANGED <<files, host, mem, count>>

(* The mutex stays taken, the record is resolved or another one, or the    *)
(* file is neither the change nor what was before it.                      *)
RestoreEnds(w) ==
    /\ pc[w] = "restore" /\ Finish(w)
    /\ lock # Nobody \/ ~Mine(w) \/ live \notin {journal.applied, journal.before}
    /\ UNCHANGED <<files, host, lock, count>>

RecoverLive(p) ==
    /\ pc[p] = "rlive"
    /\ \/ /\ journal.before = Absent \/ previous = journal.before
          /\ live' = journal.before /\ since' = Written(journal.before)
          /\ Goto(p, "rphase") /\ UNCHANGED <<lock, mem>>
       \/ /\ journal.before # Absent /\ previous # journal.before
          /\ Finish(p) /\ Release /\ UNCHANGED <<live, since>>
    /\ UNCHANGED <<previous, journal, host, count>>

RecoverPhase(p) ==
    /\ pc[p] = "rphase"
    /\ Goto(p, IF journal.phase = "firewall-restored" THEN "rrestart" ELSE "rfirewall")
    /\ journal' = [journal EXCEPT !.phase = IF @ = "applied" THEN "configuration-restored" ELSE @]
    /\ UNCHANGED <<live, previous, since, host, lock, mem, count>>

\* Mutant: the rule is left as it is.
RecoverFirewall_Skipped(p) ==
    /\ pc[p] = "rfirewall" /\ Goto(p, "rphase2")
    /\ UNCHANGED <<files, host, lock, mem, count>>

RecoverFirewall(p) ==
    /\ pc[p] = "rfirewall" /\ Goto(p, "rphase2")
    /\ firewall' = journal.firewall
    /\ UNCHANGED <<files, task, late, server, ran, lock, mem, count>>

\* Mutant: restored without a restart of sshd.
RecoverPhase2_NoRestart(p) ==
    /\ pc[p] = "rphase2" /\ Goto(p, "rdone")
    /\ journal' = [journal EXCEPT !.phase = "firewall-restored"]
    /\ UNCHANGED <<live, previous, since, host, lock, mem, count>>

RecoverPhase2(p) ==
    /\ pc[p] = "rphase2" /\ Goto(p, "rrestart")
    /\ journal' = [journal EXCEPT !.phase = "firewall-restored"]
    /\ UNCHANGED <<live, previous, since, host, lock, mem, count>>

RecoverRestart(p) ==
    /\ pc[p] = "rrestart" /\ Goto(p, "rdone") /\ StartServer
    /\ UNCHANGED <<live, previous, journal, task, late, firewall, lock, mem, left>>

RecoverDone(p) ==
    /\ pc[p] = "rdone" /\ Goto(p, "disarm")
    /\ journal' = [journal EXCEPT !.status = "restored"]
    /\ UNCHANGED <<live, previous, since, host, lock, mem, count>>

(* A step throws: the record stays pending and the task runs again.        *)
RecoverFails(p) ==
    /\ pc[p] \in Restoring /\ Spend("fault") /\ Finish(p) /\ Release
    /\ server' \in {server} \cup IF pc[p] = "rrestart" THEN {0} ELSE {}
    /\ UNCHANGED <<files, task, late, firewall, ran, stamp>>

-----------------------------------------------------------------------------
(* A stuck record: ResolvePendingRecovery, at startup or on a refused save.*)

ResolvePendingRecovery(w) ==
    /\ pc[w] = "idle" /\ Pending /\ late
    /\ Goto(w, "restore") \/ Goto(w, "abandon")
    /\ Remember(w, [mem[w] EXCEPT !.id = journal.id])
    /\ UNCHANGED <<files, host, lock, count>>

\* Mutant: the recovery is cancelled although it is no longer pending.
Abandon_AnyStatus(w) ==
    /\ pc[w] = "abandon"
    /\ \/ /\ journal.id = mem[w].id /\ Acquire(w) /\ Goto(w, "disarm")
          /\ journal' = [journal EXCEPT !.status = "abandoned"]
          /\ UNCHANGED mem
       \/ (lock # Nobody \/ ~Mine(w)) /\ Finish(w) /\ UNCHANGED <<lock, journal>>
    /\ UNCHANGED <<live, previous, since, host, count>>

Abandon(w) ==
    /\ pc[w] = "abandon"
    /\ \/ /\ Mine(w) /\ Acquire(w) /\ Goto(w, "disarm")
          /\ journal' = [journal EXCEPT !.status = "abandoned"]
          /\ UNCHANGED mem
       \/ (lock # Nobody \/ ~Mine(w)) /\ Finish(w) /\ UNCHANGED <<lock, journal>>
    /\ UNCHANGED <<live, previous, since, host, count>>

-----------------------------------------------------------------------------
(* Everything else on the machine.                                         *)

OutsideEdit ==
    /\ Spend("edit")
    /\ \E c \in Foreign \ {live} : live' = c /\ since' = Written(c)
    /\ UNCHANGED <<previous, journal, host, procs, stamp>>

ServiceRestart ==
    /\ Spend("service") /\ StartServer
    /\ UNCHANGED <<live, previous, journal, task, late, firewall, procs>>

ServiceStops ==
    /\ server # 0 /\ Spend("service") /\ server' = 0
    /\ UNCHANGED <<files, task, late, firewall, ran, procs, stamp>>

DeadlinePasses ==
    /\ ~late /\ late' = TRUE
    /\ UNCHANGED <<files, task, firewall, server, ran, procs, count>>

SecondPasses ==
    /\ since.young /\ since' = [since EXCEPT !.young = FALSE]
    /\ UNCHANGED <<live, previous, journal, host, procs, count>>

(* A process dies: the mutex it held is abandoned, and the next owner gets *)
(* it.                                                                     *)
Crash(p) ==
    /\ pc[p] # "idle" /\ Spend("fault") /\ Finish(p)
    /\ lock' = IF lock = p THEN Nobody ELSE lock
    /\ UNCHANGED <<files, host, stamp>>

-----------------------------------------------------------------------------
SaveStep(w) ==
    \/ Prepare(w) \/ PrepareRecord(w) \/ CheckUnchanged(w) \/ Replace(w) \/ Unprepare(w)
ArmStep(w)  == ArmWrite(w) \/ Schedule(w) \/ Pend(w)
KeepStep(w) == Keep(w) \/ Commit(w)
RestoreStep(p) ==
    \/ RecoverLive(p) \/ RecoverPhase(p) \/ RecoverFirewall(p) \/ RecoverPhase2(p)
    \/ RecoverRestart(p) \/ RecoverDone(p) \/ Disarm(p)

(* What a process does while it holds the mutex: no step waits for anybody.*)
LockedStep(p) ==
    \/ RestoreStep(p)
    \/ p \in Windows /\ (SaveStep(p) \/ ArmStep(p) \/ KeepStep(p))

Window(w) ==
    \/ BeginSave(w) \/ SaveFails(w) \/ OpenFirewallForPort(w) \/ SaveOnly(w)
    \/ RestartApplyingSaved(w) \/ PlainRestart(w) \/ CaptureFirewall(w) \/ Arm(w) \/ ArmRefused(w)
    \/ ArmFails(w) \/ RestartAnyway(w) \/ Apply(w) \/ ApplyFails(w) \/ RestartService(w)
    \/ RestartFails(w) \/ SetDeadline(w) \/ SetDeadlineFails(w) \/ NoQuestion(w) \/ Answer(w)
    \/ ConfirmBegin(w) \/ ConfirmRefused(w) \/ RestoreEnds(w) \/ ResolvePendingRecovery(w)
    \/ Abandon(w)

Next ==
    \/ \E w \in Windows : Window(w)
    \/ \E p \in Processes : LockedStep(p) \/ RecoverBegin(p) \/ RecoverFails(p) \/ Crash(p)
    \/ OutsideEdit \/ ServiceRestart \/ ServiceStops \/ DeadlinePasses \/ SecondPasses

(* Time passes, the task runs every minute while it is registered, and a   *)
(* process that holds the mutex goes on.  Nothing is asked of a window     *)
(* that does not hold it: the administrator may never answer.              *)
Fairness ==
    /\ WF_vars(DeadlinePasses) /\ WF_vars(RecoverBegin(Task))
    /\ \A p \in Processes : WF_vars(LockedStep(p))

Spec     == Init /\ [][Next]_vars
FairSpec == Spec /\ Fairness

-----------------------------------------------------------------------------
(* Properties.                                                             *)

(* What the variables hold.                                                *)
FilesOK     == /\ live \in Files /\ previous \in Files /\ journal \in Records
               /\ since \in Since
HostOK      == /\ task \in BOOLEAN /\ late \in BOOLEAN /\ firewall \in SUBSET AllPorts
               /\ server \in Nat /\ ran \in Files
ProcessesOK == /\ lock \in Processes \cup {Nobody}
               /\ pc \in [Processes -> Locking \cup Unlocked]
               /\ mem \in [Processes -> Memory]
CountersOK  == stamp \in Nat /\ left \in [Kinds -> Nat]

(* Type invariant of the files, the host, the processes and the counters.  *)
TypeOK == FilesOK /\ HostOK /\ ProcessesOK /\ CountersOK

(* "The task must exist before pending becomes authoritative and before    *)
(* the caller changes the server" (ArmRecord): whoever armed, kept,        *)
(* restored or died in between, a pending record always has a registered   *)
(* task behind it.                                                         *)
TaskArmed == Pending => task

(* Keep and restore exclude each other (ConfirmAsync, RecoverPending):     *)
(* while any process is between the first and the last step of either, the *)
(* record is pending, it is the one that process asked about, and nobody   *)
(* else is between such steps.                                             *)
OneOutcome ==
    \A p \in Processes :
       pc[p] \in Keeping \cup Restoring =>
          /\ Pending /\ lock = p
          /\ p # Task => journal.id = mem[p].id
          /\ \A q \in Processes \ {p} : pc[q] \notin Locking

(* The phase in the journal tells the truth after any number of crashed    *)
(* restores: from "configuration-restored" on, while the record is         *)
(* pending, the previous file is back (RecoverPending resumes after it).   *)
PhaseIsTrue == Pending /\ journal.phase # "applied" => live = journal.before

(* "The record keeps the file that process loaded, not the one saved in    *)
(* between, which sshd never ran" (ContinuedRecord, RestartRollbackFor): a *)
(* prepared record that names the running sshd and the present file has as *)
(* its target a file that counts as loaded by that sshd, and never one     *)
(* saved later, however many saves, failed saves, crashes and restarts led *)
(* there.  A file written within the first second of that sshd counts.     *)
ChainTarget ==
    journal.status = "prepared" /\ journal.server # 0 /\ journal.server = server
       /\ journal.applied = live => journal.before \in since.counted

(* A change is reported as restored only when the previous file is in      *)
(* place and sshd has been started with it (the end of RecoverPending).    *)
RestoredMeansRunning ==
    [][Pending /\ journal'.status = "restored" => live = journal.before /\ ran = journal.before]_vars

(* No restore locks anybody out: when a change is reported as restored,    *)
(* every port that was open when it was armed is open again, also when the *)
(* rule had already been narrowed to the new port by a Keep that did not   *)
(* come to its end, and when a window that was held up widens the rule     *)
(* behind the restore (RecoverPending, ConfirmAsync, RestartWithRollback). *)
(* This is for one window: two of them may overwrite each other's rule.    *)
RestoreReopens ==
    [][Pending /\ journal'.status = "restored" => journal.firewall \subseteq firewall]_vars

(* A decision is final: a record that was kept, restored or abandoned      *)
(* never changes again, it is only replaced by the record of a new change. *)
OutcomeIsFinal ==
    [][journal.status \in {"confirmed", "restored", "abandoned"} =>
          journal' = journal \/ journal'.id # journal.id]_vars

(* The promise of commit-confirmed: a pending change does not stay so, with*)
(* the window gone or the administrator away; the task restores it unless  *)
(* the file was edited outside or the recovery copy is not the one the     *)
(* record names (both are left to an administrator).                       *)
Resolved ==
    Pending ~> \/ ~Pending
               \/ live \notin {journal.applied, journal.before}
               \/ journal.before # Absent /\ previous # journal.before

(* What the texts about the manager say and the code does not always do.   *)

(* Without an answer "the configuration sshd ran before this restart comes *)
(* back": the record that follows a change that was kept, and that sshd    *)
(* runs, has the kept file as its target.                                  *)
KeptIsNextTarget ==
    [][journal.status = "confirmed" /\ journal'.id # journal.id
          /\ server # 0 /\ ran = journal.applied /\ live = journal.applied
       => journal'.before = journal.applied]_vars

(* "A first save without a previous file never rolls back by deleting it": *)
(* a restore does not remove sshd_config.                                  *)
FirstSaveKept == [][Pending /\ live # Absent => live' # Absent]_vars

=============================================================================
