------------------------- MODULE ConfigRecoveryProofs -------------------------
(***************************************************************************)
(* Proofs about ConfigRecovery, for any number of windows, any files and   *)
(* any number of saves, edits, restarts and faults.                        *)
(*                                                                         *)
(* None of the properties is inductive alone: that a pending record has a  *)
(* task needs the order in ArmRecord (sched, pend), that keep and restore  *)
(* exclude each other needs the mutex and the status at every step under   *)
(* it, and that a decision is final needs ids that are used once.  Step    *)
(* collects what each place under the mutex knows, and IndInv adds the ids *)
(* and the types.  A process that does not hold the mutex is at a place of *)
(* which Step says nothing, so that a step of one process cannot falsify   *)
(* Step of another (Others); what remains is one case per action.          *)
(*                                                                         *)
(* What the journal says of the file and of sshd needs a second invariant, *)
(* Alone, and a machine on which nobody else writes sshd_config.           *)
(* What it says of the firewall rule needs a third one, Reopen, and a      *)
(* single window.                                                          *)
(***************************************************************************)
EXTENDS ConfigRecovery, TLAPS

Final == {"confirmed", "restored", "abandoned"}

(* What holds of the record while process p is at each of the steps under  *)
(* the mutex.                                                              *)
Step(p) ==
    /\ pc[p] \in Locking => lock = p
    /\ pc[p] \in Saving \cup Arming => journal.status # "pending"
    /\ pc[p] = "record" => mem[p].rec.status = "prepared" /\ mem[p].rec.id # journal.id
    /\ pc[p] \in {"check", "replace", "unprepare"} =>
          journal.status = "prepared" /\ mem[p].rec.status # "pending"
    /\ pc[p] = "armrec" =>
          /\ mem[p].rec.status = "prepared"
          /\ journal.status = "prepared" \/ mem[p].rec.id # journal.id
    /\ pc[p] \in {"sched", "pend"} => journal.status = "prepared"
    /\ pc[p] = "pend" => task
    /\ pc[p] \in Keeping \cup Restoring =>
          journal.status = "pending" /\ (p # Task => journal.id = mem[p].id)
    /\ pc[p] = "disarm" => journal.status \in Final

(* Ids are handed out once.                                                *)
Ids == journal.id <= stamp /\ \A p \in Processes : mem[p].rec.id <= stamp

Steps == \A p \in Processes : Step(p)

(* The inductive invariant.                                                *)
IndInv == TypeOK /\ Ids /\ TaskArmed /\ Steps

-----------------------------------------------------------------------------
(* Frequently used sets and values.                                        *)

(* The values a window's memory and the journal start from are of their    *)
(* types, and ports of files are ports.                                    *)
LEMMA Values ==
    /\ NoBackup \in Backups /\ NoRecord \in Records /\ Blank \in Memory /\ NoPlan \in Plans
    /\ \A S \in SUBSET Files : Ports(S) \in SUBSET AllPorts
<1>1. Absent \in Files
  BY DEF Files
<1>2. NoBackup \in Backups
  BY <1>1 DEF NoBackup, Backups
<1>3. NoRecord \in Records
  BY <1>1, <1>2 DEF NoRecord, Records, Statuses, Phases
<1>4. NoPlan \in Plans
  BY DEF NoPlan, Plans
<1>5. Blank \in Memory
  BY <1>1, <1>2, <1>3, <1>4 DEF Blank, Memory
<1>6. ASSUME NEW S \in SUBSET Files PROVE Ports(S) \in SUBSET AllPorts
  BY <1>6 DEF AllPorts, Ports
<1>. QED BY <1>2, <1>3, <1>4, <1>5, <1>6

(* ServerState.Read: the ports of the saved and of the running             *)
(* configuration.                                                          *)
LEMMA ServerPortsType == ASSUME TypeOK PROVE ServerPorts \in SUBSET AllPorts
<1>1. ({live} \cup IF server = 0 THEN {} ELSE {ran}) \in SUBSET Files
  BY DEF TypeOK, FilesOK, HostOK
<1>. QED BY <1>1, Values DEF ServerPorts

(* RecordValues: the record of a new change.                               *)
LEMMA NewRecordType ==
    ASSUME TypeOK, NEW b \in Backups, NEW c \in Files
    PROVE  /\ NewRecord(b, c) \in Records
           /\ NewRecord(b, c).id = stamp + 1
           /\ NewRecord(b, c).status = "prepared"
<1>1. stamp + 1 \in Nat /\ b.content \in Files
  BY DEF TypeOK, CountersOK, Backups
<1>. QED BY <1>1, Values DEF NewRecord, NoRecord, Records, Statuses, Phases

(* The parts of Locking; a process that is not at one of them holds no     *)
(* mutex and Step says nothing of it.                                      *)
LEMMA UnlockedStep ==
    ASSUME NEW p, pc[p] \notin Locking
    PROVE  Step(p)
BY DEF Step, Locking, Saving, Arming, Keeping, Restoring

(* No place in the code is both under the mutex and outside of it.         *)
LEMMA Apart == \A l \in Unlocked : l \notin Locking
BY DEF Unlocked, Locking, Saving, Arming, Keeping, Restoring

(* A step of p disturbs nobody else: either p holds the mutex or finds it  *)
(* free, and then nobody else is at a step under it, or p leaves the       *)
(* journal, the mutex and the task's registration alone.                   *)
LEMMA Others ==
    ASSUME Steps, NEW p \in Processes, NEW q \in Processes \ {p},
           pc'[q] = pc[q], mem'[q] = mem[q],
           \/ lock \in {p, Nobody}
           \/ lock' = lock /\ journal' = journal /\ (task => task')
    PROVE  Step(q)'
<1>1. CASE pc[q] \in Locking
  <2>1. lock = q
    BY <1>1 DEF Steps, Step
  <2>2. lock \notin {p, Nobody}
    BY <2>1, RecoveryAssumption
  <2>3. lock' = lock /\ journal' = journal /\ (task => task')
    BY <2>2
  <2>. QED BY <2>3 DEF Steps, Step
<1>2. CASE pc[q] \notin Locking
  BY <1>2 DEF Step, Locking, Saving, Arming, Keeping, Restoring
<1>. QED BY <1>1, <1>2

(* The shape of every step of a process: what is left to show about one is *)
(* its types, the record after it and what holds where it arrives.         *)
LEMMA Moves ==
    ASSUME IndInv, TypeOK', TaskArmed', NEW p \in Processes, Step(p)',
           \A q \in Processes \ {p} : pc'[q] = pc[q] /\ mem'[q] = mem[q],
           stamp <= stamp', journal'.id <= stamp', mem'[p].rec.id <= stamp',
           \/ lock \in {p, Nobody}
           \/ lock' = lock /\ journal' = journal /\ (task => task')
    PROVE  IndInv'
<1>1. Steps'
  BY Others DEF Steps, IndInv
<1>2. ASSUME NEW q \in Processes PROVE (mem[q].rec.id <= stamp)'
  <2>1. CASE q = p
    BY <2>1
  <2>2. CASE q # p
    <3>1. mem'[q].rec.id <= stamp
      BY <2>2 DEF IndInv, Ids
    <3>2. mem'[q].rec.id \in Nat /\ stamp \in Nat /\ stamp' \in Nat
      BY DEF IndInv, TypeOK, ProcessesOK, CountersOK, Memory, Records
    <3>. QED BY <3>1, <3>2
  <2>. QED BY <2>1, <2>2
<1>. QED BY <1>1, <1>2 DEF IndInv, Ids

-----------------------------------------------------------------------------
(* The building blocks of the actions.                                     *)

(* Goto moves one process.                                                 *)
LEMMA GotoMoves ==
    ASSUME ProcessesOK, NEW p \in Processes, NEW l \in Locking \cup Unlocked, Goto(p, l)
    PROVE  /\ pc' \in [Processes -> Locking \cup Unlocked]
           /\ pc'[p] = l /\ \A q \in Processes \ {p} : pc'[q] = pc[q]
BY DEF ProcessesOK, Goto

(* Remember changes the memory of one process.                             *)
LEMMA RememberSets ==
    ASSUME ProcessesOK, NEW p \in Processes, NEW m \in Memory, Remember(p, m)
    PROVE  /\ mem' \in [Processes -> Memory]
           /\ mem'[p] = m /\ \A q \in Processes \ {p} : mem'[q] = mem[q]
BY DEF ProcessesOK, Remember

(* Finish leaves a process idle and without a record.                      *)
LEMMA FinishEnds ==
    ASSUME ProcessesOK, NEW p \in Processes, Finish(p)
    PROVE  /\ pc' \in [Processes -> Locking \cup Unlocked] /\ mem' \in [Processes -> Memory]
           /\ pc'[p] = "idle" /\ pc'[p] \notin Locking /\ mem'[p].rec = NoRecord
           /\ \A q \in Processes \ {p} : pc'[q] = pc[q] /\ mem'[q] = mem[q]
<1>1. "idle" \in Unlocked /\ Blank.rec = NoRecord
  BY DEF Unlocked, Blank
<1>. QED BY <1>1, Values, Apart, GotoMoves, RememberSets DEF Finish

(* A budget stays a natural number.                                        *)
LEMMA SpendType ==
    ASSUME CountersOK, NEW k \in Kinds, Spend(k)
    PROVE  left' \in [Kinds -> Nat]
<1>1. left[k] \in Nat /\ left[k] > 0
  BY DEF CountersOK, Spend
<1>2. left[k] - 1 \in Nat
  BY <1>1
<1>. QED BY <1>2 DEF CountersOK, Spend

(* A started sshd has an identity, and has loaded a file.                  *)
LEMMA StartServerType ==
    ASSUME TypeOK, StartServer
    PROVE  /\ server' \in Nat /\ ran' \in Files /\ since' \in Since
           /\ stamp' \in Nat /\ stamp <= stamp'
<1>1. stamp \in Nat /\ live \in Files
  BY DEF TypeOK, FilesOK, CountersOK
<1>2. server' \in Nat /\ stamp' \in Nat /\ stamp <= stamp'
  BY <1>1 DEF StartServer
<1>3. ran' \in Files /\ since' \in Since
  BY <1>1 DEF StartServer, Since
<1>. QED BY <1>2, <1>3

(* RestartNeeded: a file that is written has changed since sshd started,   *)
(* or it counts as loaded like those that did before.                      *)
LEMMA WrittenCounts ==
    ASSUME TypeOK, NEW c \in Files
    PROVE  /\ Written(c) \in Since /\ since.counted \subseteq Written(c).counted
           /\ ~Written(c).changed => c \in Written(c).counted
<1>1. since \in Since
  BY DEF TypeOK, FilesOK
<1>. QED BY <1>1 DEF Written, Since

(* The fields of a memory.                                                 *)
LEMMA MemoryFields ==
    ASSUME NEW m \in Memory
    PROVE  /\ m.bytes \in Files /\ m.backup \in Backups /\ m.cont \in BOOLEAN /\ m.rec \in Records
           /\ m.id \in Nat /\ m.captured \in SUBSET AllPorts /\ m.plan \in Plans
           /\ m.resume \in BOOLEAN
BY DEF Memory

(* The fields of a record.                                                 *)
LEMMA RecordFields ==
    ASSUME NEW r \in Records
    PROVE  /\ r.id \in Nat /\ r.status \in Statuses /\ r.phase \in Phases /\ r.applied \in Files
           /\ r.before \in Files /\ r.backup \in Backups /\ r.server \in Nat
           /\ r.firewall \in SUBSET AllPorts
BY DEF Records

(* The updates of a memory that the windows make, and the record each one  *)
(* leaves in it.                                                           *)
LEMMA MemoryUpdates ==
    ASSUME NEW m \in Memory
    PROVE  /\ \A x \in Plans : [m EXCEPT !.plan = x] \in Memory /\ [m EXCEPT !.plan = x].rec = m.rec
           /\ \A x \in SUBSET AllPorts :
                 [m EXCEPT !.captured = x] \in Memory /\ [m EXCEPT !.captured = x].rec = m.rec
           /\ \A x \in Nat : /\ [m EXCEPT !.id = x] \in Memory
                             /\ [m EXCEPT !.id = x].rec = m.rec /\ [m EXCEPT !.id = x].id = x
           /\ \A x \in Backups : /\ [m EXCEPT !.backup = x, !.resume = TRUE] \in Memory
                                 /\ [m EXCEPT !.backup = x, !.resume = TRUE].rec = m.rec
           /\ \A x \in Files, y \in Backups : [m EXCEPT !.bytes = x, !.backup = y] \in Memory
           /\ \A x \in Files, y \in Backups : [m EXCEPT !.bytes = x, !.backup = y].rec = m.rec
           /\ \A x \in Records : [m EXCEPT !.rec = x] \in Memory /\ [m EXCEPT !.rec = x].rec = x
           /\ \A x \in BOOLEAN, y \in Records : /\ [m EXCEPT !.cont = x, !.rec = y] \in Memory
                                                /\ [m EXCEPT !.cont = x, !.rec = y].rec = y
           /\ \A x \in Records, y \in Nat : /\ [m EXCEPT !.rec = x, !.id = y] \in Memory
                                            /\ [m EXCEPT !.rec = x, !.id = y].rec = x
BY DEF Memory

(* A process goes to l with the memory m.                                  *)
LEMMA Goes ==
    ASSUME ProcessesOK, NEW p \in Processes, NEW l \in Locking \cup Unlocked, NEW m \in Memory,
           Goto(p, l), Remember(p, m) \/ (mem' = mem /\ m = mem[p]),
           lock' \in {lock, p, Nobody}
    PROVE  /\ ProcessesOK' /\ pc'[p] = l /\ mem'[p] = m
           /\ \A q \in Processes \ {p} : pc'[q] = pc[q] /\ mem'[q] = mem[q]
<1>1. mem' \in [Processes -> Memory] /\ mem'[p] = m /\ \A q \in Processes \ {p} : mem'[q] = mem[q]
  BY RememberSets DEF ProcessesOK
<1>2. lock' \in Processes \cup {Nobody}
  BY DEF ProcessesOK
<1>. QED BY <1>1, <1>2, GotoMoves DEF ProcessesOK

(* A step that ends outside the mutex and leaves the journal alone.        *)
LEMMA Quiet ==
    ASSUME IndInv, FilesOK', HostOK', CountersOK',
           NEW p \in Processes, NEW l \in Unlocked, NEW m \in Memory,
           Goto(p, l), Remember(p, m) \/ (mem' = mem /\ m = mem[p]),
           m.rec \in {mem[p].rec, NoRecord}, stamp <= stamp',
           journal' = journal, task => task',
           lock' = lock \/ (lock = p /\ lock' = Nobody)
    PROVE  IndInv'
<1>1. /\ ProcessesOK' /\ pc'[p] = l /\ mem'[p] = m
      /\ \A q \in Processes \ {p} : pc'[q] = pc[q] /\ mem'[q] = mem[q]
  BY Goes DEF IndInv, TypeOK
<1>2. pc'[p] \notin Locking
  BY <1>1, Apart
<1>3. Step(p)'
  BY <1>2 DEF Step, Locking, Saving, Arming, Keeping, Restoring
<1>4. TaskArmed'
  BY DEF IndInv, TaskArmed, Pending
<1>5. journal'.id <= stamp' /\ mem'[p].rec.id <= stamp'
  <2>1. /\ stamp \in Nat /\ stamp' \in Nat /\ journal.id \in Nat /\ mem[p].rec.id \in Nat
        /\ journal.id <= stamp /\ mem[p].rec.id <= stamp
    BY DEF IndInv, TypeOK, FilesOK, ProcessesOK, CountersOK, Ids, Records, Memory
  <2>2. NoRecord.id = 0
    BY DEF NoRecord
  <2>. QED BY <1>1, <2>1, <2>2
<1>6. TypeOK'
  BY <1>1 DEF TypeOK
<1>. QED BY <1>1, <1>3, <1>4, <1>5, <1>6, Moves

(* The widened rule allows ports of files.                                 *)
LEMMA WidenedType ==
    ASSUME TypeOK, NEW w \in Processes
    PROVE  Widened(w) \in SUBSET AllPorts /\ WiderRule \in Plans
<1>1. mem[w].plan \in Plans /\ firewall \in SUBSET AllPorts
  BY MemoryFields DEF TypeOK, HostOK, ProcessesOK
<1>2. Widened(w) \in SUBSET AllPorts
  BY <1>1 DEF Widened, Plans
<1>3. WiderRule \in Plans
  BY <1>1, ServerPortsType DEF WiderRule, Plans
<1>. QED BY <1>2, <1>3

(* The memory of a finished operation.                                     *)
LEMMA BlankMemory == Blank \in Memory /\ Blank.rec = NoRecord
BY Values DEF Blank

(* The steps of a window outside the mutex.                                *)
LEMMA QuietSteps ==
    ASSUME IndInv, NEW w \in Windows,
           OpenFirewallForPort(w) \/ SaveOnly(w) \/ RestartApplyingSaved(w) \/
           PlainRestart(w) \/ CaptureFirewall(w) \/ ArmRefused(w) \/ ArmFails(w) \/
           RestartAnyway(w) \/ Apply(w) \/ ApplyFails(w) \/ RestartService(w) \/
           RestartFails(w) \/ SetDeadline(w) \/ SetDeadlineFails(w) \/ NoQuestion(w) \/
           Answer(w) \/ ConfirmRefused(w) \/ RestoreEnds(w) \/ ResolvePendingRecovery(w)
    PROVE  IndInv'
<1>. w \in Processes BY DEF Processes
<1>. TypeOK /\ Steps BY DEF IndInv
<1>. mem[w] \in Memory BY DEF TypeOK, ProcessesOK
<1>1. CASE OpenFirewallForPort(w)
  <2>0. /\ [mem[w] EXCEPT !.plan = WiderRule] \in Memory
        /\ [mem[w] EXCEPT !.plan = WiderRule].rec = mem[w].rec
    BY WidenedType, MemoryUpdates
  <2>1. FilesOK'
    BY <1>1 DEF OpenFirewallForPort, TypeOK, FilesOK, files
  <2>2. HostOK'
    BY <1>1 DEF OpenFirewallForPort, TypeOK, HostOK, host
  <2>3. CountersOK'
    BY <1>1 DEF OpenFirewallForPort, TypeOK, CountersOK, count
  <2>4. PICK l \in Unlocked, m \in Memory :
           /\ Goto(w, l) /\ (Remember(w, m) \/ (mem' = mem /\ m = mem[w]))
           /\ m.rec \in {mem[w].rec, NoRecord}
    BY <1>1, <2>0 DEF OpenFirewallForPort, Unlocked
  <2>5. /\ stamp <= stamp' /\ journal' = journal /\ (task => task')
        /\ lock' = lock \/ (lock = w /\ lock' = Nobody)
    BY <1>1 DEF OpenFirewallForPort, TypeOK, CountersOK, files, host, count
  <2>. QED BY <2>1, <2>2, <2>3, <2>4, <2>5, Quiet
<1>2. CASE SaveOnly(w)
  <2>1. FilesOK'
    BY <1>2 DEF SaveOnly, TypeOK, FilesOK, files
  <2>2. HostOK'
    BY <1>2, WidenedType DEF SaveOnly, TypeOK, HostOK
  <2>3. CountersOK'
    BY <1>2 DEF SaveOnly, TypeOK, CountersOK, count
  <2>4. PICK l \in Unlocked, m \in Memory :
           /\ Goto(w, l) /\ (Remember(w, m) \/ (mem' = mem /\ m = mem[w]))
           /\ m.rec \in {mem[w].rec, NoRecord}
    BY <1>2, BlankMemory DEF SaveOnly, Unlocked, Finish
  <2>5. /\ stamp <= stamp' /\ journal' = journal /\ (task => task')
        /\ lock' = lock \/ (lock = w /\ lock' = Nobody)
    BY <1>2 DEF SaveOnly, TypeOK, CountersOK, files, count
  <2>. QED BY <2>1, <2>2, <2>3, <2>4, <2>5, Quiet
<1>3. CASE RestartApplyingSaved(w)
  <2>0. /\ [mem[w] EXCEPT !.backup = journal.backup, !.resume = TRUE] \in Memory
        /\ [mem[w] EXCEPT !.backup = journal.backup, !.resume = TRUE].rec = mem[w].rec
    BY RecordFields, MemoryUpdates DEF TypeOK, FilesOK
  <2>1. FilesOK'
    BY <1>3 DEF RestartApplyingSaved, TypeOK, FilesOK, files
  <2>2. HostOK'
    BY <1>3 DEF RestartApplyingSaved, TypeOK, HostOK, host
  <2>3. CountersOK'
    BY <1>3, SpendType DEF RestartApplyingSaved, TypeOK, CountersOK, Kinds
  <2>4. PICK l \in Unlocked, m \in Memory :
           /\ Goto(w, l) /\ (Remember(w, m) \/ (mem' = mem /\ m = mem[w]))
           /\ m.rec \in {mem[w].rec, NoRecord}
    BY <1>3, <2>0 DEF RestartApplyingSaved, Unlocked
  <2>5. /\ stamp <= stamp' /\ journal' = journal /\ (task => task')
        /\ lock' = lock \/ (lock = w /\ lock' = Nobody)
    BY <1>3 DEF RestartApplyingSaved, TypeOK, CountersOK, files, host
  <2>. QED BY <2>1, <2>2, <2>3, <2>4, <2>5, Quiet
<1>4. CASE PlainRestart(w)
  <2>1. FilesOK'
    BY <1>4, StartServerType DEF PlainRestart, TypeOK, FilesOK
  <2>2. HostOK'
    BY <1>4, StartServerType DEF PlainRestart, TypeOK, HostOK
  <2>3. CountersOK'
    BY <1>4, StartServerType DEF PlainRestart, TypeOK, CountersOK
  <2>4. PICK l \in Unlocked, m \in Memory :
           /\ Goto(w, l) /\ (Remember(w, m) \/ (mem' = mem /\ m = mem[w]))
           /\ m.rec \in {mem[w].rec, NoRecord}
    BY <1>4, BlankMemory DEF PlainRestart, Unlocked, Finish
  <2>5. /\ stamp <= stamp' /\ journal' = journal /\ (task => task')
        /\ lock' = lock \/ (lock = w /\ lock' = Nobody)
    BY <1>4, StartServerType DEF PlainRestart, TypeOK, CountersOK
  <2>. QED BY <2>1, <2>2, <2>3, <2>4, <2>5, Quiet
<1>5. CASE CaptureFirewall(w)
  <2>0. /\ [mem[w] EXCEPT !.captured = firewall] \in Memory
        /\ [mem[w] EXCEPT !.captured = firewall].rec = mem[w].rec
    BY MemoryUpdates DEF TypeOK, HostOK
  <2>1. FilesOK'
    BY <1>5 DEF CaptureFirewall, TypeOK, FilesOK, files
  <2>2. HostOK'
    BY <1>5 DEF CaptureFirewall, TypeOK, HostOK, host
  <2>3. CountersOK'
    BY <1>5 DEF CaptureFirewall, TypeOK, CountersOK, count
  <2>4. PICK l \in Unlocked, m \in Memory :
           /\ Goto(w, l) /\ (Remember(w, m) \/ (mem' = mem /\ m = mem[w]))
           /\ m.rec \in {mem[w].rec, NoRecord}
    BY <1>5, <2>0 DEF CaptureFirewall, Unlocked
  <2>5. /\ stamp <= stamp' /\ journal' = journal /\ (task => task')
        /\ lock' = lock \/ (lock = w /\ lock' = Nobody)
    BY <1>5 DEF CaptureFirewall, TypeOK, CountersOK, files, host, count
  <2>. QED BY <2>1, <2>2, <2>3, <2>4, <2>5, Quiet
<1>6. CASE ArmRefused(w)
  <2>1. FilesOK'
    BY <1>6 DEF ArmRefused, TypeOK, FilesOK, files
  <2>2. HostOK'
    BY <1>6 DEF ArmRefused, TypeOK, HostOK, host
  <2>3. CountersOK'
    BY <1>6 DEF ArmRefused, TypeOK, CountersOK, count
  <2>4. PICK l \in Unlocked, m \in Memory :
           /\ Goto(w, l) /\ (Remember(w, m) \/ (mem' = mem /\ m = mem[w]))
           /\ m.rec \in {mem[w].rec, NoRecord}
    BY <1>6, BlankMemory DEF ArmRefused, Unlocked, Finish
  <2>5. /\ stamp <= stamp' /\ journal' = journal /\ (task => task')
        /\ lock' = lock \/ (lock = w /\ lock' = Nobody)
    BY <1>6 DEF ArmRefused, TypeOK, CountersOK, files, host, count
  <2>. QED BY <2>1, <2>2, <2>3, <2>4, <2>5, Quiet
<1>7. CASE ArmFails(w)
  <2>1. FilesOK'
    BY <1>7 DEF ArmFails, TypeOK, FilesOK, files
  <2>2. HostOK'
    BY <1>7 DEF ArmFails, TypeOK, HostOK, host
  <2>3. CountersOK'
    BY <1>7, SpendType DEF ArmFails, TypeOK, CountersOK, Kinds
  <2>4. PICK l \in Unlocked, m \in Memory :
           /\ Goto(w, l) /\ (Remember(w, m) \/ (mem' = mem /\ m = mem[w]))
           /\ m.rec \in {mem[w].rec, NoRecord}
    BY <1>7, BlankMemory DEF ArmFails, Unlocked, Finish
  <2>5. /\ stamp <= stamp' /\ journal' = journal /\ (task => task')
        /\ lock' = lock \/ (lock = w /\ lock' = Nobody)
    BY <1>7 DEF ArmFails, TypeOK, CountersOK, files, host, Release, Steps, Step, Locking, Saving,
       Arming, Restoring
  <2>. QED BY <2>1, <2>2, <2>3, <2>4, <2>5, Quiet
<1>8. CASE RestartAnyway(w)
  <2>1. FilesOK'
    BY <1>8 DEF RestartAnyway, TypeOK, FilesOK, files
  <2>2. HostOK'
    BY <1>8, WidenedType DEF RestartAnyway, TypeOK, HostOK
  <2>3. CountersOK'
    BY <1>8 DEF RestartAnyway, TypeOK, CountersOK, count
  <2>4. PICK l \in Unlocked, m \in Memory :
           /\ Goto(w, l) /\ (Remember(w, m) \/ (mem' = mem /\ m = mem[w]))
           /\ m.rec \in {mem[w].rec, NoRecord}
    BY <1>8, BlankMemory DEF RestartAnyway, Unlocked, Finish
  <2>5. /\ stamp <= stamp' /\ journal' = journal /\ (task => task')
        /\ lock' = lock \/ (lock = w /\ lock' = Nobody)
    BY <1>8 DEF RestartAnyway, TypeOK, CountersOK, files, count
  <2>. QED BY <2>1, <2>2, <2>3, <2>4, <2>5, Quiet
<1>9. CASE Apply(w)
  <2>1. FilesOK'
    BY <1>9 DEF Apply, TypeOK, FilesOK, files
  <2>2. HostOK'
    BY <1>9, WidenedType DEF Apply, TypeOK, HostOK
  <2>3. CountersOK'
    BY <1>9 DEF Apply, TypeOK, CountersOK, count
  <2>4. PICK l \in Unlocked, m \in Memory :
           /\ Goto(w, l) /\ (Remember(w, m) \/ (mem' = mem /\ m = mem[w]))
           /\ m.rec \in {mem[w].rec, NoRecord}
    BY <1>9 DEF Apply, Unlocked
  <2>5. /\ stamp <= stamp' /\ journal' = journal /\ (task => task')
        /\ lock' = lock \/ (lock = w /\ lock' = Nobody)
    BY <1>9 DEF Apply, TypeOK, CountersOK, files, count
  <2>. QED BY <2>1, <2>2, <2>3, <2>4, <2>5, Quiet
<1>10. CASE ApplyFails(w)
  <2>1. FilesOK'
    BY <1>10 DEF ApplyFails, TypeOK, FilesOK, files
  <2>2. HostOK'
    BY <1>10 DEF ApplyFails, TypeOK, HostOK, host
  <2>3. CountersOK'
    BY <1>10, SpendType DEF ApplyFails, TypeOK, CountersOK, Kinds
  <2>4. PICK l \in Unlocked, m \in Memory :
           /\ Goto(w, l) /\ (Remember(w, m) \/ (mem' = mem /\ m = mem[w]))
           /\ m.rec \in {mem[w].rec, NoRecord}
    BY <1>10 DEF ApplyFails, Unlocked
  <2>5. /\ stamp <= stamp' /\ journal' = journal /\ (task => task')
        /\ lock' = lock \/ (lock = w /\ lock' = Nobody)
    BY <1>10 DEF ApplyFails, TypeOK, CountersOK, files, host
  <2>. QED BY <2>1, <2>2, <2>3, <2>4, <2>5, Quiet
<1>11. CASE RestartService(w)
  <2>1. FilesOK'
    BY <1>11, StartServerType DEF RestartService, TypeOK, FilesOK
  <2>2. HostOK'
    BY <1>11, StartServerType DEF RestartService, TypeOK, HostOK
  <2>3. CountersOK'
    BY <1>11, StartServerType DEF RestartService, TypeOK, CountersOK
  <2>4. PICK l \in Unlocked, m \in Memory :
           /\ Goto(w, l) /\ (Remember(w, m) \/ (mem' = mem /\ m = mem[w]))
           /\ m.rec \in {mem[w].rec, NoRecord}
    BY <1>11 DEF RestartService, Unlocked
  <2>5. /\ stamp <= stamp' /\ journal' = journal /\ (task => task')
        /\ lock' = lock \/ (lock = w /\ lock' = Nobody)
    BY <1>11, StartServerType DEF RestartService, TypeOK, CountersOK
  <2>. QED BY <2>1, <2>2, <2>3, <2>4, <2>5, Quiet
<1>12. CASE RestartFails(w)
  <2>1. FilesOK'
    BY <1>12 DEF RestartFails, TypeOK, FilesOK, files
  <2>2. HostOK'
    BY <1>12 DEF RestartFails, TypeOK, HostOK
  <2>3. CountersOK'
    BY <1>12, SpendType DEF RestartFails, TypeOK, CountersOK, Kinds
  <2>4. PICK l \in Unlocked, m \in Memory :
           /\ Goto(w, l) /\ (Remember(w, m) \/ (mem' = mem /\ m = mem[w]))
           /\ m.rec \in {mem[w].rec, NoRecord}
    BY <1>12, BlankMemory DEF RestartFails, Unlocked, Finish
  <2>5. /\ stamp <= stamp' /\ journal' = journal /\ (task => task')
        /\ lock' = lock \/ (lock = w /\ lock' = Nobody)
    BY <1>12 DEF RestartFails, TypeOK, CountersOK, files
  <2>. QED BY <2>1, <2>2, <2>3, <2>4, <2>5, Quiet
<1>13. CASE SetDeadline(w)
  <2>1. FilesOK'
    BY <1>13 DEF SetDeadline, TypeOK, FilesOK, files
  <2>2. HostOK'
    BY <1>13 DEF SetDeadline, TypeOK, HostOK
  <2>3. CountersOK'
    BY <1>13 DEF SetDeadline, TypeOK, CountersOK, count
  <2>4. PICK l \in Unlocked, m \in Memory :
           /\ Goto(w, l) /\ (Remember(w, m) \/ (mem' = mem /\ m = mem[w]))
           /\ m.rec \in {mem[w].rec, NoRecord}
    BY <1>13, BlankMemory DEF SetDeadline, Unlocked, Finish
  <2>5. /\ stamp <= stamp' /\ journal' = journal /\ (task => task')
        /\ lock' = lock \/ (lock = w /\ lock' = Nobody)
    BY <1>13 DEF SetDeadline, TypeOK, CountersOK, files, count
  <2>. QED BY <2>1, <2>2, <2>3, <2>4, <2>5, Quiet
<1>14. CASE SetDeadlineFails(w)
  <2>1. FilesOK'
    BY <1>14 DEF SetDeadlineFails, TypeOK, FilesOK, files
  <2>2. HostOK'
    BY <1>14 DEF SetDeadlineFails, TypeOK, HostOK, host
  <2>3. CountersOK'
    BY <1>14, SpendType DEF SetDeadlineFails, TypeOK, CountersOK, Kinds
  <2>4. PICK l \in Unlocked, m \in Memory :
           /\ Goto(w, l) /\ (Remember(w, m) \/ (mem' = mem /\ m = mem[w]))
           /\ m.rec \in {mem[w].rec, NoRecord}
    BY <1>14, BlankMemory DEF SetDeadlineFails, Unlocked, Finish
  <2>5. /\ stamp <= stamp' /\ journal' = journal /\ (task => task')
        /\ lock' = lock \/ (lock = w /\ lock' = Nobody)
    BY <1>14 DEF SetDeadlineFails, TypeOK, CountersOK, files, host
  <2>. QED BY <2>1, <2>2, <2>3, <2>4, <2>5, Quiet
<1>15. CASE NoQuestion(w)
  <2>1. FilesOK'
    BY <1>15 DEF NoQuestion, TypeOK, FilesOK, files
  <2>2. HostOK'
    BY <1>15 DEF NoQuestion, TypeOK, HostOK, host
  <2>3. CountersOK'
    BY <1>15 DEF NoQuestion, TypeOK, CountersOK, count
  <2>4. PICK l \in Unlocked, m \in Memory :
           /\ Goto(w, l) /\ (Remember(w, m) \/ (mem' = mem /\ m = mem[w]))
           /\ m.rec \in {mem[w].rec, NoRecord}
    BY <1>15 DEF NoQuestion, Unlocked
  <2>5. /\ stamp <= stamp' /\ journal' = journal /\ (task => task')
        /\ lock' = lock \/ (lock = w /\ lock' = Nobody)
    BY <1>15 DEF NoQuestion, TypeOK, CountersOK, files, host, count
  <2>. QED BY <2>1, <2>2, <2>3, <2>4, <2>5, Quiet
<1>16. CASE Answer(w)
  <2>1. FilesOK'
    BY <1>16 DEF Answer, TypeOK, FilesOK, files
  <2>2. HostOK'
    BY <1>16 DEF Answer, TypeOK, HostOK, host
  <2>3. CountersOK'
    BY <1>16 DEF Answer, TypeOK, CountersOK, count
  <2>4. PICK l \in Unlocked, m \in Memory :
           /\ Goto(w, l) /\ (Remember(w, m) \/ (mem' = mem /\ m = mem[w]))
           /\ m.rec \in {mem[w].rec, NoRecord}
    BY <1>16 DEF Answer, Unlocked
  <2>5. /\ stamp <= stamp' /\ journal' = journal /\ (task => task')
        /\ lock' = lock \/ (lock = w /\ lock' = Nobody)
    BY <1>16 DEF Answer, TypeOK, CountersOK, files, host, count
  <2>. QED BY <2>1, <2>2, <2>3, <2>4, <2>5, Quiet
<1>17. CASE ConfirmRefused(w)
  <2>1. FilesOK'
    BY <1>17 DEF ConfirmRefused, TypeOK, FilesOK, files
  <2>2. HostOK'
    BY <1>17 DEF ConfirmRefused, TypeOK, HostOK, host
  <2>3. CountersOK'
    BY <1>17 DEF ConfirmRefused, TypeOK, CountersOK, count
  <2>4. PICK l \in Unlocked, m \in Memory :
           /\ Goto(w, l) /\ (Remember(w, m) \/ (mem' = mem /\ m = mem[w]))
           /\ m.rec \in {mem[w].rec, NoRecord}
    BY <1>17 DEF ConfirmRefused, Unlocked
  <2>5. /\ stamp <= stamp' /\ journal' = journal /\ (task => task')
        /\ lock' = lock \/ (lock = w /\ lock' = Nobody)
    BY <1>17 DEF ConfirmRefused, TypeOK, CountersOK, files, host, count
  <2>. QED BY <2>1, <2>2, <2>3, <2>4, <2>5, Quiet
<1>18. CASE RestoreEnds(w)
  <2>1. FilesOK'
    BY <1>18 DEF RestoreEnds, TypeOK, FilesOK, files
  <2>2. HostOK'
    BY <1>18 DEF RestoreEnds, TypeOK, HostOK, host
  <2>3. CountersOK'
    BY <1>18 DEF RestoreEnds, TypeOK, CountersOK, count
  <2>4. PICK l \in Unlocked, m \in Memory :
           /\ Goto(w, l) /\ (Remember(w, m) \/ (mem' = mem /\ m = mem[w]))
           /\ m.rec \in {mem[w].rec, NoRecord}
    BY <1>18, BlankMemory DEF RestoreEnds, Unlocked, Finish
  <2>5. /\ stamp <= stamp' /\ journal' = journal /\ (task => task')
        /\ lock' = lock \/ (lock = w /\ lock' = Nobody)
    BY <1>18 DEF RestoreEnds, TypeOK, CountersOK, files, host, count
  <2>. QED BY <2>1, <2>2, <2>3, <2>4, <2>5, Quiet
<1>19. CASE ResolvePendingRecovery(w)
  <2>0. /\ [mem[w] EXCEPT !.id = journal.id] \in Memory
        /\ [mem[w] EXCEPT !.id = journal.id].rec = mem[w].rec
    BY RecordFields, MemoryUpdates DEF TypeOK, FilesOK
  <2>1. FilesOK'
    BY <1>19 DEF ResolvePendingRecovery, TypeOK, FilesOK, files
  <2>2. HostOK'
    BY <1>19 DEF ResolvePendingRecovery, TypeOK, HostOK, host
  <2>3. CountersOK'
    BY <1>19 DEF ResolvePendingRecovery, TypeOK, CountersOK, count
  <2>4. PICK l \in Unlocked, m \in Memory :
           /\ Goto(w, l) /\ (Remember(w, m) \/ (mem' = mem /\ m = mem[w]))
           /\ m.rec \in {mem[w].rec, NoRecord}
    BY <1>19, <2>0 DEF ResolvePendingRecovery, Unlocked
  <2>5. /\ stamp <= stamp' /\ journal' = journal /\ (task => task')
        /\ lock' = lock \/ (lock = w /\ lock' = Nobody)
    BY <1>19 DEF ResolvePendingRecovery, TypeOK, CountersOK, files, host, count
  <2>. QED BY <2>1, <2>2, <2>3, <2>4, <2>5, Quiet
<1>. QED BY <1>1, <1>2, <1>3, <1>4, <1>5, <1>6, <1>7, <1>8, <1>9, <1>10, <1>11, <1>12, <1>13,
   <1>14, <1>15, <1>16, <1>17, <1>18, <1>19

(* A record with a new status, phase or firewall rule is a record with the *)
(* same id.                                                                *)
LEMMA RecordUpdates ==
    ASSUME NEW r \in Records
    PROVE  /\ \A x \in Statuses : /\ [r EXCEPT !.status = x] \in Records
                                  /\ [r EXCEPT !.status = x].id = r.id
                                  /\ [r EXCEPT !.status = x].status = x
           /\ \A x \in Phases : /\ [r EXCEPT !.phase = x] \in Records
                                /\ [r EXCEPT !.phase = x].id = r.id
                                /\ [r EXCEPT !.phase = x].status = r.status
           /\ \A x \in SUBSET AllPorts : /\ [r EXCEPT !.firewall = x] \in Records
                                         /\ [r EXCEPT !.firewall = x].id = r.id
                                         /\ [r EXCEPT !.firewall = x].status = r.status
BY DEF Records

(* The numbers a process knows of are below the counter.                   *)
LEMMA Known ==
    ASSUME IndInv, NEW p \in Processes
    PROVE  /\ stamp \in Nat /\ journal.id \in Nat /\ mem[p].rec.id \in Nat /\ mem[p].id \in Nat
           /\ journal.id <= stamp /\ mem[p].rec.id <= stamp
           /\ mem[p] \in Memory /\ journal \in Records
BY DEF IndInv, TypeOK, FilesOK, ProcessesOK, CountersOK, Ids, Records, Memory

(* The steps of a window that take, hold or give up the mutex, but for the *)
(* ones that make a new record.                                            *)
LEMMA SavingSteps ==
    ASSUME IndInv, NEW w \in Windows,
           CheckUnchanged(w) \/ PrepareRecord(w) \/ Schedule(w) \/ Pend(w) \/ SaveFails(w) \/
           Unprepare(w) \/ ArmWrite(w) \/ ConfirmBegin(w) \/ Keep(w) \/ Commit(w) \/ Abandon(w)
    PROVE  IndInv'
<1>. w \in Processes BY DEF Processes
<1>. TypeOK /\ Steps /\ TaskArmed BY DEF IndInv
<1>. /\ stamp \in Nat /\ journal.id \in Nat /\ mem[w].rec.id \in Nat /\ mem[w].id \in Nat
     /\ journal.id <= stamp /\ mem[w].rec.id <= stamp /\ mem[w] \in Memory /\ journal \in Records
  BY Known
<1>1. CASE CheckUnchanged(w)
  <2>1. lock = w /\ journal.status = "prepared" /\ mem[w].rec.status # "pending"
    BY <1>1 DEF CheckUnchanged, Steps, Step, Locking, Saving, Arming, Keeping, Restoring
  <2>2. FilesOK'
    BY <1>1 DEF CheckUnchanged, TypeOK, FilesOK, files
  <2>3. HostOK'
    BY <1>1 DEF CheckUnchanged, TypeOK, HostOK, host
  <2>4. CountersOK'
    BY <1>1 DEF CheckUnchanged, TypeOK, CountersOK, count
  <2>5. /\ ProcessesOK'
        /\ pc'[w] = (IF live = mem[w].backup.content THEN "replace" ELSE "unprepare")
        /\ mem'[w] = mem[w]
        /\ \A q \in Processes \ {w} : pc'[q] = pc[q] /\ mem'[q] = mem[q]
    BY <1>1, <2>1, Goes DEF CheckUnchanged, TypeOK, Unlocked, Locking, Saving, Arming, Keeping,
       Restoring
  <2>6. /\ lock' = w /\ journal' = journal /\ stamp <= stamp' /\ journal'.id <= stamp'
        /\ mem'[w].rec.id <= stamp'
    BY <1>1, <2>1, <2>5 DEF CheckUnchanged, files, host, count
  <2>7. Step(w)'
    BY <2>1, <2>5, <2>6 DEF Step, Locking, Saving, Arming, Keeping, Restoring, Final
  <2>8. TaskArmed'
    BY <2>1, <2>6 DEF TaskArmed, Pending
  <2>. QED BY <2>1, <2>2, <2>3, <2>4, <2>5, <2>6, <2>7, <2>8, Moves DEF TypeOK
<1>2. CASE PrepareRecord(w)
  <2>1. /\ lock = w /\ journal.status # "pending"
        /\ mem[w].rec.status = "prepared"
    BY <1>2 DEF PrepareRecord, Steps, Step, Locking, Saving, Arming, Keeping, Restoring
  <2>2. /\ [mem[w] EXCEPT !.rec = journal, !.id = mem[w].rec.id] \in Memory
        /\ [mem[w] EXCEPT !.rec = journal, !.id = mem[w].rec.id].rec = journal
    BY DEF Memory
  <2>3. FilesOK'
    BY <1>2, MemoryFields DEF PrepareRecord, TypeOK, FilesOK
  <2>4. HostOK'
    BY <1>2 DEF PrepareRecord, TypeOK, HostOK, host
  <2>5. CountersOK'
    BY <1>2 DEF PrepareRecord, TypeOK, CountersOK, count
  <2>6. /\ ProcessesOK' /\ pc'[w] = "check"
        /\ mem'[w] = [mem[w] EXCEPT !.rec = journal, !.id = mem[w].rec.id]
        /\ \A q \in Processes \ {w} : pc'[q] = pc[q] /\ mem'[q] = mem[q]
    BY <1>2, <2>2, <2>1, Goes DEF PrepareRecord, TypeOK, Unlocked, Locking, Saving, Arming,
       Keeping, Restoring
  <2>7. /\ lock' = w /\ journal' = mem[w].rec /\ stamp <= stamp' /\ journal'.id <= stamp'
        /\ mem'[w].rec.id <= stamp'
    BY <1>2, <2>1, <2>2, <2>6 DEF PrepareRecord, host, count
  <2>8. Step(w)'
    BY <2>1, <2>6, <2>7 DEF Step, Locking, Saving, Arming, Keeping, Restoring, Final
  <2>9. TaskArmed'
    BY <2>1, <2>7 DEF TaskArmed, Pending
  <2>. QED BY <2>1, <2>3, <2>4, <2>5, <2>6, <2>7, <2>8, <2>9, Moves DEF TypeOK
<1>3. CASE Schedule(w)
  <2>1. lock = w /\ journal.status = "prepared"
    BY <1>3 DEF Schedule, Steps, Step, Locking, Saving, Arming, Keeping, Restoring
  <2>2. FilesOK'
    BY <1>3 DEF Schedule, TypeOK, FilesOK, files
  <2>3. HostOK'
    BY <1>3 DEF Schedule, TypeOK, HostOK
  <2>4. CountersOK'
    BY <1>3 DEF Schedule, TypeOK, CountersOK, count
  <2>5. /\ ProcessesOK' /\ pc'[w] = "pend" /\ mem'[w] = mem[w]
        /\ \A q \in Processes \ {w} : pc'[q] = pc[q] /\ mem'[q] = mem[q]
    BY <1>3, <2>1, Goes DEF Schedule, TypeOK, Unlocked, Locking, Saving, Arming, Keeping, Restoring
  <2>6. /\ lock' = w /\ journal' = journal /\ task' /\ stamp <= stamp' /\ journal'.id <= stamp'
        /\ mem'[w].rec.id <= stamp'
    BY <1>3, <2>1, <2>5 DEF Schedule, files, count
  <2>7. Step(w)'
    BY <2>1, <2>5, <2>6 DEF Step, Locking, Saving, Arming, Keeping, Restoring, Final
  <2>8. TaskArmed'
    BY <2>1, <2>6 DEF TaskArmed, Pending
  <2>. QED BY <2>1, <2>2, <2>3, <2>4, <2>5, <2>6, <2>7, <2>8, Moves DEF TypeOK
<1>4. CASE Pend(w)
  <2>1. lock = w /\ journal.status = "prepared" /\ task
    BY <1>4 DEF Pend, Steps, Step, Locking, Saving, Arming, Keeping, Restoring
  <2>2. FilesOK'
    BY <1>4, RecordUpdates DEF Pend, TypeOK, FilesOK, Statuses
  <2>3. HostOK'
    BY <1>4 DEF Pend, TypeOK, HostOK, host
  <2>4. CountersOK'
    BY <1>4 DEF Pend, TypeOK, CountersOK, count
  <2>5. /\ ProcessesOK' /\ pc'[w] = "apply" /\ mem'[w] = mem[w]
        /\ \A q \in Processes \ {w} : pc'[q] = pc[q] /\ mem'[q] = mem[q]
    BY <1>4, <2>1, Goes DEF Pend, Release, TypeOK, Unlocked, Locking, Saving, Arming, Keeping,
       Restoring
  <2>6. /\ lock' = Nobody /\ journal'.id = journal.id /\ task' /\ stamp <= stamp'
        /\ journal'.id <= stamp' /\ mem'[w].rec.id <= stamp'
    BY <1>4, <2>1, <2>5, RecordUpdates DEF Pend, Release, host, count, Statuses
  <2>7. Step(w)'
    BY <2>1, <2>5, <2>6 DEF Step, Locking, Saving, Arming, Keeping, Restoring, Final
  <2>8. TaskArmed'
    BY <2>1, <2>6 DEF TaskArmed, Pending
  <2>. QED BY <2>1, <2>2, <2>3, <2>4, <2>5, <2>6, <2>7, <2>8, Moves DEF TypeOK
<1>5. CASE SaveFails(w)
  <2>1. /\ lock = w /\ journal.status # "pending"
        /\ pc[w] \notin {"prepare", "record"} =>
              journal.status = "prepared" /\ mem[w].rec.status # "pending"
    BY <1>5 DEF SaveFails, Steps, Step, Locking, Saving, Arming, Keeping, Restoring
  <2>2. Blank \in Memory /\ Blank.rec = NoRecord /\ NoRecord.id = 0
    BY BlankMemory DEF NoRecord
  <2>3. FilesOK'
    BY <1>5 DEF SaveFails, TypeOK, FilesOK, files
  <2>4. HostOK'
    BY <1>5 DEF SaveFails, TypeOK, HostOK, host
  <2>5. CountersOK'
    BY <1>5, SpendType DEF SaveFails, TypeOK, CountersOK, Kinds
  <2>6. /\ ProcessesOK'
        /\ pc'[w] = (IF pc[w] \in {"prepare", "record"} THEN "idle" ELSE "unprepare")
        /\ mem'[w] = (IF pc[w] \in {"prepare", "record"} THEN Blank ELSE mem[w])
        /\ \A q \in Processes \ {w} : pc'[q] = pc[q] /\ mem'[q] = mem[q]
    BY <1>5, <2>2, <2>1, Goes DEF SaveFails, Finish, Release, TypeOK, Unlocked, Locking, Saving,
       Arming, Keeping, Restoring
  <2>7. /\ journal' = journal /\ task' = task
        /\ pc[w] \in {"check", "replace"} => lock' = w
        /\ pc[w] \in {"prepare", "record", "check", "replace"}
        /\ stamp <= stamp' /\ journal'.id <= stamp' /\ mem'[w].rec.id <= stamp'
    BY <1>5, <2>1, <2>2, <2>6 DEF SaveFails, Release, files, host
  <2>8. Step(w)'
    BY <2>1, <2>6, <2>7 DEF Step, Locking, Saving, Arming, Keeping, Restoring, Final
  <2>9. TaskArmed'
    BY <2>1, <2>7 DEF TaskArmed, Pending
  <2>. QED BY <2>1, <2>3, <2>4, <2>5, <2>6, <2>7, <2>8, <2>9, Moves DEF TypeOK
<1>6. CASE Unprepare(w)
  <2>1. /\ lock = w /\ journal.status = "prepared"
        /\ mem[w].rec.status # "pending"
    BY <1>6 DEF Unprepare, Steps, Step, Locking, Saving, Arming, Keeping, Restoring
  <2>2. Blank \in Memory /\ Blank.rec = NoRecord /\ NoRecord.id = 0
    BY BlankMemory DEF NoRecord
  <2>3. FilesOK'
    BY <1>6, MemoryFields DEF Unprepare, TypeOK, FilesOK
  <2>4. HostOK'
    BY <1>6 DEF Unprepare, TypeOK, HostOK, host
  <2>5. CountersOK'
    BY <1>6 DEF Unprepare, TypeOK, CountersOK, count
  <2>6. /\ ProcessesOK' /\ pc'[w] = "idle" /\ mem'[w] = Blank
        /\ \A q \in Processes \ {w} : pc'[q] = pc[q] /\ mem'[q] = mem[q]
    BY <1>6, <2>2, <2>1, Goes DEF Unprepare, Finish, Release, TypeOK, Unlocked, Locking, Saving,
       Arming, Keeping, Restoring
  <2>7. /\ lock' = Nobody /\ journal'.status # "pending" /\ stamp <= stamp'
        /\ journal'.id <= stamp' /\ mem'[w].rec.id <= stamp'
    BY <1>6, <2>1, <2>2, <2>6 DEF Unprepare, Release, host, count
  <2>8. Step(w)'
    BY <2>1, <2>6, <2>7 DEF Step, Locking, Saving, Arming, Keeping, Restoring, Final
  <2>9. TaskArmed'
    BY <2>1, <2>7 DEF TaskArmed, Pending
  <2>. QED BY <2>1, <2>3, <2>4, <2>5, <2>6, <2>7, <2>8, <2>9, Moves DEF TypeOK
<1>7. CASE ArmWrite(w)
  <2>1. lock = w /\ journal.status # "pending" /\ mem[w].rec.status = "prepared"
    BY <1>7 DEF ArmWrite, Steps, Step, Locking, Saving, Arming, Keeping, Restoring
  <2>2. /\ [mem[w] EXCEPT !.id = mem[w].rec.id] \in Memory
        /\ [mem[w] EXCEPT !.id = mem[w].rec.id].rec = mem[w].rec
    BY MemoryUpdates
  <2>3. FilesOK'
    BY <1>7, MemoryFields, RecordUpdates DEF ArmWrite, TypeOK, FilesOK
  <2>4. HostOK'
    BY <1>7 DEF ArmWrite, TypeOK, HostOK
  <2>5. CountersOK'
    BY <1>7 DEF ArmWrite, TypeOK, CountersOK, count
  <2>6. /\ ProcessesOK' /\ pc'[w] = "sched" /\ mem'[w] = [mem[w] EXCEPT !.id = mem[w].rec.id]
        /\ \A q \in Processes \ {w} : pc'[q] = pc[q] /\ mem'[q] = mem[q]
    BY <1>7, <2>2, <2>1, Goes DEF ArmWrite, TypeOK, Unlocked, Locking, Saving, Arming, Keeping,
       Restoring
  <2>7. /\ lock' = w /\ journal'.status = "prepared" /\ stamp <= stamp' /\ journal'.id <= stamp'
        /\ mem'[w].rec.id <= stamp'
    BY <1>7, <2>1, <2>2, <2>6, MemoryFields, RecordUpdates DEF ArmWrite, count
  <2>8. Step(w)'
    BY <2>1, <2>6, <2>7 DEF Step, Locking, Saving, Arming, Keeping, Restoring, Final
  <2>9. TaskArmed'
    BY <2>1, <2>7 DEF TaskArmed, Pending
  <2>. QED BY <2>1, <2>3, <2>4, <2>5, <2>6, <2>7, <2>8, <2>9, Moves DEF TypeOK
<1>8. CASE ConfirmBegin(w)
  <2>1. lock = Nobody /\ journal.status = "pending" /\ journal.id = mem[w].id
    BY <1>8 DEF ConfirmBegin, Steps, Step, Locking, Saving, Arming, Keeping, Restoring,
       Confirmable, Mine, Pending, Acquire
  <2>2. FilesOK'
    BY <1>8 DEF ConfirmBegin, TypeOK, FilesOK, files
  <2>3. HostOK'
    BY <1>8 DEF ConfirmBegin, TypeOK, HostOK, host
  <2>4. CountersOK'
    BY <1>8 DEF ConfirmBegin, TypeOK, CountersOK, count
  <2>5. /\ ProcessesOK' /\ pc'[w] = "keep" /\ mem'[w] = mem[w]
        /\ \A q \in Processes \ {w} : pc'[q] = pc[q] /\ mem'[q] = mem[q]
    BY <1>8, <2>1, Goes DEF ConfirmBegin, Acquire, TypeOK, Unlocked, Locking, Saving, Arming,
       Keeping, Restoring
  <2>6. /\ lock' = w /\ journal' = journal /\ task' = task /\ stamp <= stamp'
        /\ journal'.id <= stamp' /\ mem'[w].rec.id <= stamp'
    BY <1>8, <2>1, <2>5 DEF ConfirmBegin, Acquire, files, host, count
  <2>7. Step(w)'
    BY <2>1, <2>5, <2>6 DEF Step, Locking, Saving, Arming, Keeping, Restoring, Final
  <2>8. TaskArmed'
    BY <2>1, <2>6 DEF TaskArmed, Pending
  <2>. QED BY <2>1, <2>2, <2>3, <2>4, <2>5, <2>6, <2>7, <2>8, Moves DEF TypeOK
<1>9. CASE Keep(w)
  <2>1. lock = w /\ journal.status = "pending" /\ (w # Task => journal.id = mem[w].id)
    BY <1>9 DEF Keep, Steps, Step, Locking, Saving, Arming, Keeping, Restoring
  <2>2. FilesOK'
    BY <1>9 DEF Keep, TypeOK, FilesOK, files
  <2>3. HostOK'
    BY <1>9, ServerPortsType DEF Keep, TypeOK, HostOK
  <2>4. CountersOK'
    BY <1>9 DEF Keep, TypeOK, CountersOK, count
  <2>5. /\ ProcessesOK' /\ pc'[w] = "commit" /\ mem'[w] = mem[w]
        /\ \A q \in Processes \ {w} : pc'[q] = pc[q] /\ mem'[q] = mem[q]
    BY <1>9, <2>1, Goes DEF Keep, TypeOK, Unlocked, Locking, Saving, Arming, Keeping, Restoring
  <2>6. /\ lock' = w /\ journal' = journal /\ task' = task /\ stamp <= stamp'
        /\ journal'.id <= stamp' /\ mem'[w].rec.id <= stamp'
    BY <1>9, <2>1, <2>5 DEF Keep, files, count
  <2>7. Step(w)'
    BY <2>1, <2>5, <2>6 DEF Step, Locking, Saving, Arming, Keeping, Restoring, Final
  <2>8. TaskArmed'
    BY <2>1, <2>6 DEF TaskArmed, Pending
  <2>. QED BY <2>1, <2>2, <2>3, <2>4, <2>5, <2>6, <2>7, <2>8, Moves DEF TypeOK
<1>10. CASE Commit(w)
  <2>1. lock = w /\ journal.status = "pending"
    BY <1>10 DEF Commit, Steps, Step, Locking, Saving, Arming, Keeping, Restoring
  <2>2. /\ [journal EXCEPT !.status = "confirmed"] \in Records
        /\ [journal EXCEPT !.status = "confirmed"].id = journal.id
        /\ [journal EXCEPT !.status = "confirmed"].status = "confirmed"
    BY RecordUpdates DEF Statuses
  <2>3. FilesOK'
    BY <1>10, <2>2 DEF Commit, TypeOK, FilesOK
  <2>4. HostOK'
    BY <1>10 DEF Commit, TypeOK, HostOK, host
  <2>5. CountersOK'
    BY <1>10 DEF Commit, TypeOK, CountersOK, count
  <2>6. /\ ProcessesOK' /\ pc'[w] = (IF live = journal.applied THEN "disarm" ELSE "restore")
        /\ mem'[w] = mem[w]
        /\ \A q \in Processes \ {w} : pc'[q] = pc[q] /\ mem'[q] = mem[q]
    BY <1>10, <2>2, <2>1, Goes DEF Commit, Release, TypeOK, Unlocked, Locking, Saving, Arming,
       Keeping, Restoring
  <2>7. /\ live = journal.applied => lock' = w /\ journal'.status = "confirmed"
        /\ live # journal.applied => journal' = journal
        /\ stamp' = stamp /\ journal'.id = journal.id /\ task' = task
    BY <1>10, <2>1, <2>2, <2>6 DEF Commit, Release, host, count
  <2>8. stamp <= stamp' /\ journal'.id <= stamp' /\ mem'[w].rec.id <= stamp'
    BY <2>2, <2>6, <2>7
  <2>9. Step(w)'
    BY <2>1, <2>6, <2>7 DEF Step, Locking, Saving, Arming, Keeping, Restoring, Final
  <2>10. TaskArmed'
    BY <2>1, <2>7 DEF TaskArmed, Pending
  <2>. QED BY <2>1, <2>3, <2>4, <2>5, <2>6, <2>7, <2>8, <2>9, <2>10, Moves DEF TypeOK
<1>11. CASE Abandon(w)
  <2>1. lock = Nobody /\ Mine(w) => journal.status = "pending"
    BY <1>11 DEF Abandon, Steps, Step, Locking, Saving, Arming, Keeping, Restoring, Mine, Pending
  <2>2. /\ Blank \in Memory /\ Blank.rec = NoRecord /\ NoRecord.id = 0
        /\ [journal EXCEPT !.status = "abandoned"] \in Records
        /\ [journal EXCEPT !.status = "abandoned"].id = journal.id
        /\ [journal EXCEPT !.status = "abandoned"].status = "abandoned"
    BY BlankMemory, RecordUpdates DEF NoRecord, Statuses
  <2>3. FilesOK'
    BY <1>11, <2>2 DEF Abandon, TypeOK, FilesOK
  <2>4. HostOK'
    BY <1>11 DEF Abandon, TypeOK, HostOK, host
  <2>5. CountersOK'
    BY <1>11 DEF Abandon, TypeOK, CountersOK, count
  <2>6. /\ ProcessesOK' /\ pc'[w] = (IF lock = Nobody /\ Mine(w) THEN "disarm" ELSE "idle")
        /\ mem'[w] = (IF lock = Nobody /\ Mine(w) THEN mem[w] ELSE Blank)
        /\ \A q \in Processes \ {w} : pc'[q] = pc[q] /\ mem'[q] = mem[q]
    BY <1>11, <2>2, <2>1, Goes DEF Abandon, Finish, Acquire, TypeOK, Unlocked, Locking, Saving,
       Arming, Keeping, Restoring
  <2>7. /\ lock = Nobody /\ Mine(w) => lock' = w /\ journal'.status = "abandoned"
        /\ ~(lock = Nobody /\ Mine(w)) => journal' = journal /\ lock' = lock
        /\ stamp' = stamp /\ journal'.id = journal.id /\ task' = task
    BY <1>11, <2>1, <2>2, <2>6 DEF Abandon, Acquire, host, count
  <2>8. stamp <= stamp' /\ journal'.id <= stamp' /\ mem'[w].rec.id <= stamp'
    BY <2>2, <2>6, <2>7
  <2>9. Step(w)'
    BY <2>1, <2>6, <2>7 DEF Step, Locking, Saving, Arming, Keeping, Restoring, Final
  <2>10. TaskArmed'
    BY <2>1, <2>7 DEF TaskArmed, Pending
  <2>. QED BY <2>1, <2>3, <2>4, <2>5, <2>6, <2>7, <2>8, <2>9, <2>10, Moves DEF TypeOK
<1>. QED BY <1>1, <1>2, <1>3, <1>4, <1>5, <1>6, <1>7, <1>8, <1>9, <1>10, <1>11

(* The steps of RecoverPending, by a window or by the task.                *)
LEMMA RestoringSteps ==
    ASSUME IndInv, NEW p \in Processes,
           Disarm(p) \/ RecoverBegin(p) \/ RecoverLive(p) \/ RecoverPhase(p) \/
           RecoverFirewall(p) \/ RecoverPhase2(p) \/ RecoverRestart(p) \/ RecoverDone(p)
    PROVE  IndInv'
<1>. TypeOK /\ Steps /\ TaskArmed BY DEF IndInv
<1>. /\ stamp \in Nat /\ journal.id \in Nat /\ mem[p].rec.id \in Nat /\ mem[p].id \in Nat
     /\ journal.id <= stamp /\ mem[p].rec.id <= stamp /\ mem[p] \in Memory /\ journal \in Records
  BY Known
<1>1. CASE Disarm(p)
  <2>1. lock = p /\ journal.status \in Final
    BY <1>1 DEF Disarm, Steps, Step, Locking, Saving, Arming, Keeping, Restoring
  <2>2. Blank \in Memory /\ Blank.rec = NoRecord /\ NoRecord.id = 0
    BY BlankMemory DEF NoRecord
  <2>3. FilesOK'
    BY <1>1 DEF Disarm, TypeOK, FilesOK, files
  <2>4. HostOK'
    BY <1>1 DEF Disarm, TypeOK, HostOK
  <2>5. CountersOK'
    BY <1>1 DEF Disarm, TypeOK, CountersOK, count
  <2>6. /\ ProcessesOK' /\ pc'[p] = "idle" /\ mem'[p] = Blank
        /\ \A q \in Processes \ {p} : pc'[q] = pc[q] /\ mem'[q] = mem[q]
    BY <1>1, <2>2, <2>1, Goes DEF Disarm, Finish, Release, TypeOK, Unlocked, Locking, Saving,
       Arming, Keeping, Restoring
  <2>7. /\ lock' = Nobody /\ journal' = journal /\ journal'.status # "pending"
        /\ stamp <= stamp' /\ journal'.id <= stamp' /\ mem'[p].rec.id <= stamp'
    BY <1>1, <2>1, <2>2, <2>6 DEF Disarm, Release, files, count, Final
  <2>8. Step(p)'
    BY <2>1, <2>6, <2>7 DEF Step, Locking, Saving, Arming, Keeping, Restoring, Final
  <2>9. TaskArmed'
    BY <2>1, <2>7 DEF TaskArmed, Pending
  <2>. QED BY <2>1, <2>3, <2>4, <2>5, <2>6, <2>7, <2>8, <2>9, Moves DEF TypeOK
<1>2. CASE RecoverBegin(p)
  <2>1. lock = Nobody /\ journal.status = "pending" /\ (p # Task => journal.id = mem[p].id)
    BY <1>2 DEF RecoverBegin, Steps, Step, Locking, Saving, Arming, Keeping, Restoring, MayRecover,
       Mine, Pending, Acquire
  <2>2. FilesOK'
    BY <1>2 DEF RecoverBegin, TypeOK, FilesOK, files
  <2>3. HostOK'
    BY <1>2 DEF RecoverBegin, TypeOK, HostOK, host
  <2>4. CountersOK'
    BY <1>2 DEF RecoverBegin, TypeOK, CountersOK, count
  <2>5. /\ ProcessesOK' /\ pc'[p] = (IF live = journal.before THEN "rphase" ELSE "rlive")
        /\ mem'[p] = mem[p]
        /\ \A q \in Processes \ {p} : pc'[q] = pc[q] /\ mem'[q] = mem[q]
    BY <1>2, <2>1, Goes DEF RecoverBegin, Acquire, TypeOK, Unlocked, Locking, Saving, Arming,
       Keeping, Restoring
  <2>6. /\ lock' = p /\ journal' = journal /\ task' = task /\ stamp <= stamp'
        /\ journal'.id <= stamp' /\ mem'[p].rec.id <= stamp'
    BY <1>2, <2>1, <2>5 DEF RecoverBegin, Acquire, files, host, count
  <2>7. Step(p)'
    BY <2>1, <2>5, <2>6 DEF Step, Locking, Saving, Arming, Keeping, Restoring, Final
  <2>8. TaskArmed'
    BY <2>1, <2>6 DEF TaskArmed, Pending
  <2>. QED BY <2>1, <2>2, <2>3, <2>4, <2>5, <2>6, <2>7, <2>8, Moves DEF TypeOK
<1>3. CASE RecoverLive(p)
  <2>1. lock = p /\ journal.status = "pending" /\ (p # Task => journal.id = mem[p].id)
    BY <1>3 DEF RecoverLive, Steps, Step, Locking, Saving, Arming, Keeping, Restoring
  <2>2. /\ Blank \in Memory /\ Blank.rec = NoRecord /\ NoRecord.id = 0
        /\ journal.before \in Files
    BY BlankMemory, RecordFields DEF NoRecord
  <2>3. FilesOK'
    BY <1>3, <2>2, WrittenCounts DEF RecoverLive, TypeOK, FilesOK
  <2>4. HostOK'
    BY <1>3 DEF RecoverLive, TypeOK, HostOK, host
  <2>5. CountersOK'
    BY <1>3 DEF RecoverLive, TypeOK, CountersOK, count
  <2>6. /\ ProcessesOK'
        /\ pc'[p] = (IF journal.before = Absent \/ previous = journal.before
                      THEN "rphase" ELSE "idle")
        /\ mem'[p] = (IF journal.before = Absent \/ previous = journal.before
                      THEN mem[p] ELSE Blank)
        /\ \A q \in Processes \ {p} : pc'[q] = pc[q] /\ mem'[q] = mem[q]
    BY <1>3, <2>2, <2>1, Goes DEF RecoverLive, Finish, Release, TypeOK, Unlocked, Locking, Saving,
       Arming, Keeping, Restoring
  <2>7. /\ journal.before = Absent \/ previous = journal.before => lock' = p
        /\ journal' = journal /\ task' = task /\ stamp <= stamp' /\ journal'.id <= stamp'
        /\ mem'[p].rec.id <= stamp'
    BY <1>3, <2>1, <2>2, <2>6 DEF RecoverLive, Release, host, count
  <2>8. Step(p)'
    BY <2>1, <2>6, <2>7 DEF Step, Locking, Saving, Arming, Keeping, Restoring, Final
  <2>9. TaskArmed'
    BY <2>1, <2>7 DEF TaskArmed, Pending
  <2>. QED BY <2>1, <2>3, <2>4, <2>5, <2>6, <2>7, <2>8, <2>9, Moves DEF TypeOK
<1>4. CASE RecoverPhase(p)
  <2>1. lock = p /\ journal.status = "pending" /\ (p # Task => journal.id = mem[p].id)
    BY <1>4 DEF RecoverPhase, Steps, Step, Locking, Saving, Arming, Keeping, Restoring
  <2>2. FilesOK'
    BY <1>4, RecordFields, RecordUpdates DEF RecoverPhase, TypeOK, FilesOK, Phases
  <2>3. HostOK'
    BY <1>4 DEF RecoverPhase, TypeOK, HostOK, host
  <2>4. CountersOK'
    BY <1>4 DEF RecoverPhase, TypeOK, CountersOK, count
  <2>5. /\ ProcessesOK'
        /\ pc'[p] = (IF journal.phase = "firewall-restored" THEN "rrestart" ELSE "rfirewall")
        /\ mem'[p] = mem[p]
        /\ \A q \in Processes \ {p} : pc'[q] = pc[q] /\ mem'[q] = mem[q]
    BY <1>4, <2>1, Goes DEF RecoverPhase, TypeOK, Unlocked, Locking, Saving, Arming, Keeping,
       Restoring
  <2>6. /\ lock' = p /\ journal'.status = journal.status /\ journal'.id = journal.id
        /\ task' = task /\ stamp <= stamp' /\ journal'.id <= stamp' /\ mem'[p].rec.id <= stamp'
    BY <1>4, <2>1, <2>5, RecordFields, RecordUpdates DEF RecoverPhase, host, count, Phases
  <2>7. Step(p)'
    BY <2>1, <2>5, <2>6 DEF Step, Locking, Saving, Arming, Keeping, Restoring, Final
  <2>8. TaskArmed'
    BY <2>1, <2>6 DEF TaskArmed, Pending
  <2>. QED BY <2>1, <2>2, <2>3, <2>4, <2>5, <2>6, <2>7, <2>8, Moves DEF TypeOK
<1>5. CASE RecoverFirewall(p)
  <2>1. lock = p /\ journal.status = "pending" /\ (p # Task => journal.id = mem[p].id)
    BY <1>5 DEF RecoverFirewall, Steps, Step, Locking, Saving, Arming, Keeping, Restoring
  <2>2. FilesOK'
    BY <1>5 DEF RecoverFirewall, TypeOK, FilesOK, files
  <2>3. HostOK'
    BY <1>5, RecordFields DEF RecoverFirewall, TypeOK, HostOK
  <2>4. CountersOK'
    BY <1>5 DEF RecoverFirewall, TypeOK, CountersOK, count
  <2>5. /\ ProcessesOK' /\ pc'[p] = "rphase2" /\ mem'[p] = mem[p]
        /\ \A q \in Processes \ {p} : pc'[q] = pc[q] /\ mem'[q] = mem[q]
    BY <1>5, <2>1, Goes DEF RecoverFirewall, TypeOK, Unlocked, Locking, Saving, Arming, Keeping,
       Restoring
  <2>6. /\ lock' = p /\ journal' = journal /\ task' = task /\ stamp <= stamp'
        /\ journal'.id <= stamp' /\ mem'[p].rec.id <= stamp'
    BY <1>5, <2>1, <2>5 DEF RecoverFirewall, files, count
  <2>7. Step(p)'
    BY <2>1, <2>5, <2>6 DEF Step, Locking, Saving, Arming, Keeping, Restoring, Final
  <2>8. TaskArmed'
    BY <2>1, <2>6 DEF TaskArmed, Pending
  <2>. QED BY <2>1, <2>2, <2>3, <2>4, <2>5, <2>6, <2>7, <2>8, Moves DEF TypeOK
<1>6. CASE RecoverPhase2(p)
  <2>1. lock = p /\ journal.status = "pending" /\ (p # Task => journal.id = mem[p].id)
    BY <1>6 DEF RecoverPhase2, Steps, Step, Locking, Saving, Arming, Keeping, Restoring
  <2>2. FilesOK'
    BY <1>6, RecordUpdates DEF RecoverPhase2, TypeOK, FilesOK, Phases
  <2>3. HostOK'
    BY <1>6 DEF RecoverPhase2, TypeOK, HostOK, host
  <2>4. CountersOK'
    BY <1>6 DEF RecoverPhase2, TypeOK, CountersOK, count
  <2>5. /\ ProcessesOK' /\ pc'[p] = "rrestart" /\ mem'[p] = mem[p]
        /\ \A q \in Processes \ {p} : pc'[q] = pc[q] /\ mem'[q] = mem[q]
    BY <1>6, <2>1, Goes DEF RecoverPhase2, TypeOK, Unlocked, Locking, Saving, Arming, Keeping,
       Restoring
  <2>6. /\ lock' = p /\ journal'.status = journal.status /\ journal'.id = journal.id
        /\ task' = task /\ stamp <= stamp' /\ journal'.id <= stamp' /\ mem'[p].rec.id <= stamp'
    BY <1>6, <2>1, <2>5, RecordUpdates DEF RecoverPhase2, host, count, Phases
  <2>7. Step(p)'
    BY <2>1, <2>5, <2>6 DEF Step, Locking, Saving, Arming, Keeping, Restoring, Final
  <2>8. TaskArmed'
    BY <2>1, <2>6 DEF TaskArmed, Pending
  <2>. QED BY <2>1, <2>2, <2>3, <2>4, <2>5, <2>6, <2>7, <2>8, Moves DEF TypeOK
<1>7. CASE RecoverRestart(p)
  <2>1. lock = p /\ journal.status = "pending" /\ (p # Task => journal.id = mem[p].id)
    BY <1>7 DEF RecoverRestart, Steps, Step, Locking, Saving, Arming, Keeping, Restoring
  <2>2. FilesOK'
    BY <1>7, StartServerType DEF RecoverRestart, TypeOK, FilesOK
  <2>3. HostOK'
    BY <1>7, StartServerType DEF RecoverRestart, TypeOK, HostOK
  <2>4. CountersOK'
    BY <1>7, StartServerType DEF RecoverRestart, TypeOK, CountersOK
  <2>5. /\ ProcessesOK' /\ pc'[p] = "rdone" /\ mem'[p] = mem[p]
        /\ \A q \in Processes \ {p} : pc'[q] = pc[q] /\ mem'[q] = mem[q]
    BY <1>7, <2>1, Goes DEF RecoverRestart, TypeOK, Unlocked, Locking, Saving, Arming, Keeping,
       Restoring
  <2>6. /\ lock' = p /\ journal' = journal /\ task' = task /\ stamp <= stamp'
        /\ journal'.id <= stamp' /\ mem'[p].rec.id <= stamp'
    BY <1>7, <2>1, <2>5, StartServerType, Known DEF RecoverRestart, TypeOK, CountersOK, StartServer
  <2>7. Step(p)'
    BY <2>1, <2>5, <2>6 DEF Step, Locking, Saving, Arming, Keeping, Restoring, Final
  <2>8. TaskArmed'
    BY <2>1, <2>6 DEF TaskArmed, Pending
  <2>. QED BY <2>1, <2>2, <2>3, <2>4, <2>5, <2>6, <2>7, <2>8, Moves DEF TypeOK
<1>8. CASE RecoverDone(p)
  <2>1. lock = p /\ journal.status = "pending" /\ (p # Task => journal.id = mem[p].id)
    BY <1>8 DEF RecoverDone, Steps, Step, Locking, Saving, Arming, Keeping, Restoring
  <2>2. FilesOK'
    BY <1>8, RecordUpdates DEF RecoverDone, TypeOK, FilesOK, Statuses
  <2>3. HostOK'
    BY <1>8 DEF RecoverDone, TypeOK, HostOK, host
  <2>4. CountersOK'
    BY <1>8 DEF RecoverDone, TypeOK, CountersOK, count
  <2>5. /\ ProcessesOK' /\ pc'[p] = "disarm" /\ mem'[p] = mem[p]
        /\ \A q \in Processes \ {p} : pc'[q] = pc[q] /\ mem'[q] = mem[q]
    BY <1>8, <2>1, Goes DEF RecoverDone, TypeOK, Unlocked, Locking, Saving, Arming, Keeping,
       Restoring
  <2>6. /\ lock' = p /\ journal'.status = "restored" /\ task' = task /\ stamp <= stamp'
        /\ journal'.id <= stamp' /\ mem'[p].rec.id <= stamp'
    BY <1>8, <2>1, <2>5, RecordUpdates DEF RecoverDone, host, count, Statuses
  <2>7. Step(p)'
    BY <2>1, <2>5, <2>6 DEF Step, Locking, Saving, Arming, Keeping, Restoring, Final
  <2>8. TaskArmed'
    BY <2>1, <2>6 DEF TaskArmed, Pending
  <2>. QED BY <2>1, <2>2, <2>3, <2>4, <2>5, <2>6, <2>7, <2>8, Moves DEF TypeOK
<1>. QED BY <1>1, <1>2, <1>3, <1>4, <1>5, <1>6, <1>7, <1>8

(* The steps that make a new backup or a new record: BeginSave, Prepare    *)
(* and Arm.                                                                *)
LEMMA NewRecordSteps ==
    ASSUME IndInv, NEW w \in Windows, BeginSave(w) \/ Prepare(w) \/ Arm(w)
    PROVE  IndInv'
<1>. w \in Processes BY DEF Processes
<1>. TypeOK /\ Steps /\ TaskArmed BY DEF IndInv
<1>. /\ stamp \in Nat /\ journal.id \in Nat /\ mem[w].rec.id \in Nat /\ mem[w].id \in Nat
     /\ journal.id <= stamp /\ mem[w].rec.id <= stamp /\ mem[w] \in Memory /\ journal \in Records
  BY Known
<1>. /\ mem[w].bytes \in Files /\ mem[w].backup \in Backups /\ mem[w].rec \in Records
     /\ mem[w].backup.content \in Files
  BY MemoryFields DEF Backups
<1>1. CASE BeginSave(w)
  <2>1. lock = Nobody /\ journal.status # "pending"
    BY <1>1 DEF BeginSave, Acquire, Pending
  <2>2. BackupOfLive \in Backups
    BY Values DEF BackupOfLive, Backups, TypeOK, FilesOK, CountersOK
  <2>3. PICK c \in Saved : Remember(w, [mem[w] EXCEPT !.bytes = c, !.backup = BackupOfLive])
    BY <1>1 DEF BeginSave
  <2>. DEFINE m == [mem[w] EXCEPT !.bytes = c, !.backup = BackupOfLive]
  <2>4. m \in Memory /\ m.rec = mem[w].rec
    BY <2>2 DEF Memory, Files
  <2>. HIDE DEF m
  <2>5. /\ ProcessesOK' /\ pc'[w] = "prepare" /\ mem'[w] = m
        /\ \A q \in Processes \ {w} : pc'[q] = pc[q] /\ mem'[q] = mem[q]
    BY <1>1, <2>1, <2>3, <2>4, Goes DEF m, BeginSave, Acquire, TypeOK, Locking, Saving
  <2>6. FilesOK' /\ HostOK'
    BY <1>1 DEF BeginSave, TypeOK, FilesOK, HostOK, files, host
  <2>7. CountersOK'
    <3>1. stamp' = stamp + 1 /\ Spend("save")
      BY <1>1 DEF BeginSave
    <3>2. left' \in [Kinds -> Nat]
      BY <3>1, SpendType DEF TypeOK, Kinds
    <3>. QED BY <3>1, <3>2 DEF CountersOK
  <2>8. lock' = w /\ journal' = journal /\ task' = task /\ stamp' = stamp + 1
    BY <1>1 DEF BeginSave, Acquire, files, host
  <2>9. stamp <= stamp' /\ journal'.id <= stamp' /\ mem'[w].rec.id <= stamp'
    BY <2>4, <2>5, <2>8
  <2>10. Step(w)' /\ TaskArmed'
    BY <2>1, <2>5, <2>8 DEF Step, Locking, Saving, Arming, Keeping, Restoring, TaskArmed, Pending
  <2>. QED BY <2>1, <2>5, <2>6, <2>7, <2>9, <2>10, Moves DEF TypeOK
<1>2. CASE Prepare(w)
  <2>. DEFINE new == NewRecord(mem[w].backup, mem[w].bytes)
              continued == ContinuedRecord(journal)
              n == IF mem[w].backup = NoBackup THEN 0 ELSE ServerIdentity(TRUE)
              rec == IF continued
                     THEN [new EXCEPT !.before = journal.before, !.server = journal.server]
                     ELSE [new EXCEPT !.server = n]
              m == [mem[w] EXCEPT !.cont = continued, !.rec = rec]
  <2>1. lock = w /\ journal.status # "pending"
    BY <1>2 DEF Prepare, Steps, Step, Locking, Saving, Arming, Keeping, Restoring
  <2>2. /\ journal.before \in Files /\ journal.server \in Nat /\ n \in Nat
        /\ continued \in BOOLEAN
    BY RecordFields DEF ServerIdentity, ContinuedRecord, TypeOK, HostOK
  <2>. HIDE DEF n, continued
  <2>3. rec \in Records /\ rec.id = stamp + 1 /\ rec.status = "prepared"
    <3>1. new \in Records /\ new.id = stamp + 1 /\ new.status = "prepared"
      BY NewRecordType
    <3>. HIDE DEF new
    <3>2. CASE continued
      BY <2>2, <3>1, <3>2 DEF Records
    <3>3. CASE ~continued
      BY <2>2, <3>1, <3>3 DEF Records
    <3>. QED BY <3>2, <3>3
  <2>. HIDE DEF rec
  <2>4. m \in Memory /\ m.rec = rec
    BY <2>2, <2>3 DEF Memory
  <2>. HIDE DEF m
  <2>5. Goto(w, "record") /\ Remember(w, m) /\ lock' = lock
    BY <1>2 DEF Prepare, m, rec, new, n, continued
  <2>6. /\ ProcessesOK' /\ pc'[w] = "record" /\ mem'[w] = m
        /\ \A q \in Processes \ {w} : pc'[q] = pc[q] /\ mem'[q] = mem[q]
    BY <2>4, <2>5, Goes DEF TypeOK, Locking, Saving
  <2>7. FilesOK' /\ HostOK'
    BY <1>2 DEF Prepare, TypeOK, FilesOK, HostOK, host
  <2>8. CountersOK'
    BY <1>2 DEF Prepare, TypeOK, CountersOK
  <2>9. lock' = w /\ journal' = journal /\ task' = task /\ stamp' = stamp + 1
    BY <1>2, <2>1 DEF Prepare, host
  <2>10. /\ stamp <= stamp' /\ journal'.id <= stamp' /\ mem'[w].rec.id <= stamp'
         /\ m.rec.id # journal.id
    BY <2>3, <2>4, <2>6, <2>9
  <2>11. Step(w)' /\ TaskArmed'
    BY <2>1, <2>3, <2>4, <2>6, <2>9, <2>10 DEF Step, Locking, Saving, Arming, Keeping, Restoring,
       TaskArmed, Pending
  <2>. QED BY <2>1, <2>6, <2>7, <2>8, <2>10, <2>11, Moves DEF TypeOK
<1>3. CASE Arm(w)
  <2>. DEFINE rec == IF journal.status = "prepared" THEN journal
                     ELSE NewRecord(mem[w].backup, live)
              m == [mem[w] EXCEPT !.rec = rec]
  <2>1. lock = Nobody /\ journal.status # "pending"
    BY <1>3 DEF Arm, Acquire, Pending
  <2>2. /\ rec \in Records /\ rec.status = "prepared"
        /\ (journal.status = "prepared" /\ rec = journal) \/ rec.id = stamp + 1
    BY NewRecordType DEF TypeOK, FilesOK
  <2>. HIDE DEF rec
  <2>3. m \in Memory /\ m.rec = rec
    BY <2>2 DEF Memory
  <2>. HIDE DEF m
  <2>4. Goto(w, "armrec") /\ Remember(w, m) /\ lock' = w
    BY <1>3 DEF Arm, Acquire, m, rec
  <2>5. /\ ProcessesOK' /\ pc'[w] = "armrec" /\ mem'[w] = m
        /\ \A q \in Processes \ {w} : pc'[q] = pc[q] /\ mem'[q] = mem[q]
    BY <2>3, <2>4, Goes DEF TypeOK, Locking, Arming
  <2>6. FilesOK' /\ HostOK'
    BY <1>3 DEF Arm, TypeOK, FilesOK, HostOK, host
  <2>7. CountersOK' /\ (stamp' = stamp + 1 \/ (stamp' = stamp /\ rec = journal))
    <3>1. left' = left /\ (stamp' = stamp + 1 \/ (stamp' = stamp /\ rec = journal))
      BY <1>3 DEF Arm, rec
    <3>. QED BY <3>1 DEF TypeOK, CountersOK
  <2>8. journal' = journal /\ task' = task
    BY <1>3 DEF Arm, host
  <2>9. /\ stamp <= stamp' /\ journal'.id <= stamp' /\ mem'[w].rec.id <= stamp'
        /\ (journal.status = "prepared" \/ m.rec.id # journal.id)
    BY <2>2, <2>3, <2>5, <2>7, <2>8
  <2>10. Step(w)' /\ TaskArmed'
    BY <2>1, <2>2, <2>3, <2>4, <2>5, <2>8, <2>9 DEF Step, Locking, Saving, Arming, Keeping,
       Restoring, TaskArmed, Pending
  <2>. QED BY <2>1, <2>5, <2>6, <2>7, <2>9, <2>10, Moves DEF TypeOK
<1>. QED BY <1>1, <1>2, <1>3

(* Steps that give up the mutex and leave the journal alone: the           *)
(* replacement of the file, a failed restore, a crash.                     *)
LEMMA ReleasingSteps ==
    ASSUME IndInv, NEW p \in Processes, (p \in Windows /\ Replace(p)) \/ RecoverFails(p) \/ Crash(p)
    PROVE  IndInv'
<1>. TypeOK /\ Steps BY DEF IndInv
<1>. mem[p] \in Memory /\ mem[p].bytes \in Files /\ mem[p].backup \in Backups
  BY MemoryFields DEF TypeOK, ProcessesOK
<1>1. CASE Replace(p)
  <2>. DEFINE m == [Blank EXCEPT !.backup = mem[p].backup]
  <2>1. m \in Memory /\ m.rec = NoRecord
    BY BlankMemory DEF Memory
  <2>. HIDE DEF m
  <2>2. Goto(p, "saved") /\ Remember(p, m) /\ lock = p /\ lock' = Nobody
    BY <1>1 DEF m, Replace, Release, Steps, Step, Locking, Saving
  <2>3. FilesOK' /\ HostOK' /\ CountersOK' /\ stamp' = stamp /\ journal' = journal /\ task' = task
    BY <1>1, WrittenCounts DEF Replace, TypeOK, FilesOK, HostOK, CountersOK, host, count
  <2>4. stamp <= stamp'
    BY <2>3 DEF TypeOK, CountersOK
  <2>. QED BY <2>1, <2>2, <2>3, <2>4, Quiet DEF Unlocked
<1>2. CASE RecoverFails(p)
  <2>1. Goto(p, "idle") /\ Remember(p, Blank) /\ lock = p /\ lock' = Nobody
    BY <1>2 DEF RecoverFails, Finish, Release, Steps, Step, Locking
  <2>2. FilesOK' /\ HostOK' /\ stamp' = stamp /\ journal' = journal /\ task' = task
    BY <1>2 DEF RecoverFails, TypeOK, FilesOK, HostOK, files
  <2>3. CountersOK'
    BY <1>2, SpendType DEF RecoverFails, TypeOK, CountersOK, Kinds
  <2>4. stamp <= stamp'
    BY <2>2 DEF TypeOK, CountersOK
  <2>. QED BY <2>1, <2>2, <2>3, <2>4, BlankMemory, Quiet DEF Unlocked
<1>3. CASE Crash(p)
  <2>1. Goto(p, "idle") /\ Remember(p, Blank) /\ (lock' = lock \/ (lock = p /\ lock' = Nobody))
    BY <1>3 DEF Crash, Finish
  <2>2. FilesOK' /\ HostOK' /\ stamp' = stamp /\ journal' = journal /\ task' = task
    BY <1>3 DEF Crash, TypeOK, FilesOK, HostOK, files, host
  <2>3. CountersOK'
    BY <1>3, SpendType DEF Crash, TypeOK, CountersOK, Kinds
  <2>4. stamp <= stamp'
    BY <2>2 DEF TypeOK, CountersOK
  <2>. QED BY <2>1, <2>2, <2>3, <2>4, BlankMemory, Quiet DEF Unlocked
<1>. QED BY <1>1, <1>2, <1>3

(* The rest of the machine touches neither the journal nor a process.      *)
LEMMA OutsideSteps ==
    ASSUME IndInv,
           OutsideEdit \/ ServiceRestart \/ ServiceStops \/ DeadlinePasses \/ SecondPasses \/
           UNCHANGED vars
    PROVE  IndInv'
<1>. TypeOK /\ Steps BY DEF IndInv
<1>1. /\ journal' = journal /\ task' = task /\ lock' = lock /\ pc' = pc /\ mem' = mem
  BY DEF OutsideEdit, ServiceRestart, ServiceStops, DeadlinePasses, SecondPasses, vars, files,
     host, procs
<1>2. FilesOK'
  <2>1. CASE OutsideEdit
    <3>1. PICK c \in Foreign : live' = c /\ since' = Written(c)
      BY <2>1 DEF OutsideEdit
    <3>2. c \in Files
      BY DEF Files
    <3>. QED BY <2>1, <3>1, <3>2, WrittenCounts DEF OutsideEdit, TypeOK, FilesOK
  <2>2. CASE SecondPasses
    BY <2>2 DEF SecondPasses, TypeOK, FilesOK, Since
  <2>3. CASE ServiceRestart \/ ServiceStops \/ DeadlinePasses \/ UNCHANGED vars
    BY <2>3, StartServerType DEF ServiceRestart, ServiceStops, DeadlinePasses, vars, files, TypeOK,
       FilesOK
  <2>. QED BY <2>1, <2>2, <2>3
<1>3. HostOK'
  <2>1. (task \in BOOLEAN /\ firewall \in SUBSET AllPorts /\ ran \in Files)'
    BY StartServerType DEF OutsideEdit, ServiceRestart, ServiceStops, DeadlinePasses,
       SecondPasses, vars, host, TypeOK, HostOK
  <2>2. (late \in BOOLEAN)'
    BY DEF OutsideEdit, ServiceRestart, ServiceStops, DeadlinePasses, SecondPasses, vars, host,
       TypeOK, HostOK
  <2>3. (server \in Nat)'
    BY StartServerType DEF OutsideEdit, ServiceRestart, ServiceStops, DeadlinePasses,
       SecondPasses, vars, host, TypeOK, HostOK
  <2>. QED BY <2>1, <2>2, <2>3 DEF HostOK
<1>4. CountersOK' /\ (stamp' = stamp \/ stamp' = stamp + 1)
  BY SpendType DEF OutsideEdit, ServiceRestart, ServiceStops, DeadlinePasses, SecondPasses, vars,
     count, TypeOK, CountersOK, StartServer, Kinds
<1>5. TypeOK'
  BY <1>1, <1>2, <1>3, <1>4 DEF TypeOK, ProcessesOK
<1>6. Steps' /\ TaskArmed'
  BY <1>1 DEF IndInv, Steps, Step, TaskArmed, Pending
<1>7. ASSUME NEW p \in Processes PROVE (journal.id <= stamp /\ mem[p].rec.id <= stamp)'
  BY <1>1, <1>4, Known
<1>8. (journal.id <= stamp)'
  BY <1>7 DEF Processes
<1>. QED BY <1>5, <1>6, <1>7, <1>8 DEF IndInv, Ids

-----------------------------------------------------------------------------
(* The theorems.                                                           *)

(* The machine as the manager first finds it.                              *)
LEMMA InitInv == Init => IndInv
<1>. SUFFICES ASSUME Init PROVE IndInv
  OBVIOUS
<1>1. Original \in Files
  BY RecoveryAssumption DEF Files
<1>2. FilesOK
  BY <1>1, Values DEF Init, FilesOK, Files, Since
<1>3. Ports({Original}) \in SUBSET AllPorts
  BY <1>1, Values
<1>4. HostOK
  BY <1>1, <1>3 DEF Init, HostOK
<1>5. ProcessesOK
  BY Values DEF Init, ProcessesOK, Unlocked
<1>6. CountersOK
  BY RecoveryAssumption DEF Init, CountersOK
<1>7. Ids
  BY BlankMemory DEF Init, Ids, NoRecord
<1>8. TaskArmed
  BY DEF Init, TaskArmed, Pending, NoRecord
<1>9. ASSUME NEW p \in Processes PROVE Step(p)
  <2>1. pc[p] = "idle"
    BY DEF Init
  <2>. QED BY <2>1, UnlockedStep, Apart DEF Unlocked
<1>. QED BY <1>2, <1>4, <1>5, <1>6, <1>7, <1>8, <1>9 DEF IndInv, TypeOK, Steps

(* Every step of every window, of the task and of the rest of the machine  *)
(* keeps the inductive invariant.                                          *)
THEOREM Inductive == IndInv /\ [Next]_vars => IndInv'
<1>. SUFFICES ASSUME IndInv, [Next]_vars PROVE IndInv'
  OBVIOUS
<1>1. ASSUME NEW w \in Windows, Window(w) PROVE IndInv'
  BY <1>1, QuietSteps, SavingSteps, NewRecordSteps DEF Window
<1>2. ASSUME NEW p \in Processes, LockedStep(p) PROVE IndInv'
  <2>1. CASE RestoreStep(p)
    BY <2>1, RestoringSteps DEF RestoreStep
  <2>2. CASE p \in Windows /\ (SaveStep(p) \/ ArmStep(p) \/ KeepStep(p))
    BY <2>2, SavingSteps, NewRecordSteps, ReleasingSteps DEF SaveStep, ArmStep, KeepStep
  <2>. QED BY <1>2, <2>1, <2>2 DEF LockedStep
<1>3. ASSUME NEW p \in Processes, RecoverBegin(p) \/ RecoverFails(p) \/ Crash(p) PROVE IndInv'
  BY <1>3, RestoringSteps, ReleasingSteps
<1>4. CASE \/ OutsideEdit \/ ServiceRestart \/ ServiceStops \/ DeadlinePasses
           \/ SecondPasses \/ UNCHANGED vars
  BY <1>4, OutsideSteps
<1>. QED BY <1>1, <1>2, <1>3, <1>4 DEF Next

(* The inductive invariant holds in every behaviour.                       *)
THEOREM Invariance == Spec => []IndInv
BY InitInv, Inductive, PTL DEF Spec

(* TypeOK: the files, the journal and the memories of all processes keep   *)
(* their types.                                                            *)
THEOREM TypeCorrect == Spec => []TypeOK
<1>1. IndInv => TypeOK
  BY DEF IndInv
<1>. QED BY <1>1, Invariance, PTL

(* TaskArmed (ArmRecord): a pending record always has a registered task,   *)
(* however many windows work, and whatever fails or dies.                  *)
THEOREM PendingHasTask == Spec => []TaskArmed
<1>1. IndInv => TaskArmed
  BY DEF IndInv
<1>. QED BY <1>1, Invariance, PTL

(* OneOutcome (ConfirmAsync, RecoverPending): keep and restore exclude     *)
(* each other.                                                             *)
THEOREM KeepOrRestore == Spec => []OneOutcome
<1>1. IndInv => OneOutcome
  <2>. SUFFICES ASSUME IndInv, NEW p \in Processes, pc[p] \in Keeping \cup Restoring
                PROVE  /\ Pending /\ lock = p
                       /\ p # Task => journal.id = mem[p].id
                       /\ \A q \in Processes \ {p} : pc[q] \notin Locking
    BY DEF OneOutcome
  <2>1. Step(p) /\ \A q \in Processes : pc[q] \in Locking => lock = q
    BY DEF IndInv, Steps, Step
  <2>2. lock = p
    BY <2>1 DEF Locking
  <2>3. Pending /\ (p # Task => journal.id = mem[p].id)
    BY <2>1 DEF Step, Pending
  <2>. QED BY <2>1, <2>2, <2>3
<1>. QED BY <1>1, Invariance, PTL

(* A step that changes a resolved record replaces it by one with another   *)
(* id.                                                                     *)
LEMMA FinalStays ==
    ASSUME IndInv, [Next]_vars, journal.status \in Final
    PROVE  journal' = journal \/ journal'.id # journal.id
<1>1. ASSUME NEW w \in Windows, PrepareRecord(w) PROVE journal'.id # journal.id
  <2>. w \in Processes
    BY DEF Processes
  <2>. QED BY <1>1 DEF IndInv, Steps, Step, PrepareRecord
<1>2. ASSUME NEW w \in Windows, ArmWrite(w) PROVE journal'.id # journal.id
  <2>1. w \in Processes
    BY DEF Processes
  <2>2. mem[w].rec \in Records /\ mem[w].captured \in SUBSET AllPorts
    BY <2>1, MemoryFields DEF IndInv, TypeOK, ProcessesOK
  <2>3. mem[w].rec.id # journal.id
    BY <1>2, <2>1 DEF IndInv, Steps, Step, ArmWrite, Final
  <2>. QED BY <1>2, <2>2, <2>3, RecordUpdates DEF ArmWrite
<1>3. ASSUME NEW w \in Windows, Unprepare(w) \/ Pend(w) \/ Commit(w) PROVE FALSE
  <2>. w \in Processes
    BY DEF Processes
  <2>. QED BY <1>3 DEF IndInv, Steps, Step, Unprepare, Pend, Commit, Keeping, Final
<1>4. ASSUME NEW w \in Windows, Abandon(w) PROVE journal' = journal
  BY <1>4 DEF Abandon, Mine, Pending, Final
<1>5. ASSUME NEW p \in Processes, RecoverPhase(p) \/ RecoverPhase2(p) \/ RecoverDone(p) PROVE FALSE
  BY <1>5 DEF IndInv, Steps, Step, RecoverPhase, RecoverPhase2, RecoverDone, Restoring, Final
<1>6. ASSUME NEW w \in Windows, Window(w) PROVE journal' = journal
  BY <1>4, <1>6 DEF Window, files,
     BeginSave, SaveFails, OpenFirewallForPort, SaveOnly, RestartApplyingSaved,
     PlainRestart, CaptureFirewall, Arm, ArmRefused, ArmFails, RestartAnyway, Apply,
     ApplyFails, RestartService, RestartFails, SetDeadline, SetDeadlineFails,
     NoQuestion, Answer, ConfirmBegin, ConfirmRefused, RestoreEnds,
     ResolvePendingRecovery
<1>7. ASSUME NEW p \in Processes, LockedStep(p) PROVE journal' = journal \/ journal'.id # journal.id
  BY <1>1, <1>2, <1>3, <1>5, <1>7 DEF LockedStep, RestoreStep, SaveStep, ArmStep, KeepStep, files,
     Prepare, CheckUnchanged, Replace, Schedule, Keep, RecoverLive, RecoverFirewall,
     RecoverRestart, Disarm
<1>8. ASSUME NEW p \in Processes, RecoverBegin(p) \/ RecoverFails(p) \/ Crash(p)
      PROVE  journal' = journal
  BY <1>8 DEF RecoverBegin, RecoverFails, Crash, files
<1>9. CASE \/ OutsideEdit \/ ServiceRestart \/ ServiceStops \/ DeadlinePasses
           \/ SecondPasses \/ UNCHANGED vars
  BY <1>9 DEF OutsideEdit, ServiceRestart, ServiceStops, DeadlinePasses, SecondPasses, vars, files
<1>. QED BY <1>6, <1>7, <1>8, <1>9 DEF Next

(* OutcomeIsFinal: a kept, restored or abandoned change stays so; only the *)
(* record of a new change takes its place.                                 *)
THEOREM DecisionsAreFinal == Spec => OutcomeIsFinal
<1>1. IndInv /\ [Next]_vars =>
         [journal.status \in {"confirmed", "restored", "abandoned"} =>
             journal' = journal \/ journal'.id # journal.id]_vars
  BY FinalStays DEF Final
<1>. QED BY <1>1, Invariance, PTL DEF Spec, OutcomeIsFinal

-----------------------------------------------------------------------------
(* What the journal says of the file and of sshd, on a machine where       *)
(* nobody but the manager writes sshd_config.                              *)

(* A record of the running sshd s names one of the files f it counts.  The *)
(* servers that records name have identities up to k, so that none of them *)
(* is the next one to start; a prepared record is not restored in part.    *)
RecordTrue(r, s, f, k) ==
    /\ r.server <= k
    /\ r.server # 0 /\ r.server = s => r.before \in f
    /\ r.status = "prepared" => r.phase = "applied"

(* The steps of a restore at which the previous file is back.              *)
Back == {"rphase", "rfirewall", "rphase2", "rrestart", "rdone"}

(* What a process at l with the backup b has seen to, of the file f, the   *)
(* journal j and the file g that sshd loaded.                              *)
Seen(l, b, f, j, g) ==
    /\ l = "prepare" => f = b.content
    /\ l \in Back => f = j.before
    /\ l = "rdone" => g = j.before

(* A file that has not changed since sshd started counts as loaded by it.  *)
Loaded == ~since.changed => live \in since.counted

(* The invariant of such a machine: the file counts as loaded unless its   *)
(* time says otherwise, and every record, in the journal or in the memory  *)
(* of a process, tells the truth.                                          *)
Alone ==
    /\ left["edit"] = 0 /\ server <= stamp
    /\ Loaded
    /\ RecordTrue(journal, server, since.counted, stamp)
    /\ \A p \in Processes : RecordTrue(mem[p].rec, server, since.counted, stamp)
    /\ PhaseIsTrue
    /\ \A p \in Processes : Seen(pc[p], mem[p].backup, live, journal, ran)

(* sshd goes on or stops, or it starts and loads the file.                 *)
HostMove ==
    \/ /\ ran' = ran /\ server' \in {server, 0} /\ stamp' \in {stamp, stamp + 1}
       /\ since.counted \subseteq since'.counted
    \/ ran' = live /\ live' = live /\ server' = stamp + 1 /\ stamp' = stamp + 1

(* A record that tells the truth goes on doing so: of an sshd that stops   *)
(* or of another one that starts it says nothing.                          *)
LEMMA StaysTrue ==
    ASSUME TypeOK, HostMove, NEW r \in Records, RecordTrue(r, server, since.counted, stamp)
    PROVE  RecordTrue(r, server', since'.counted, stamp')
<1>1. r.server \in Nat /\ server \in Nat /\ stamp \in Nat
  BY RecordFields DEF TypeOK, HostOK, CountersOK
<1>. QED BY <1>1 DEF HostMove, RecordTrue

(* The empty record names no sshd.                                         *)
LEMMA NoRecordTrue == ASSUME NEW s, NEW f, NEW k \in Nat PROVE RecordTrue(NoRecord, s, f, k)
BY DEF RecordTrue, NoRecord

(* What a process has seen to stands while it holds the mutex: the file    *)
(* and the journal are not written, and an sshd that starts loads the file.*)
LEMMA OthersSee ==
    ASSUME Steps, HostMove, NEW p \in Processes, NEW q \in Processes \ {p},
           Seen(pc[q], mem[q].backup, live, journal, ran),
           pc'[q] = pc[q], mem'[q] = mem[q],
           lock \in {p, Nobody} \/ (live' = live /\ journal' = journal)
    PROVE  Seen(pc'[q], mem'[q].backup, live', journal', ran')
<1>1. CASE pc[q] \in {"prepare"} \cup Back
  <2>1. lock = q
    BY <1>1 DEF Steps, Step, Back, Locking, Saving, Restoring
  <2>2. live' = live /\ journal' = journal
    BY <2>1, RecoveryAssumption
  <2>. QED BY <2>2 DEF Seen, HostMove, Back
<1>2. CASE pc[q] \notin {"prepare"} \cup Back
  BY <1>2 DEF Seen, Back
<1>. QED BY <1>1, <1>2

(* The shape of every step of a process.                                   *)
LEMMA AloneMoves ==
    ASSUME IndInv, Alone, HostMove, NEW p \in Processes,
           \A q \in Processes \ {p} : pc'[q] = pc[q] /\ mem'[q] = mem[q],
           lock \in {p, Nobody} \/ (live' = live /\ journal' = journal),
           left'["edit"] = 0, Loaded', PhaseIsTrue',
           RecordTrue(journal', server', since'.counted, stamp'),
           RecordTrue(mem'[p].rec, server', since'.counted, stamp'),
           Seen(pc'[p], mem'[p].backup, live', journal', ran')
    PROVE  Alone'
<1>. TypeOK /\ Steps BY DEF IndInv
<1>1. server' <= stamp'
  <2>1. server \in Nat /\ stamp \in Nat /\ server <= stamp
    BY DEF TypeOK, HostOK, CountersOK, Alone
  <2>. QED BY <2>1 DEF HostMove
<1>2. ASSUME NEW q \in Processes PROVE RecordTrue(mem'[q].rec, server', since'.counted, stamp')
  <2>1. CASE q = p
    BY <2>1
  <2>2. CASE q # p
    <3>1. mem'[q].rec = mem[q].rec /\ mem[q].rec \in Records
      BY <2>2, MemoryFields DEF TypeOK, ProcessesOK
    <3>2. RecordTrue(mem[q].rec, server, since.counted, stamp)
      BY DEF Alone
    <3>. QED BY <3>1, <3>2, StaysTrue
  <2>. QED BY <2>1, <2>2
<1>3. ASSUME NEW q \in Processes PROVE Seen(pc'[q], mem'[q].backup, live', journal', ran')
  <2>1. CASE q = p
    BY <2>1
  <2>2. CASE q # p
    <3>1. Seen(pc[q], mem[q].backup, live, journal, ran)
      BY DEF Alone
    <3>. QED BY <2>2, <3>1, OthersSee
  <2>. QED BY <2>1, <2>2
<1>. QED BY <1>1, <1>2, <1>3 DEF Alone

(* A step after which p is at none of the places of Seen, which writes     *)
(* neither the file nor the journal.                                       *)
LEMMA Calm ==
    ASSUME IndInv, Alone, HostMove, NEW p \in Processes,
           NEW l \in (Locking \cup Unlocked) \ ({"prepare"} \cup Back), NEW m \in Memory,
           Goto(p, l), Remember(p, m) \/ (mem' = mem /\ m = mem[p]),
           m.rec \in {mem[p].rec, NoRecord, journal},
           live' = live, journal' = journal, left'["edit"] = 0,
           since' = since \/ live \in since'.counted,
           lock' \in {lock, p, Nobody}
    PROVE  Alone'
<1>. TypeOK BY DEF IndInv
<1>. journal \in Records /\ mem[p].rec \in Records /\ stamp' \in Nat
  BY MemoryFields DEF TypeOK, FilesOK, ProcessesOK, CountersOK, HostMove
<1>1. /\ pc'[p] = l /\ mem'[p] = m
      /\ \A q \in Processes \ {p} : pc'[q] = pc[q] /\ mem'[q] = mem[q]
  BY Goes DEF TypeOK
<1>2. /\ RecordTrue(journal, server, since.counted, stamp)
      /\ RecordTrue(mem[p].rec, server, since.counted, stamp)
      /\ PhaseIsTrue /\ Loaded
  BY DEF Alone
<1>3. RecordTrue(journal', server', since'.counted, stamp')
  BY <1>2, StaysTrue
<1>4. RecordTrue(mem'[p].rec, server', since'.counted, stamp')
  <2>1. RecordTrue(NoRecord, server', since'.counted, stamp')
    BY NoRecordTrue
  <2>2. RecordTrue(mem[p].rec, server', since'.counted, stamp')
    BY <1>2, StaysTrue
  <2>. QED BY <1>1, <1>3, <2>1, <2>2
<1>5. Seen(pc'[p], mem'[p].backup, live', journal', ran')
  BY <1>1 DEF Seen, Back
<1>6. PhaseIsTrue' /\ Loaded'
  BY <1>2 DEF Loaded, PhaseIsTrue, Pending
<1>. QED BY <1>1, <1>3, <1>4, <1>5, <1>6, AloneMoves

(* A machine without edits spends something else.                          *)
LEMMA SpendsNoEdit ==
    ASSUME CountersOK, left["edit"] = 0, NEW k \in Kinds, Spend(k)
    PROVE  left'["edit"] = 0 /\ k # "edit"
<1>1. k # "edit"
  BY DEF Spend
<1>. QED BY <1>1 DEF Spend, CountersOK, Kinds

(* What the memory of a window may become in a step of Calm.               *)
LEMMA CalmMemory ==
    ASSUME TypeOK, NEW w \in Processes
    PROVE  /\ mem[w] \in Memory /\ Blank \in Memory /\ Blank.rec = NoRecord
           /\ [mem[w] EXCEPT !.plan = WiderRule] \in Memory
           /\ [mem[w] EXCEPT !.plan = WiderRule].rec = mem[w].rec
           /\ [mem[w] EXCEPT !.captured = firewall] \in Memory
           /\ [mem[w] EXCEPT !.captured = firewall].rec = mem[w].rec
           /\ [mem[w] EXCEPT !.id = journal.id] \in Memory
           /\ [mem[w] EXCEPT !.id = journal.id].rec = mem[w].rec
           /\ [mem[w] EXCEPT !.backup = journal.backup, !.resume = TRUE] \in Memory
           /\ [mem[w] EXCEPT !.backup = journal.backup, !.resume = TRUE].rec = mem[w].rec
<1>1. /\ mem[w] \in Memory /\ firewall \in SUBSET AllPorts
      /\ journal.id \in Nat /\ journal.backup \in Backups
  BY RecordFields DEF TypeOK, FilesOK, HostOK, ProcessesOK
<1>. QED BY <1>1, WidenedType, MemoryUpdates, BlankMemory

(* The places of Seen are few: the others that a step of Calm goes to.     *)
LEMMA CalmPlaces ==
    \A l \in Unlocked \cup {"replace", "unprepare", "check", "pend", "keep", "commit", "disarm"} :
       l \in (Locking \cup Unlocked) \ ({"prepare"} \cup Back)
BY DEF Unlocked, Locking, Saving, Arming, Keeping, Restoring, Back

(* The steps of a window that write neither the file nor the journal.      *)
LEMMA CalmWindow ==
    ASSUME IndInv, Alone, NEW w \in Windows,
           SaveFails(w) \/ OpenFirewallForPort(w) \/ SaveOnly(w) \/ RestartApplyingSaved(w) \/
           PlainRestart(w) \/ CaptureFirewall(w) \/ ArmRefused(w) \/ ArmFails(w) \/
           RestartAnyway(w) \/ Apply(w) \/ ApplyFails(w) \/ RestartService(w) \/
           RestartFails(w) \/ SetDeadline(w) \/ SetDeadlineFails(w) \/ NoQuestion(w) \/
           Answer(w) \/ ConfirmBegin(w) \/ ConfirmRefused(w) \/ RestoreEnds(w) \/
           ResolvePendingRecovery(w) \/ CheckUnchanged(w) \/ Schedule(w) \/ Keep(w)
    PROVE  Alone'
<1>. w \in Processes BY DEF Processes
<1>. TypeOK BY DEF IndInv
<1>1. live' = live /\ journal' = journal /\ lock' \in {lock, w, Nobody}
  BY DEF files, Acquire, Release,
     SaveFails, OpenFirewallForPort, SaveOnly, RestartApplyingSaved, PlainRestart,
     CaptureFirewall, ArmRefused, ArmFails, RestartAnyway, Apply, ApplyFails, RestartService,
     RestartFails, SetDeadline, SetDeadlineFails, NoQuestion, Answer, ConfirmBegin,
     ConfirmRefused, RestoreEnds, ResolvePendingRecovery, CheckUnchanged, Schedule, Keep
<1>2. \/ /\ since' = since /\ ran' = ran /\ server' \in {server, 0} /\ stamp' = stamp
      \/ StartServer
  BY DEF files, host, count,
     SaveFails, OpenFirewallForPort, SaveOnly, RestartApplyingSaved, PlainRestart,
     CaptureFirewall, ArmRefused, ArmFails, RestartAnyway, Apply, ApplyFails, RestartService,
     RestartFails, SetDeadline, SetDeadlineFails, NoQuestion, Answer, ConfirmBegin,
     ConfirmRefused, RestoreEnds, ResolvePendingRecovery, CheckUnchanged, Schedule, Keep
<1>3. HostMove /\ (since' = since \/ live \in since'.counted)
  BY <1>1, <1>2 DEF HostMove, StartServer
<1>4. left'["edit"] = 0
  <2>1. left' = left \/ \E k \in Kinds : Spend(k)
    BY DEF count, Kinds,
       SaveFails, OpenFirewallForPort, SaveOnly, RestartApplyingSaved, PlainRestart,
       CaptureFirewall, ArmRefused, ArmFails, RestartAnyway, Apply, ApplyFails, RestartService,
       RestartFails, SetDeadline, SetDeadlineFails, NoQuestion, Answer, ConfirmBegin,
       ConfirmRefused, RestoreEnds, ResolvePendingRecovery, CheckUnchanged, Schedule, Keep
  <2>2. CountersOK /\ left["edit"] = 0
    BY DEF TypeOK, Alone
  <2>. QED BY <2>1, <2>2, SpendsNoEdit
<1>. DEFINE Places == Unlocked \cup
                      {"replace", "unprepare", "check", "pend", "keep", "commit", "disarm"}
<1>5. PICK l \in Places :
         Goto(w, l)
  BY DEF Finish, Unlocked,
     SaveFails, OpenFirewallForPort, SaveOnly, RestartApplyingSaved, PlainRestart,
     CaptureFirewall, ArmRefused, ArmFails, RestartAnyway, Apply, ApplyFails, RestartService,
     RestartFails, SetDeadline, SetDeadlineFails, NoQuestion, Answer, ConfirmBegin,
     ConfirmRefused, RestoreEnds, ResolvePendingRecovery, CheckUnchanged, Schedule, Keep
<1>6. \/ mem' = mem \/ Remember(w, Blank)
      \/ Remember(w, [mem[w] EXCEPT !.plan = WiderRule])
      \/ Remember(w, [mem[w] EXCEPT !.captured = firewall])
      \/ Remember(w, [mem[w] EXCEPT !.id = journal.id])
      \/ Remember(w, [mem[w] EXCEPT !.backup = journal.backup, !.resume = TRUE])
  BY DEF Finish,
     SaveFails, OpenFirewallForPort, SaveOnly, RestartApplyingSaved, PlainRestart,
     CaptureFirewall, ArmRefused, ArmFails, RestartAnyway, Apply, ApplyFails, RestartService,
     RestartFails, SetDeadline, SetDeadlineFails, NoQuestion, Answer, ConfirmBegin,
     ConfirmRefused, RestoreEnds, ResolvePendingRecovery, CheckUnchanged, Schedule, Keep
<1>7. PICK m \in Memory :
         /\ Remember(w, m) \/ (mem' = mem /\ m = mem[w])
         /\ m.rec \in {mem[w].rec, NoRecord, journal}
  BY <1>6, CalmMemory
<1>. QED BY <1>1, <1>3, <1>4, <1>5, <1>7, CalmPlaces, Calm

(* The same of the steps that every process may take, and of the end of a  *)
(* restore that fails.                                                     *)
LEMMA CalmProcess ==
    ASSUME IndInv, Alone, NEW p \in Processes, Disarm(p) \/ RecoverFails(p) \/ Crash(p)
    PROVE  Alone'
<1>. TypeOK BY DEF IndInv
<1>1. /\ live' = live /\ journal' = journal /\ lock' \in {lock, p, Nobody}
      /\ since' = since /\ ran' = ran /\ server' \in {server, 0} /\ stamp' = stamp
      /\ Goto(p, "idle") /\ Remember(p, Blank)
  BY DEF files, host, count, Release, Finish, Disarm, RecoverFails, Crash
<1>2. HostMove
  BY <1>1 DEF HostMove
<1>3. left'["edit"] = 0
  BY SpendsNoEdit DEF TypeOK, Alone, count, Kinds, Disarm, RecoverFails, Crash
<1>4. "idle" \in Unlocked
  BY DEF Unlocked
<1>. QED BY <1>1, <1>2, <1>3, <1>4, CalmPlaces, BlankMemory, Calm
(* Changes of a record that keep it true.                                  *)
LEMMA TrueUpdates ==
    ASSUME NEW r \in Records, NEW s, NEW f, NEW k, RecordTrue(r, s, f, k)
    PROVE  /\ \A x \in Statuses \ {"prepared"} : RecordTrue([r EXCEPT !.status = x], s, f, k)
           /\ \A x \in Phases :
                 r.status # "prepared" => RecordTrue([r EXCEPT !.phase = x], s, f, k)
           /\ \A x \in SUBSET AllPorts : RecordTrue([r EXCEPT !.firewall = x], s, f, k)
           /\ \A x : [r EXCEPT !.status = x].before = r.before
           /\ \A x : [r EXCEPT !.status = x].phase = r.phase
           /\ \A x : [r EXCEPT !.phase = x].before = r.before
           /\ \A x : [r EXCEPT !.phase = x].status = r.status
           /\ \A x : [r EXCEPT !.phase = x].phase = x
BY DEF RecordTrue, Records

(* RecordValues names no sshd; Prepare sets it.                            *)
LEMMA NewRecordFields ==
    ASSUME TypeOK, NEW b \in Backups, NEW c \in Files
    PROVE  /\ NewRecord(b, c).server = 0 /\ NewRecord(b, c).phase = "applied"
           /\ NewRecord(b, c).before = b.content
BY DEF NewRecord, NoRecord

(* A save begins, a save makes its record, a window arms.                  *)
LEMMA MakingSteps ==
    ASSUME IndInv, Alone, NEW w \in Windows, BeginSave(w) \/ Prepare(w) \/ Arm(w)
    PROVE  Alone'
<1>. w \in Processes BY DEF Processes
<1>. TypeOK /\ Steps BY DEF IndInv
<1>. /\ journal \in Records /\ mem[w] \in Memory /\ mem[w].rec \in Records /\ stamp \in Nat
     /\ live \in Files /\ mem[w].backup \in Backups /\ mem[w].bytes \in Files
  BY MemoryFields DEF TypeOK, FilesOK, ProcessesOK, CountersOK
<1>. /\ RecordTrue(journal, server, since.counted, stamp)
     /\ RecordTrue(mem[w].rec, server, since.counted, stamp)
     /\ PhaseIsTrue /\ Loaded /\ left["edit"] = 0 /\ server <= stamp
     /\ Seen(pc[w], mem[w].backup, live, journal, ran)
  BY DEF Alone
<1>1. /\ live' = live /\ journal' = journal /\ since' = since /\ ran' = ran
      /\ server' = server /\ stamp' \in {stamp, stamp + 1}
  BY DEF BeginSave, Prepare, Arm, files, host
<1>2. HostMove
  BY <1>1 DEF HostMove
<1>3. left'["edit"] = 0
  BY SpendsNoEdit DEF TypeOK, Kinds, BeginSave, Prepare, Arm
<1>4. PhaseIsTrue' /\ Loaded'
  BY <1>1 DEF Loaded, PhaseIsTrue, Pending
<1>5. RecordTrue(journal', server', since'.counted, stamp')
  BY <1>1, <1>2, StaysTrue
<1>6. lock \in {w, Nobody} \/ (live' = live /\ journal' = journal)
  BY <1>1
<1>7. CASE BeginSave(w)
  <2>1. PICK c \in Saved : Remember(w, [mem[w] EXCEPT !.bytes = c, !.backup = BackupOfLive])
    BY <1>7 DEF BeginSave
  <2>. DEFINE b == BackupOfLive
              m == [mem[w] EXCEPT !.bytes = c, !.backup = b]
  <2>2. c \in Files /\ b \in Backups /\ b.content = live
    BY DEF Files, BackupOfLive, NoBackup, Backups
  <2>. HIDE DEF b
  <2>3. m \in Memory /\ m.rec = mem[w].rec /\ m.backup = b
    BY <2>2 DEF Memory
  <2>4. Remember(w, m)
    BY <2>1 DEF b
  <2>. HIDE DEF m
  <2>5. /\ pc'[w] = "prepare" /\ mem'[w] = m
        /\ \A q \in Processes \ {w} : pc'[q] = pc[q] /\ mem'[q] = mem[q]
    BY <1>7, <2>3, <2>4, Goes DEF BeginSave, Acquire, TypeOK, Locking, Saving
  <2>6. RecordTrue(mem'[w].rec, server', since'.counted, stamp')
    BY <1>2, <2>3, <2>5, StaysTrue
  <2>7. Seen(pc'[w], mem'[w].backup, live', journal', ran')
    BY <1>1, <2>2, <2>3, <2>5 DEF Seen, Back
  <2>. QED BY <1>2, <1>3, <1>4, <1>5, <1>6, <2>5, <2>6, <2>7, AloneMoves
<1>8. CASE Prepare(w)
  <2>. DEFINE new == NewRecord(mem[w].backup, mem[w].bytes)
              continued == ContinuedRecord(journal)
              n == IF mem[w].backup = NoBackup THEN 0 ELSE ServerIdentity(TRUE)
              rec == IF continued
                     THEN [new EXCEPT !.before = journal.before, !.server = journal.server]
                     ELSE [new EXCEPT !.server = n]
              m == [mem[w] EXCEPT !.cont = continued, !.rec = rec]
  <2>1. live = mem[w].backup.content
    BY <1>8 DEF Prepare, Seen
  <2>2. /\ n \in Nat /\ n <= stamp /\ (n # 0 => live \in since.counted)
        /\ journal.before \in Files /\ journal.server \in Nat /\ continued \in BOOLEAN
    BY RecordFields DEF ServerIdentity, ContinuedRecord, Loaded, TypeOK, HostOK
  <2>. HIDE DEF n, continued
  <2>3. rec \in Records /\ RecordTrue(rec, server, since.counted, stamp)
    <3>1. /\ new \in Records /\ new.phase = "applied"
          /\ new.before = mem[w].backup.content
      BY NewRecordType, NewRecordFields
    <3>. HIDE DEF new
    <3>2. CASE continued
      BY <2>2, <3>1, <3>2 DEF Records, RecordTrue
    <3>3. CASE ~continued
      BY <2>1, <2>2, <3>1, <3>3 DEF Records, RecordTrue
    <3>. QED BY <3>2, <3>3
  <2>. HIDE DEF rec
  <2>4. m \in Memory /\ m.rec = rec
    BY <2>2, <2>3 DEF Memory
  <2>. HIDE DEF m
  <2>5. Goto(w, "record") /\ Remember(w, m) /\ lock' = lock
    BY <1>8 DEF Prepare, m, rec, new, n, continued
  <2>6. /\ pc'[w] = "record" /\ mem'[w] = m
        /\ \A q \in Processes \ {w} : pc'[q] = pc[q] /\ mem'[q] = mem[q]
    BY <2>4, <2>5, Goes DEF TypeOK, Locking, Saving
  <2>7. RecordTrue(mem'[w].rec, server', since'.counted, stamp')
    BY <1>2, <2>3, <2>4, <2>6, StaysTrue
  <2>8. Seen(pc'[w], mem'[w].backup, live', journal', ran')
    BY <2>6 DEF Seen, Back
  <2>. QED BY <1>2, <1>3, <1>4, <1>5, <1>6, <2>6, <2>7, <2>8, AloneMoves
<1>9. CASE Arm(w)
  <2>. DEFINE rec == IF journal.status = "prepared" THEN journal
                     ELSE NewRecord(mem[w].backup, live)
              m == [mem[w] EXCEPT !.rec = rec]
  <2>1. rec \in Records /\ RecordTrue(rec, server, since.counted, stamp)
    BY NewRecordType, NewRecordFields DEF RecordTrue
  <2>. HIDE DEF rec
  <2>2. m \in Memory /\ m.rec = rec
    BY <2>1, MemoryUpdates
  <2>. HIDE DEF m
  <2>3. Goto(w, "armrec") /\ Remember(w, m) /\ lock' = w
    BY <1>9 DEF Arm, Acquire, m, rec
  <2>4. /\ pc'[w] = "armrec" /\ mem'[w] = m
        /\ \A q \in Processes \ {w} : pc'[q] = pc[q] /\ mem'[q] = mem[q]
    BY <2>2, <2>3, Goes DEF TypeOK, Locking, Arming
  <2>5. RecordTrue(mem'[w].rec, server', since'.counted, stamp')
    BY <1>2, <2>1, <2>2, <2>4, StaysTrue
  <2>6. Seen(pc'[w], mem'[w].backup, live', journal', ran')
    BY <2>4 DEF Seen, Back
  <2>. QED BY <1>2, <1>3, <1>4, <1>5, <1>6, <2>4, <2>5, <2>6, AloneMoves
<1>. QED BY <1>7, <1>8, <1>9
(* The shape of the steps under the mutex that write the file or the       *)
(* journal: what remains is the record j they leave, and the place.        *)
LEMMA Writes ==
    ASSUME IndInv, Alone, NEW p \in Processes, lock \in {p, Nobody}, lock' \in {lock, p, Nobody},
           NEW l \in Locking \cup Unlocked, NEW m \in Memory,
           Goto(p, l), Remember(p, m) \/ (mem' = mem /\ m = mem[p]),
           m.rec \in {mem[p].rec, NoRecord, journal},
           ran' = ran, server' = server, stamp' = stamp, left' = left,
           live' \in Files, since' = Written(live') \/ (since' = since /\ live' = live),
           RecordTrue(journal', server, since.counted, stamp), PhaseIsTrue',
           Seen(l, m.backup, live', journal', ran)
    PROVE  Alone'
<1>. TypeOK BY DEF IndInv
<1>. stamp \in Nat
  BY DEF TypeOK, CountersOK
<1>1. /\ pc'[p] = l /\ mem'[p] = m
      /\ \A q \in Processes \ {p} : pc'[q] = pc[q] /\ mem'[q] = mem[q]
  BY Goes DEF TypeOK
<1>2. /\ RecordTrue(journal, server, since.counted, stamp)
      /\ RecordTrue(mem[p].rec, server, since.counted, stamp)
      /\ Loaded /\ left["edit"] = 0
  BY DEF Alone
<1>3. since.counted \subseteq since'.counted
  BY WrittenCounts
<1>4. RecordTrue(mem'[p].rec, server', since'.counted, stamp')
  <2>1. RecordTrue(mem'[p].rec, server, since.counted, stamp)
    BY <1>1, <1>2, NoRecordTrue
  <2>. QED BY <1>3, <2>1 DEF RecordTrue
<1>5. HostMove
  BY <1>3 DEF HostMove
<1>6. Seen(pc'[p], mem'[p].backup, live', journal', ran')
  BY <1>1
<1>7. RecordTrue(journal', server', since'.counted, stamp') /\ left'["edit"] = 0
  BY <1>2, <1>3 DEF RecordTrue
<1>8. Loaded'
  BY <1>2, WrittenCounts DEF Loaded
<1>. QED BY <1>1, <1>4, <1>5, <1>6, <1>7, <1>8, AloneMoves

(* The writing steps of a window.                                          *)
LEMMA WritingWindow ==
    ASSUME IndInv, Alone, NEW w \in Windows,
           PrepareRecord(w) \/ Replace(w) \/ Unprepare(w) \/ ArmWrite(w) \/ Pend(w) \/ Commit(w) \/
           Abandon(w)
    PROVE  Alone'
<1>. w \in Processes BY DEF Processes
<1>. TypeOK /\ Steps BY DEF IndInv
<1>. /\ journal \in Records /\ mem[w] \in Memory /\ mem[w].rec \in Records /\ stamp \in Nat
     /\ live \in Files /\ mem[w].backup \in Backups /\ mem[w].bytes \in Files
     /\ mem[w].captured \in SUBSET AllPorts /\ mem[w].rec.id \in Nat
  BY MemoryFields, RecordFields DEF TypeOK, FilesOK, ProcessesOK, CountersOK
<1>. /\ RecordTrue(journal, server, since.counted, stamp)
     /\ RecordTrue(mem[w].rec, server, since.counted, stamp)
     /\ PhaseIsTrue
  BY DEF Alone
<1>. Step(w)
  BY DEF Steps
<1>1. ran' = ran /\ server' = server /\ stamp' = stamp /\ left' = left
  BY DEF PrepareRecord, Replace, Unprepare, ArmWrite, Pend, Commit, Abandon, host, count
<1>2. live' \in Files /\ (since' = Written(live') \/ (since' = since /\ live' = live))
  BY DEF PrepareRecord, Replace, Unprepare, ArmWrite, Pend, Commit, Abandon
<1>3. CASE PrepareRecord(w)
  <2>. DEFINE m == [mem[w] EXCEPT !.rec = journal, !.id = mem[w].rec.id]
  <2>1. m \in Memory /\ m.rec = journal
    BY DEF Memory
  <2>. HIDE DEF m
  <2>2. lock = w /\ mem[w].rec.status = "prepared" /\ lock' = lock
    BY <1>3 DEF PrepareRecord, Step, Locking, Saving
  <2>3. Goto(w, "check") /\ Remember(w, m) /\ journal' = mem[w].rec /\ live' = live
    BY <1>3 DEF PrepareRecord, m
  <2>4. PhaseIsTrue' /\ Seen("check", m.backup, live', journal', ran)
    BY <2>2, <2>3 DEF PhaseIsTrue, Pending, Seen, Back
  <2>5. "check" \in Locking
    BY DEF Locking, Saving
  <2>. QED BY <1>1, <1>2, <2>1, <2>2, <2>3, <2>4, <2>5, Writes
<1>4. CASE Replace(w)
  <2>. DEFINE m == [Blank EXCEPT !.backup = mem[w].backup]
  <2>1. m \in Memory /\ m.rec = NoRecord
    BY BlankMemory DEF Memory
  <2>. HIDE DEF m
  <2>2. lock = w /\ journal.status # "pending" /\ lock' = Nobody
    BY <1>4 DEF Replace, Release, Step, Locking, Saving
  <2>3. Goto(w, "saved") /\ Remember(w, m) /\ journal' = journal
    BY <1>4 DEF Replace, m
  <2>4. PhaseIsTrue' /\ Seen("saved", m.backup, live', journal', ran)
    BY <2>2, <2>3 DEF PhaseIsTrue, Pending, Seen, Back
  <2>5. "saved" \in Unlocked
    BY DEF Unlocked
  <2>6. RecordTrue(journal', server, since.counted, stamp)
    BY <2>3
  <2>. QED BY <1>1, <1>2, <2>1, <2>2, <2>3, <2>4, <2>5, <2>6, Writes
<1>5. CASE Unprepare(w)
  <2>1. /\ lock = w /\ journal.status # "pending" /\ mem[w].rec.status # "pending"
        /\ lock' = Nobody
    BY <1>5 DEF Unprepare, Release, Step, Locking, Saving
  <2>2. Goto(w, "idle") /\ Remember(w, Blank) /\ journal' \in {journal, mem[w].rec}
    BY <1>5 DEF Unprepare, Finish
  <2>3. PhaseIsTrue' /\ Seen("idle", Blank.backup, live', journal', ran)
    BY <2>1, <2>2 DEF PhaseIsTrue, Pending, Seen, Back
  <2>4. "idle" \in Unlocked
    BY DEF Unlocked
  <2>5. RecordTrue(journal', server, since.counted, stamp)
    BY <2>2
  <2>6. Blank \in Memory /\ Blank.rec = NoRecord
    BY BlankMemory
  <2>. QED BY <1>1, <1>2, <2>1, <2>2, <2>3, <2>4, <2>5, <2>6, Writes
<1>6. CASE ArmWrite(w)
  <2>. DEFINE m == [mem[w] EXCEPT !.id = mem[w].rec.id]
  <2>1. m \in Memory /\ m.rec = mem[w].rec
    BY MemoryUpdates
  <2>. HIDE DEF m
  <2>2. lock = w /\ mem[w].rec.status = "prepared" /\ lock' = lock
    BY <1>6 DEF ArmWrite, Step, Locking, Arming
  <2>3. /\ Goto(w, "sched") /\ Remember(w, m)
        /\ journal' = [mem[w].rec EXCEPT !.firewall = mem[w].captured]
    BY <1>6 DEF ArmWrite, m
  <2>4. RecordTrue(journal', server, since.counted, stamp) /\ journal'.status = "prepared"
    BY <2>2, <2>3, TrueUpdates, RecordUpdates
  <2>5. PhaseIsTrue' /\ Seen("sched", m.backup, live', journal', ran)
    BY <2>4 DEF PhaseIsTrue, Pending, Seen, Back
  <2>6. "sched" \in Locking
    BY DEF Locking, Arming
  <2>. QED BY <1>1, <1>2, <2>1, <2>2, <2>3, <2>4, <2>5, <2>6, Writes
<1>7. CASE Pend(w)
  <2>1. lock = w /\ journal.status = "prepared" /\ lock' = Nobody
    BY <1>7 DEF Pend, Release, Step, Locking, Arming
  <2>2. /\ Goto(w, "apply") /\ mem' = mem /\ journal' = [journal EXCEPT !.status = "pending"]
    BY <1>7 DEF Pend
  <2>3. RecordTrue(journal', server, since.counted, stamp) /\ journal'.phase = "applied"
    <3>1. journal.phase = "applied"
      BY <2>1 DEF RecordTrue
    <3>2. "pending" \in Statuses \ {"prepared"}
      BY DEF Statuses
    <3>. QED BY <2>2, <3>1, <3>2, TrueUpdates
  <2>4. PhaseIsTrue' /\ Seen("apply", mem[w].backup, live', journal', ran)
    BY <2>3 DEF PhaseIsTrue, Pending, Seen, Back
  <2>5. "apply" \in Unlocked
    BY DEF Unlocked
  <2>. QED BY <1>1, <1>2, <2>1, <2>2, <2>3, <2>4, <2>5, Writes
<1>8. CASE Commit(w)
  <2>1. lock = w /\ journal.status = "pending" /\ lock' \in {lock, w, Nobody}
    BY <1>8 DEF Commit, Release, Step, Locking, Keeping
  <2>2. PICK l \in {"disarm", "restore"} : Goto(w, l)
    BY <1>8 DEF Commit
  <2>3. /\ mem' = mem /\ live' = live
        /\ journal' = journal \/ journal' = [journal EXCEPT !.status = "confirmed"]
    BY <1>8 DEF Commit
  <2>4. RecordTrue(journal', server, since.counted, stamp) /\ PhaseIsTrue'
    <3>1. CASE journal' = journal
      BY <2>3, <3>1 DEF PhaseIsTrue, Pending
    <3>2. CASE journal' = [journal EXCEPT !.status = "confirmed"]
      <4>1. "confirmed" \in Statuses \ {"prepared"}
        BY DEF Statuses
      <4>2. RecordTrue(journal', server, since.counted, stamp) /\ journal'.status = "confirmed"
        BY <3>2, <4>1, TrueUpdates, RecordUpdates
      <4>. QED BY <4>2 DEF PhaseIsTrue, Pending
    <3>. QED BY <2>3, <3>1, <3>2
  <2>5. Seen(l, mem[w].backup, live', journal', ran) /\ l \in Locking \cup Unlocked
    BY DEF Seen, Back, Locking, Unlocked
  <2>. QED BY <1>1, <1>2, <2>1, <2>2, <2>3, <2>4, <2>5, Writes
<1>9. CASE Abandon(w)
  <2>1. CASE lock = Nobody /\ Mine(w)
    <3>1. /\ Goto(w, "disarm") /\ mem' = mem /\ lock' = w
          /\ journal' = [journal EXCEPT !.status = "abandoned"]
      BY <1>9, <2>1 DEF Abandon, Acquire
    <3>2. "abandoned" \in Statuses \ {"prepared"} /\ "disarm" \in Locking
      BY DEF Statuses, Locking
    <3>3. RecordTrue(journal', server, since.counted, stamp) /\ journal'.status = "abandoned"
      BY <3>1, <3>2, TrueUpdates, RecordUpdates
    <3>4. PhaseIsTrue' /\ Seen("disarm", mem[w].backup, live', journal', ran)
      BY <3>3 DEF PhaseIsTrue, Pending, Seen, Back
    <3>. QED BY <1>1, <1>2, <2>1, <3>1, <3>2, <3>3, <3>4, Writes
  <2>2. CASE ~(lock = Nobody /\ Mine(w))
    <3>1. /\ Goto(w, "idle") /\ Remember(w, Blank) /\ lock' = lock /\ journal' = journal
          /\ live' = live /\ since' = since
      BY <1>9, <2>2 DEF Abandon, Acquire, Finish
    <3>2. "idle" \in Unlocked /\ HostMove /\ left'["edit"] = 0
      BY <1>1, <3>1 DEF Unlocked, HostMove, Alone
    <3>. QED BY <1>1, <3>1, <3>2, BlankMemory, CalmPlaces, Calm
  <2>. QED BY <2>1, <2>2
<1>. QED BY <1>3, <1>4, <1>5, <1>6, <1>7, <1>8, <1>9

(* The steps of RecoverPending that write.                                 *)
LEMMA WritingRestore ==
    ASSUME IndInv, Alone, NEW p \in Processes,
           RecoverBegin(p) \/ RecoverLive(p) \/ RecoverPhase(p) \/ RecoverFirewall(p) \/
           RecoverPhase2(p) \/ RecoverDone(p)
    PROVE  Alone'
<1>. TypeOK /\ Steps BY DEF IndInv
<1>. /\ journal \in Records /\ mem[p] \in Memory /\ journal.phase \in Phases
     /\ live \in Files /\ journal.before \in Files
  BY RecordFields DEF TypeOK, FilesOK, ProcessesOK
<1>. RecordTrue(journal, server, since.counted, stamp) /\ PhaseIsTrue
  BY DEF Alone
<1>. Step(p) /\ Seen(pc[p], mem[p].backup, live, journal, ran)
  BY DEF Steps, Alone
<1>1. ran' = ran /\ server' = server /\ stamp' = stamp /\ left' = left
  BY DEF RecoverBegin, RecoverLive, RecoverPhase, RecoverFirewall, RecoverPhase2, RecoverDone,
     host, count
<1>2. live' \in Files /\ (since' = Written(live') \/ (since' = since /\ live' = live))
  BY DEF RecoverBegin, RecoverLive, RecoverPhase, RecoverFirewall, RecoverPhase2, RecoverDone, files
<1>. Back \subseteq Locking /\ "rlive" \in Locking /\ "disarm" \in Locking /\ "idle" \in Unlocked
  BY DEF Back, Locking, Restoring, Unlocked
<1>3. CASE RecoverBegin(p)
  <2>1. /\ lock = Nobody /\ lock' = p /\ mem' = mem /\ journal' = journal /\ live' = live
        /\ Goto(p, IF live = journal.before THEN "rphase" ELSE "rlive")
    BY <1>3 DEF RecoverBegin, Acquire, files
  <2>. DEFINE l == IF live = journal.before THEN "rphase" ELSE "rlive"
  <2>2. l \in Locking /\ Seen(l, mem[p].backup, live', journal', ran)
    BY <2>1 DEF Seen, Back
  <2>3. PhaseIsTrue' /\ RecordTrue(journal', server, since.counted, stamp) /\ Goto(p, l)
    BY <2>1 DEF PhaseIsTrue, Pending
  <2>. HIDE DEF l
  <2>. QED BY <1>1, <1>2, <2>1, <2>2, <2>3, Writes
<1>4. CASE RecoverLive(p)
  <2>1. lock = p /\ lock' \in {lock, p, Nobody} /\ journal' = journal
    BY <1>4 DEF RecoverLive, Release, Step, Locking, Restoring
  <2>2. CASE journal.before = Absent \/ previous = journal.before
    <3>1. Goto(p, "rphase") /\ mem' = mem /\ live' = journal.before
      BY <1>4, <2>2 DEF RecoverLive
    <3>2. PhaseIsTrue' /\ Seen("rphase", mem[p].backup, live', journal', ran) /\ "rphase" \in Back
      BY <2>1, <3>1 DEF PhaseIsTrue, Pending, Seen, Back
    <3>. QED BY <1>1, <1>2, <2>1, <3>1, <3>2, Writes
  <2>3. CASE ~(journal.before = Absent \/ previous = journal.before)
    <3>1. Goto(p, "idle") /\ Remember(p, Blank) /\ live' = live
      BY <1>4, <2>3 DEF RecoverLive, Finish
    <3>2. PhaseIsTrue' /\ Seen("idle", Blank.backup, live', journal', ran)
      BY <2>1, <3>1 DEF PhaseIsTrue, Pending, Seen, Back
    <3>3. Blank \in Memory /\ Blank.rec = NoRecord
      BY BlankMemory
    <3>. QED BY <1>1, <1>2, <2>1, <3>1, <3>2, <3>3, Writes
  <2>. QED BY <2>2, <2>3
<1>5. CASE RecoverPhase(p) \/ RecoverPhase2(p)
  <2>1. /\ lock = p /\ lock' = lock /\ mem' = mem /\ live' = live /\ live = journal.before
        /\ journal.status = "pending"
    BY <1>5 DEF RecoverPhase, RecoverPhase2, Step, Seen, Back, Locking, Restoring
  <2>2. PICK l \in {"rrestart", "rfirewall"} : Goto(p, l)
    BY <1>5 DEF RecoverPhase, RecoverPhase2
  <2>3. PICK x \in Phases : journal' = [journal EXCEPT !.phase = x]
    BY <1>5 DEF RecoverPhase, RecoverPhase2, Phases
  <2>4. RecordTrue(journal', server, since.counted, stamp) /\ journal'.before = journal.before
    BY <2>1, <2>3, TrueUpdates
  <2>5. PhaseIsTrue' /\ Seen(l, mem[p].backup, live', journal', ran) /\ l \in Back
    BY <2>1, <2>4 DEF PhaseIsTrue, Seen, Back
  <2>. QED BY <1>1, <1>2, <2>1, <2>2, <2>4, <2>5, Writes
<1>6. CASE RecoverFirewall(p)
  <2>1. /\ lock = p /\ lock' = lock /\ mem' = mem /\ live' = live /\ live = journal.before
        /\ journal' = journal /\ Goto(p, "rphase2")
    BY <1>6 DEF RecoverFirewall, Step, Seen, Back, Locking, Restoring, files
  <2>2. PhaseIsTrue' /\ Seen("rphase2", mem[p].backup, live', journal', ran) /\ "rphase2" \in Back
    BY <2>1 DEF PhaseIsTrue, Pending, Seen, Back
  <2>. QED BY <1>1, <1>2, <2>1, <2>2, Writes
<1>7. CASE RecoverDone(p)
  <2>1. /\ lock = p /\ lock' = lock /\ mem' = mem /\ Goto(p, "disarm")
        /\ journal' = [journal EXCEPT !.status = "restored"]
    BY <1>7 DEF RecoverDone, Step, Locking, Restoring
  <2>2. "restored" \in Statuses \ {"prepared"}
    BY DEF Statuses
  <2>3. RecordTrue(journal', server, since.counted, stamp) /\ journal'.status = "restored"
    BY <2>1, <2>2, TrueUpdates, RecordUpdates
  <2>4. PhaseIsTrue' /\ Seen("disarm", mem[p].backup, live', journal', ran)
    BY <2>3 DEF PhaseIsTrue, Pending, Seen, Back
  <2>. QED BY <1>1, <1>2, <2>1, <2>3, <2>4, Writes
<1>. QED BY <1>3, <1>4, <1>5, <1>6, <1>7

(* The restart of a restore: the sshd that starts loads the previous file. *)
LEMMA RestoreRestarts ==
    ASSUME IndInv, Alone, NEW p \in Processes, RecoverRestart(p)
    PROVE  Alone'
<1>. TypeOK /\ Steps BY DEF IndInv
<1>. journal \in Records /\ mem[p] \in Memory /\ mem[p].rec \in Records
  BY MemoryFields DEF TypeOK, FilesOK, ProcessesOK
<1>1. /\ live' = live /\ journal' = journal /\ lock' = lock /\ mem' = mem /\ left' = left
      /\ ran' = live /\ live \in since'.counted /\ server' = stamp + 1 /\ stamp' = stamp + 1
      /\ Goto(p, "rdone") /\ pc[p] = "rrestart"
  BY DEF RecoverRestart, StartServer
<1>2. HostMove
  BY <1>1 DEF HostMove
<1>3. /\ pc'[p] = "rdone" /\ mem'[p] = mem[p]
      /\ \A q \in Processes \ {p} : pc'[q] = pc[q] /\ mem'[q] = mem[q]
  BY <1>1, GotoMoves DEF TypeOK, Locking, Restoring
<1>4. live = journal.before /\ PhaseIsTrue' /\ Loaded' /\ left'["edit"] = 0
  BY <1>1 DEF Alone, Loaded, Seen, Back, PhaseIsTrue, Pending
<1>5. Seen(pc'[p], mem'[p].backup, live', journal', ran')
  BY <1>1, <1>3, <1>4 DEF Seen, Back
<1>6. /\ RecordTrue(journal, server, since.counted, stamp)
      /\ RecordTrue(mem[p].rec, server, since.counted, stamp)
  BY DEF Alone
<1>7. /\ RecordTrue(journal', server', since'.counted, stamp')
      /\ RecordTrue(mem'[p].rec, server', since'.counted, stamp')
  BY <1>1, <1>2, <1>3, <1>6, StaysTrue
<1>. QED BY <1>1, <1>2, <1>3, <1>4, <1>5, <1>7, AloneMoves

(* The rest of the machine: sshd stops or starts, time passes.             *)
LEMMA AloneOutside ==
    ASSUME IndInv, Alone,
           OutsideEdit \/ ServiceRestart \/ ServiceStops \/ DeadlinePasses \/ SecondPasses \/
           UNCHANGED vars
    PROVE  Alone'
<1>. TypeOK /\ Steps BY DEF IndInv
<1>1. ~OutsideEdit
  BY SpendsNoEdit DEF OutsideEdit, TypeOK, Alone, Kinds
<1>2. /\ live' = live /\ journal' = journal /\ pc' = pc /\ mem' = mem
  BY <1>1 DEF ServiceRestart, ServiceStops, DeadlinePasses, SecondPasses, vars, files, procs
<1>3. \/ StartServer
      \/ /\ ran' = ran /\ server' \in {server, 0} /\ stamp' = stamp
         /\ since'.changed = since.changed /\ since'.counted = since.counted
  BY <1>1 DEF ServiceRestart, ServiceStops, DeadlinePasses, SecondPasses, vars, files, host, count,
     TypeOK, FilesOK, Since
<1>4. /\ HostMove
      /\ \/ since'.changed = since.changed /\ since'.counted = since.counted
         \/ live \in since'.counted
  BY <1>2, <1>3 DEF HostMove, StartServer
<1>5. left'["edit"] = 0
  BY <1>1, SpendsNoEdit DEF ServiceRestart, ServiceStops, DeadlinePasses, SecondPasses, vars,
     count, TypeOK,
     Alone, Kinds
<1>6. Task \in Processes
  BY DEF Processes
<1>7. mem[Task].rec \in Records /\ journal \in Records
  BY <1>6, MemoryFields DEF TypeOK, FilesOK, ProcessesOK
<1>8. /\ RecordTrue(journal, server, since.counted, stamp)
      /\ RecordTrue(mem[Task].rec, server, since.counted, stamp)
  BY <1>6 DEF Alone
<1>9. /\ RecordTrue(journal', server', since'.counted, stamp')
      /\ RecordTrue(mem'[Task].rec, server', since'.counted, stamp')
  BY <1>2, <1>4, <1>7, <1>8, StaysTrue
<1>10. PhaseIsTrue' /\ Loaded'
  BY <1>2, <1>4 DEF Alone, Loaded, PhaseIsTrue, Pending
<1>11. Seen(pc'[Task], mem'[Task].backup, live', journal', ran')
  BY <1>2, <1>4, <1>6 DEF Alone, Seen, HostMove, Back
<1>. QED BY <1>2, <1>4, <1>5, <1>6, <1>9, <1>10, <1>11, AloneMoves

(* Every step keeps Alone.                                                 *)
LEMMA AloneInductive == IndInv /\ Alone /\ [Next]_vars => Alone'
<1>. SUFFICES ASSUME IndInv, Alone, [Next]_vars PROVE Alone'
  OBVIOUS
<1>1. ASSUME NEW w \in Windows, Window(w) PROVE Alone'
  BY <1>1, CalmWindow, MakingSteps, WritingWindow DEF Window
<1>2. ASSUME NEW p \in Processes, LockedStep(p) PROVE Alone'
  <2>1. CASE RestoreStep(p)
    BY <2>1, WritingRestore, RestoreRestarts, CalmProcess DEF RestoreStep
  <2>2. CASE p \in Windows /\ (SaveStep(p) \/ ArmStep(p) \/ KeepStep(p))
    BY <2>2, CalmWindow, MakingSteps, WritingWindow DEF SaveStep, ArmStep, KeepStep
  <2>. QED BY <1>2, <2>1, <2>2 DEF LockedStep
<1>3. ASSUME NEW p \in Processes, RecoverBegin(p) \/ RecoverFails(p) \/ Crash(p) PROVE Alone'
  BY <1>3, WritingRestore, CalmProcess
<1>4. CASE \/ OutsideEdit \/ ServiceRestart \/ ServiceStops \/ DeadlinePasses
           \/ SecondPasses \/ UNCHANGED vars
  BY <1>4, AloneOutside
<1>. QED BY <1>1, <1>2, <1>3, <1>4 DEF Next

(* At the start sshd runs the file, if there is one, and no record exists. *)
LEMMA AloneInit == ASSUME Budget["edit"] = 0 PROVE Init => Alone
<1>. SUFFICES ASSUME Init PROVE Alone
  OBVIOUS
<1>1. /\ left["edit"] = 0 /\ Loaded /\ journal = NoRecord /\ stamp = 1 /\ server <= stamp
  BY DEF Init, Loaded
<1>2. RecordTrue(NoRecord, server, since.counted, stamp)
  BY <1>1, NoRecordTrue
<1>3. PhaseIsTrue
  BY <1>1 DEF PhaseIsTrue, Pending, NoRecord
<1>4. ASSUME NEW p \in Processes
      PROVE  /\ RecordTrue(mem[p].rec, server, since.counted, stamp)
             /\ Seen(pc[p], mem[p].backup, live, journal, ran)
  <2>1. mem[p] = Blank /\ pc[p] = "idle"
    BY DEF Init
  <2>. QED BY <1>2, <2>1, BlankMemory DEF Seen, Back
<1>. QED BY <1>1, <1>2, <1>3, <1>4 DEF Alone

(* Both invariants hold in every behaviour without outside edits.          *)
LEMMA AloneAlways == ASSUME Budget["edit"] = 0 PROVE Spec => [](IndInv /\ Alone)
<1>1. Init => IndInv /\ Alone
  BY InitInv, AloneInit
<1>2. IndInv /\ Alone /\ [Next]_vars => (IndInv /\ Alone)'
  BY Inductive, AloneInductive
<1>. QED BY <1>1, <1>2, PTL DEF Spec

(* PhaseIsTrue (RecoverPending resumes after the phase the journal names): *)
(* on a machine whose sshd_config only the manager writes, with any number *)
(* of windows, saves, restarts, failures and deaths, a pending record past *)
(* "applied" means that the previous file is back.                         *)
THEOREM PhaseTellsTheTruth == ASSUME Budget["edit"] = 0 PROVE Spec => []PhaseIsTrue
<1>1. IndInv /\ Alone => PhaseIsTrue
  BY DEF Alone
<1>. QED BY <1>1, AloneAlways, PTL

(* ChainTarget (ContinuedRecord, RestartRollbackFor): on such a machine a  *)
(* record that names the running sshd has as its target a file that counts *)
(* as loaded by that sshd (the one it loaded, or one written in its first  *)
(* second), however long the chain of saves that led to it.                *)
THEOREM ChainKeepsTarget == ASSUME Budget["edit"] = 0 PROVE Spec => []ChainTarget
<1>1. IndInv /\ Alone => ChainTarget
  BY DEF Alone, RecordTrue, ChainTarget
<1>. QED BY <1>1, AloneAlways, PTL

(* A step that resolves a pending record as restored is the last one of a  *)
(* restore.                                                                *)
LEMMA RestoredBy ==
    ASSUME IndInv, [Next]_vars, Pending, journal'.status = "restored"
    PROVE  \E p \in Processes : RecoverDone(p)
<1>. journal \in Records
  BY DEF IndInv, TypeOK, FilesOK
<1>1. ASSUME NEW w \in Windows, PrepareRecord(w) \/ Unprepare(w) \/ ArmWrite(w) \/ Pend(w)
      PROVE  FALSE
  <2>. w \in Processes
    BY DEF Processes
  <2>. QED BY <1>1 DEF IndInv, Steps, Step, PrepareRecord, Unprepare, ArmWrite, Pend, Saving,
       Arming, Pending
<1>2. ASSUME NEW w \in Windows, Commit(w) \/ Abandon(w) PROVE journal'.status # "restored"
  <2>1. \/ journal' = journal \/ journal' = [journal EXCEPT !.status = "confirmed"]
        \/ journal' = [journal EXCEPT !.status = "abandoned"]
    BY <1>2 DEF Commit, Abandon
  <2>. QED BY <2>1, RecordUpdates DEF Statuses, Pending
<1>3. ASSUME NEW p \in Processes, RecoverPhase(p) \/ RecoverPhase2(p)
      PROVE  journal'.status # "restored"
  <2>1. PICK x \in Phases : journal' = [journal EXCEPT !.phase = x]
    BY <1>3, RecordFields DEF RecoverPhase, RecoverPhase2, Phases
  <2>. QED BY <2>1, RecordUpdates DEF Pending
<1>4. ASSUME journal' = journal PROVE FALSE
  BY <1>4 DEF Pending
<1>5. ASSUME NEW w \in Windows, Window(w) PROVE FALSE
  <2>1. CASE Abandon(w)
    BY <1>2, <2>1
  <2>2. CASE ~Abandon(w)
    <3>1. journal' = journal
      BY <1>5, <2>2 DEF Window, files,
         BeginSave, SaveFails, OpenFirewallForPort, SaveOnly, RestartApplyingSaved,
         PlainRestart, CaptureFirewall, Arm, ArmRefused, ArmFails, RestartAnyway, Apply,
         ApplyFails, RestartService, RestartFails, SetDeadline, SetDeadlineFails,
         NoQuestion, Answer, ConfirmBegin, ConfirmRefused, RestoreEnds,
         ResolvePendingRecovery
    <3>. QED BY <1>4, <3>1
  <2>. QED BY <2>1, <2>2
<1>6. ASSUME NEW p \in Processes, LockedStep(p) PROVE RecoverDone(p)
  <2>1. \/ journal' = journal \/ RecoverDone(p) \/ RecoverPhase(p) \/ RecoverPhase2(p)
        \/ /\ p \in Windows
           /\ PrepareRecord(p) \/ Unprepare(p) \/ ArmWrite(p) \/ Pend(p) \/ Commit(p)
    BY <1>6 DEF LockedStep, RestoreStep, SaveStep, ArmStep, KeepStep, files,
       Prepare, CheckUnchanged, Replace, Schedule, Keep, RecoverLive, RecoverFirewall,
       RecoverRestart, Disarm
  <2>. QED BY <1>1, <1>2, <1>3, <1>4, <2>1
<1>7. ASSUME NEW p \in Processes, RecoverBegin(p) \/ RecoverFails(p) \/ Crash(p) PROVE FALSE
  BY <1>4, <1>7 DEF RecoverBegin, RecoverFails, Crash, files
<1>8. CASE \/ OutsideEdit \/ ServiceRestart \/ ServiceStops \/ DeadlinePasses
           \/ SecondPasses \/ UNCHANGED vars
  BY <1>4, <1>8 DEF OutsideEdit, ServiceRestart, ServiceStops, DeadlinePasses, SecondPasses,
     vars, files
<1>. QED BY <1>5, <1>6, <1>7, <1>8 DEF Next

(* The last step of a restore finds the previous file in place and loaded.  *)
LEMMA RestoredStep ==
    ASSUME IndInv, Alone, [Next]_vars, Pending, journal'.status = "restored"
    PROVE  live = journal.before /\ ran = journal.before
<1>1. PICK p \in Processes : RecoverDone(p)
  BY RestoredBy
<1>. QED BY <1>1 DEF RecoverDone, Alone, Seen, Back

(* RestoredMeansRunning (the end of RecoverPending): on such a machine a   *)
(* change is reported as restored only when the previous file is in place  *)
(* and sshd was started with it.                                           *)
THEOREM RestoredIsRunning == ASSUME Budget["edit"] = 0 PROVE Spec => RestoredMeansRunning
<1>1. IndInv /\ Alone /\ [Next]_vars =>
         [Pending /\ journal'.status = "restored" =>
             live = journal.before /\ ran = journal.before]_vars
  BY RestoredStep
<1>. QED BY <1>1, AloneAlways, PTL DEF Spec, RestoredMeansRunning

-----------------------------------------------------------------------------
(* What a restore does to the firewall rule, for one window.               *)

(* A prepared record is not restored in part.                              *)
Untouched(r) == r.status = "prepared" => r.phase = "applied"

(* Where a window acts on the record it armed, until it keeps it.          *)
Deciding == {"apply", "restart", "restarted", "answer", "confirm"}

(* What the window knows at l with the memory m, of the journal j, the     *)
(* rule f and the deadline d: no record is pending while it plans and      *)
(* arms, so that its plan covers the rule it captured, which is the one    *)
(* the record restores; and no restore began before it keeps the change,   *)
(* unless the deadline has passed.                                         *)
WindowOK(l, m, j, f, d) ==
    /\ l \in {"idle", "saved"} => m.plan = NoPlan
    /\ l \in {"saved", "planned", "offer", "arm"} \cup Arming => j.status # "pending"
    /\ l = "planned" => m.plan = NoPlan \/ f \subseteq m.plan.wide
    /\ l \in {"arm", "apply"} \cup Arming => m.plan = NoPlan \/ m.captured \subseteq m.plan.wide
    /\ l \in {"sched", "pend", "apply"} => j.firewall = m.captured
    /\ l \in Deciding /\ j.status = "pending" /\ j.phase # "applied" => d
    /\ l \in Keeping => j.phase = "applied"

(* What a restore has done at l.                                           *)
RestoreOK(l, j, f) ==
    /\ l = "rphase2" => j.firewall \subseteq f
    /\ l \in {"rrestart", "rdone"} => j.phase = "firewall-restored"

(* The rule is back once the journal says so.                              *)
RuleBack ==
    Pending /\ journal.phase = "firewall-restored" => journal.firewall \subseteq firewall

(* The invariant for the only window w.                                    *)
Reopen(w) ==
    /\ Untouched(journal) /\ \A p \in Processes : Untouched(mem[p].rec)
    /\ RuleBack
    /\ WindowOK(pc[w], mem[w], journal, firewall, late)
    /\ \A p \in Processes : RestoreOK(pc[p], journal, firewall)
    /\ pc[Task] \in Restoring => late

(* The records a process starts from and makes.                            *)
LEMMA UntouchedValues ==
    /\ Untouched(NoRecord)
    /\ \A r \in Records, x \in Statuses \ {"prepared"} : Untouched([r EXCEPT !.status = x])
    /\ \A r \in Records, x \in SUBSET AllPorts :
          Untouched(r) => Untouched([r EXCEPT !.firewall = x])
    /\ \A r \in Records, x \in Phases :
          r.status # "prepared" => Untouched([r EXCEPT !.phase = x])
BY DEF Untouched, NoRecord, Records

(* The fields of an updated record that the rule depends on.               *)
LEMMA RuleFields ==
    ASSUME NEW r \in Records
    PROVE  /\ \A x : /\ [r EXCEPT !.status = x].status = x
                     /\ [r EXCEPT !.status = x].phase = r.phase
                     /\ [r EXCEPT !.status = x].firewall = r.firewall
           /\ \A x : /\ [r EXCEPT !.phase = x].status = r.status
                     /\ [r EXCEPT !.phase = x].phase = x
                     /\ [r EXCEPT !.phase = x].firewall = r.firewall
           /\ \A x : /\ [r EXCEPT !.firewall = x].status = r.status
                     /\ [r EXCEPT !.firewall = x].phase = r.phase
                     /\ [r EXCEPT !.firewall = x].firewall = x
BY DEF Records

(* What the only window and the task share is the journal and the rule: a  *)
(* restore under way keeps what it did, if the step of the other process   *)
(* leaves the journal alone and the rule not below the record's.           *)
LEMMA OthersRestore ==
    ASSUME Steps, NEW p \in Processes, NEW q \in Processes \ {p}, pc'[q] = pc[q],
           RestoreOK(pc[q], journal, firewall),
           \/ lock \in {p, Nobody}
           \/ journal.status # "pending"
           \/ journal' = journal /\ (firewall' = firewall \/ journal.firewall \subseteq firewall')
    PROVE  RestoreOK(pc'[q], journal', firewall')
<1>1. CASE pc[q] \in Restoring
  <2>1. lock = q /\ journal.status = "pending"
    BY <1>1 DEF Steps, Step, Locking
  <2>2. journal' = journal /\ (firewall' = firewall \/ journal.firewall \subseteq firewall')
    BY <2>1, RecoveryAssumption
  <2>. QED BY <2>2 DEF RestoreOK
<1>2. CASE pc[q] \notin Restoring
  BY <1>2 DEF RestoreOK, Restoring
<1>. QED BY <1>1, <1>2

(* The shape of every step of a process.                                   *)
LEMMA ReopenMoves ==
    ASSUME IndInv, NEW w \in Windows, Reopen(w), NEW p \in Processes,
           \A q \in Processes \ {p} : pc'[q] = pc[q] /\ mem'[q] = mem[q],
           \/ lock \in {p, Nobody}
           \/ journal.status # "pending"
           \/ journal' = journal /\ (firewall' = firewall \/ journal.firewall \subseteq firewall'),
           Untouched(journal'), Untouched(mem'[p].rec), RuleBack',
           WindowOK(pc'[w], mem'[w], journal', firewall', late'),
           RestoreOK(pc'[p], journal', firewall'), pc'[Task] \in Restoring => late'
    PROVE  Reopen(w)'
<1>. Steps BY DEF IndInv
<1>1. ASSUME NEW q \in Processes PROVE Untouched(mem'[q].rec)
  BY DEF Reopen
<1>2. ASSUME NEW q \in Processes PROVE RestoreOK(pc'[q], journal', firewall')
  <2>1. CASE q = p
    BY <2>1
  <2>2. CASE q # p
    <3>1. RestoreOK(pc[q], journal, firewall) /\ pc'[q] = pc[q]
      BY <2>2 DEF Reopen
    <3>. QED BY <2>2, <3>1, OthersRestore
  <2>. QED BY <2>1, <2>2
<1>. QED BY <1>1, <1>2 DEF Reopen

(* Places at which the window needs nothing of the journal and the rule.   *)
Easy == {"plain", "restore", "abandon", "prepare", "record", "check", "replace", "unprepare",
         "disarm"} \cup Restoring

(* The window needs nothing there, nor when an operation has ended.        *)
LEMMA EasyPlaces ==
    ASSUME NEW j, NEW f, NEW d
    PROVE  /\ \A l \in Easy : \A m : WindowOK(l, m, j, f, d)
           /\ WindowOK("idle", Blank, j, f, d)
BY DEF WindowOK, Easy, Restoring, Arming, Keeping, Deciding, Blank

(* A step of the window that leaves the journal, the rule and the deadline *)
(* alone.                                                                  *)
LEMMA Still ==
    ASSUME IndInv, NEW w \in Windows, Reopen(w),
           NEW l \in Locking \cup Unlocked, NEW m \in Memory,
           Goto(w, l), Remember(w, m) \/ (mem' = mem /\ m = mem[w]),
           lock' \in {lock, w, Nobody},
           journal' = journal, firewall' = firewall, late' = late,
           Untouched(m.rec), WindowOK(l, m, journal, firewall, late),
           RestoreOK(l, journal, firewall)
    PROVE  Reopen(w)'
<1>. w \in Processes /\ Task \in Processes /\ Task # w
  BY RecoveryAssumption DEF Processes
<1>. TypeOK BY DEF IndInv
<1>1. /\ pc'[w] = l /\ mem'[w] = m
      /\ \A q \in Processes \ {w} : pc'[q] = pc[q] /\ mem'[q] = mem[q]
  BY Goes DEF TypeOK
<1>2. RuleBack' /\ Untouched(journal')
  BY DEF Reopen, RuleBack, Pending
<1>3. pc'[Task] \in Restoring => late'
  BY <1>1 DEF Reopen
<1>. QED BY <1>1, <1>2, <1>3, ReopenMoves

(* Such steps that end at an easy place.                                   *)
LEMMA EasySteps ==
    ASSUME IndInv, NEW w \in Windows, Reopen(w),
           BeginSave(w) \/ SaveFails(w) \/ PlainRestart(w) \/ ArmRefused(w) \/ ApplyFails(w) \/
           RestartFails(w) \/ SetDeadlineFails(w) \/ ConfirmRefused(w) \/ RestoreEnds(w) \/
           ResolvePendingRecovery(w) \/ CheckUnchanged(w) \/ Disarm(w) \/ RecoverFails(w) \/
           Crash(w) \/ RecoverLive(w) \/ RecoverBegin(w)
    PROVE  Reopen(w)'
<1>. w \in Processes BY DEF Processes
<1>. TypeOK BY DEF IndInv
<1>1. /\ journal' = journal /\ firewall' = firewall /\ late' = late
      /\ lock' \in {lock, w, Nobody}
  BY DEF files, host, Acquire, Release,
     BeginSave, SaveFails, PlainRestart, ArmRefused, ApplyFails, RestartFails, SetDeadlineFails,
     ConfirmRefused, RestoreEnds, ResolvePendingRecovery, CheckUnchanged, Disarm, RecoverFails,
     Crash, RecoverLive, RecoverBegin
<1>. DEFINE Targets == Easy \ {"rphase2", "rrestart", "rdone"}
<1>2. \/ Finish(w) \/ \E l \in Targets : Goto(w, l) /\ mem' = mem
      \/ BeginSave(w) \/ ResolvePendingRecovery(w)
  BY DEF Easy, Restoring,
     SaveFails, PlainRestart, ArmRefused, ApplyFails, RestartFails, SetDeadlineFails,
     ConfirmRefused, RestoreEnds, CheckUnchanged, Disarm, RecoverFails,
     Crash, RecoverLive, RecoverBegin
<1>3. /\ mem[w] \in Memory /\ Untouched(mem[w].rec) /\ Untouched(NoRecord)
      /\ Targets \subseteq Locking \cup Unlocked /\ "idle" \in Unlocked
  BY UntouchedValues DEF Reopen, TypeOK, ProcessesOK, Easy, Locking, Unlocked, Saving, Restoring
<1>4. RestoreOK("idle", journal, firewall) /\ \A l \in Targets : RestoreOK(l, journal, firewall)
  BY DEF RestoreOK
<1>5. CASE Finish(w)
  BY <1>1, <1>3, <1>4, <1>5, BlankMemory, EasyPlaces, Still DEF Finish
<1>6. ASSUME NEW l \in Targets, NEW m \in Memory, Goto(w, l),
             Remember(w, m) \/ (mem' = mem /\ m = mem[w]), m.rec = mem[w].rec
      PROVE  Reopen(w)'
  <2>1. WindowOK(l, m, journal, firewall, late)
    BY EasyPlaces
  <2>. QED BY <1>1, <1>3, <1>4, <1>6, <2>1, Still
<1>7. CASE BeginSave(w)
  <2>1. PICK c \in Saved : Remember(w, [mem[w] EXCEPT !.bytes = c, !.backup = BackupOfLive])
    BY <1>7 DEF BeginSave
  <2>2. c \in Files /\ BackupOfLive \in Backups
    BY DEF Files, BackupOfLive, NoBackup, Backups, TypeOK, FilesOK, CountersOK
  <2>. DEFINE b == BackupOfLive
              m == [mem[w] EXCEPT !.bytes = c, !.backup = b]
  <2>. HIDE DEF b
  <2>3. m \in Memory /\ m.rec = mem[w].rec /\ Remember(w, m)
    BY <1>3, <2>1, <2>2 DEF Memory, b
  <2>. HIDE DEF m
  <2>4. Goto(w, "prepare") /\ "prepare" \in Targets
    BY <1>7 DEF BeginSave, Easy
  <2>. QED BY <1>6, <2>3, <2>4
<1>8. CASE ResolvePendingRecovery(w)
  <2>1. PICK m \in Memory : Remember(w, m) /\ m.rec = mem[w].rec
    BY <1>8, CalmMemory DEF ResolvePendingRecovery
  <2>2. PICK l \in Targets : Goto(w, l)
    BY <1>8 DEF ResolvePendingRecovery, Easy
  <2>. QED BY <1>6, <2>1, <2>2
<1>. QED BY <1>2, <1>3, <1>5, <1>6, <1>7, <1>8

(* The window plans and arms: its plan covers the rule that the record     *)
(* restores, since no restore is under way meanwhile.                      *)
LEMMA PlanningSteps ==
    ASSUME IndInv, NEW w \in Windows, Reopen(w),
           Prepare(w) \/ Replace(w) \/ RestartApplyingSaved(w) \/ OpenFirewallForPort(w) \/
           CaptureFirewall(w) \/ Arm(w) \/ Schedule(w) \/ ArmFails(w)
    PROVE  Reopen(w)'
<1>. w \in Processes BY DEF Processes
<1>. TypeOK /\ Steps BY DEF IndInv
<1>. /\ mem[w] \in Memory /\ journal \in Records /\ firewall \in SUBSET AllPorts
     /\ mem[w].backup \in Backups /\ mem[w].bytes \in Files /\ live \in Files
     /\ mem[w].captured \in SUBSET AllPorts
  BY MemoryFields DEF TypeOK, FilesOK, HostOK, ProcessesOK
<1>. /\ Untouched(mem[w].rec) /\ Untouched(journal)
     /\ WindowOK(pc[w], mem[w], journal, firewall, late) /\ Step(w)
  BY DEF Reopen, Steps
<1>1. /\ journal' = journal /\ firewall' = firewall /\ late' = late
      /\ lock' \in {lock, w, Nobody}
  BY DEF files, host, Acquire, Release,
     Prepare, Replace, RestartApplyingSaved, OpenFirewallForPort, CaptureFirewall, Arm, Schedule,
     ArmFails
<1>2. ASSUME NEW l \in {"record", "saved", "planned", "arm", "armrec", "pend", "offer", "plain"}
      PROVE  l \in Locking \cup Unlocked /\ RestoreOK(l, journal, firewall)
  BY DEF Locking, Unlocked, Saving, Arming, RestoreOK
<1>3. CASE Prepare(w)
  <2>. DEFINE new == NewRecord(mem[w].backup, mem[w].bytes)
              continued == ContinuedRecord(journal)
              n == IF mem[w].backup = NoBackup THEN 0 ELSE ServerIdentity(TRUE)
              rec == IF continued
                     THEN [new EXCEPT !.before = journal.before, !.server = journal.server]
                     ELSE [new EXCEPT !.server = n]
              m == [mem[w] EXCEPT !.cont = continued, !.rec = rec]
  <2>1. /\ n \in Nat /\ journal.before \in Files /\ journal.server \in Nat
        /\ continued \in BOOLEAN
    BY RecordFields DEF ServerIdentity, ContinuedRecord, TypeOK, HostOK
  <2>. HIDE DEF n, continued
  <2>2. rec \in Records /\ Untouched(rec)
    <3>1. new \in Records /\ new.phase = "applied"
      BY NewRecordType, NewRecordFields
    <3>. HIDE DEF new
    <3>. QED BY <2>1, <3>1 DEF Records, Untouched
  <2>. HIDE DEF rec
  <2>3. m \in Memory /\ m.rec = rec
    BY <2>1, <2>2 DEF Memory
  <2>. HIDE DEF m
  <2>4. Goto(w, "record") /\ Remember(w, m)
    BY <1>3 DEF Prepare, m, rec, new, n, continued
  <2>5. WindowOK("record", m, journal, firewall, late)
    BY EasyPlaces DEF Easy
  <2>. QED BY <1>1, <1>2, <2>2, <2>3, <2>4, <2>5, Still
<1>4. CASE Replace(w)
  <2>. DEFINE m == [Blank EXCEPT !.backup = mem[w].backup]
  <2>1. m \in Memory /\ m.rec = NoRecord /\ m.plan = NoPlan
    BY BlankMemory DEF Memory, Blank
  <2>. HIDE DEF m
  <2>2. Goto(w, "saved") /\ Remember(w, m) /\ journal.status # "pending"
    BY <1>4 DEF m, Replace, Step, Saving
  <2>3. WindowOK("saved", m, journal, firewall, late)
    BY <2>1, <2>2 DEF WindowOK, Arming, Keeping, Deciding
  <2>. QED BY <1>1, <1>2, <2>1, <2>2, <2>3, UntouchedValues, Still
<1>5. CASE RestartApplyingSaved(w)
  <2>1. CASE RestartRollback
    <3>. DEFINE m == [mem[w] EXCEPT !.backup = journal.backup, !.resume = TRUE]
    <3>1. m \in Memory /\ m.rec = mem[w].rec /\ m.plan = mem[w].plan
      BY RecordFields DEF Memory
    <3>. HIDE DEF m
    <3>2. Goto(w, "saved") /\ Remember(w, m) /\ journal.status # "pending" /\ pc[w] = "idle"
      BY <1>5, <2>1 DEF m, RestartApplyingSaved, RestartRollback
    <3>3. WindowOK("saved", m, journal, firewall, late)
      BY <3>1, <3>2 DEF WindowOK, Arming, Keeping, Deciding
    <3>. QED BY <1>1, <1>2, <3>1, <3>2, <3>3, Still
  <2>2. CASE ~RestartRollback
    <3>1. Goto(w, "plain") /\ mem' = mem
      BY <1>5, <2>2 DEF RestartApplyingSaved
    <3>2. WindowOK("plain", mem[w], journal, firewall, late)
      BY EasyPlaces DEF Easy
    <3>. QED BY <1>1, <1>2, <3>1, <3>2, Still
  <2>. QED BY <2>1, <2>2
<1>6. CASE OpenFirewallForPort(w)
  <2>1. Goto(w, "planned") /\ pc[w] = "saved"
    BY <1>6 DEF OpenFirewallForPort
  <2>2. mem[w].plan = NoPlan /\ journal.status # "pending"
    BY <2>1 DEF WindowOK
  <2>3. CASE mem' = mem
    <3>1. WindowOK("planned", mem[w], journal, firewall, late)
      BY <2>2 DEF WindowOK, Arming, Keeping, Deciding
    <3>. QED BY <1>1, <1>2, <2>1, <2>3, <3>1, Still
  <2>4. CASE mem' # mem
    <3>. DEFINE r == WiderRule
                m == [mem[w] EXCEPT !.plan = r]
    <3>1. r \in Plans /\ firewall \subseteq r.wide
      BY WidenedType DEF WiderRule
    <3>. HIDE DEF r
    <3>2. m \in Memory /\ m.rec = mem[w].rec /\ m.plan = r
      BY <3>1 DEF Memory
    <3>3. Remember(w, m)
      BY <1>6, <2>4 DEF OpenFirewallForPort, r
    <3>. HIDE DEF m
    <3>4. WindowOK("planned", m, journal, firewall, late)
      BY <2>2, <3>1, <3>2 DEF WindowOK, Arming, Keeping, Deciding
    <3>. QED BY <1>1, <1>2, <2>1, <3>2, <3>3, <3>4, Still
  <2>. QED BY <2>3, <2>4
<1>7. CASE CaptureFirewall(w)
  <2>. DEFINE m == [mem[w] EXCEPT !.captured = firewall]
  <2>1. m \in Memory /\ m.rec = mem[w].rec /\ m.plan = mem[w].plan /\ m.captured = firewall
    BY DEF Memory
  <2>2. Goto(w, "arm") /\ Remember(w, m) /\ pc[w] = "planned"
    BY <1>7 DEF CaptureFirewall
  <2>. HIDE DEF m
  <2>3. WindowOK("arm", m, journal, firewall, late)
    BY <2>1, <2>2 DEF WindowOK, Arming, Keeping, Deciding
  <2>. QED BY <1>1, <1>2, <2>1, <2>2, <2>3, Still
<1>8. CASE Arm(w)
  <2>. DEFINE rec == IF journal.status = "prepared" THEN journal
                     ELSE NewRecord(mem[w].backup, live)
              m == [mem[w] EXCEPT !.rec = rec]
  <2>1. rec \in Records /\ Untouched(rec)
    BY NewRecordType, NewRecordFields DEF Untouched
  <2>. HIDE DEF rec
  <2>2. m \in Memory /\ m.rec = rec /\ m.plan = mem[w].plan /\ m.captured = mem[w].captured
    BY <2>1 DEF Memory
  <2>. HIDE DEF m
  <2>3. Goto(w, "armrec") /\ Remember(w, m) /\ pc[w] = "arm"
    BY <1>8 DEF Arm, m, rec
  <2>4. WindowOK("armrec", m, journal, firewall, late)
    BY <2>2, <2>3 DEF WindowOK, Arming, Keeping, Deciding
  <2>. QED BY <1>1, <1>2, <2>1, <2>2, <2>3, <2>4, Still
<1>9. CASE Schedule(w)
  <2>1. Goto(w, "pend") /\ mem' = mem /\ pc[w] = "sched"
    BY <1>9 DEF Schedule
  <2>2. WindowOK("pend", mem[w], journal, firewall, late)
    BY <2>1 DEF WindowOK, Arming, Keeping, Deciding
  <2>. QED BY <1>1, <1>2, <2>1, <2>2, Still
<1>10. CASE ArmFails(w)
  <2>1. CASE mem[w].resume
    <3>1. Goto(w, "offer") /\ mem' = mem /\ pc[w] \in {"planned"} \cup Arming
      BY <1>10, <2>1 DEF ArmFails
    <3>2. WindowOK("offer", mem[w], journal, firewall, late)
      BY <3>1 DEF WindowOK, Arming, Keeping, Deciding
    <3>. QED BY <1>1, <1>2, <3>1, <3>2, Still
  <2>2. CASE ~mem[w].resume
    <3>1. Goto(w, "idle") /\ Remember(w, Blank)
      BY <1>10, <2>2 DEF ArmFails, Finish
    <3>2. "idle" \in Unlocked /\ RestoreOK("idle", journal, firewall) /\ Untouched(Blank.rec)
      BY BlankMemory, UntouchedValues DEF Unlocked, RestoreOK
    <3>. QED BY <1>1, <3>1, <3>2, BlankMemory, EasyPlaces, Still
  <2>. QED BY <2>1, <2>2
<1>. QED BY <1>3, <1>4, <1>5, <1>6, <1>7, <1>8, <1>9, <1>10

(* The window decides: a restore that began before it took the mutex began *)
(* after the deadline, and the window finds that out.                      *)
LEMMA DecidingSteps ==
    ASSUME IndInv, NEW w \in Windows, Reopen(w),
           RestartService(w) \/ SetDeadline(w) \/ NoQuestion(w) \/ Answer(w) \/ ConfirmBegin(w)
    PROVE  Reopen(w)'
<1>. w \in Processes BY DEF Processes
<1>. TypeOK /\ Steps BY DEF IndInv
<1>. mem[w] \in Memory BY DEF TypeOK, ProcessesOK
<1>. /\ Untouched(mem[w].rec) /\ WindowOK(pc[w], mem[w], journal, firewall, late)
  BY DEF Reopen
<1>1. /\ journal' = journal /\ firewall' = firewall /\ late' = late
      /\ lock' \in {lock, w, Nobody}
  BY DEF files, host, Acquire, RestartService, SetDeadline, NoQuestion, Answer, ConfirmBegin
<1>2. CASE Finish(w)
  <2>1. "idle" \in Unlocked /\ RestoreOK("idle", journal, firewall) /\ Untouched(Blank.rec)
    BY BlankMemory, UntouchedValues DEF Unlocked, RestoreOK
  <2>. QED BY <1>1, <1>2, <2>1, BlankMemory, EasyPlaces, Still DEF Finish
<1>3. CASE ~Finish(w)
  <2>1. PICK l \in {"restarted", "answer", "confirm", "restore", "keep"} :
           /\ Goto(w, l) /\ mem' = mem
           /\ l # "keep" => pc[w] \in Deciding
           /\ l = "keep" => pc[w] \in Deciding /\ journal.status = "pending" /\ ~late
    BY <1>3 DEF RestartService, SetDeadline, NoQuestion, Answer, ConfirmBegin, Deciding,
       Confirmable, Mine, Pending
  <2>2. WindowOK(l, mem[w], journal, firewall, late)
    BY <2>1 DEF WindowOK, Arming, Keeping, Deciding
  <2>3. l \in Locking \cup Unlocked /\ RestoreOK(l, journal, firewall)
    BY DEF Locking, Unlocked, Keeping, RestoreOK
  <2>. QED BY <1>1, <2>1, <2>2, <2>3, Still
<1>. QED BY <1>2, <1>3

(* The window changes the rule: with no record pending, to a rule that     *)
(* holds the record's, or before any restore of the record.                *)
LEMMA RuleSteps ==
    ASSUME IndInv, NEW w \in Windows, Reopen(w),
           SaveOnly(w) \/ RestartAnyway(w) \/ Apply(w) \/ Keep(w)
    PROVE  Reopen(w)'
<1>. w \in Processes /\ Task \in Processes /\ Task # w
  BY RecoveryAssumption DEF Processes
<1>. TypeOK /\ Steps BY DEF IndInv
<1>. mem[w] \in Memory BY DEF TypeOK, ProcessesOK
<1>. /\ Untouched(mem[w].rec) /\ WindowOK(pc[w], mem[w], journal, firewall, late) /\ Step(w)
     /\ Untouched(journal) /\ RuleBack
  BY DEF Reopen, Steps
<1>1. /\ journal' = journal /\ late' = late /\ lock' = lock
  BY DEF files, SaveOnly, RestartAnyway, Apply, Keep
<1>2. PICK l \in {"idle", "plain", "restart", "commit"}, m \in {mem[w], Blank} :
         /\ Goto(w, l) /\ (Remember(w, m) \/ (mem' = mem /\ m = mem[w]))
         /\ l = "idle" => m = Blank
         /\ l \in {"idle", "plain"} => pc[w] \in {"planned", "offer"}
         /\ l = "restart" => pc[w] = "apply"
         /\ l = "commit" => pc[w] = "keep"
  BY DEF SaveOnly, RestartAnyway, Apply, Keep, Finish
<1>3. l \in Locking \cup Unlocked /\ m \in Memory /\ Untouched(m.rec)
  BY BlankMemory, UntouchedValues DEF Locking, Unlocked, Keeping
<1>4. /\ pc'[w] = l /\ mem'[w] = m
      /\ \A q \in Processes \ {w} : pc'[q] = pc[q] /\ mem'[q] = mem[q]
  BY <1>1, <1>2, <1>3, Goes DEF TypeOK
<1>5. WindowOK(l, m, journal, firewall', late)
  BY <1>2 DEF WindowOK, Arming, Keeping, Deciding, Blank
<1>6. RestoreOK(l, journal, firewall')
  BY DEF RestoreOK
<1>7. \/ lock \in {w, Nobody} /\ journal.phase = "applied"
      \/ journal.status # "pending"
      \/ firewall' = firewall \/ journal.firewall \subseteq firewall'
  <2>1. CASE l \in {"idle", "plain"}
    BY <1>2, <2>1 DEF WindowOK
  <2>2. CASE l = "restart"
    <3>1. Apply(w)
      BY <1>2, <2>2 DEF SaveOnly, RestartAnyway, Apply, Keep
    <3>2. /\ firewall' = Widened(w) /\ journal.firewall = mem[w].captured
          /\ (mem[w].plan = NoPlan \/ mem[w].captured \subseteq mem[w].plan.wide)
      BY <3>1 DEF Apply, WindowOK
    <3>. QED BY <3>2 DEF Widened
  <2>3. CASE l = "commit"
    BY <1>2, <2>3 DEF WindowOK, Step, Locking, Keeping
  <2>. QED BY <2>1, <2>2, <2>3
<1>8. RuleBack'
  BY <1>1, <1>7 DEF RuleBack, Pending
<1>9. pc'[Task] \in Restoring => late'
  BY <1>1, <1>4 DEF Reopen
<1>10. /\ WindowOK(pc'[w], mem'[w], journal', firewall', late')
       /\ RestoreOK(pc'[w], journal', firewall')
       /\ Untouched(mem'[w].rec) /\ Untouched(journal')
  BY <1>1, <1>3, <1>4, <1>5, <1>6
<1>. QED BY <1>1, <1>4, <1>7, <1>8, <1>9, <1>10, ReopenMoves

(* The window writes the journal under the mutex: nobody restores.         *)
LEMMA RecordSteps ==
    ASSUME IndInv, NEW w \in Windows, Reopen(w),
           PrepareRecord(w) \/ Unprepare(w) \/ ArmWrite(w) \/ Pend(w) \/ Commit(w) \/ Abandon(w)
    PROVE  Reopen(w)'
<1>. w \in Processes /\ Task \in Processes /\ Task # w
  BY RecoveryAssumption DEF Processes
<1>. TypeOK /\ Steps BY DEF IndInv
<1>. /\ mem[w] \in Memory /\ journal \in Records /\ mem[w].rec \in Records
     /\ mem[w].captured \in SUBSET AllPorts /\ mem[w].rec.id \in Nat
  BY MemoryFields, RecordFields DEF TypeOK, FilesOK, ProcessesOK
<1>. /\ Untouched(mem[w].rec) /\ WindowOK(pc[w], mem[w], journal, firewall, late) /\ Step(w)
     /\ Untouched(journal) /\ RuleBack
  BY DEF Reopen, Steps
<1>1. /\ firewall' = firewall /\ (late' = late \/ lock = w) /\ lock' \in {lock, w, Nobody}
  BY DEF host, Acquire, Release, PrepareRecord, Unprepare, ArmWrite, Pend, Commit, Abandon, Step,
     Locking, Arming
<1>2. lock \in {w, Nobody} \/ journal' = journal
  BY DEF PrepareRecord, Unprepare, ArmWrite, Pend, Commit, Abandon, Acquire, Step,
     Locking, Saving, Arming, Keeping
<1>3. ASSUME NEW l \in (Locking \cup Unlocked) \ Restoring, NEW m \in Memory,
             Goto(w, l), Remember(w, m) \/ (mem' = mem /\ m = mem[w]),
             Untouched(m.rec), Untouched(journal'), RuleBack',
             WindowOK(l, m, journal', firewall, late')
      PROVE  Reopen(w)'
  <2>1. /\ pc'[w] = l /\ mem'[w] = m
        /\ \A q \in Processes \ {w} : pc'[q] = pc[q] /\ mem'[q] = mem[q]
    BY <1>1, <1>3, Goes DEF TypeOK
  <2>2. RestoreOK(pc'[w], journal', firewall')
    BY <1>3, <2>1 DEF RestoreOK, Restoring
  <2>3. pc'[Task] \in Restoring => late'
    <3>1. CASE late' = late
      BY <2>1, <3>1 DEF Reopen
    <3>2. CASE lock = w
      BY <2>1, <3>2 DEF Steps, Step, Locking
    <3>. QED BY <1>1, <3>1, <3>2
  <2>. QED BY <1>1, <1>2, <1>3, <2>1, <2>2, <2>3, ReopenMoves
<1>4. /\ "check" \notin Restoring /\ "idle" \notin Restoring /\ "sched" \notin Restoring
      /\ "apply" \notin Restoring /\ "disarm" \notin Restoring /\ "restore" \notin Restoring
  BY DEF Restoring
<1>5. /\ "check" \in Locking /\ "idle" \in Unlocked /\ "sched" \in Locking /\ "apply" \in Unlocked
      /\ "disarm" \in Locking /\ "restore" \in Unlocked
  BY DEF Locking, Unlocked, Saving, Arming
<1>6. CASE PrepareRecord(w)
  <2>. DEFINE m == [mem[w] EXCEPT !.rec = journal, !.id = mem[w].rec.id]
  <2>1. m \in Memory /\ m.rec = journal
    BY DEF Memory
  <2>. HIDE DEF m
  <2>2. /\ mem[w].rec.status = "prepared" /\ journal' = mem[w].rec
        /\ Goto(w, "check") /\ Remember(w, m)
    BY <1>6 DEF PrepareRecord, Step, m
  <2>3. RuleBack'
    BY <2>2 DEF RuleBack, Pending
  <2>4. WindowOK("check", m, journal', firewall, late')
    BY EasyPlaces DEF Easy
  <2>. QED BY <1>3, <1>4, <1>5, <2>1, <2>2, <2>3, <2>4
<1>7. CASE Unprepare(w)
  <2>1. /\ journal.status # "pending" /\ mem[w].rec.status # "pending"
        /\ journal' \in {journal, mem[w].rec} /\ Goto(w, "idle") /\ Remember(w, Blank)
    BY <1>7 DEF Unprepare, Finish, Step, Saving
  <2>2. RuleBack' /\ Untouched(journal')
    BY <2>1 DEF RuleBack, Pending
  <2>3. Blank \in Memory /\ Untouched(Blank.rec)
    BY BlankMemory, UntouchedValues
  <2>4. WindowOK("idle", Blank, journal', firewall, late')
    BY EasyPlaces
  <2>. QED BY <1>3, <1>4, <1>5, <2>1, <2>2, <2>3, <2>4
<1>8. CASE ArmWrite(w)
  <2>. DEFINE m == [mem[w] EXCEPT !.id = mem[w].rec.id]
  <2>1. m \in Memory /\ m.rec = mem[w].rec /\ m.plan = mem[w].plan /\ m.captured = mem[w].captured
    BY DEF Memory
  <2>. HIDE DEF m
  <2>2. /\ mem[w].rec.status = "prepared" /\ Goto(w, "sched") /\ Remember(w, m)
        /\ journal' = [mem[w].rec EXCEPT !.firewall = mem[w].captured] /\ pc[w] = "armrec"
    BY <1>8 DEF ArmWrite, Step, m
  <2>3. /\ journal'.status = "prepared" /\ journal'.firewall = mem[w].captured
        /\ Untouched(journal')
    BY <2>2, RuleFields, UntouchedValues
  <2>4. RuleBack'
    BY <2>3 DEF RuleBack, Pending
  <2>5. WindowOK("sched", m, journal', firewall, late')
    BY <2>1, <2>2, <2>3 DEF WindowOK, Arming, Keeping, Deciding
  <2>. QED BY <1>3, <1>4, <1>5, <2>1, <2>2, <2>3, <2>4, <2>5
<1>9. CASE Pend(w)
  <2>1. /\ journal.status = "prepared" /\ Goto(w, "apply") /\ mem' = mem
        /\ journal' = [journal EXCEPT !.status = "pending"] /\ pc[w] = "pend"
    BY <1>9 DEF Pend, Step
  <2>2. journal.phase = "applied"
    BY <2>1 DEF Untouched
  <2>3. /\ journal'.status = "pending" /\ journal'.phase = "applied"
        /\ journal'.firewall = journal.firewall
    BY <2>1, <2>2, RuleFields
  <2>4. RuleBack' /\ Untouched(journal')
    BY <2>3 DEF RuleBack, Untouched
  <2>5. WindowOK("apply", mem[w], journal', firewall, late')
    BY <2>1, <2>3 DEF WindowOK, Arming, Keeping, Deciding
  <2>. QED BY <1>3, <1>4, <1>5, <2>1, <2>4, <2>5
<1>10. CASE Commit(w)
  <2>1. PICK l \in {"disarm", "restore"} : Goto(w, l) /\ mem' = mem
    BY <1>10 DEF Commit
  <2>2. journal' = journal \/ journal' = [journal EXCEPT !.status = "confirmed"]
    BY <1>10 DEF Commit
  <2>3. RuleBack' /\ Untouched(journal')
    <3>1. CASE journal' = journal
      BY <1>1, <3>1 DEF RuleBack, Pending
    <3>2. CASE journal' = [journal EXCEPT !.status = "confirmed"]
      <4>1. journal'.status = "confirmed"
        BY <3>2, RuleFields
      <4>. QED BY <4>1 DEF RuleBack, Pending, Untouched
    <3>. QED BY <2>2, <3>1, <3>2
  <2>4. WindowOK(l, mem[w], journal', firewall, late')
    BY EasyPlaces DEF Easy
  <2>. QED BY <1>3, <1>4, <1>5, <2>1, <2>3, <2>4
<1>11. CASE Abandon(w)
  <2>1. CASE lock = Nobody /\ Mine(w)
    <3>1. Goto(w, "disarm") /\ mem' = mem /\ journal' = [journal EXCEPT !.status = "abandoned"]
      BY <1>11, <2>1 DEF Abandon
    <3>2. journal'.status = "abandoned"
      BY <3>1, RuleFields
    <3>3. RuleBack' /\ Untouched(journal')
      BY <3>2 DEF RuleBack, Pending, Untouched
    <3>4. WindowOK("disarm", mem[w], journal', firewall, late')
      BY EasyPlaces DEF Easy
    <3>. QED BY <1>3, <1>4, <1>5, <3>1, <3>3, <3>4
  <2>2. CASE ~(lock = Nobody /\ Mine(w))
    <3>1. Goto(w, "idle") /\ Remember(w, Blank) /\ journal' = journal
      BY <1>11, <2>2 DEF Abandon, Acquire, Finish
    <3>2. RuleBack' /\ Untouched(journal')
      BY <1>1, <3>1 DEF RuleBack, Pending
    <3>3. Blank \in Memory /\ Untouched(Blank.rec)
      BY BlankMemory, UntouchedValues
    <3>4. WindowOK("idle", Blank, journal', firewall, late')
      BY EasyPlaces
    <3>. QED BY <1>3, <1>4, <1>5, <3>1, <3>2, <3>3, <3>4
  <2>. QED BY <2>1, <2>2
<1>. QED BY <1>6, <1>7, <1>8, <1>9, <1>10, <1>11

(* The steps of a restore, by the window or by the task, that write the    *)
(* journal or the rule, or end it: the window is at an easy place, or it   *)
(* is the task that restores and the deadline has passed.                  *)
LEMMA RestoreSteps ==
    ASSUME IndInv, NEW w \in Windows, Windows = {w}, Reopen(w), NEW p \in Processes,
           RecoverPhase(p) \/ RecoverFirewall(p) \/ RecoverPhase2(p) \/ RecoverRestart(p) \/
           RecoverDone(p)
    PROVE  Reopen(w)'
<1>. w \in Processes /\ Task \in Processes /\ Task # w /\ Processes = {w, Task}
  BY RecoveryAssumption DEF Processes
<1>. TypeOK /\ Steps BY DEF IndInv
<1>. /\ mem[p] \in Memory /\ journal \in Records /\ journal.phase \in Phases
  BY RecordFields DEF TypeOK, FilesOK, ProcessesOK
<1>. /\ Untouched(mem[p].rec) /\ WindowOK(pc[w], mem[w], journal, firewall, late) /\ Step(p)
     /\ Untouched(journal) /\ RuleBack /\ RestoreOK(pc[p], journal, firewall)
  BY DEF Reopen, Steps
<1>1. /\ late' = late /\ lock' = lock /\ mem' = mem /\ pc[p] \in Restoring
  BY DEF files, host, RecoverPhase, RecoverFirewall, RecoverPhase2, RecoverRestart, RecoverDone,
     Restoring
<1>2. lock = p /\ journal.status = "pending" /\ \A q \in Processes \ {p} : pc[q] \notin Locking
  BY <1>1 DEF Steps, Step, Locking
<1>3. PICK l \in Locking : Goto(p, l) /\ l \in Restoring \cup {"disarm"}
  BY DEF RecoverPhase, RecoverFirewall, RecoverPhase2, RecoverRestart, RecoverDone,
     Restoring, Locking
<1>4. /\ pc'[p] = l /\ mem'[p] = mem[p]
      /\ \A q \in Processes \ {p} : pc'[q] = pc[q] /\ mem'[q] = mem[q]
  BY <1>1, <1>3, Goes DEF TypeOK
<1>5. journal'.firewall = journal.firewall /\ journal'.status \in {"pending", "restored"}
  <2>1. \/ journal' = journal \/ journal' = [journal EXCEPT !.status = "restored"]
        \/ \E x \in Phases : journal' = [journal EXCEPT !.phase = x]
    <3>1. CASE RecoverPhase(p) \/ RecoverPhase2(p)
      BY <3>1 DEF RecoverPhase, RecoverPhase2, Phases
    <3>2. CASE RecoverFirewall(p) \/ RecoverRestart(p) \/ RecoverDone(p)
      BY <3>2 DEF RecoverFirewall, RecoverRestart, RecoverDone, files
    <3>. QED BY <3>1, <3>2
  <2>2. CASE journal' = [journal EXCEPT !.status = "restored"]
    <3>1. journal'.firewall = journal.firewall /\ journal'.status = "restored"
      BY <2>2 DEF Records
    <3>. QED BY <3>1
  <2>3. ASSUME NEW x \in Phases, journal' = [journal EXCEPT !.phase = x]
        PROVE  journal'.firewall = journal.firewall /\ journal'.status = "pending"
    BY <1>2, <2>3, RuleFields
  <2>4. CASE journal' = journal
    BY <1>2, <2>4
  <2>. QED BY <2>1, <2>2, <2>3, <2>4
<1>6. Untouched(journal')
  BY <1>5 DEF Untouched
<1>7. WindowOK(pc'[w], mem'[w], journal', firewall', late')
  <2>1. CASE p = w
    BY <1>3, <1>4, <2>1, EasyPlaces DEF Easy
  <2>2. CASE p = Task
    <3>1. /\ pc[w] \notin Locking /\ late /\ pc'[w] = pc[w] /\ mem'[w] = mem[w]
      BY <1>1, <1>2, <1>4, <2>2 DEF Reopen
    <3>. QED BY <1>1, <1>2, <1>5, <3>1 DEF WindowOK, Locking, Arming, Keeping
  <2>. QED BY <2>1, <2>2
<1>8. RestoreOK(pc'[p], journal', firewall') /\ RuleBack'
  <2>1. CASE RecoverPhase(p)
    <3>1. /\ l = IF journal.phase = "firewall-restored" THEN "rrestart" ELSE "rfirewall"
          /\ firewall' = firewall
          /\ journal'.phase =
                IF journal.phase = "applied" THEN "configuration-restored" ELSE journal.phase
      BY <1>3, <1>4, <2>1, RuleFields, GotoMoves DEF RecoverPhase, host, TypeOK, Locking, Restoring
    <3>. QED BY <1>2, <1>4, <1>5, <3>1 DEF RestoreOK, RuleBack, Pending
  <2>2. CASE RecoverFirewall(p)
    <3>1. l = "rphase2" /\ firewall' = journal.firewall /\ journal' = journal
      BY <1>3, <1>4, <2>2, GotoMoves DEF RecoverFirewall, files, TypeOK, Locking, Restoring
    <3>. QED BY <1>4, <3>1 DEF RestoreOK, RuleBack
  <2>3. CASE RecoverPhase2(p)
    <3>1. /\ l = "rrestart" /\ firewall' = firewall /\ journal'.phase = "firewall-restored"
          /\ journal.firewall \subseteq firewall
      BY <1>3, <1>4, <2>3, RuleFields, GotoMoves DEF RecoverPhase2, host, TypeOK, Locking,
         Restoring, RestoreOK
    <3>. QED BY <1>4, <1>5, <3>1 DEF RestoreOK, RuleBack
  <2>4. CASE RecoverRestart(p)
    <3>1. /\ l = "rdone" /\ firewall' = firewall /\ journal' = journal
          /\ journal.phase = "firewall-restored"
      BY <1>3, <1>4, <2>4, GotoMoves DEF RecoverRestart, TypeOK, Locking, Restoring, RestoreOK
    <3>. QED BY <1>4, <3>1 DEF RestoreOK, RuleBack, Pending
  <2>5. CASE RecoverDone(p)
    <3>1. l = "disarm" /\ journal'.status = "restored"
      BY <1>3, <1>4, <2>5, RuleFields, GotoMoves DEF RecoverDone, TypeOK, Locking
    <3>. QED BY <1>4, <3>1 DEF RestoreOK, RuleBack, Pending
  <2>. QED BY <2>1, <2>2, <2>3, <2>4, <2>5
<1>9. pc'[Task] \in Restoring => late'
  BY <1>1, <1>4 DEF Reopen
<1>. QED BY <1>2, <1>4, <1>6, <1>7, <1>8, <1>9, ReopenMoves

(* The other steps of the task: it begins, puts the file back, fails,      *)
(* dies, or has finished.                                                  *)
LEMMA TaskSteps ==
    ASSUME IndInv, NEW w \in Windows, Reopen(w),
           RecoverBegin(Task) \/ RecoverLive(Task) \/ RecoverFails(Task) \/ Crash(Task) \/
           Disarm(Task)
    PROVE  Reopen(w)'
<1>. w \in Processes /\ Task \in Processes /\ Task # w
  BY RecoveryAssumption DEF Processes
<1>. TypeOK /\ Steps BY DEF IndInv
<1>. mem[Task] \in Memory BY DEF TypeOK, ProcessesOK
<1>1. journal' = journal /\ firewall' = firewall /\ late' = late /\ lock' \in {lock, Task, Nobody}
  BY DEF files, host, Acquire, Release, RecoverBegin, RecoverLive, RecoverFails, Crash, Disarm
<1>2. PICK l \in {"idle", "rphase", "rlive"}, m \in {mem[Task], Blank} :
         /\ Goto(Task, l) /\ (Remember(Task, m) \/ (mem' = mem /\ m = mem[Task]))
         /\ l # "idle" => late
  BY DEF RecoverBegin, MayRecover, RecoverLive, RecoverFails, Crash, Disarm, Finish, Reopen,
     Restoring
<1>3. l \in Locking \cup Unlocked /\ m \in Memory /\ Untouched(m.rec)
  BY BlankMemory, UntouchedValues DEF Locking, Unlocked, Restoring, Reopen
<1>4. /\ pc'[Task] = l /\ mem'[Task] = m
      /\ \A q \in Processes \ {Task} : pc'[q] = pc[q] /\ mem'[q] = mem[q]
  BY <1>1, <1>2, <1>3, Goes DEF TypeOK
<1>5. /\ Untouched(journal') /\ RuleBack' /\ WindowOK(pc'[w], mem'[w], journal', firewall', late')
  BY <1>1, <1>4 DEF Reopen, RuleBack, Pending
<1>6. RestoreOK(pc'[Task], journal', firewall') /\ (pc'[Task] \in Restoring => late')
  BY <1>1, <1>2, <1>4 DEF RestoreOK, Restoring
<1>. QED BY <1>1, <1>3, <1>4, <1>5, <1>6, ReopenMoves

(* The rest of the machine touches neither the journal nor the rule.       *)
LEMMA ReopenOutside ==
    ASSUME IndInv, NEW w \in Windows, Reopen(w),
           OutsideEdit \/ ServiceRestart \/ ServiceStops \/ DeadlinePasses \/ SecondPasses \/
           UNCHANGED vars
    PROVE  Reopen(w)'
<1>1. journal' = journal /\ firewall' = firewall /\ (late => late') /\ pc' = pc /\ mem' = mem
  BY DEF OutsideEdit, ServiceRestart, ServiceStops, DeadlinePasses, SecondPasses, vars, files,
     host, procs
<1>2. WindowOK(pc'[w], mem'[w], journal', firewall', late')
  BY <1>1 DEF Reopen, WindowOK
<1>. QED BY <1>1, <1>2 DEF Reopen, RuleBack, Pending

(* Every step keeps the invariant, with one window.                        *)
LEMMA ReopenInductive ==
    ASSUME NEW w, Windows = {w}, IndInv, Reopen(w), [Next]_vars PROVE Reopen(w)'
<1>. w \in Windows OBVIOUS
<1>1. ASSUME NEW v \in Windows, Window(v) PROVE Reopen(w)'
  <2>1. Window(w)
    BY <1>1
  <2>. QED BY <2>1, EasySteps, PlanningSteps, DecidingSteps, RuleSteps, RecordSteps DEF Window
<1>2. ASSUME NEW p \in Processes, LockedStep(p) \/ RecoverBegin(p) \/ RecoverFails(p) \/ Crash(p)
      PROVE  Reopen(w)'
  <2>1. CASE RecoverPhase(p) \/ RecoverFirewall(p) \/ RecoverPhase2(p) \/ RecoverRestart(p) \/
             RecoverDone(p)
    BY <2>1, RestoreSteps
  <2>2. CASE RecoverBegin(p) \/ RecoverLive(p) \/ RecoverFails(p) \/ Crash(p) \/ Disarm(p)
    <3>1. CASE p = w
      BY <2>2, <3>1, EasySteps
    <3>2. CASE p = Task
      BY <2>2, <3>2, TaskSteps
    <3>. QED BY <3>1, <3>2 DEF Processes
  <2>3. CASE p \in Windows /\ (SaveStep(p) \/ ArmStep(p) \/ KeepStep(p))
    <3>1. SaveStep(w) \/ ArmStep(w) \/ KeepStep(w)
      BY <2>3
    <3>. QED BY <3>1, EasySteps, PlanningSteps, RuleSteps, RecordSteps
         DEF SaveStep, ArmStep, KeepStep
  <2>. QED BY <1>2, <2>1, <2>2, <2>3 DEF LockedStep, RestoreStep
<1>3. CASE \/ OutsideEdit \/ ServiceRestart \/ ServiceStops \/ DeadlinePasses
           \/ SecondPasses \/ UNCHANGED vars
  BY <1>3, ReopenOutside
<1>. QED BY <1>1, <1>2, <1>3 DEF Next

(* At the start nothing is planned, pending or restored.                   *)
LEMMA ReopenInit == ASSUME NEW w \in Windows PROVE Init => Reopen(w)
<1>. SUFFICES ASSUME Init PROVE Reopen(w)
  OBVIOUS
<1>. w \in Processes /\ Task \in Processes
  BY DEF Processes
<1>1. ASSUME NEW p \in Processes
      PROVE  pc[p] = "idle" /\ mem[p] = Blank
  BY DEF Init
<1>2. Untouched(journal) /\ Untouched(Blank.rec) /\ RuleBack
  BY BlankMemory, UntouchedValues DEF Init, RuleBack, Pending, NoRecord
<1>3. WindowOK(pc[w], mem[w], journal, firewall, late)
  BY <1>1, EasyPlaces
<1>4. "idle" \notin Restoring /\ RestoreOK("idle", journal, firewall)
  BY DEF Restoring, RestoreOK
<1>. QED BY <1>1, <1>2, <1>3, <1>4 DEF Reopen

(* A change becomes restored at the last step of a restore, whose rule is  *)
(* back.                                                                   *)
LEMMA RestoredReopened ==
    ASSUME NEW w \in Windows, IndInv, Reopen(w), [Next]_vars, Pending,
           journal'.status = "restored"
    PROVE  journal.firewall \subseteq firewall
<1>1. PICK p \in Processes : RecoverDone(p)
  BY RestoredBy
<1>2. pc[p] = "rdone"
  BY <1>1 DEF RecoverDone
<1>3. journal.phase = "firewall-restored"
  BY <1>2 DEF Reopen, RestoreOK
<1>. QED BY <1>3 DEF Reopen, RuleBack

(* RestoreReopens (RecoverPending, ConfirmAsync, RestartWithRollback): with*)
(* one window, when a change is reported as restored every port that was   *)
(* open when it was armed is open again, whatever dies or fails, whoever   *)
(* edits the file and however late the window widens the rule.             *)
THEOREM RestoreReopensPorts == ASSUME NEW w, Windows = {w} PROVE Spec => RestoreReopens
<1>1. Init => IndInv /\ Reopen(w)
  BY InitInv, ReopenInit
<1>2. IndInv /\ Reopen(w) /\ [Next]_vars => (IndInv /\ Reopen(w))'
  BY Inductive, ReopenInductive
<1>3. IndInv /\ Reopen(w) /\ [Next]_vars =>
         [Pending /\ journal'.status = "restored" => journal.firewall \subseteq firewall]_vars
  BY RestoredReopened
<1>. QED BY <1>1, <1>2, <1>3, PTL DEF Spec, RestoreReopens

=============================================================================
