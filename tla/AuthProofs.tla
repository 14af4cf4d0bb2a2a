----------------------------- MODULE AuthProofs -----------------------------
(***************************************************************************)
(* The login as a whole: what the unprivileged child and the monitor keep  *)
(* in common although each works from its own copy of the lists of methods *)
(* and counts failures for itself.                                         *)
(***************************************************************************)
EXTENDS Auth, MonitorProofs

Core == {"AUTHPASSWORD", "KEYALLOWED", "KEYVERIFY", "GSSSETUP"}

AuthservRequest == [op |-> "AUTHSERV"]
KeyExport == [op |-> "KEYEXPORT"]

ChildRecord ==
    [pc : {"idle", "wait", "success", "exit", "dead"}, attempt : Nat, failures : Nat,
     valid : BOOLEAN, lists : Lists, used : SUBSET Keys, none : BOOLEAN, postponed : BOOLEAN,
     caused : BOOLEAN, handlers : SUBSET {"TOKEN", "ERRTOK", "MIC", "COMPLETE"},
     success : BOOLEAN, excused : BOOLEAN, cur : UserauthRequest, ask : Entry,
     why : {"none", "tries", "client", "internal", "methods", "nomethods", "killed"}]

\* The child by itself, and the pipes it writes and reads.
ChildType ==
    /\ child \in ChildRecord
    /\ toMon \in Seq(Request)
    /\ child.pc \in {"success", "exit"} => child.success
    /\ child.success => child.pc \in {"success", "exit", "dead"}
    /\ child.handlers # {} => child.attempt > 0
    /\ child.pc \in {"idle", "success", "exit"} => toChild = <<>>
    /\ toChild # <<>> => /\ toChild = <<Answer>>
                         /\ child.ask = "GSSSTEP" => Answer \in {"more", "error", "integ", "plain"}
                         /\ child.ask # "GSSSTEP" => Answer \in BOOLEAN

\* What is known of the request the child asks about.
Asking ==
    child.pc = "wait" =>
        /\ child.attempt > 0
        /\ child.ask \in {"KEYALLOWED", "KEYVERIFY"} => child.cur.method = "publickey"
        /\ child.ask \in Core => ~child.postponed /\ ~child.caused
        /\ child.ask = "AUTHPASSWORD" => \/ child.cur.method = "password"
                                         \/ child.cur.method = "none" /\ ~child.none

\* What the lists of the monitor are, or will be after the decision it is at.
Due == IF Undecided /\ conf.lists # <<>> THEN Remaining(mon.lists, mon.method) ELSE mon.lists

\* The handlers of the exchange are set only while the request they lead to is permitted.
Gates(handlers) ==
    /\ "TOKEN" \in handlers => "GSSSTEP" \in mon.permit
    /\ "COMPLETE" \in handlers => "GSSUSEROK" \in mon.permit
    /\ "MIC" \in handlers => "GSSCHECKMIC" \in mon.permit

GssListed(c) ==
    c.handlers # {} => /\ "gssapi-with-mic" \in conf.enabled
                       /\ auth2_method_allowed(c.lists, "gssapi-with-mic")

\* The monitor goes on with the child: the only request that may be on the way is the one
\* that names the service.
Onward(c, pipe) ==
    /\ pipe \in {<<>>, <<AuthservRequest>>}
    /\ pipe # <<>> => "AUTHSERV" \in mon.permit /\ c.handlers = {} /\ ~Undecided
    /\ pipe = <<>> => Core \subseteq mon.permit
    /\ mon.pc \in {"read", "decide"}
    /\ c.lists = Due /\ c.used = mon.used
    /\ Undecided => conf.lists # <<>> /\ ~Completes(mon.lists, mon.method)
    /\ GssListed(c)

Ready(c, pipe) == c.attempt > 0 /\ Onward(c, pipe) /\ Gates(c.handlers)

\* The method that a question of the child is for.
Tried(c, op) == IF op \in Gss THEN "gssapi-with-mic" ELSE c.cur.method

\* The question q is one that the monitor will answer.
Question(c, q) ==
    /\ q.op \in Core \cup Gss
    /\ q.op \notin Core => q.op \in mon.permit
    /\ q.op \in Gss => "gssapi-with-mic" \in conf.enabled
    /\ q.op = "AUTHPASSWORD" => /\ "password" \in conf.enabled
                                /\ c.cur.method = "none" => q.passwd = "empty"
    /\ q.op \in {"KEYALLOWED", "KEYVERIFY"} => q.key = c.cur.key
    /\ q.op = "KEYVERIFY" => mon.key = c.cur.key
    /\ Tried(c, q.op) # "none" => auth2_method_allowed(c.lists, Tried(c, q.op))

GssOver == {"GSSCHECKMIC", "GSSUSEROK"}

\* The child waits, with its question q behind what else is on the way.
Asked(c, pipe, q) ==
    /\ Question(c, q) /\ Onward(c, pipe)
    /\ q.op \in Core \/ pipe = <<>>
    /\ q.op \notin GssOver => Gates(c.handlers)

\* The credential was good, and the child has still to read so.
Won(c) ==
    /\ Core \subseteq mon.permit
    /\ mon.used = c.used \cup (IF c.ask = "KEYVERIFY" THEN {c.cur.key} ELSE {})
    /\ \/ mon.pc = "decide" /\ mon.ok /\ mon.lists = c.lists /\ mon.method = Tried(c, c.ask)
       \/ mon.pc = "keystate" /\ Enough(c, Tried(c, c.ask))
       \/ /\ mon.pc = "read" /\ ~Enough(c, Tried(c, c.ask))
          /\ mon.lists = Remaining(c.lists, Tried(c, c.ask))
    /\ c.ask \notin GssOver => GssListed(c) /\ Gates(c.handlers)

\* The child waits, and the answer a is there.
Told(c, a) ==
    /\ c.ask \in Core \cup Gss
    /\ c.ask = "KEYALLOWED" /\ a => mon.key = c.cur.key
    /\ c.ask = "GSSSTEP" => /\ a = "integ" => "GSSCHECKMIC" \in mon.permit
                            /\ a = "plain" => "GSSUSEROK" \in mon.permit
                            /\ a \in {"more", "error"} => "GSSSTEP" \in mon.permit
    /\ c.ask = "GSSSETUP" => "GSSSTEP" \in mon.permit
    /\ c.ask = "GSSCHECKMIC" /\ a => "GSSUSEROK" \in mon.permit
    /\ c.ask \in Gss => "gssapi-with-mic" \in conf.enabled
    /\ Tried(c, c.ask) # "none" => auth2_method_allowed(c.lists, Tried(c, c.ask))
    /\ IF c.ask \in AuthDecide /\ a = TRUE THEN Won(c)
       ELSE /\ Onward(c, <<>>) /\ ~Undecided
            /\ c.ask \notin GssOver \cup {"GSSSTEP"} => Gates(c.handlers)
            /\ c.ask = "GSSSTEP" => Gates(c.handlers \ {"TOKEN"})

\* Before the service is named.
Naming ==
    /\ mon.failures = 0 /\ ~Undecided /\ child.handlers = {} /\ child.used = {} /\ mon.used = {}
    /\ \/ /\ toMon = <<>> /\ toChild = <<>> /\ child.pc = "idle" /\ child.attempt = 0
          /\ mon.pc = "read" /\ mon.permit = {"PWNAM"}
       \/ /\ \E known \in BOOLEAN : toMon = <<[op |-> "PWNAM", known |-> known]>>
          /\ toChild = <<>> /\ mon.pc = "read" /\ mon.permit = {"PWNAM"}
          /\ child.pc = "wait" /\ child.ask = "PWNAM" /\ child.attempt = 1
       \/ /\ toMon = <<>> /\ \E known \in BOOLEAN : toChild = <<known>>
          /\ mon.pc \in {"decide", "read"} /\ "AUTHSERV" \in mon.permit
          /\ mon.lists = auth2_setup_methods_lists
          /\ child.pc = "wait" /\ child.ask = "PWNAM" /\ child.attempt = 1

\* The monitor has logged the user in, or is about to.
Admits ==
    \/ mon.pc = "keystate"
    \/ Undecided /\ (conf.lists = <<>> \/ Completes(mon.lists, mon.method))

\* The processes while the monitor lives.
Together ==
    \/ Naming
    \/ child.pc = "idle" /\ toChild = <<>> /\ Ready(child, toMon)
    \/ /\ child.pc = "wait" /\ toChild = <<>>
       /\ \E q \in Request, pipe \in {<<>>, <<AuthservRequest>>} :
             toMon = Append(pipe, q) /\ q.op = child.ask /\ Asked(child, pipe, q)
    \/ child.pc = "wait" /\ toMon = <<>> /\ toChild # <<>> /\ Told(child, Answer)
    \/ child.pc = "success" /\ toMon = <<>> /\ Admits
    \/ child.pc = "exit" /\ toMon = <<KeyExport>> /\ Admits
    \/ child.pc = "exit" /\ toMon = <<>> /\ mon.pc \in {"reap", "session"}
    \/ /\ child.pc = "dead" /\ ~child.success /\ toMon \in {<<>>, <<AuthservRequest>>}
       /\ mon.pc \in {"read", "decide", "keystate"}
       /\ toMon # <<>> => "AUTHSERV" \in mon.permit /\ mon.pc # "keystate" /\ ~Undecided

\* A credential awaiting its decision is one that a list waits for.
Listed == Undecided => conf.lists = <<>> \/ Found(mon.lists, mon.method)

\* The child has still to read that the credential was good, or that it was not.
Good == child.ask \in AuthDecide /\ toChild = <<TRUE>>
Bad == child.ask \in AuthDecide /\ toChild = <<FALSE>>

\* How the processes end.
Fate ==
    /\ mon.why \notin {"refused", "methods", "keystate"}
    /\ child.why # "methods"
    /\ mon.pc # "dead" => mon.why = "none"
    /\ child.success /\ mon.pc = "dead" => mon.why \in {"alarm", "options"}
    /\ Good /\ child.pc = "wait" /\ mon.pc = "dead" => mon.why = "alarm"
    /\ Good => conf.lists = <<>> \/ Found(child.lists, Tried(child, child.ask))

\* The failures the monitor has counted or is about to count.
Counted == mon.failures + (IF mon.pc = "decide" /\ IsFailure THEN 1 ELSE 0)

\* The monitor has counted no more than c and the failures still to come, but for the one
\* that the child lets pass: method none in the first request.
Tally(c, more) == ~c.excused => Counted <= c.failures + more + (IF c.none THEN 0 ELSE 1)

Counts ==
    /\ child.pc # "dead" => child.failures < MaxAuthTries
    /\ mon.pc # "dead" => mon.failures <= MaxAuthTries
    /\ mon.failures > MaxAuthTries <=> mon.why = "tries"
    /\ Tally(child, IF Bad THEN 1 ELSE 0)
    /\ child.attempt = 0 \/ (child.pc = "wait" /\ child.ask = "PWNAM") => Counted = 0
    /\ child.pc = "wait" /\ child.ask = "AUTHPASSWORD" /\ child.attempt = 1 /\ child.cur.method = "none"
          => Counted <= IF Bad THEN 1 ELSE 0

JointInv ==
    /\ ChildType /\ Asking /\ Fate /\ Counts
    /\ mon.pc # "dead" => Together /\ Listed

-----------------------------------------------------------------------------
(* What userauth_finish makes of the child.                                *)

\* f is c after a failure that was counted or passed over; the child reads on or gives up.
AfterFailure(f, c, method) ==
    /\ f \in ChildRecord
    /\ f.pc \in {"idle", "dead"} /\ f.why \in {c.why, "tries"}
    /\ f.lists = c.lists /\ f.used = c.used /\ f.handlers = c.handlers
    /\ f.attempt = c.attempt /\ f.none = c.none /\ f.excused = c.excused
    /\ f.success = c.success
    /\ c.failures <= f.failures
    /\ ~c.postponed /\ ~c.caused /\ (c.attempt > 1 \/ method # "none")
          => f.failures = c.failures + 1
    /\ f.pc = "idle" => f.failures < MaxAuthTries

\* f is c after a success that was crossed off the lists; it ends the login, or one more
\* is needed.
AfterSuccess(f, c, method) ==
    /\ f \in ChildRecord
    /\ f.pc \in {"idle", "success", "dead"}
    /\ f.why = "methods" => c.why = "methods" \/ (conf.lists # <<>> /\ ~Found(c.lists, method))
    /\ f.used = c.used /\ f.handlers = c.handlers /\ f.failures = c.failures
    /\ f.attempt = c.attempt /\ f.none = c.none /\ f.excused = c.excused
    /\ f.pc = "success" => f.success /\ Enough(c, method)
    /\ f.pc # "success" => f.success = c.success
    /\ f.pc = "idle" => /\ conf.lists # <<>> /\ ~Completes(c.lists, method)
                        /\ f.lists = Remaining(c.lists, method)

\* userauth_finish with a failure.
LEMMA FinishFailed ==
  ASSUME NEW c \in ChildRecord, NEW method, c.failures < MaxAuthTries
  PROVE  AfterFailure(userauth_finish(c, FALSE, method), c, method)
  <1> DEFINE f == userauth_finish(c, FALSE, method)
  <1> SUFFICES AfterFailure(f, c, method)
    OBVIOUS
  <1> DEFINE counts == ~c.caused /\ (c.attempt > 1 \/ method # "none")
             failed == c.failures + (IF counts THEN 1 ELSE 0)
  <1>1. failed \in Nat /\ failed >= c.failures /\ (counts => failed = c.failures + 1)
    BY DEF ChildRecord
  <1> DEFINE l == [c EXCEPT !.lists = IF FALSE /\ conf.lists # <<>> THEN Remaining(@, method) ELSE @]
  <1>2. l = c
    BY DEF ChildRecord
  <1>3. f = IF c.postponed THEN [l EXCEPT !.pc = "idle"]
            ELSE IF TooMany(failed) THEN Ends([l EXCEPT !.failures = failed], "tries")
            ELSE [l EXCEPT !.pc = "idle", !.failures = failed]
    BY DEF userauth_finish
  <1> HIDE DEF failed, l, f
  <1>4. CASE c.postponed
    <2>1. f = [c EXCEPT !.pc = "idle"]
      BY <1>2, <1>3, <1>4
    <2>2. \A x, y \in Nat : x = y => x <= y
      OBVIOUS
    <2>3. f.failures = c.failures /\ c.failures \in Nat
      BY <2>1 DEF ChildRecord
    <2>4. /\ f \in ChildRecord /\ f.pc = "idle" /\ f.why = c.why
          /\ f.lists = c.lists /\ f.used = c.used /\ f.handlers = c.handlers
          /\ f.attempt = c.attempt /\ f.none = c.none /\ f.excused = c.excused
          /\ f.success = c.success
      BY <2>1 DEF ChildRecord
    <2> QED
      BY <1>4, <2>2, <2>3, <2>4, Zenon DEF AfterFailure
  <1>5. CASE ~c.postponed /\ TooMany(failed)
    <2>1. f = [c EXCEPT !.failures = failed, !.pc = "dead", !.why = "tries"]
      BY <1>2, <1>3, <1>5 DEF Ends
    <2> QED
      BY <2>1, <1>1 DEF ChildRecord, AfterFailure
  <1>6. CASE ~c.postponed /\ ~TooMany(failed)
    <2>1. f = [c EXCEPT !.pc = "idle", !.failures = failed]
      BY <1>2, <1>3, <1>6
    <2>2. failed < MaxAuthTries
      BY <1>1, <1>6, TriesAssumption DEF TooMany
    <2> QED
      BY <2>1, <2>2, <1>1 DEF ChildRecord, AfterFailure
  <1> QED
    BY <1>4, <1>5, <1>6 DEF ChildRecord

\* userauth_finish with a success.
LEMMA FinishGood ==
  ASSUME NEW c \in ChildRecord, NEW method, c.failures < MaxAuthTries
  PROVE  AfterSuccess(userauth_finish(c, TRUE, method), c, method)
  <1> DEFINE f == userauth_finish(c, TRUE, method)
  <1> SUFFICES AfterSuccess(f, c, method)
    OBVIOUS
  <1> DEFINE lists == IF conf.lists # <<>> THEN Remaining(c.lists, method) ELSE c.lists
  <1>1. lists \in Lists /\ (conf.lists # <<>> => lists = Remaining(c.lists, method))
    BY RemainingType DEF ChildRecord
  <1> DEFINE l == [c EXCEPT !.lists = IF TRUE /\ conf.lists # <<>> THEN Remaining(@, method) ELSE @]
             failed == c.failures + (IF ~TRUE /\ ~c.caused /\ (c.attempt > 1 \/ method # "none")
                                     THEN 1 ELSE 0)
  <1>3. l = [c EXCEPT !.lists = lists] /\ failed = c.failures
    BY DEF ChildRecord
  <1>4. f = IF ~c.valid \/ c.postponed THEN Ends(c, "internal")
            ELSE IF conf.lists # <<>> /\ ~Found(c.lists, method) THEN Ends(c, "methods")
            ELSE IF c.postponed THEN [l EXCEPT !.pc = "idle"]
            ELSE IF Enough(c, method) THEN [l EXCEPT !.pc = "success", !.success = TRUE]
            ELSE IF TooMany(failed) THEN Ends([l EXCEPT !.failures = failed], "tries")
            ELSE [l EXCEPT !.pc = "idle", !.failures = failed]
    BY DEF userauth_finish
  <1> HIDE DEF lists, l, failed, f
  <1>5. ~TooMany(failed)
    BY <1>3, TriesAssumption DEF TooMany, ChildRecord
  <1>6. ~Enough(c, method) => conf.lists # <<>> /\ ~Completes(c.lists, method)
    BY DEF Enough
  <1>7. CASE ~c.valid \/ c.postponed
    <2>1. f = [c EXCEPT !.pc = "dead", !.why = "internal"]
      BY <1>4, <1>7 DEF Ends
    <2> QED
      BY <2>1 DEF ChildRecord, AfterSuccess
  <1>8. CASE ~(~c.valid \/ c.postponed) /\ conf.lists # <<>> /\ ~Found(c.lists, method)
    <2>1. f = [c EXCEPT !.pc = "dead", !.why = "methods"]
      BY <1>4, <1>8 DEF Ends
    <2> QED
      BY <2>1, <1>8 DEF ChildRecord, AfterSuccess
  <1>9. CASE /\ ~(~c.valid \/ c.postponed) /\ ~(conf.lists # <<>> /\ ~Found(c.lists, method))
             /\ Enough(c, method)
    <2>1. f = [l EXCEPT !.pc = "success", !.success = TRUE]
      BY <1>4, <1>9
    <2>2. f = [c EXCEPT !.lists = lists, !.pc = "success", !.success = TRUE]
      BY <1>3, <2>1
    <2> QED
      BY <2>2, <1>1, <1>9 DEF ChildRecord, AfterSuccess
  <1>10. CASE /\ ~(~c.valid \/ c.postponed) /\ ~(conf.lists # <<>> /\ ~Found(c.lists, method))
              /\ ~Enough(c, method)
    <2>1. f = [l EXCEPT !.pc = "idle", !.failures = failed]
      BY <1>4, <1>5, <1>10
    <2>2. f = [c EXCEPT !.lists = lists, !.pc = "idle", !.failures = c.failures]
      BY <1>3, <2>1
    <2> QED
      BY <2>2, <1>1, <1>6, <1>10 DEF ChildRecord, AfterSuccess
  <1> QED
    BY <1>7, <1>8, <1>9, <1>10

-----------------------------------------------------------------------------
(* Steps of the child.  c is the child as the handler leaves it to         *)
(* userauth_finish or to the question, sent what it has written before.    *)

\* What a handler has to leave to the rest of its step.
Leaves(c, sent) ==
    /\ c \in ChildRecord /\ sent \in {<<>>, <<AuthservRequest>>}
    /\ ~c.success /\ c.why # "methods" /\ c.attempt > 0
    /\ c.failures < MaxAuthTries

\* While the child acts, the monitor does not, and what it waits for is gone.
ChildActs == UNCHANGED <<conf, mon, proved>> /\ toChild' = <<>>

\* What stays when the monitor does nothing.
LEMMA MonitorStill ==
  ASSUME ChildActs
  PROVE  /\ Undecided' = Undecided /\ Due' = Due /\ Counted' = Counted /\ Listed' = Listed
         /\ ~Good' /\ ~Bad'
  BY DEF ChildActs, Undecided, Due, Counted, IsFailure, Listed, Good, Bad

\* A pipe that held at most the naming of the service, and gets no more than that.
LEMMA PipeType ==
  ASSUME toMon \in Seq(Request), NEW sent \in {<<>>, <<AuthservRequest>>}
  PROVE  toMon \o sent \in Seq(Request)
  <1>1. AuthservRequest \in Request
    BY DEF AuthservRequest, Request
  <1>2. <<>> \in Seq(Request) /\ <<AuthservRequest>> \in Seq(Request)
    BY <1>1
  <1>3. sent \in Seq(Request)
    BY <1>2
  <1> QED
    BY <1>3

\* An attempt that fails: the child reads on or gives up, and the monitor can go on either way.
LEMMA FailedInv ==
  ASSUME MonitorInv, JointInv, ChildActs, NEW c, NEW sent, NEW method, Leaves(c, sent),
         Finishes(c, sent, FALSE, method),
         Tally(c, IF ~c.postponed /\ ~c.caused /\ (c.attempt > 1 \/ method # "none") THEN 1 ELSE 0),
         mon.pc # "dead" => Ready(c, toMon \o sent)
  PROVE  JointInv'
  <1> DEFINE more == IF ~c.postponed /\ ~c.caused /\ (c.attempt > 1 \/ method # "none") THEN 1 ELSE 0
  <1>1. AfterFailure(child', c, method)
    BY FinishFailed DEF Leaves, Finishes
  <1>2. toMon' = toMon \o sent /\ toMon' \in Seq(Request)
    BY PipeType DEF Finishes, Leaves, JointInv, ChildType
  <1>3. ChildType' /\ Asking'
    BY <1>1, <1>2 DEF AfterFailure, ChildType, Asking, ChildActs, Leaves
  <1>4. Fate'
    BY <1>1, MonitorStill DEF AfterFailure, JointInv, Fate, ChildActs, Leaves
  <1>5. Counts'
    <2>1. c.failures \in Nat /\ child'.failures \in Nat /\ c.failures + more <= child'.failures /\ more \in Nat
      <3>1. c.failures \in Nat /\ child'.failures \in Nat
        BY <1>1 DEF AfterFailure, Leaves, ChildRecord
      <3> QED
        BY <1>1, <3>1 DEF AfterFailure
    <2>2. Tally(c, more)
      OBVIOUS
    <2> HIDE DEF more
    <2>3. Counted \in Nat
      BY DEF MonitorInv, MonitorType, Counted
    <2>4. ~child'.excused => Counted' <= child'.failures + 0 + (IF child'.none THEN 0 ELSE 1)
      BY <1>1, <2>1, <2>2, <2>3, MonitorStill DEF AfterFailure, Tally
    <2>5. Tally(child, IF Bad THEN 1 ELSE 0)'
      BY <2>4, MonitorStill DEF Tally
    <2> QED
      BY <1>1, <2>5, MonitorStill DEF AfterFailure, JointInv, Counts, ChildActs, Leaves
  <1>6. mon.pc # "dead" => Together'
    BY <1>1, <1>2, MonitorStill
       DEF AfterFailure, Together, Ready, Onward, Gates, GssListed, ChildActs, auth2_method_allowed, Leaves
  <1> QED
    BY <1>3, <1>4, <1>5, <1>6, MonitorStill DEF JointInv, ChildActs

\* Crossing another method off does not remove a method from the front of a list.
LEMMA StillFound ==
  ASSUME NEW lists \in Lists, NEW m, NEW n, m # n, Found(lists, m)
  PROVE  Found(Remaining(lists, n), m)
  <1>1. PICK i \in DOMAIN lists : list_starts_with(lists[i], m)
    BY DEF Found
  <1>2. Remaining(lists, n)[i] = lists[i] /\ i \in DOMAIN Remaining(lists, n)
    BY <1>1, RemainingType DEF remove_method, list_starts_with
  <1> QED
    BY <1>1, <1>2 DEF Found

\* A success the child reads of: it goes on with the lists the monitor has, or is let in.
LEMMA GoodInv ==
  ASSUME MonitorInv, JointInv, ChildActs, NEW c, NEW method, Leaves(c, <<>>),
         Finishes(c, <<>>, TRUE, method), Tally(c, 0),
         conf.lists = <<>> \/ Found(c.lists, method),
         mon.pc = "dead" => mon.why = "alarm",
         mon.pc # "dead" =>
            /\ toMon = <<>> /\ Core \subseteq mon.permit /\ mon.used = c.used /\ Gates(c.handlers)
            /\ c.handlers # {} => method # "gssapi-with-mic" /\ GssListed(c)
            /\ \/ mon.pc = "decide" /\ mon.ok /\ mon.lists = c.lists /\ mon.method = method
               \/ mon.pc = "keystate" /\ Enough(c, method)
               \/ mon.pc = "read" /\ ~Enough(c, method) /\ mon.lists = Remaining(c.lists, method)
  PROVE  JointInv'
  <1>1. AfterSuccess(child', c, method)
    BY FinishGood DEF Leaves, Finishes
  <1>2. toMon' \in Seq(Request) /\ (toMon = <<>> => toMon' = <<>>)
    BY PipeType DEF Finishes, JointInv, ChildType
  <1>3. ChildType' /\ Asking'
    BY <1>1, <1>2 DEF AfterSuccess, ChildType, Asking, ChildActs, Leaves
  <1>4. Fate'
    BY <1>1, MonitorStill DEF AfterSuccess, JointInv, Fate, ChildActs, Leaves
  <1>5. Counts'
    <2>1. Tally(child, IF Bad THEN 1 ELSE 0)'
      BY <1>1, MonitorStill DEF AfterSuccess, Tally
    <2> QED
      BY <1>1, <2>1, MonitorStill DEF AfterSuccess, JointInv, Counts, ChildActs, Leaves
  <1>6. mon.pc # "dead" => Together'
    <2>1. SUFFICES ASSUME mon.pc # "dead" PROVE Together'
      OBVIOUS
    <2>2. c.lists \in Lists /\ c.attempt > 0
      BY DEF Leaves, ChildRecord
    <2>3. CASE child'.pc = "success"
      <3>1. Enough(c, method)
        BY <1>1, <2>3 DEF AfterSuccess
      <3>2. Admits'
        BY <2>1, <3>1 DEF Admits, Undecided, Enough, ChildActs
      <3> QED
        BY <1>2, <2>1, <2>3, <3>2 DEF Together
    <2>4. CASE child'.pc = "idle"
      <3>1. /\ conf.lists # <<>> /\ ~Completes(c.lists, method) /\ ~Enough(c, method)
            /\ child'.lists = Remaining(c.lists, method)
        BY <1>1, <2>4 DEF AfterSuccess, Enough
      <3>2. mon.pc \in {"read", "decide"} /\ child'.lists = Due /\ (Undecided => ~Completes(mon.lists, mon.method))
        BY <2>1, <3>1 DEF Due, Undecided
      <3>3. GssListed(child)'
        BY <1>1, <2>1, <2>2, <3>1, StillFound
           DEF GssListed, AfterSuccess, auth2_method_allowed, Found, ChildActs
      <3>4. Ready(child, toMon)'
        BY <1>1, <1>2, <2>1, <2>2, <3>1, <3>2, <3>3, MonitorStill
           DEF Ready, Onward, Gates, AfterSuccess, ChildActs
      <3> QED
        BY <2>4, <3>4 DEF Together, ChildActs
    <2>5. CASE child'.pc = "dead"
      <3>1. ~child'.success
        BY <1>1, <2>5 DEF AfterSuccess, Leaves
      <3> QED
        BY <1>2, <2>1, <2>5, <3>1 DEF Together, ChildActs
    <2> QED
      BY <1>1, <2>3, <2>4, <2>5 DEF AfterSuccess
  <1> QED
    BY <1>3, <1>4, <1>5, <1>6, MonitorStill DEF JointInv, ChildActs

\* The pipe with a question at its end.
LEMMA QuestionPipe ==
  ASSUME toMon \in Seq(Request), NEW sent \in {<<>>, <<AuthservRequest>>}, NEW q \in Request
  PROVE  /\ toMon \o Append(sent, q) = Append(toMon \o sent, q)
         /\ toMon \o Append(sent, q) \in Seq(Request)
  <1>1. AuthservRequest \in Request
    BY DEF AuthservRequest, Request
  <1>2. CASE sent = <<>>
    <2>1. toMon \o Append(sent, q) = Append(toMon \o sent, q)
      BY <1>2
    <2> QED
      BY <1>2, <2>1
  <1>3. CASE sent = <<AuthservRequest>>
    <2>1. sent \in Seq(Request)
      BY <1>1, <1>3
    <2>2. toMon \o Append(sent, q) = Append(toMon \o sent, q)
      BY <2>1
    <2> QED
      BY <2>1, <2>2
  <1> QED
    BY <1>2, <1>3

\* A question the child may ask.
LEMMA AskInv ==
  ASSUME MonitorInv, JointInv, ChildActs, NEW c, NEW sent, NEW q \in Request, Leaves(c, sent),
         Asks(c, sent, q), Tally(c, 0), q.op \in Core \cup Gss,
         q.op \in {"KEYALLOWED", "KEYVERIFY"} => c.cur.method = "publickey",
         q.op \in Core => ~c.postponed /\ ~c.caused,
         q.op = "AUTHPASSWORD" => c.cur.method = "password" \/ (c.cur.method = "none" /\ ~c.none),
         q.op = "AUTHPASSWORD" /\ c.attempt = 1 /\ c.cur.method = "none" => Counted = 0,
         mon.pc # "dead" => Asked(c, toMon \o sent, q)
  PROVE  JointInv'
  <1>1. child' = [c EXCEPT !.pc = "wait", !.ask = q.op] /\ c \in ChildRecord /\ q.op \in Entry
    BY DEF Asks, Leaves, Core, Gss, Entry
  <1>2. /\ child' \in ChildRecord
        /\ child'.pc = "wait" /\ child'.ask = q.op
        /\ child'.lists = c.lists /\ child'.used = c.used /\ child'.handlers = c.handlers
        /\ child'.attempt = c.attempt /\ child'.none = c.none /\ child'.excused = c.excused
        /\ child'.success = c.success /\ child'.failures = c.failures /\ child'.cur = c.cur
        /\ child'.postponed = c.postponed /\ child'.caused = c.caused /\ child'.why = c.why
    BY <1>1 DEF ChildRecord
  <1>3. toMon' \in Seq(Request) /\ toMon' = Append(toMon \o sent, q)
    BY QuestionPipe DEF Asks, Leaves, JointInv, ChildType
  <1>4. ChildType' /\ Asking'
    BY <1>2, <1>3 DEF ChildType, Asking, ChildActs, Leaves
  <1>5. Fate'
    BY <1>2, MonitorStill DEF JointInv, Fate, ChildActs, Leaves
  <1>6. Counts'
    <2>1. Tally(child, IF Bad THEN 1 ELSE 0)'
      BY <1>2, MonitorStill DEF Tally
    <2>2. q.op # "PWNAM"
      BY DEF Core, Gss
    <2> QED
      BY <1>2, <2>1, <2>2, MonitorStill DEF JointInv, Counts, ChildActs, Leaves
  <1>7. mon.pc # "dead" => Together'
    <2>1. SUFFICES ASSUME mon.pc # "dead" PROVE Together'
      OBVIOUS
    <2>2. PICK pipe \in {<<>>, <<AuthservRequest>>} : pipe = toMon \o sent
      BY <2>1 DEF Asked, Onward
    <2>3. Asked(c, pipe, q)
      BY <2>1, <2>2
    <2>4. Asked(child, pipe, q)'
      BY <1>2, <2>3, MonitorStill
         DEF Asked, Question, Onward, Gates, GssListed, Tried, auth2_method_allowed, ChildActs
    <2> QED
      BY <1>2, <1>3, <2>2, <2>4 DEF Together, ChildActs
  <1> QED
    BY <1>4, <1>5, <1>6, <1>7, MonitorStill DEF JointInv, ChildActs

\* More failures to come do not upset the tally.
LEMMA TallyMore ==
  ASSUME MonitorInv, NEW c \in ChildRecord, NEW more \in {0, 1}, Tally(c, 0)
  PROVE  Tally(c, more)
  <1>1. Counted \in Nat /\ c.failures \in Nat
    BY DEF MonitorInv, MonitorType, Counted, ChildRecord
  <1> QED
    BY <1>1 DEF Tally

\* A failure that needs no question to the monitor.
LEMMA FailsInv ==
  ASSUME MonitorInv, JointInv, ChildActs, NEW c, NEW sent, NEW method, Leaves(c, sent),
         Finishes(c, sent, FALSE, method), Tally(c, 0),
         mon.pc # "dead" => Ready(c, toMon \o sent)
  PROVE  JointInv'
  <1> DEFINE more == IF ~c.postponed /\ ~c.caused /\ (c.attempt > 1 \/ method # "none") THEN 1 ELSE 0
  <1>1. more \in {0, 1} /\ c \in ChildRecord
    BY DEF Leaves
  <1>2. Tally(c, more)
    <2> HIDE DEF more
    <2> QED
      BY <1>1, TallyMore
  <1> QED
    BY <1>2, FailedInv

\* The requests a client may make, one by one.
LEMMA RequestType ==
  ASSUME NEW r \in UserauthRequest
  PROVE  /\ r.method \in {"none", "other"} \cup Methods
         /\ r.method = "password" => r.passwd \in {"right", "wrong", "empty"}
         /\ r.method = "publickey" => r.key \in Keys /\ r.sig \in {"query", "good", "bad"}
         /\ r.method = "gssapi-with-mic" => r.supported \in BOOLEAN
  BY DEF UserauthRequest, Methods

\* The second half of input_userauth_request: the method fails at once or asks the monitor
\* what the monitor will answer.
LEMMA TryInv ==
  ASSUME MonitorInv, JointInv, ChildActs, NEW c, NEW sent, Leaves(c, sent),
         TryMethod(c, sent, c.cur), Tally(c, 0), c.attempt > 1 \/ Counted = 0,
         mon.pc # "dead" => Ready(c, toMon \o sent)
  PROVE  JointInv'
  <1> DEFINE t == [c EXCEPT !.handlers = @ \ {"TOKEN", "COMPLETE"}, !.postponed = FALSE,
                            !.caused = FALSE]
             r == c.cur
  <1>1. /\ c \in ChildRecord /\ t \in ChildRecord
        /\ t.handlers = c.handlers \ {"TOKEN", "COMPLETE"} /\ ~t.postponed /\ ~t.caused
        /\ t.lists = c.lists /\ t.used = c.used /\ t.attempt = c.attempt /\ t.none = c.none
        /\ t.excused = c.excused /\ t.success = c.success /\ t.failures = c.failures
        /\ t.cur = c.cur /\ t.why = c.why
    BY DEF Leaves, ChildRecord
  <1>2. /\ r.method \in {"none", "other"} \cup Methods
        /\ r.method = "password" => r.passwd \in {"right", "wrong", "empty"}
        /\ r.method = "publickey" => r.key \in Keys
    BY <1>1, RequestType DEF ChildRecord
  <1>3. IF ~authmethod_lookup(t, r.method) THEN Finishes(t, sent, FALSE, r.method)
        ELSE CASE r.method = "none" -> userauth_none(t, sent)
              [] r.method = "password" -> userauth_passwd(t, sent, r)
              [] r.method = "publickey" -> userauth_pubkey(t, sent, r)
              [] r.method = "gssapi-with-mic" -> userauth_gssapi(t, sent, r)
    BY DEF TryMethod
  <1>4. Leaves(t, sent) /\ Tally(t, 0)
    BY <1>1 DEF Leaves, Tally
  <1>5. mon.pc # "dead" => Ready(t, toMon \o sent)
    BY <1>1 DEF Ready, Onward, Gates, GssListed
  <1> HIDE DEF t
  <1>6. CASE ~authmethod_lookup(t, r.method)
    <2>1. Finishes(t, sent, FALSE, r.method)
      BY <1>3, <1>6
    <2> QED
      BY <1>4, <1>5, <2>1, FailsInv
  <1>7. CASE authmethod_lookup(t, r.method)
    <2>1. /\ auth2_method_allowed(t.lists, r.method)
          /\ r.method \in conf.enabled \/ r.method = "none"
      BY <1>7 DEF authmethod_lookup
    <2>2. r.method \in {"none"} \cup Methods
      BY <2>1 DEF MonitorInv, MonitorType
    <2>3. CASE r.method = "none"
      <3> DEFINE u == [t EXCEPT !.none = FALSE]
                 q == [op |-> "AUTHPASSWORD", passwd |-> "empty"]
      <3>1. userauth_none(t, sent)
        BY <1>3, <1>7, <2>3
      <3>2. /\ u \in ChildRecord /\ u.handlers = t.handlers /\ ~u.postponed /\ ~u.caused /\ ~u.none
            /\ u.lists = t.lists /\ u.used = t.used /\ u.attempt = t.attempt
            /\ u.excused = t.excused /\ u.success = t.success /\ u.failures = t.failures
            /\ u.cur = t.cur /\ u.why = t.why
        BY <1>1 DEF ChildRecord
      <3>3. Leaves(u, sent)
        BY <1>4, <3>2 DEF Leaves
      <3>4. Tally(u, 0)
        <4>1. Counted \in Nat /\ u.failures \in Nat
          BY <3>2 DEF MonitorInv, MonitorType, Counted, ChildRecord
        <4> QED
          BY <1>4, <3>2, <4>1 DEF Tally
      <3>5. mon.pc # "dead" => Ready(u, toMon \o sent)
        BY <1>5, <3>2 DEF Ready, Onward, Gates, GssListed
      <3>6. CASE PermitEmpty /\ "password" \in conf.enabled
        <4>1. Asks(u, sent, q)
          BY <3>1, <3>6 DEF userauth_none
        <4>2. q \in Request /\ q.op = "AUTHPASSWORD" /\ q.passwd = "empty"
          BY DEF Request
        <4> HIDE DEF u, q
        <4>3. u.cur.method = "none"
          BY <1>1, <2>3, <3>2
        <4>4. mon.pc # "dead" => Asked(u, toMon \o sent, q)
          BY <3>5, <3>6, <4>2, <4>3 DEF Ready, Asked, Question, Tried, Core, Gss
        <4>5. u.attempt = 1 => Counted = 0
          BY <1>1, <3>2
        <4> QED
          BY <3>2, <3>3, <3>4, <4>1, <4>2, <4>3, <4>4, <4>5, AskInv DEF Core
      <3>7. CASE ~(PermitEmpty /\ "password" \in conf.enabled)
        <4>1. Finishes(u, sent, FALSE, "none")
          BY <3>1, <3>7 DEF userauth_none
        <4> HIDE DEF u
        <4> QED
          BY <3>3, <3>4, <3>5, <4>1, FailsInv
      <3> QED
        BY <3>6, <3>7
    <2>4. CASE r.method = "password"
      <3> DEFINE q == [op |-> "AUTHPASSWORD", passwd |-> r.passwd]
      <3>1. Asks(t, sent, q)
        BY <1>3, <1>7, <2>4 DEF userauth_passwd
      <3>2. q \in Request /\ q.op = "AUTHPASSWORD"
        BY <1>2, <2>4 DEF Request
      <3> HIDE DEF q
      <3>3. t.cur.method = "password" /\ "password" \in conf.enabled
        BY <1>1, <2>1, <2>4
      <3>4. mon.pc # "dead" => Asked(t, toMon \o sent, q)
        BY <1>5, <2>1, <2>4, <3>2, <3>3 DEF Ready, Asked, Question, Tried, Core, Gss
      <3> QED
        BY <1>1, <1>4, <3>1, <3>2, <3>3, <3>4, AskInv DEF Core
    <2>5. CASE r.method = "publickey"
      <3> DEFINE q == [op |-> "KEYALLOWED", key |-> r.key]
      <3>1. userauth_pubkey(t, sent, r)
        BY <1>3, <1>7, <2>5
      <3>2. CASE r.key \in t.used \/ ~t.valid
        <4>1. Finishes(t, sent, FALSE, "publickey")
          BY <3>1, <3>2 DEF userauth_pubkey
        <4> QED
          BY <1>4, <1>5, <4>1, FailsInv
      <3>3. CASE ~(r.key \in t.used \/ ~t.valid)
        <4>1. Asks(t, sent, q)
          BY <3>1, <3>3 DEF userauth_pubkey
        <4>2. q \in Request /\ q.op = "KEYALLOWED" /\ q.key = t.cur.key
          BY <1>1, <1>2, <2>5 DEF Request
        <4> HIDE DEF q
        <4>3. t.cur.method = "publickey"
          BY <1>1, <2>5
        <4>4. mon.pc # "dead" => Asked(t, toMon \o sent, q)
          BY <1>5, <2>1, <2>5, <4>2, <4>3 DEF Ready, Asked, Question, Tried, Core, Gss
        <4> QED
          BY <1>1, <1>4, <4>1, <4>2, <4>3, <4>4, AskInv DEF Core
      <3> QED
        BY <3>2, <3>3
    <2>6. CASE r.method = "gssapi-with-mic"
      <3> DEFINE q == [op |-> "GSSSETUP"]
                 u == [t EXCEPT !.caused = TRUE]
      <3>1. userauth_gssapi(t, sent, r)
        BY <1>3, <1>7, <2>6
      <3>2. CASE r.supported
        <4>1. Asks(t, sent, q)
          BY <3>1, <3>2 DEF userauth_gssapi
        <4>2. q \in Request /\ q.op = "GSSSETUP"
          BY DEF Request
        <4> HIDE DEF q
        <4>3. "gssapi-with-mic" \in conf.enabled
          BY <2>1, <2>6
        <4>4. mon.pc # "dead" => Asked(t, toMon \o sent, q)
          BY <1>5, <2>1, <2>6, <4>2, <4>3 DEF Ready, Asked, Question, Tried, Core, Gss
        <4> QED
          BY <1>1, <1>4, <4>1, <4>2, <4>4, AskInv DEF Core
      <3>3. CASE ~r.supported
        <4>1. Finishes(u, sent, FALSE, "gssapi-with-mic")
          BY <3>1, <3>3 DEF userauth_gssapi
        <4>2. /\ u \in ChildRecord /\ u.handlers = t.handlers /\ u.none = t.none
              /\ u.lists = t.lists /\ u.used = t.used /\ u.attempt = t.attempt
              /\ u.excused = t.excused /\ u.success = t.success /\ u.failures = t.failures
              /\ u.why = t.why
          BY <1>1 DEF ChildRecord
        <4> HIDE DEF u
        <4>3. Leaves(u, sent) /\ Tally(u, 0)
          BY <1>4, <4>2 DEF Leaves, Tally
        <4>4. mon.pc # "dead" => Ready(u, toMon \o sent)
          BY <1>5, <4>2 DEF Ready, Onward, Gates, GssListed
        <4> QED
          BY <4>1, <4>3, <4>4, FailsInv
      <3> QED
        BY <3>2, <3>3
    <2> QED
      BY <2>2, <2>3, <2>4, <2>5, <2>6 DEF Methods
  <1> QED
    BY <1>6, <1>7

-----------------------------------------------------------------------------
(* The answers of the monitor.                                             *)

\* A child that acts has not been let in and is below the limit.
LEMMA ChildLeaves ==
  ASSUME JointInv, child.pc \in {"idle", "wait"}, child.attempt > 0
  PROVE  Leaves(child, <<>>)
  BY DEF JointInv, ChildType, Fate, Counts, Leaves

\* The answer is there: the pipe to the monitor is empty, and the answer says what it says.
LEMMA AnswerThere ==
  ASSUME JointInv, NEW op \in Core \cup Gss, Answered(op)
  PROVE  /\ ChildActs /\ Leaves(child, <<>>) /\ child.pc = "wait" /\ child.ask = op
         /\ toChild = <<Answer>>
         /\ mon.pc # "dead" => Told(child, Answer) /\ toMon = <<>> /\ toMon \o <<>> = <<>>
         /\ op \notin AuthDecide => Tally(child, 0)
         /\ op \in AuthDecide /\ Answer = TRUE => Tally(child, 0) /\ Good
         /\ op \in AuthDecide /\ Answer = FALSE => Tally(child, 1)
  <1>1. child.pc = "wait" /\ child.ask = op /\ toChild # <<>> /\ ChildActs
    BY DEF Answered, ChildActs
  <1>2. Leaves(child, <<>>)
    BY <1>1, ChildLeaves DEF JointInv, Asking
  <1>3. toChild = <<Answer>>
    BY <1>1 DEF JointInv, ChildType
  <1>4. mon.pc # "dead" => Told(child, Answer) /\ toMon = <<>> /\ toMon \o <<>> = <<>>
    <2>1. op # "PWNAM"
      BY DEF Core, Gss
    <2> QED
      BY <1>1, <2>1 DEF JointInv, Together, Naming
  <1>5. /\ op \notin AuthDecide => ~Bad
        /\ op \in AuthDecide /\ Answer = TRUE => ~Bad /\ Good
        /\ op \in AuthDecide /\ Answer = FALSE => Bad
    BY <1>1, <1>3 DEF Bad, Good
  <1>6. Tally(child, IF Bad THEN 1 ELSE 0)
    BY DEF JointInv, Counts
  <1> QED
    BY <1>1, <1>2, <1>3, <1>4, <1>5, <1>6

\* The answer to a password.
LEMMA AuthPasswordInv ==
  ASSUME MonitorInv, JointInv, mm_auth_password
  PROVE  JointInv'
  <1> DEFINE method == child.cur.method
  <1>1. Answered("AUTHPASSWORD") /\ Finishes(child, <<>>, Answer, method)
    BY DEF mm_auth_password
  <1>2. /\ ChildActs /\ Leaves(child, <<>>) /\ child.pc = "wait" /\ child.ask = "AUTHPASSWORD"
        /\ toChild = <<Answer>>
        /\ mon.pc # "dead" => Told(child, Answer) /\ toMon = <<>> /\ toMon \o <<>> = <<>>
        /\ Answer = TRUE => Tally(child, 0) /\ Good
        /\ Answer = FALSE => Tally(child, 1)
    BY <1>1, AnswerThere DEF Core, AuthDecide
  <1>3. /\ Answer \in BOOLEAN /\ ~child.postponed /\ ~child.caused /\ method \in {"password", "none"}
        /\ method = "none" => ~child.none
    BY <1>2 DEF JointInv, ChildType, Asking, Core
  <1>4. Tried(child, child.ask) = method
    BY <1>2 DEF Tried, Gss
  <1> HIDE DEF method
  <1>5. CASE Answer = FALSE
    <2>1. Finishes(child, <<>>, FALSE, method)
      BY <1>1, <1>5
    <2>2. mon.pc # "dead" => Ready(child, toMon \o <<>>)
      BY <1>2, <1>5 DEF Told, Ready, Leaves, GssOver
    <2>3. CASE child.attempt > 1 \/ method # "none"
      BY <1>2, <1>3, <1>5, <2>1, <2>2, <2>3, FailedInv
    <2>4. CASE ~(child.attempt > 1 \/ method # "none")
      <3>1. child.attempt = 1 /\ child.failures \in Nat
        BY <2>4, <1>2 DEF Leaves, ChildRecord
      <3>2. Counted \in Nat /\ Counted <= 1
        <4>1. Counted \in Nat
          BY DEF MonitorInv, MonitorType, Counted
        <4>2. Bad /\ child.cur.method = "none"
          BY <1>2, <1>5, <2>4 DEF Bad, AuthDecide, method
        <4> QED
          BY <1>2, <3>1, <4>1, <4>2 DEF JointInv, Counts
      <3>3. Tally(child, 0)
        BY <1>3, <2>4, <3>1, <3>2 DEF Tally
      <3> QED
        BY <1>2, <2>1, <2>2, <3>3, FailsInv
    <2> QED
      BY <2>3, <2>4
  <1>6. CASE Answer = TRUE
    <2>1. Finishes(child, <<>>, TRUE, method)
      BY <1>1, <1>6
    <2>2. /\ conf.lists = <<>> \/ Found(child.lists, method)
          /\ mon.pc = "dead" => mon.why = "alarm"
      BY <1>2, <1>4, <1>6 DEF JointInv, Fate
    <2>3. mon.pc # "dead" => Won(child)
      BY <1>2, <1>6 DEF Told, AuthDecide
    <2>4. method # "gssapi-with-mic"
      BY <1>3
    <2> QED
      BY <1>2, <1>4, <1>6, <2>1, <2>2, <2>3, <2>4, GoodInv DEF Won, GssOver
  <1> QED
    BY <1>3, <1>5, <1>6

\* The answer to the look-up of a key.
LEMMA UserKeyAllowedInv ==
  ASSUME MonitorInv, JointInv, mm_user_key_allowed
  PROVE  JointInv'
  <1> DEFINE c == [child EXCEPT !.postponed = TRUE]
             q == [op |-> "KEYVERIFY", key |-> child.cur.key, good |-> child.cur.sig = "good"]
  <1>1. Answered("KEYALLOWED")
    BY DEF mm_user_key_allowed
  <1>2. /\ ChildActs /\ Leaves(child, <<>>) /\ child.pc = "wait" /\ child.ask = "KEYALLOWED"
        /\ mon.pc # "dead" => Told(child, Answer) /\ toMon = <<>> /\ toMon \o <<>> = <<>>
        /\ Tally(child, 0) /\ toChild = <<Answer>>
    <2>1. "KEYALLOWED" \in Core \cup Gss /\ "KEYALLOWED" \notin AuthDecide
      BY DEF Core, AuthDecide
    <2> QED
      BY <1>1, <2>1, AnswerThere
  <1>3. /\ Answer \in BOOLEAN /\ ~child.postponed /\ ~child.caused
        /\ child.cur.method = "publickey" /\ child.cur.key \in Keys
    <2>1. child.cur.method = "publickey" /\ child.cur \in UserauthRequest
      BY <1>2 DEF JointInv, Asking, ChildType, ChildRecord
    <2> QED
      BY <1>2, <2>1, RequestType DEF JointInv, ChildType, Asking, Core
  <1>4. mon.pc # "dead" => Ready(child, toMon \o <<>>)
    BY <1>2 DEF Told, Ready, Leaves, GssOver, AuthDecide
  <1>5. \/ Answer = FALSE /\ Finishes(child, <<>>, FALSE, "publickey")
        \/ Answer = TRUE /\ Finishes(c, <<>>, FALSE, "publickey")
        \/ Answer = TRUE /\ Asks(child, <<>>, q)
    BY <1>3 DEF mm_user_key_allowed
  <1>6. CASE Answer = FALSE /\ Finishes(child, <<>>, FALSE, "publickey")
    BY <1>2, <1>4, <1>6, FailsInv
  <1>7. CASE Answer = TRUE /\ Finishes(c, <<>>, FALSE, "publickey")
    <2>1. /\ c \in ChildRecord /\ c.handlers = child.handlers /\ c.none = child.none
          /\ c.lists = child.lists /\ c.used = child.used /\ c.attempt = child.attempt
          /\ c.excused = child.excused /\ c.success = child.success
          /\ c.failures = child.failures /\ c.why = child.why
      BY <1>2 DEF Leaves, ChildRecord
    <2> HIDE DEF c
    <2>2. Leaves(c, <<>>) /\ Tally(c, 0)
      BY <1>2, <2>1 DEF Leaves, Tally
    <2>3. mon.pc # "dead" => Ready(c, toMon \o <<>>)
      BY <1>4, <2>1 DEF Ready, Onward, Gates, GssListed
    <2> QED
      BY <1>2, <1>7, <2>2, <2>3, FailsInv
  <1>8. CASE Answer = TRUE /\ Asks(child, <<>>, q)
    <2>1. q \in Request /\ q.op = "KEYVERIFY" /\ q.key = child.cur.key
      BY <1>3 DEF Request
    <2> HIDE DEF q
    <2>2. mon.pc # "dead" => mon.key = child.cur.key /\ auth2_method_allowed(child.lists, "publickey")
      BY <1>2, <1>3, <1>8 DEF Told, Tried, Gss
    <2>3. mon.pc # "dead" => Asked(child, toMon \o <<>>, q)
      BY <1>2, <1>3, <1>4, <2>1, <2>2 DEF Ready, Asked, Question, Tried, Core, Gss
    <2> QED
      BY <1>2, <1>3, <1>8, <2>1, <2>3, AskInv DEF Core
  <1> QED
    BY <1>5, <1>6, <1>7, <1>8

\* The answer to a signature: a good one marks the key as used in both processes.
LEMMA SshkeyVerifyInv ==
  ASSUME MonitorInv, JointInv, mm_sshkey_verify
  PROVE  JointInv'
  <1> DEFINE used == IF Answer THEN child.used \cup {child.cur.key} ELSE child.used
             c == [child EXCEPT !.used = used]
  <1>1. Answered("KEYVERIFY") /\ Finishes(c, <<>>, Answer, "publickey")
    BY DEF mm_sshkey_verify
  <1>2. /\ ChildActs /\ Leaves(child, <<>>) /\ child.pc = "wait" /\ child.ask = "KEYVERIFY"
        /\ toChild = <<Answer>>
        /\ mon.pc # "dead" => Told(child, Answer) /\ toMon = <<>> /\ toMon \o <<>> = <<>>
        /\ Answer = TRUE => Tally(child, 0) /\ Good
        /\ Answer = FALSE => Tally(child, 1)
    <2>1. "KEYVERIFY" \in Core \cup Gss /\ "KEYVERIFY" \in AuthDecide
      BY DEF Core, AuthDecide
    <2> QED
      BY <1>1, <2>1, AnswerThere
  <1>3. /\ Answer \in BOOLEAN /\ ~child.postponed /\ ~child.caused
        /\ child.cur.method = "publickey" /\ child.cur.key \in Keys
    <2>1. child.cur.method = "publickey" /\ child.cur \in UserauthRequest
      BY <1>2 DEF JointInv, Asking, ChildType, ChildRecord
    <2> QED
      BY <1>2, <2>1, RequestType DEF JointInv, ChildType, Asking, Core
  <1>4. /\ used \in SUBSET Keys /\ (Answer = TRUE => used = child.used \cup {child.cur.key})
        /\ Answer = FALSE => used = child.used
    BY <1>2, <1>3 DEF Leaves, ChildRecord
  <1> HIDE DEF used
  <1>5. /\ c \in ChildRecord /\ c.handlers = child.handlers /\ c.none = child.none
        /\ c.lists = child.lists /\ c.used = used /\ c.attempt = child.attempt
        /\ c.excused = child.excused /\ c.success = child.success
        /\ c.failures = child.failures /\ c.why = child.why
        /\ c.postponed = child.postponed /\ c.caused = child.caused
    BY <1>2, <1>4 DEF Leaves, ChildRecord
  <1> HIDE DEF c
  <1>6. Leaves(c, <<>>)
    BY <1>2, <1>5 DEF Leaves
  <1>7. CASE Answer = FALSE
    <2>1. Finishes(c, <<>>, FALSE, "publickey") /\ Tally(c, 1)
      BY <1>1, <1>2, <1>5, <1>7 DEF Tally
    <2>2. mon.pc # "dead" => Ready(child, toMon \o <<>>)
      BY <1>2, <1>7 DEF Told, Ready, Leaves, GssOver
    <2>3. mon.pc # "dead" => Ready(c, toMon \o <<>>)
      BY <1>4, <1>5, <1>7, <2>2 DEF Ready, Onward, Gates, GssListed
    <2>4. ~c.postponed /\ ~c.caused
      BY <1>3, <1>5
    <2> QED
      BY <1>2, <1>6, <2>1, <2>3, <2>4, FailedInv
  <1>8. CASE Answer = TRUE
    <2>1. Finishes(c, <<>>, TRUE, "publickey") /\ Tally(c, 0)
      BY <1>1, <1>2, <1>5, <1>8 DEF Tally
    <2>2. Tried(child, child.ask) = "publickey"
      BY <1>2, <1>3 DEF Tried, Gss
    <2>3. /\ conf.lists = <<>> \/ Found(c.lists, "publickey")
          /\ mon.pc = "dead" => mon.why = "alarm"
      BY <1>2, <1>5, <1>8, <2>2 DEF JointInv, Fate
    <2>4. mon.pc # "dead" => Won(child)
      BY <1>2, <1>8 DEF Told, AuthDecide
    <2>5. Enough(c, "publickey") = Enough(child, "publickey") /\ GssListed(c) = GssListed(child)
      BY <1>5 DEF Enough, GssListed
    <2> QED
      BY <1>2, <1>4, <1>5, <1>6, <1>8, <2>1, <2>2, <2>3, <2>4, <2>5, GoodInv DEF Won, GssOver
  <1> QED
    BY <1>3, <1>7, <1>8

\* The answer to the beginning of a GSSAPI exchange.
LEMMA ServerCtxInv ==
  ASSUME MonitorInv, JointInv, mm_ssh_gssapi_server_ctx
  PROVE  JointInv'
  <1> DEFINE c == [child EXCEPT !.postponed = TRUE, !.handlers = @ \cup {"TOKEN", "ERRTOK"}]
             u == [child EXCEPT !.caused = TRUE]
  <1>1. Answered("GSSSETUP")
    BY DEF mm_ssh_gssapi_server_ctx
  <1>2. /\ ChildActs /\ Leaves(child, <<>>) /\ child.pc = "wait" /\ child.ask = "GSSSETUP"
        /\ toChild = <<Answer>>
        /\ mon.pc # "dead" => Told(child, Answer) /\ toMon = <<>> /\ toMon \o <<>> = <<>>
        /\ Tally(child, 0)
    <2>1. "GSSSETUP" \in Core \cup Gss /\ "GSSSETUP" \notin AuthDecide
      BY DEF Core, AuthDecide
    <2> QED
      BY <1>1, <2>1, AnswerThere
  <1>3. Answer \in BOOLEAN
    BY <1>2 DEF JointInv, ChildType
  <1>4. mon.pc # "dead" => Ready(child, toMon \o <<>>)
    BY <1>2 DEF Told, Ready, Leaves, GssOver, AuthDecide
  <1>5. CASE Answer = TRUE
    <2>1. Finishes(c, <<>>, FALSE, "gssapi-with-mic")
      BY <1>5 DEF mm_ssh_gssapi_server_ctx
    <2>2. /\ c \in ChildRecord /\ c.handlers = child.handlers \cup {"TOKEN", "ERRTOK"}
          /\ c.none = child.none /\ c.lists = child.lists /\ c.used = child.used
          /\ c.attempt = child.attempt /\ c.excused = child.excused /\ c.success = child.success
          /\ c.failures = child.failures /\ c.why = child.why
      BY <1>2 DEF Leaves, ChildRecord
    <2> HIDE DEF c
    <2>3. Leaves(c, <<>>) /\ Tally(c, 0)
      BY <1>2, <2>2 DEF Leaves, Tally
    <2>4. mon.pc # "dead" => /\ "GSSSTEP" \in mon.permit /\ "gssapi-with-mic" \in conf.enabled
                             /\ auth2_method_allowed(child.lists, "gssapi-with-mic")
      BY <1>2 DEF Told, Tried, Gss
    <2>5. mon.pc # "dead" => Ready(c, toMon \o <<>>)
      BY <1>2, <1>4, <2>2, <2>4 DEF Ready, Onward, Gates, GssListed
    <2> QED
      BY <1>2, <2>1, <2>3, <2>5, FailsInv
  <1>6. CASE Answer = FALSE
    <2>1. Finishes(u, <<>>, FALSE, "gssapi-with-mic")
      BY <1>6 DEF mm_ssh_gssapi_server_ctx
    <2>2. /\ u \in ChildRecord /\ u.handlers = child.handlers
          /\ u.none = child.none /\ u.lists = child.lists /\ u.used = child.used
          /\ u.attempt = child.attempt /\ u.excused = child.excused /\ u.success = child.success
          /\ u.failures = child.failures /\ u.why = child.why
      BY <1>2 DEF Leaves, ChildRecord
    <2> HIDE DEF u
    <2>3. Leaves(u, <<>>) /\ Tally(u, 0)
      BY <1>2, <2>2 DEF Leaves, Tally
    <2>4. mon.pc # "dead" => Ready(u, toMon \o <<>>)
      BY <1>4, <2>2 DEF Ready, Onward, Gates, GssListed
    <2> QED
      BY <1>2, <2>1, <2>3, <2>4, FailsInv
  <1> QED
    BY <1>3, <1>5, <1>6

\* The child reads on without counting anything.
LEMMA ReadsOnInv ==
  ASSUME MonitorInv, JointInv, ChildActs, NEW c, Leaves(c, <<>>), c.pc = "idle", child' = c,
         UNCHANGED toMon, Tally(c, 0), mon.pc # "dead" => Ready(c, toMon)
  PROVE  JointInv'
  <1>1. ChildType' /\ Asking'
    BY DEF ChildType, Asking, ChildActs, Leaves, JointInv
  <1>2. Fate'
    BY MonitorStill DEF JointInv, Fate, ChildActs, Leaves
  <1>3. Counts'
    <2>1. Tally(child, IF Bad THEN 1 ELSE 0)'
      BY MonitorStill DEF Tally
    <2> QED
      BY <2>1, MonitorStill DEF JointInv, Counts, ChildActs, Leaves
  <1>4. mon.pc # "dead" => Together'
    BY MonitorStill DEF Together, Ready, Onward, Gates, GssListed, ChildActs, auth2_method_allowed
  <1> QED
    BY <1>1, <1>2, <1>3, <1>4, MonitorStill DEF JointInv, ChildActs

\* The answer to a token of the exchange.
LEMMA AcceptCtxInv ==
  ASSUME MonitorInv, JointInv, mm_ssh_gssapi_accept_ctx
  PROVE  JointInv'
  <1>1. Answered("GSSSTEP")
    BY DEF mm_ssh_gssapi_accept_ctx
  <1>2. /\ ChildActs /\ Leaves(child, <<>>) /\ child.pc = "wait" /\ child.ask = "GSSSTEP"
        /\ toChild = <<Answer>>
        /\ mon.pc # "dead" => Told(child, Answer) /\ toMon = <<>> /\ toMon \o <<>> = <<>>
        /\ Tally(child, 0)
    <2>1. "GSSSTEP" \in Core \cup Gss /\ "GSSSTEP" \notin AuthDecide
      BY DEF Gss, AuthDecide
    <2> QED
      BY <1>1, <2>1, AnswerThere
  <1>3. Answer \in {"more", "error", "integ", "plain"}
    BY <1>2 DEF JointInv, ChildType
  <1>4. mon.pc # "dead" =>
           /\ Onward(child, <<>>) /\ Gates(child.handlers \ {"TOKEN"}) /\ child.attempt > 0
           /\ "gssapi-with-mic" \in conf.enabled
           /\ auth2_method_allowed(child.lists, "gssapi-with-mic")
           /\ Answer = "integ" => "GSSCHECKMIC" \in mon.permit
           /\ Answer = "plain" => "GSSUSEROK" \in mon.permit
           /\ Answer \in {"more", "error"} => "GSSSTEP" \in mon.permit
    BY <1>2 DEF Told, Tried, Gss, AuthDecide, GssOver, Leaves
  <1>5. CASE Answer = "error"
    <2> DEFINE c == [child EXCEPT !.postponed = FALSE, !.handlers = @ \ {"TOKEN", "ERRTOK"}]
    <2>1. Finishes(c, <<>>, FALSE, "gssapi-with-mic")
      BY <1>5 DEF mm_ssh_gssapi_accept_ctx
    <2>2. /\ c \in ChildRecord /\ c.handlers = child.handlers \ {"TOKEN", "ERRTOK"}
          /\ c.none = child.none /\ c.lists = child.lists /\ c.used = child.used
          /\ c.attempt = child.attempt /\ c.excused = child.excused /\ c.success = child.success
          /\ c.failures = child.failures /\ c.why = child.why
      BY <1>2 DEF Leaves, ChildRecord
    <2> HIDE DEF c
    <2>3. Leaves(c, <<>>) /\ Tally(c, 0)
      BY <1>2, <2>2 DEF Leaves, Tally
    <2>4. mon.pc # "dead" => Ready(c, toMon \o <<>>)
      BY <1>2, <1>4, <2>2 DEF Ready, Onward, Gates, GssListed
    <2> QED
      BY <1>2, <2>1, <2>3, <2>4, FailsInv
  <1>6. CASE Answer # "error"
    <2> DEFINE handlers == CASE Answer = "integ" -> (child.handlers \ {"TOKEN"}) \cup {"MIC"}
                             [] Answer = "plain" -> (child.handlers \ {"TOKEN"}) \cup {"COMPLETE"}
                             [] OTHER -> child.handlers
               c == [child EXCEPT !.pc = "idle", !.handlers = handlers]
    <2>1. child' = c /\ UNCHANGED toMon
      BY <1>6 DEF mm_ssh_gssapi_accept_ctx
    <2>2. /\ Answer = "integ" => handlers = (child.handlers \ {"TOKEN"}) \cup {"MIC"}
          /\ Answer = "plain" => handlers = (child.handlers \ {"TOKEN"}) \cup {"COMPLETE"}
          /\ Answer = "more" => handlers = child.handlers
      OBVIOUS
    <2>3. handlers \in SUBSET {"TOKEN", "ERRTOK", "MIC", "COMPLETE"}
      BY <1>2, <1>3, <1>6, <2>2 DEF Leaves, ChildRecord
    <2> HIDE DEF handlers
    <2>4. /\ c \in ChildRecord /\ c.handlers = handlers /\ c.pc = "idle"
          /\ c.none = child.none /\ c.lists = child.lists /\ c.used = child.used
          /\ c.attempt = child.attempt /\ c.excused = child.excused /\ c.success = child.success
          /\ c.failures = child.failures /\ c.why = child.why
      BY <1>2, <2>3 DEF Leaves, ChildRecord
    <2> HIDE DEF c
    <2>5. Leaves(c, <<>>) /\ Tally(c, 0)
      BY <1>2, <2>4 DEF Leaves, Tally
    <2>6. mon.pc # "dead" => Gates(handlers)
      BY <1>3, <1>4, <1>6, <2>2 DEF Gates
    <2>7. mon.pc # "dead" => Ready(c, toMon)
      BY <1>2, <1>4, <2>4, <2>6 DEF Ready, Onward, GssListed
    <2> QED
      BY <1>2, <2>1, <2>4, <2>5, <2>7, ReadsOnInv
  <1> QED
    BY <1>5, <1>6

\* The child has taken the handlers of the exchange away (GssDone).
LEMMA GssDoneType ==
  ASSUME NEW e \in BOOLEAN, Leaves(child, <<>>), NEW c, c = [GssDone(child) EXCEPT !.excused = e]
  PROVE  /\ c \in ChildRecord /\ c.handlers = {} /\ ~c.postponed
         /\ c.none = child.none /\ c.lists = child.lists /\ c.used = child.used
         /\ c.attempt = child.attempt /\ c.excused = e /\ c.success = child.success
         /\ c.failures = child.failures /\ c.why = child.why /\ c.caused = child.caused
         /\ Leaves(c, <<>>)
  <1>1. c = [child EXCEPT !.postponed = FALSE, !.handlers = {}, !.excused = e]
    BY DEF GssDone, Leaves, ChildRecord
  <1>2. /\ c \in ChildRecord /\ c.handlers = {} /\ ~c.postponed
        /\ c.none = child.none /\ c.lists = child.lists /\ c.used = child.used
        /\ c.attempt = child.attempt /\ c.excused = e /\ c.success = child.success
        /\ c.failures = child.failures /\ c.why = child.why /\ c.caused = child.caused
    BY <1>1 DEF Leaves, ChildRecord
  <1> QED
    BY <1>2 DEF Leaves

\* The answer to the integrity code of the exchange.
LEMMA CheckmicInv ==
  ASSUME MonitorInv, JointInv, mm_ssh_gssapi_checkmic
  PROVE  JointInv'
  <1>1. Answered("GSSCHECKMIC")
    BY DEF mm_ssh_gssapi_checkmic
  <1>2. /\ ChildActs /\ Leaves(child, <<>>) /\ child.pc = "wait" /\ child.ask = "GSSCHECKMIC"
        /\ toChild = <<Answer>>
        /\ mon.pc # "dead" => Told(child, Answer) /\ toMon = <<>> /\ toMon \o <<>> = <<>>
        /\ Tally(child, 0)
    <2>1. "GSSCHECKMIC" \in Core \cup Gss /\ "GSSCHECKMIC" \notin AuthDecide
      BY DEF Gss, AuthDecide
    <2> QED
      BY <1>1, <2>1, AnswerThere
  <1>3. Answer \in BOOLEAN
    BY <1>2 DEF JointInv, ChildType
  <1>4. mon.pc # "dead" =>
           /\ Onward(child, <<>>) /\ child.attempt > 0 /\ "gssapi-with-mic" \in conf.enabled
           /\ auth2_method_allowed(child.lists, "gssapi-with-mic")
           /\ Answer = TRUE => "GSSUSEROK" \in mon.permit
    BY <1>2 DEF Told, Tried, Gss, AuthDecide, Leaves
  <1>5. CASE Answer = TRUE
    <2> DEFINE q == [op |-> "GSSUSEROK"]
    <2>1. Asks(child, <<>>, q)
      BY <1>5 DEF mm_ssh_gssapi_checkmic
    <2>2. q \in Request /\ q.op = "GSSUSEROK"
      BY DEF Request
    <2> HIDE DEF q
    <2>3. mon.pc # "dead" => Asked(child, toMon \o <<>>, q)
      BY <1>2, <1>4, <1>5, <2>2 DEF Asked, Question, Tried, Core, Gss, GssOver
    <2> QED
      BY <1>2, <2>1, <2>2, <2>3, AskInv DEF Core, Gss
  <1>6. CASE Answer = FALSE
    <2> DEFINE c == GssDone(child)
    <2>1. Finishes(c, <<>>, FALSE, "gssapi-with-mic")
      BY <1>6 DEF mm_ssh_gssapi_checkmic
    <2>2. child.excused \in BOOLEAN /\ c = [c EXCEPT !.excused = child.excused]
      BY <1>2 DEF Leaves, ChildRecord, GssDone
    <2>3. /\ c.handlers = {} /\ c.none = child.none /\ c.lists = child.lists /\ c.used = child.used
          /\ c.attempt = child.attempt /\ c.excused = child.excused /\ c.failures = child.failures
          /\ Leaves(c, <<>>)
      BY <1>2, <2>2, GssDoneType
    <2> HIDE DEF c
    <2>4. Tally(c, 0)
      BY <1>2, <2>3 DEF Tally
    <2>5. mon.pc # "dead" => Ready(c, toMon \o <<>>)
      BY <1>2, <1>4, <2>3 DEF Ready, Onward, Gates, GssListed
    <2> QED
      BY <1>2, <2>1, <2>3, <2>4, <2>5, FailsInv
  <1> QED
    BY <1>3, <1>5, <1>6

\* The answer whether the exchange stands for the user.
LEMMA UserokInv ==
  ASSUME MonitorInv, JointInv, mm_ssh_gssapi_userok
  PROVE  JointInv'
  <1> DEFINE e == child.excused \/ (~Answer /\ child.caused)
             c == [GssDone(child) EXCEPT !.excused = e]
  <1>1. Answered("GSSUSEROK")
    BY DEF mm_ssh_gssapi_userok
  <1>2. /\ ChildActs /\ Leaves(child, <<>>) /\ child.pc = "wait" /\ child.ask = "GSSUSEROK"
        /\ toChild = <<Answer>>
        /\ mon.pc # "dead" => Told(child, Answer) /\ toMon = <<>> /\ toMon \o <<>> = <<>>
        /\ Answer = TRUE => Tally(child, 0) /\ Good
        /\ Answer = FALSE => Tally(child, 1)
    <2>1. "GSSUSEROK" \in Core \cup Gss /\ "GSSUSEROK" \in AuthDecide
      BY DEF Gss, AuthDecide
    <2> QED
      BY <1>1, <2>1, AnswerThere
  <1>3. Answer \in BOOLEAN /\ child.excused \in BOOLEAN /\ child.caused \in BOOLEAN
    BY <1>2 DEF JointInv, ChildType, ChildRecord
  <1>4. Finishes(c, <<>>, Answer, "gssapi-with-mic")
    <2>1. c = [GssDone(child) EXCEPT !.excused = @ \/ (~Answer /\ child.caused)]
      BY <1>2 DEF GssDone, Leaves, ChildRecord
    <2> HIDE DEF c
    <2> QED
      BY <2>1 DEF mm_ssh_gssapi_userok
  <1>5. e \in BOOLEAN /\ (Answer = TRUE => e = child.excused)
        /\ (Answer = FALSE => (e <=> child.excused \/ child.caused))
    BY <1>3
  <1> HIDE DEF e
  <1>6. /\ c \in ChildRecord /\ c.handlers = {} /\ ~c.postponed
        /\ c.none = child.none /\ c.lists = child.lists /\ c.used = child.used
        /\ c.attempt = child.attempt /\ c.excused = e /\ c.failures = child.failures
        /\ c.caused = child.caused /\ Leaves(c, <<>>)
    BY <1>2, <1>5, GssDoneType
  <1> HIDE DEF c
  <1>7. CASE Answer = FALSE
    <2>1. Finishes(c, <<>>, FALSE, "gssapi-with-mic")
      BY <1>4, <1>7
    <2>2. mon.pc # "dead" => Ready(c, toMon \o <<>>)
      BY <1>2, <1>6, <1>7 DEF Told, Ready, Onward, Gates, GssListed, Leaves
    <2>3. CASE child.caused
      <3>1. Tally(c, 0)
        BY <1>5, <1>6, <1>7, <2>3 DEF Tally
      <3> QED
        BY <1>2, <1>6, <2>1, <2>2, <3>1, FailsInv
    <2>4. CASE ~child.caused
      <3>1. Tally(c, 1)
        BY <1>2, <1>3, <1>5, <1>6, <1>7, <2>4 DEF Tally
      <3>2. ~c.postponed /\ ~c.caused /\ (c.attempt > 1 \/ "gssapi-with-mic" # "none")
        BY <1>6, <2>4
      <3> QED
        BY <1>2, <1>6, <2>1, <2>2, <3>1, <3>2, FailedInv
    <2> QED
      BY <2>3, <2>4
  <1>8. CASE Answer = TRUE
    <2>1. Finishes(c, <<>>, TRUE, "gssapi-with-mic") /\ Tally(c, 0)
      BY <1>2, <1>4, <1>5, <1>6, <1>8 DEF Tally
    <2>2. Tried(child, child.ask) = "gssapi-with-mic"
      BY <1>2 DEF Tried, Gss
    <2>3. /\ conf.lists = <<>> \/ Found(c.lists, "gssapi-with-mic")
          /\ mon.pc = "dead" => mon.why = "alarm"
      BY <1>2, <1>6, <1>8, <2>2 DEF JointInv, Fate
    <2>4. mon.pc # "dead" => Won(child)
      BY <1>2, <1>8 DEF Told, AuthDecide
    <2>5. Enough(c, "gssapi-with-mic") = Enough(child, "gssapi-with-mic") /\ Gates(c.handlers)
      BY <1>6 DEF Enough, Gates
    <2> QED
      BY <1>2, <1>6, <1>8, <2>1, <2>2, <2>3, <2>4, <2>5, GoodInv DEF Won
  <1> QED
    BY <1>3, <1>7, <1>8

\* The child gives up, for one reason or another: the monitor can read what is on its way.
LEMMA EndsInv ==
  ASSUME MonitorInv, JointInv, ChildActs, NEW c \in ChildRecord, NEW why \in {"tries", "client", "nomethods"},
         child' = Ends(c, why), toMon' \in Seq(Request), ~c.success, Tally(c, 0),
         c.attempt = 0 => Counted = 0 /\ c.handlers = {},
         mon.pc # "dead" =>
            /\ toMon' \in {<<>>, <<AuthservRequest>>} /\ mon.pc \in {"read", "decide"}
            /\ toMon' # <<>> => "AUTHSERV" \in mon.permit /\ ~Undecided
  PROVE  JointInv'
  <1>1. child' = [c EXCEPT !.pc = "dead", !.why = why]
    BY DEF Ends
  <1>2. /\ child' \in ChildRecord /\ child'.pc = "dead" /\ child'.why = why /\ ~child'.success
        /\ child'.attempt = c.attempt /\ child'.none = c.none /\ child'.excused = c.excused
        /\ child'.failures = c.failures /\ child'.handlers = c.handlers
    BY <1>1 DEF ChildRecord
  <1>3. c.attempt \in Nat
    BY DEF ChildRecord
  <1>4. ChildType' /\ Asking'
    BY <1>2, <1>3 DEF ChildType, Asking, ChildActs
  <1>5. Fate'
    BY <1>2, MonitorStill DEF JointInv, Fate, ChildActs
  <1>6. Counts'
    <2>1. Tally(child, IF Bad THEN 1 ELSE 0)'
      BY <1>2, MonitorStill DEF Tally
    <2> QED
      BY <1>2, <2>1, MonitorStill DEF JointInv, Counts, ChildActs
  <1>7. mon.pc # "dead" => Together'
    BY <1>2, MonitorStill DEF Together, ChildActs
  <1> QED
    BY <1>4, <1>5, <1>6, <1>7, MonitorStill DEF JointInv, ChildActs

\* The user is known or not, and the service is named; the request itself comes next.
LEMMA GetpwnamInv ==
  ASSUME MonitorInv, JointInv, NEW service, mm_getpwnamallow(service)
  PROVE  JointInv'
  <1> DEFINE v == Answer /\ service = "ssh-connection"
             c == [child EXCEPT !.valid = v, !.lists = auth2_setup_methods_lists]
             sent == <<[op |-> "AUTHSERV"]>>
  <1>1. /\ child.pc = "wait" /\ child.ask = "PWNAM" /\ toChild # <<>> /\ ChildActs
        /\ IF conf.lists # <<>> /\ DOMAIN c.lists = {}
           THEN child' = Ends(c, "nomethods") /\ toMon' = toMon \o sent
           ELSE TryMethod(c, sent, c.cur)
    BY DEF mm_getpwnamallow, Answered, ChildActs
  <1>2. Leaves(child, <<>>) /\ Counted = 0
    BY <1>1, ChildLeaves DEF JointInv, Asking, Counts
  <1>3. v \in BOOLEAN /\ auth2_setup_methods_lists \in Lists
    BY SetUpType DEF MonitorInv
  <1> HIDE DEF v
  <1>4. /\ c \in ChildRecord /\ c.handlers = child.handlers /\ c.lists = auth2_setup_methods_lists
        /\ c.none = child.none /\ c.used = child.used /\ c.attempt = child.attempt
        /\ c.excused = child.excused /\ c.success = child.success /\ c.failures = child.failures
        /\ c.why = child.why
    BY <1>2, <1>3 DEF Leaves, ChildRecord
  <1>5. sent = <<AuthservRequest>>
    BY DEF AuthservRequest
  <1> HIDE DEF c, sent
  <1>6. Leaves(c, sent)
    BY <1>2, <1>4, <1>5 DEF Leaves
  <1>7. Tally(c, 0)
    <2>1. c.failures \in Nat
      BY <1>4 DEF ChildRecord
    <2> QED
      BY <1>2, <2>1 DEF Tally
  <1>8. mon.pc # "dead" =>
           /\ toMon = <<>> /\ toMon \o sent = <<AuthservRequest>> /\ "AUTHSERV" \in mon.permit
           /\ ~Undecided /\ mon.pc \in {"read", "decide"} /\ child.handlers = {}
           /\ child.used = mon.used /\ mon.lists = auth2_setup_methods_lists
    <2>1. AuthservRequest \in Request
      BY DEF AuthservRequest, Request
    <2>2. mon.pc # "dead" => Naming
      BY <1>1 DEF JointInv, Together, Told, Core, Gss
    <2>3. mon.pc # "dead" =>
           /\ toMon = <<>> /\ "AUTHSERV" \in mon.permit
           /\ ~Undecided /\ mon.pc \in {"read", "decide"} /\ child.handlers = {}
           /\ child.used = mon.used /\ mon.lists = auth2_setup_methods_lists
      BY <1>1, <2>2 DEF Naming
    <2>4. <<>> \o <<AuthservRequest>> = <<AuthservRequest>>
      BY <2>1
    <2> QED
      BY <1>5, <2>3, <2>4
  <1>9. CASE conf.lists # <<>> /\ DOMAIN c.lists = {}
    <2>1. child' = Ends(c, "nomethods") /\ toMon' = toMon \o sent
      BY <1>1, <1>9
    <2>2. toMon' \in Seq(Request)
      BY <1>5, <2>1, PipeType DEF JointInv, ChildType
    <2>3. ~c.success /\ c.attempt # 0
      BY <1>6 DEF Leaves, ChildRecord
    <2> QED
      BY <1>1, <1>4, <1>7, <1>8, <2>1, <2>2, <2>3, EndsInv
  <1>10. CASE ~(conf.lists # <<>> /\ DOMAIN c.lists = {})
    <2>1. TryMethod(c, sent, c.cur)
      BY <1>1, <1>10
    <2>2. mon.pc # "dead" => Ready(c, toMon \o sent)
      BY <1>4, <1>6, <1>8 DEF Ready, Onward, Gates, GssListed, Due, Leaves
    <2> QED
      BY <1>1, <1>2, <1>6, <1>7, <2>1, <2>2, TryInv
  <1> QED
    BY <1>9, <1>10

-----------------------------------------------------------------------------
(* The packets of the client.                                              *)

\* A child that reads from the client waits for nothing, and nothing is on the way to the
\* monitor but the naming of the service.
LEMMA IdleChild ==
  ASSUME JointInv, child.pc = "idle", UNCHANGED <<conf, mon, toChild, proved>>
  PROVE  /\ ChildActs /\ Tally(child, 0) /\ ~child.success /\ toMon \in Seq(Request)
         /\ toMon \o <<>> = toMon
         /\ child.attempt > 0 => Leaves(child, <<>>) /\ (mon.pc # "dead" => Ready(child, toMon))
  <1>1. toChild = <<>> /\ toMon \in Seq(Request) /\ ~child.success
    BY DEF JointInv, ChildType
  <1>2. ChildActs
    BY <1>1 DEF ChildActs
  <1>3. ~Bad
    BY <1>1 DEF Bad
  <1>4. Tally(child, 0)
    BY <1>3 DEF JointInv, Counts
  <1>5. child.attempt > 0 => Leaves(child, <<>>)
    BY ChildLeaves
  <1>6. child.attempt > 0 /\ mon.pc # "dead" => Ready(child, toMon)
    BY DEF JointInv, Together, Naming
  <1> QED
    BY <1>1, <1>2, <1>4, <1>5, <1>6

\* The first request: the user is named.
LEMMA FirstRequestInv ==
  ASSUME MonitorInv, JointInv, NEW r \in UserauthRequest, NEW known \in BOOLEAN,
         FirstRequest(r, known)
  PROVE  JointInv'
  <1> DEFINE q == [op |-> "PWNAM", known |-> known]
  <1>1. /\ child.pc = "idle" /\ child.attempt = 0 /\ UNCHANGED <<conf, mon, toChild, proved>>
        /\ child' = [[child EXCEPT !.attempt = 1, !.cur = r] EXCEPT !.pc = "wait", !.ask = "PWNAM"]
        /\ toMon' = toMon \o Append(<<>>, q)
    BY DEF FirstRequest, Asks
  <1>2. ChildActs /\ Tally(child, 0) /\ ~child.success /\ toMon \in Seq(Request)
    BY <1>1, IdleChild
  <1>3. child \in ChildRecord /\ child.handlers = {}
    BY <1>1 DEF JointInv, ChildType, ChildRecord
  <1>4. child' = [child EXCEPT !.attempt = 1, !.cur = r, !.pc = "wait", !.ask = "PWNAM"]
    BY <1>1
  <1>5. /\ child' \in ChildRecord /\ child'.pc = "wait" /\ child'.ask = "PWNAM"
        /\ child'.attempt = 1 /\ child'.handlers = {} /\ child'.used = child.used
        /\ child'.success = child.success /\ child'.why = child.why /\ child'.none = child.none
        /\ child'.failures = child.failures /\ child'.excused = child.excused
    BY <1>3, <1>4 DEF ChildRecord, Entry
  <1>6. q \in Request
    BY DEF Request
  <1>7. toMon' \in Seq(Request) /\ (toMon = <<>> => toMon' = <<q>>)
    <2>1. toMon' = Append(toMon \o <<>>, q) /\ toMon' \in Seq(Request)
      BY <1>1, <1>2, <1>6, QuestionPipe
    <2>2. toMon = <<>> => toMon \o <<>> = <<>>
      OBVIOUS
    <2>3. Append(<<>>, q) = <<q>>
      OBVIOUS
    <2> HIDE DEF q
    <2> QED
      BY <2>1, <2>2, <2>3
  <1>8. Counted = 0
    BY <1>1 DEF JointInv, Counts
  <1>9. ChildType' /\ Asking'
    BY <1>5, <1>7, <1>2 DEF ChildType, Asking, ChildActs, Core
  <1>10. Fate'
    BY <1>2, <1>5, MonitorStill DEF JointInv, Fate, ChildActs
  <1>11. Counts'
    <2>1. Tally(child, IF Bad THEN 1 ELSE 0)'
      BY <1>2, <1>5, MonitorStill DEF Tally
    <2> QED
      BY <1>1, <1>2, <1>5, <1>8, <2>1, MonitorStill DEF JointInv, Counts, ChildActs
  <1>12. mon.pc # "dead" => Together'
    <2>1. SUFFICES ASSUME mon.pc # "dead" PROVE Naming'
      BY <1>2 DEF Together, ChildActs
    <2>2. Naming
      BY <1>1, <2>1 DEF JointInv, Together, Ready
    <2>3. /\ mon.failures = 0 /\ ~Undecided /\ child.used = {} /\ mon.used = {}
          /\ toMon = <<>> /\ mon.pc = "read" /\ mon.permit = {"PWNAM"}
      BY <1>1, <2>2 DEF Naming
    <2>4. toMon' = <<[op |-> "PWNAM", known |-> known]>>
      BY <1>7, <2>3
    <2> QED
      BY <1>2, <1>5, <2>3, <2>4, MonitorStill DEF Naming, ChildActs
  <1> QED
    BY <1>2, <1>9, <1>10, <1>11, <1>12, MonitorStill DEF JointInv, ChildActs

\* Every later request.
LEMMA UserauthRequestInv ==
  ASSUME MonitorInv, JointInv, NEW r \in UserauthRequest, input_userauth_request(r)
  PROVE  JointInv'
  <1> DEFINE c == [child EXCEPT !.attempt = @ + 1, !.cur = r]
  <1>1. /\ child.pc = "idle" /\ child.attempt > 0 /\ UNCHANGED <<conf, mon, toChild, proved>>
        /\ IF child.attempt >= AttemptLimit
           THEN child' = Ends(child, "tries") /\ UNCHANGED toMon
           ELSE TryMethod(c, <<>>, r)
    BY DEF input_userauth_request
  <1>2. /\ ChildActs /\ Tally(child, 0) /\ ~child.success /\ toMon \in Seq(Request)
        /\ toMon \o <<>> = toMon
        /\ Leaves(child, <<>>) /\ (mon.pc # "dead" => Ready(child, toMon))
    BY <1>1, IdleChild
  <1>3. child \in ChildRecord /\ child.attempt \in Nat
    BY <1>2 DEF Leaves, ChildRecord
  <1>4. CASE child.attempt >= AttemptLimit
    <2>1. child' = Ends(child, "tries") /\ UNCHANGED toMon
      BY <1>1, <1>4
    <2>2. mon.pc # "dead" =>
            /\ toMon \in {<<>>, <<AuthservRequest>>} /\ mon.pc \in {"read", "decide"}
            /\ toMon # <<>> => "AUTHSERV" \in mon.permit /\ ~Undecided
      BY <1>2 DEF Ready, Onward
    <2>3. child.attempt # 0
      BY <1>1, <1>3
    <2> QED
      BY <1>2, <1>3, <2>1, <2>2, <2>3, EndsInv
  <1>5. CASE ~(child.attempt >= AttemptLimit)
    <2>1. TryMethod(c, <<>>, r)
      BY <1>1, <1>5
    <2> DEFINE n == child.attempt + 1
    <2>a. n \in Nat /\ n > 1 /\ c = [child EXCEPT !.attempt = n, !.cur = r]
      BY <1>1, <1>3
    <2> HIDE DEF n, c
    <2>2. /\ c \in ChildRecord /\ c.handlers = child.handlers /\ c.lists = child.lists
          /\ c.none = child.none /\ c.used = child.used /\ c.attempt = n
          /\ c.excused = child.excused /\ c.success = child.success /\ c.failures = child.failures
          /\ c.why = child.why /\ c.cur = r
      BY <1>3, <2>a DEF ChildRecord
    <2>3. c.attempt > 1 /\ c.attempt > 0
      BY <2>a, <2>2
    <2>4. Leaves(c, <<>>) /\ Tally(c, 0)
      BY <1>2, <2>2, <2>3 DEF Leaves, Tally
    <2>5. mon.pc # "dead" => Ready(c, toMon \o <<>>)
      BY <1>2, <2>2, <2>3 DEF Ready, Onward, Gates, GssListed
    <2>6. TryMethod(c, <<>>, c.cur)
      BY <2>1, <2>2
    <2> QED
      BY <1>2, <2>3, <2>4, <2>5, <2>6, TryInv
  <1> QED
    BY <1>4, <1>5

\* A message of the exchange that leads to a question: its handler was set, so the request
\* is permitted, and nothing else is on the way.
LEMMA GssMessageInv ==
  ASSUME MonitorInv, JointInv, child.pc = "idle", UNCHANGED <<conf, mon, toChild, proved>>,
         NEW q \in Request, Asks(child, <<>>, q), q.op \in Gss, q.op \notin Core, child.handlers # {},
         mon.pc # "dead" /\ Gates(child.handlers) => q.op \in mon.permit
  PROVE  JointInv'
  <1>1. child.attempt > 0
    BY DEF JointInv, ChildType
  <1>2. /\ ChildActs /\ Tally(child, 0) /\ toMon \o <<>> = toMon
        /\ Leaves(child, <<>>) /\ (mon.pc # "dead" => Ready(child, toMon))
    BY <1>1, IdleChild
  <1>3. mon.pc # "dead" => Asked(child, toMon \o <<>>, q)
    <2>1. SUFFICES ASSUME mon.pc # "dead" PROVE Asked(child, toMon, q)
      BY <1>2
    <2>2. toMon = <<>> /\ Gates(child.handlers) /\ Onward(child, toMon) /\ GssListed(child)
      BY <1>2, <2>1 DEF Ready, Onward
    <2>3. Question(child, q)
      BY <2>1, <2>2 DEF Question, Tried, GssListed, Core, Gss
    <2> QED
      BY <2>2, <2>3 DEF Asked
  <1>4. q.op \notin {"KEYALLOWED", "KEYVERIFY", "AUTHPASSWORD"}
    BY DEF Core
  <1> QED
    BY <1>2, <1>3, <1>4, AskInv

\* A token, the end of the exchange, and its integrity code.
LEMMA GssExchangeInv ==
  ASSUME MonitorInv, JointInv,
         \/ input_gssapi_token \/ input_gssapi_exchange_complete
         \/ \E good \in BOOLEAN : input_gssapi_mic(good)
  PROVE  JointInv'
  <1>1. CASE input_gssapi_token
    <2> DEFINE q == [op |-> "GSSSTEP"]
    <2>1. q \in Request /\ q.op = "GSSSTEP" /\ q.op \in Gss /\ q.op \notin Core
      BY DEF Request, Gss, Core
    <2>2. /\ child.pc = "idle" /\ "TOKEN" \in child.handlers
          /\ Asks(child, <<>>, q) /\ UNCHANGED <<conf, mon, toChild, proved>>
      BY <1>1 DEF input_gssapi_token
    <2> HIDE DEF q
    <2>3. Gates(child.handlers) => q.op \in mon.permit
      BY <2>1, <2>2 DEF Gates
    <2> QED
      BY <2>1, <2>2, <2>3, GssMessageInv
  <1>2. CASE input_gssapi_exchange_complete
    <2> DEFINE q == [op |-> "GSSUSEROK"]
    <2>1. q \in Request /\ q.op = "GSSUSEROK" /\ q.op \in Gss /\ q.op \notin Core
      BY DEF Request, Gss, Core
    <2>2. /\ child.pc = "idle" /\ "COMPLETE" \in child.handlers
          /\ Asks(child, <<>>, q) /\ UNCHANGED <<conf, mon, toChild, proved>>
      BY <1>2 DEF input_gssapi_exchange_complete
    <2> HIDE DEF q
    <2>3. Gates(child.handlers) => q.op \in mon.permit
      BY <2>1, <2>2 DEF Gates
    <2> QED
      BY <2>1, <2>2, <2>3, GssMessageInv
  <1>3. ASSUME NEW good \in BOOLEAN, input_gssapi_mic(good)
        PROVE  JointInv'
    <2> DEFINE q == [op |-> "GSSCHECKMIC", good |-> good]
    <2>1. q \in Request /\ q.op = "GSSCHECKMIC" /\ q.op \in Gss /\ q.op \notin Core
      BY DEF Request, Gss, Core
    <2>2. /\ child.pc = "idle" /\ "MIC" \in child.handlers
          /\ Asks(child, <<>>, q) /\ UNCHANGED <<conf, mon, toChild, proved>>
      BY <1>3 DEF input_gssapi_mic
    <2> HIDE DEF q
    <2>3. Gates(child.handlers) => q.op \in mon.permit
      BY <2>1, <2>2 DEF Gates
    <2> QED
      BY <2>1, <2>2, <2>3, GssMessageInv
  <1> QED
    BY <1>1, <1>2, <1>3

\* The client gives the exchange up.
LEMMA ErrtokInv ==
  ASSUME MonitorInv, JointInv, input_gssapi_errtok
  PROVE  JointInv'
  <1> DEFINE c == [child EXCEPT !.postponed = FALSE, !.handlers = {}]
  <1>1. /\ child.pc = "idle" /\ "ERRTOK" \in child.handlers
        /\ Finishes(c, <<>>, FALSE, "gssapi-with-mic") /\ UNCHANGED <<conf, mon, toChild, proved>>
    BY DEF input_gssapi_errtok
  <1>2. child.attempt > 0
    BY <1>1 DEF JointInv, ChildType
  <1>3. /\ ChildActs /\ Tally(child, 0) /\ toMon \o <<>> = toMon
        /\ Leaves(child, <<>>) /\ (mon.pc # "dead" => Ready(child, toMon))
    BY <1>1, <1>2, IdleChild
  <1>4. /\ c \in ChildRecord /\ c.handlers = {} /\ c.lists = child.lists
        /\ c.none = child.none /\ c.used = child.used /\ c.attempt = child.attempt
        /\ c.excused = child.excused /\ c.success = child.success /\ c.failures = child.failures
        /\ c.why = child.why
    BY <1>3 DEF Leaves, ChildRecord
  <1> HIDE DEF c
  <1>5. Leaves(c, <<>>) /\ Tally(c, 0)
    BY <1>3, <1>4 DEF Leaves, Tally
  <1>6. mon.pc # "dead" => Ready(c, toMon \o <<>>)
    BY <1>3, <1>4 DEF Ready, Onward, Gates, GssListed
  <1> QED
    BY <1>1, <1>3, <1>5, <1>6, FailsInv

\* The client goes away.
LEMMA ClientEndsInv ==
  ASSUME MonitorInv, JointInv, ClientEnds
  PROVE  JointInv'
  <1>1. child.pc = "idle" /\ child' = Ends(child, "client") /\ UNCHANGED <<conf, mon, toMon, toChild, proved>>
    BY DEF ClientEnds
  <1>2. ChildActs /\ Tally(child, 0) /\ ~child.success /\ toMon' \in Seq(Request) /\ child \in ChildRecord
    BY <1>1, IdleChild DEF JointInv, ChildType
  <1>3. child.attempt = 0 => Counted = 0 /\ child.handlers = {}
    BY DEF JointInv, Counts, ChildType
  <1>4. mon.pc # "dead" =>
          /\ toMon' \in {<<>>, <<AuthservRequest>>} /\ mon.pc \in {"read", "decide"}
          /\ toMon' # <<>> => "AUTHSERV" \in mon.permit /\ ~Undecided
    BY <1>1 DEF JointInv, Together, Naming, Ready, Onward
  <1> QED
    BY <1>1, <1>2, <1>3, <1>4, EndsInv

\* The child has told the client of the success, sends the keys and exits.
LEMMA SendKeystateInv ==
  ASSUME MonitorInv, JointInv, mm_send_keystate
  PROVE  JointInv'
  <1>1. /\ child.pc = "success" /\ child' = [child EXCEPT !.pc = "exit"]
        /\ toMon' = Append(toMon, KeyExport) /\ UNCHANGED <<conf, mon, toChild, proved>>
    BY DEF mm_send_keystate, KeyExport
  <1>2. child \in ChildRecord /\ toMon \in Seq(Request) /\ toChild = <<>> /\ child.success
    BY <1>1 DEF JointInv, ChildType
  <1>3. /\ child' \in ChildRecord /\ child'.pc = "exit" /\ child'.success
        /\ child'.handlers = child.handlers /\ child'.attempt = child.attempt
        /\ child'.failures = child.failures /\ child'.none = child.none
        /\ child'.excused = child.excused /\ child'.why = child.why
    BY <1>1, <1>2 DEF ChildRecord
  <1>4. KeyExport \in Request
    BY DEF KeyExport, Request
  <1>5. toMon' \in Seq(Request) /\ (toMon = <<>> => toMon' = <<KeyExport>>) /\ ChildActs
    <2>1. Append(<<>>, KeyExport) = <<KeyExport>>
      OBVIOUS
    <2>2. ChildActs
      BY <1>1, <1>2 DEF ChildActs
    <2>3. toMon' \in Seq(Request)
      BY <1>1, <1>2, <1>4
    <2> QED
      BY <1>1, <2>1, <2>2, <2>3
  <1>6. ChildType' /\ Asking'
    BY <1>1, <1>2, <1>3, <1>5 DEF JointInv, ChildType, Asking
  <1>7. Fate'
    BY <1>2, <1>3, <1>5, MonitorStill DEF JointInv, Fate, ChildActs
  <1>8. Counts'
    <2>1. ~Bad
      BY <1>2 DEF Bad
    <2>2. Tally(child, IF Bad THEN 1 ELSE 0)'
      BY <1>3, <1>5, <2>1, MonitorStill DEF JointInv, Counts, Tally
    <2> QED
      BY <1>1, <1>3, <1>5, <2>2, MonitorStill DEF JointInv, Counts, ChildActs
  <1>9. mon.pc # "dead" => Together'
    <2>1. mon.pc # "dead" => toMon = <<>> /\ Admits
      BY <1>1 DEF JointInv, Together, Naming
    <2>2. Admits' = Admits
      BY <1>1 DEF Admits, Undecided
    <2> QED
      BY <1>3, <1>5, <2>1, <2>2 DEF Together
  <1> QED
    BY <1>5, <1>6, <1>7, <1>8, <1>9, MonitorStill DEF JointInv, ChildActs

\* Every step of the child keeps what it has in common with the monitor.
LEMMA ChildStepInv ==
  ASSUME MonitorInv, JointInv, ClientStep \/ ChildStep
  PROVE  JointInv'
  <1>1. CASE ClientStep
    BY <1>1, FirstRequestInv, UserauthRequestInv, GssExchangeInv, ErrtokInv, ClientEndsInv
       DEF ClientStep
  <1>2. CASE ChildStep
    BY <1>2, GetpwnamInv, AuthPasswordInv, UserKeyAllowedInv, SshkeyVerifyInv, ServerCtxInv,
       AcceptCtxInv, CheckmicInv, UserokInv, SendKeystateInv DEF ChildStep
  <1> QED
    BY <1>1, <1>2

-----------------------------------------------------------------------------
(* Steps of the monitor and the ends of the processes.                     *)

\* Two sequences of one element.
LEMMA SeqEqual ==
  ASSUME NEW S, NEW s \in Seq(S), NEW t \in Seq(S), Len(s) = 1, Len(t) = 1, s[1] = t[1]
  PROVE  s = t
  <1>1. \A i \in 1 .. 1 : i = 1
    OBVIOUS
  <1>2. s \in [1 .. 1 -> S] /\ t \in [1 .. 1 -> S]
    OBVIOUS
  <1> QED
    BY <1>1, <1>2

\* What the pipe to the monitor keeps when its first request is taken.
LEMMA TailPipe ==
  ASSUME toMon \in Seq(Request), toMon # <<>>
  PROVE  /\ Tail(toMon) \in Seq(Request) /\ Next1 \in Request
         /\ \A q \in Request : toMon = <<q>> => Next1 = q /\ Tail(toMon) = <<>>
         /\ \A q, r \in Request : toMon = Append(<<q>>, r) => Next1 = q /\ Tail(toMon) = Append(<<>>, r)
  <1>1. Tail(toMon) \in Seq(Request) /\ Next1 \in Request
    BY DEF Next1
  <1>2. ASSUME NEW q \in Request, toMon = <<q>>
        PROVE  Next1 = q /\ Tail(toMon) = <<>>
    BY <1>2 DEF Next1
  <1>3. ASSUME NEW q \in Request, NEW r \in Request, toMon = Append(<<q>>, r)
        PROVE  Next1 = q /\ Tail(toMon) = Append(<<>>, r)
    <2>1. <<q>> \in Seq(Request) /\ Len(<<q>>) = 1 /\ <<q>>[1] = q
      OBVIOUS
    <2>2. Len(toMon) = 2 /\ toMon[1] = q /\ toMon[2] = r
      BY <1>3, <2>1
    <2> DEFINE t == Tail(toMon)
               a == Append(<<>>, r)
    <2>3. t \in Seq(Request) /\ Len(t) = 1 /\ t[1] = r
      BY <2>2
    <2>4. <<>> \in Seq(Request)
      OBVIOUS
    <2>5. a \in Seq(Request) /\ Len(a) = 1 /\ a[1] = r
      BY <2>4
    <2> HIDE DEF t, a
    <2>6. t = a
      BY <2>3, <2>5, SeqEqual
    <2>7. Next1 = q
      BY <2>2 DEF Next1
    <2> QED
      BY <2>6, <2>7 DEF t, a
  <1> QED
    BY <1>1, <1>2, <1>3

\* The monitor is gone, for a reason that the child need not know.
LEMMA MonitorDiesInv ==
  ASSUME MonitorInv, JointInv, UNCHANGED <<conf, toChild, child>>, toMon' \in Seq(Request),
         NEW why \in {"null", "eof", "alarm", "options"}, Dies(why), mon.pc # "dead",
         child.success => why \in {"alarm", "options"},
         Good /\ child.pc = "wait" => why = "alarm"
  PROVE  JointInv'
  <1>1. /\ mon'.pc = "dead" /\ mon'.why = why /\ mon'.failures = mon.failures /\ mon.failures \in Nat
        /\ mon.why # "tries"
    BY DEF Dies, MonitorInv, MonitorType, JointInv, Fate
  <1>2. ChildType' /\ Asking'
    BY DEF JointInv, ChildType, Asking, Answer
  <1>3. Good' = Good /\ Bad' = Bad
    BY DEF Good, Bad
  <1>4. Fate'
    BY <1>1, <1>3 DEF JointInv, Fate, Tried
  <1>5. Counted' = mon.failures /\ Counted \in Nat /\ mon.failures <= Counted
    BY <1>1 DEF Counted
  <1>6. Counts'
    <2>1. child.failures \in Nat
      BY DEF JointInv, ChildType, ChildRecord
    <2>2. Tally(child, IF Bad THEN 1 ELSE 0)'
      <3> DEFINE more == IF Bad THEN 1 ELSE 0
      <3>1. more \in Nat /\ Tally(child, more)
        BY DEF JointInv, Counts
      <3>2. ~child.excused => mon.failures <= child.failures + more + (IF child.none THEN 0 ELSE 1)
        <4> HIDE DEF more
        <4> QED
          BY <1>1, <1>5, <2>1, <3>1 DEF Tally
      <3> QED
        BY <1>3, <1>5, <3>2 DEF Tally
    <2>3. child.attempt = 0 \/ (child.pc = "wait" /\ child.ask = "PWNAM") => mon.failures = 0
      BY <1>1, <1>5 DEF JointInv, Counts
    <2>4. child.pc = "wait" /\ child.ask = "AUTHPASSWORD" /\ child.attempt = 1 /\ child.cur.method = "none"
            => mon.failures <= IF Bad THEN 1 ELSE 0
      BY <1>1, <1>5 DEF JointInv, Counts
    <2>5. mon.failures <= MaxAuthTries /\ (child.pc # "dead" => child.failures < MaxAuthTries)
      BY DEF JointInv, Counts
    <2>6. ~(mon.failures > MaxAuthTries)
      BY <1>1, <2>5, TriesAssumption
    <2> QED
      BY <1>1, <1>3, <1>5, <2>2, <2>3, <2>4, <2>5, <2>6 DEF Counts
  <1> QED
    BY <1>1, <1>2, <1>4, <1>6 DEF JointInv

\* The grace time is over.
LEMMA AlarmInv ==
  ASSUME MonitorInv, JointInv, grace_alarm_handler
  PROVE  JointInv'
  BY MonitorDiesInv DEF grace_alarm_handler, JointInv, ChildType

\* The child is gone.
LEMMA SeesEofInv ==
  ASSUME MonitorInv, JointInv, MonitorSeesEof
  PROVE  JointInv'
  <1>1. ~child.success
    BY DEF MonitorSeesEof, JointInv, Together, Naming
  <1> QED
    BY <1>1, MonitorDiesInv DEF MonitorSeesEof, JointInv, ChildType

\* The monitor has seen the child exit.
LEMMA PostauthInv ==
  ASSUME MonitorInv, JointInv, privsep_postauth
  PROVE  JointInv'
  <1>1. mon.pc = "reap" /\ child.pc = "exit" /\ UNCHANGED <<conf, toMon, toChild, proved, child>>
    BY DEF privsep_postauth
  <1>2. CASE mon.opts = Lost
    BY <1>1, <1>2, MonitorDiesInv DEF privsep_postauth, JointInv, ChildType
  <1>3. CASE mon.opts # Lost
    <2>1. /\ mon'.pc = "session" /\ mon'.failures = mon.failures /\ mon'.why = mon.why
      BY <1>1, <1>3 DEF privsep_postauth, MonitorInv, MonitorType
    <2>2. Counted' = Counted /\ Good' = Good /\ Bad' = Bad /\ ~Undecided'
      BY <1>1, <2>1 DEF Counted, Good, Bad, Undecided
    <2>3. ChildType' /\ Asking'
      BY <1>1 DEF JointInv, ChildType, Asking, Answer
    <2>4. Fate'
      BY <1>1, <2>1, <2>2 DEF JointInv, Fate, Tried
    <2>5. Counts'
      BY <1>1, <2>1, <2>2 DEF JointInv, Counts, Tally
    <2>6. Together'
      <3>1. toMon = <<>>
        BY <1>1 DEF JointInv, Together, Naming, Admits, Undecided
      <3> QED
        BY <1>1, <2>1, <3>1 DEF Together
    <2> QED
      BY <2>2, <2>3, <2>4, <2>5, <2>6 DEF JointInv, Listed
  <1> QED
    BY <1>2, <1>3

\* The monitor kills the child as it goes.
LEMMA CleanupInv ==
  ASSUME MonitorInv, JointInv, cleanup_exit
  PROVE  JointInv'
  <1>1. /\ mon.pc = "dead" /\ child' = [child EXCEPT !.pc = "dead", !.why = "killed"]
        /\ UNCHANGED <<conf, mon, toMon, toChild, proved>>
    BY DEF cleanup_exit, Ends
  <1>2. child \in ChildRecord
    BY DEF JointInv, ChildType
  <1>3. /\ child' \in ChildRecord /\ child'.pc = "dead" /\ child'.why = "killed"
        /\ child'.success = child.success /\ child'.handlers = child.handlers
        /\ child'.attempt = child.attempt /\ child'.ask = child.ask /\ child'.cur = child.cur
        /\ child'.failures = child.failures /\ child'.none = child.none
        /\ child'.excused = child.excused /\ child'.lists = child.lists
    BY <1>1, <1>2 DEF ChildRecord
  <1>4. Counted' = Counted /\ Good' = Good /\ Bad' = Bad
    BY <1>1, <1>3 DEF Counted, Good, Bad, IsFailure
  <1>5. ChildType' /\ Asking'
    BY <1>1, <1>3 DEF JointInv, ChildType, Asking, Answer
  <1>6. Fate'
    BY <1>1, <1>3, <1>4 DEF JointInv, Fate, Tried
  <1>7. Counts'
    BY <1>1, <1>3, <1>4 DEF JointInv, Counts, Tally
  <1> QED
    BY <1>1, <1>5, <1>6, <1>7 DEF JointInv

\* The keys of the connection arrive, and nothing else could have.
LEMMA GetKeystateInv ==
  ASSUME MonitorInv, JointInv, mm_get_keystate, UNCHANGED child
  PROVE  JointInv'
  <1>1. /\ mon.pc = "keystate" /\ toMon # <<>> /\ toMon' = Tail(toMon)
        /\ IF Next1.op = "KEYEXPORT" THEN mon' = [mon EXCEPT !.pc = "reap"] ELSE Dies("keystate")
        /\ UNCHANGED <<conf, toChild, proved>>
    BY DEF mm_get_keystate
  <1>2. toMon \in Seq(Request)
    BY DEF JointInv, ChildType
  <1>3. child.pc = "exit" /\ toMon = <<KeyExport>>
    <2>1. \A q, pipe : ~Asked(child, pipe, q)
      BY <1>1 DEF Asked, Onward
    <2> QED
      BY <1>1, <2>1 DEF JointInv, Together, Naming, Ready, Onward
  <1>4. KeyExport \in Request /\ KeyExport.op = "KEYEXPORT"
    BY DEF KeyExport, Request
  <1>5. Next1 = KeyExport /\ toMon' = <<>>
    BY <1>1, <1>2, <1>3, <1>4, TailPipe
  <1>6. /\ mon'.pc = "reap" /\ mon'.failures = mon.failures /\ mon'.why = mon.why
    BY <1>1, <1>4, <1>5 DEF MonitorInv, MonitorType
  <1>7. Counted' = Counted /\ Good' = Good /\ Bad' = Bad /\ ~Undecided'
    BY <1>1, <1>6 DEF Counted, Good, Bad, Undecided
  <1>8. ChildType' /\ Asking'
    BY <1>1, <1>5 DEF JointInv, ChildType, Asking, Answer
  <1>9. Fate'
    BY <1>1, <1>6, <1>7 DEF JointInv, Fate, Tried
  <1>10. Counts'
    BY <1>1, <1>6, <1>7 DEF JointInv, Counts, Tally
  <1>11. Together'
    BY <1>3, <1>5, <1>6 DEF Together
  <1> QED
    BY <1>7, <1>8, <1>9, <1>10, <1>11 DEF JointInv, Listed

\* What monitor_decide does to a monitor whose credential a list waits for.
LEMMA Decided ==
  ASSUME MonitorInv, JointInv, monitor_decide
  PROVE  /\ mon.pc = "decide" /\ UNCHANGED <<conf, toMon, toChild, proved>>
         /\ mon'.failures = Counted /\ Counted \in Nat /\ mon'.lists = Due /\ mon.lists \in Lists
         /\ mon'.permit = mon.permit /\ mon'.used = mon.used /\ mon'.key = mon.key
         /\ \/ Counted > MaxAuthTries /\ mon'.pc = "dead" /\ mon'.why = "tries"
            \/ /\ Counted <= MaxAuthTries /\ mon'.why = mon.why /\ mon'.pc = "keystate"
               /\ mon.ok /\ (conf.lists = <<>> \/ Completes(mon.lists, mon.method))
            \/ /\ Counted <= MaxAuthTries /\ mon'.why = mon.why /\ mon'.pc = "read"
               /\ ~(mon.ok /\ (conf.lists = <<>> \/ Completes(mon.lists, mon.method)))
  <1> DEFINE multiple == conf.lists # <<>>
             authenticated == mon.ok /\ (~multiple \/ Completes(mon.lists, mon.method))
             failures == mon.failures + (IF IsFailure THEN 1 ELSE 0)
             l == IF mon.ok /\ multiple THEN Remaining(mon.lists, mon.method) ELSE mon.lists
             m == [mon EXCEPT !.failures = failures, !.lists = l]
  <1>1. /\ mon.pc = "decide" /\ UNCHANGED <<conf, toMon, toChild, proved>>
        /\ IF mon.ok /\ multiple /\ ~Found(mon.lists, mon.method) THEN Dies("methods")
           ELSE IF failures > MaxAuthTries THEN mon' = [m EXCEPT !.pc = "dead", !.why = "tries"]
           ELSE IF authenticated THEN mon' = [m EXCEPT !.pc = "keystate"]
           ELSE mon' = [m EXCEPT !.pc = "read"]
    BY DEF monitor_decide
  <1>2. ~(mon.ok /\ multiple /\ ~Found(mon.lists, mon.method))
    BY <1>1 DEF JointInv, Listed, Undecided
  <1>3. failures = Counted /\ l = Due
    BY <1>1 DEF Counted, Due, Undecided
  <1>4. failures \in Nat /\ mon.lists \in Lists /\ l \in Lists
    BY RemainingType DEF MonitorInv, MonitorType
  <1>5. authenticated <=> mon.ok /\ (conf.lists = <<>> \/ Completes(mon.lists, mon.method))
    OBVIOUS
  <1>6. \/ failures > MaxAuthTries /\ mon' = [m EXCEPT !.pc = "dead", !.why = "tries"]
        \/ ~(failures > MaxAuthTries) /\ authenticated /\ mon' = [m EXCEPT !.pc = "keystate"]
        \/ ~(failures > MaxAuthTries) /\ ~authenticated /\ mon' = [m EXCEPT !.pc = "read"]
    BY <1>1, <1>2
  <1> HIDE DEF failures, l, authenticated
  <1>7. ~(failures > MaxAuthTries) => failures <= MaxAuthTries
    BY <1>4, TriesAssumption
  <1>8. /\ m.failures = failures /\ m.lists = l /\ m.permit = mon.permit /\ m.used = mon.used
        /\ m.key = mon.key /\ m.why = mon.why
        /\ DOMAIN m = {"pc", "permit", "valid", "asked", "failures", "lists", "used", "key",
                       "opts", "gss", "client", "ent", "ok", "method", "why"}
    BY <1>4 DEF MonitorInv, MonitorType
  <1> HIDE DEF m
  <1>9. /\ mon'.failures = failures /\ mon'.lists = l
        /\ mon'.permit = mon.permit /\ mon'.used = mon.used /\ mon'.key = mon.key
        /\ \/ failures > MaxAuthTries /\ mon'.pc = "dead" /\ mon'.why = "tries"
           \/ ~(failures > MaxAuthTries) /\ authenticated /\ mon'.pc = "keystate" /\ mon'.why = mon.why
           \/ ~(failures > MaxAuthTries) /\ ~authenticated /\ mon'.pc = "read" /\ mon'.why = mon.why
    BY <1>6, <1>8
  <1> QED
    BY <1>1, <1>3, <1>4, <1>5, <1>7, <1>9

\* The decision of the monitor: it comes to what the child comes to, or has come to.
LEMMA DecideJointInv ==
  ASSUME MonitorInv, JointInv, monitor_decide, UNCHANGED child
  PROVE  JointInv'
  <1> DEFINE done == mon.ok /\ (conf.lists = <<>> \/ Completes(mon.lists, mon.method))
  <1>1. /\ mon.pc = "decide" /\ UNCHANGED <<conf, toMon, toChild, proved>>
        /\ mon'.failures = Counted /\ Counted \in Nat /\ mon'.lists = Due
        /\ mon'.permit = mon.permit /\ mon'.used = mon.used /\ mon'.key = mon.key
        /\ \/ Counted > MaxAuthTries /\ mon'.pc = "dead" /\ mon'.why = "tries"
           \/ Counted <= MaxAuthTries /\ mon'.why = mon.why /\ mon'.pc = "keystate" /\ done
           \/ Counted <= MaxAuthTries /\ mon'.why = mon.why /\ mon'.pc = "read" /\ ~done
    BY Decided
  <1>2. /\ Undecided = mon.ok /\ ~Undecided' /\ Counted' = Counted /\ Good' = Good /\ Bad' = Bad
        /\ Due' = Due /\ mon.ok \in BOOLEAN /\ mon.why = "none"
    BY <1>1 DEF Undecided, Counted, Good, Bad, Due, MonitorInv, MonitorType, JointInv, Fate
  <1> HIDE DEF done
  <1>3. Together
    BY <1>1 DEF JointInv
  <1>4. mon.ok => mon'.pc # "dead"
    <2>2. mon.failures <= MaxAuthTries /\ mon.failures \in Nat
      BY <1>1 DEF JointInv, Counts, MonitorInv, MonitorType
    <2>1. mon.ok => Counted = mon.failures
      BY <2>2 DEF Counted, IsFailure
    <2>3. ~(mon.failures > MaxAuthTries)
      BY <2>2, TriesAssumption
    <2> QED
      BY <1>1, <2>1, <2>3
  <1>5. child.success => mon.ok
    BY <1>1, <1>2, <1>3 DEF JointInv, ChildType, Together, Naming, Admits
  <1>6. Good /\ child.pc = "wait" => mon.ok
    <2>1. SUFFICES ASSUME Good, child.pc = "wait" PROVE mon.ok
      OBVIOUS
    <2>2. toChild # <<>> /\ child.ask \in AuthDecide /\ Answer = TRUE /\ child.ask # "PWNAM"
      <3>1. \A x : Head(<<x>>) = x /\ <<x>> # <<>>
        OBVIOUS
      <3>2. toChild = <<TRUE>> /\ child.ask \in AuthDecide
        BY <2>1 DEF Good
      <3>3. toChild # <<>> /\ Answer = TRUE
        BY <3>1, <3>2, Zenon DEF Answer
      <3> QED
        BY <3>2, <3>3 DEF AuthDecide
    <2>3. Told(child, Answer)
      BY <1>3, <2>1, <2>2 DEF Together, Naming
    <2> QED
      BY <1>1, <2>2, <2>3 DEF Told, Won
  <1>7. ChildType' /\ Asking'
    BY <1>1 DEF JointInv, ChildType, Asking, Answer
  <1>8. Fate'
    BY <1>1, <1>2, <1>4, <1>5, <1>6 DEF JointInv, Fate, Tried
  <1>9. Counts'
    <2>1. Counted > MaxAuthTries <=> mon'.why = "tries"
      BY <1>1, <1>2, TriesAssumption
    <2> QED
      BY <1>1, <1>2, <2>1 DEF JointInv, Counts, Tally
  <1>10. mon'.pc # "dead" => Together'
    <2>1. SUFFICES ASSUME mon'.pc # "dead" PROVE Together'
      OBVIOUS
    <2>2. CASE Naming
      <3>1. Counted = 0 /\ ~mon.ok /\ mon'.pc = "read" /\ Due = mon.lists
        BY <1>1, <1>2, <2>1, <2>2 DEF Naming, JointInv, Counts, done, Due
      <3>2. Naming'
        BY <1>1, <1>2, <2>2, <3>1 DEF Naming, auth2_setup_methods_lists, auth2_methods_valid
      <3> QED
        BY <3>2 DEF Together
    <2>3. ASSUME NEW pipe, Onward(child, pipe)
          PROVE  Onward(child, pipe)' /\ (\A h : Gates(h)' = Gates(h))
      <3>1. ~done
        BY <2>3, <1>2 DEF Onward, done
      <3> QED
        BY <1>1, <1>2, <2>1, <2>3, <3>1 DEF Onward, Gates, GssListed, auth2_method_allowed
    <2>4. CASE child.pc = "idle" /\ toChild = <<>> /\ Ready(child, toMon)
      <3>1. PICK pipe : pipe = toMon
        OBVIOUS
      <3>2. Onward(child, pipe)' /\ Gates(child.handlers)'
        BY <1>1, <2>3, <2>4, <3>1 DEF Ready, Gates
      <3> QED
        BY <1>1, <2>4, <3>1, <3>2 DEF Together, Ready
    <2>5. CASE /\ child.pc = "wait" /\ toChild = <<>>
               /\ \E q \in Request, pipe \in {<<>>, <<AuthservRequest>>} :
                     toMon = Append(pipe, q) /\ q.op = child.ask /\ Asked(child, pipe, q)
      <3>1. PICK q \in Request, pipe \in {<<>>, <<AuthservRequest>>} :
                     toMon = Append(pipe, q) /\ q.op = child.ask /\ Asked(child, pipe, q)
        BY <2>5
      <3>2. Onward(child, pipe)' /\ (Gates(child.handlers) => Gates(child.handlers)')
        BY <1>1, <2>3, <3>1 DEF Asked, Gates
      <3>3. Asked(child, pipe, q)'
        BY <1>1, <3>1, <3>2 DEF Asked, Question, Tried, auth2_method_allowed
      <3> QED
        BY <1>1, <2>5, <3>1, <3>3 DEF Together
    <2>6. CASE child.pc = "wait" /\ toMon = <<>> /\ toChild # <<>> /\ Told(child, Answer)
      <3>1. PICK a : a = Answer
        OBVIOUS
      <3>2. Told(child, a)
        BY <2>6, <3>1
      <3>3. CASE child.ask \in AuthDecide /\ a = TRUE
        <4>1. Won(child) /\ mon.ok /\ mon.lists = child.lists /\ mon.method = Tried(child, child.ask)
          BY <1>1, <3>2, <3>3 DEF Told, Won
        <4>2. done <=> Enough(child, Tried(child, child.ask))
          BY <4>1 DEF done, Enough
        <4>3. ~done => mon'.lists = Remaining(child.lists, Tried(child, child.ask))
          BY <1>1, <1>2, <4>1 DEF done, Due
        <4>4. Won(child)'
          BY <1>1, <2>1, <4>1, <4>2, <4>3
             DEF Won, Enough, Completes, Tried, GssListed, Gates, auth2_method_allowed
        <4>5. Told(child, a)'
          BY <1>1, <3>2, <3>3, <4>4 DEF Told, Tried, auth2_method_allowed
        <4> QED
          BY <1>1, <2>6, <3>1, <4>5 DEF Together, Answer
      <3>4. CASE ~(child.ask \in AuthDecide /\ a = TRUE)
        <4>1. Onward(child, <<>>)
          BY <3>2, <3>4 DEF Told
        <4>2. Onward(child, <<>>)'
          BY <2>3, <4>1
        <4>3. Told(child, a)'
          BY <1>1, <1>2, <3>2, <3>4, <4>2 DEF Told, Tried, auth2_method_allowed, Gates
        <4> QED
          BY <1>1, <2>6, <3>1, <4>3 DEF Together, Answer
      <3> QED
        BY <3>3, <3>4
    <2>7. CASE \/ child.pc = "success" /\ toMon = <<>> /\ Admits
               \/ child.pc = "exit" /\ toMon = <<KeyExport>> /\ Admits
               \/ child.pc = "exit" /\ toMon = <<>> /\ mon.pc \in {"reap", "session"}
      <3>1. Admits
        BY <1>1, <2>7
      <3>2. done
        BY <1>1, <1>2, <3>1 DEF Admits, done
      <3>3. Admits'
        BY <1>1, <2>1, <3>2 DEF Admits
      <3> QED
        BY <1>1, <2>7, <3>3 DEF Together
    <2>8. CASE /\ child.pc = "dead" /\ ~child.success /\ toMon \in {<<>>, <<AuthservRequest>>}
               /\ toMon # <<>> => "AUTHSERV" \in mon.permit /\ mon.pc # "keystate" /\ ~Undecided
      BY <1>1, <1>2, <2>1, <2>8 DEF Together, done
    <2> QED
      BY <1>3, <2>2, <2>4, <2>5, <2>6, <2>7, <2>8 DEF Together
  <1> QED
    BY <1>2, <1>7, <1>8, <1>9, <1>10 DEF JointInv, Listed

\* The monitor answers a question of the child: what every handler has to see to.
LEMMA AnswersInv ==
  ASSUME MonitorInv, JointInv, UNCHANGED <<conf, child>>,
         NEW q \in Request, child.pc = "wait", child.ask = q.op, toChild = <<>>,
         toMon' = <<>>, Asked(child, <<>>, q),
         NEW a, toChild' = <<a>>, q.op = "GSSSTEP" => a \in {"more", "error", "integ", "plain"},
         q.op # "GSSSTEP" => a \in BOOLEAN,
         mon.pc = "read", mon'.pc = "decide", mon'.ent = q.op, mon'.why = mon.why,
         mon'.failures = mon.failures, mon'.lists = mon.lists,
         mon'.ok = (q.op \in AuthDecide /\ a = TRUE),
         mon'.used = IF q.op = "KEYVERIFY" /\ a = TRUE THEN mon.used \cup {child.cur.key} ELSE mon.used,
         \A p \in mon.permit : p # q.op \/ q.op \in Core => p \in mon'.permit,
         q.op = "KEYALLOWED" /\ a = TRUE => mon'.key = child.cur.key,
         q.op = "GSSSETUP" => "GSSSTEP" \in mon'.permit,
         q.op = "GSSSTEP" => /\ a = "integ" => "GSSCHECKMIC" \in mon'.permit
                             /\ a = "plain" => "GSSUSEROK" \in mon'.permit
                             /\ a \in {"more", "error"} => "GSSSTEP" \in mon'.permit,
         q.op = "GSSCHECKMIC" /\ a = TRUE => "GSSUSEROK" \in mon'.permit,
         q.op \in AuthDecide /\ a = TRUE => /\ mon'.method = Tried(child, q.op)
                                            /\ Tried(child, q.op) # "none"
  PROVE  JointInv'
  <1>1. /\ Question(child, q) /\ Onward(child, <<>>) /\ (q.op \notin GssOver => Gates(child.handlers))
        /\ mon.pc # "dead" /\ ~Undecided /\ q.op # "PWNAM" /\ q.op \in Core \cup Gss
    BY DEF Asked, Question, Undecided, Core, Gss
  <1>2. Head(<<a>>) = a /\ <<a>> # <<>>
    OBVIOUS
  <1>3. Answer' = a /\ ~Good /\ ~Bad
    <2>1. \A x : <<x>> # <<>>
      OBVIOUS
    <2> QED
      BY <1>2, <2>1, Zenon DEF Answer, Good, Bad
  <1>4. (Good' <=> q.op \in AuthDecide /\ a = TRUE) /\ (Bad' <=> q.op \in AuthDecide /\ a = FALSE)
    <2>1. \A x, y : <<x>> = <<y>> <=> x = y
      OBVIOUS
    <2> QED
      BY <2>1, Zenon DEF Good, Bad
  <1>5. ChildType' /\ Asking'
    <2>1. child.pc \notin {"idle", "success", "exit"} /\ toChild' = <<Answer'>>
      BY <1>3
    <2>2. <<>> \in Seq(Request)
      OBVIOUS
    <2>3. ChildType'
      <3>1. /\ child' \in ChildRecord /\ toMon' \in Seq(Request)
            /\ child'.pc \in {"success", "exit"} => child'.success
            /\ child'.success => child'.pc \in {"success", "exit", "dead"}
            /\ child'.handlers # {} => child'.attempt > 0
            /\ child'.pc \in {"idle", "success", "exit"} => toChild' = <<>>
        BY <2>1, <2>2 DEF JointInv, ChildType
      <3>2. /\ toChild' = <<Answer'>>
            /\ child'.ask = "GSSSTEP" => Answer' \in {"more", "error", "integ", "plain"}
            /\ child'.ask # "GSSSTEP" => Answer' \in BOOLEAN
        BY <1>3, <2>1, Zenon
      <3> QED
        BY <3>1, <3>2, Zenon DEF ChildType
    <2> QED
      BY <2>3 DEF JointInv, Asking
  <1>6. Fate'
    <2>1. ~child.success
      BY DEF JointInv, ChildType
    <2>2. q.op \in AuthDecide /\ a = TRUE => conf.lists = <<>> \/ Found(child.lists, Tried(child, child.ask))
      BY <1>1 DEF Question, auth2_method_allowed, Found
    <2> QED
      BY <1>1, <1>4, <2>1, <2>2 DEF JointInv, Fate, Tried
  <1>7. Counts'
    <2>1. q.op \in AuthDecide => a \in BOOLEAN
      BY DEF AuthDecide
    <2>2. IsFailure' <=> q.op \in AuthDecide /\ a = FALSE
      BY <2>1 DEF IsFailure
    <2>3. mon.failures \in Nat /\ child.failures \in Nat /\ Counted = mon.failures
      BY DEF MonitorInv, MonitorType, JointInv, ChildType, ChildRecord, Counted
    <2>4. Counted' = Counted + (IF Bad' THEN 1 ELSE 0) /\ Counted \in Nat
      BY <1>4, <2>2, <2>3 DEF Counted
    <2>5. Tally(child, 0)
      BY <1>3 DEF JointInv, Counts
    <2>6. ~child.excused => Counted' <= child.failures + (IF Bad' THEN 1 ELSE 0) + (IF child.none THEN 0 ELSE 1)
      BY <2>3, <2>4, <2>5 DEF Tally
    <2>7. Tally(child, IF Bad THEN 1 ELSE 0)'
      BY <2>6 DEF Tally
    <2>8. child.ask = "AUTHPASSWORD" /\ child.attempt = 1 /\ child.cur.method = "none"
             => Counted' <= IF Bad' THEN 1 ELSE 0
      BY <1>3, <2>4 DEF JointInv, Counts
    <2>9. child.attempt # 0 /\ child.ask # "PWNAM"
      BY <1>1 DEF JointInv, Asking, ChildType, ChildRecord
    <2> QED
      BY <1>1, <2>7, <2>8, <2>9 DEF JointInv, Counts
  <1>8. Told(child, a)'
    <2>1. /\ \A p \in Core : p \in mon'.permit
          /\ \A h : q.op \in Core /\ Gates(h) => Gates(h)'
          /\ q.op = "GSSSTEP" /\ Gates(child.handlers) => Gates(child.handlers \ {"TOKEN"})'
      BY <1>1 DEF Onward, Gates, Core
    <2>2. q.op \notin GssOver \cup {"GSSSTEP"} => q.op \in Core
      BY <1>1 DEF GssOver, Core, Gss
    <2>3. child.lists = mon.lists /\ child.used = mon.used /\ GssListed(child) /\ mon.lists = Due
      BY <1>1 DEF Onward, Due
    <2>4. q.op \in Gss => "gssapi-with-mic" \in conf.enabled
      BY <1>1 DEF Question
    <2>5. Tried(child, q.op) # "none" => auth2_method_allowed(child.lists, Tried(child, q.op))
      BY <1>1 DEF Question
    <2>6. CASE q.op \in AuthDecide /\ a = TRUE
      <3>1. /\ mon'.ok /\ mon'.lists = child.lists /\ mon'.method = Tried(child, child.ask)
            /\ mon'.used = child.used \cup (IF child.ask = "KEYVERIFY" THEN {child.cur.key} ELSE {})
        BY <2>3, <2>6
      <3>2. child.ask \notin GssOver => GssListed(child)' /\ Gates(child.handlers)'
        <4>1. q.op \notin GssOver => q.op \in Core
          BY <2>6 DEF GssOver, Core, AuthDecide
        <4> QED
          BY <1>1, <2>1, <2>3, <4>1 DEF GssListed, auth2_method_allowed, Gates
      <3>3. Won(child)'
        BY <2>1, <3>1, <3>2 DEF Won, Tried
      <3> QED
        BY <1>1, <2>1, <2>4, <2>5, <2>6, <3>3 DEF Told, Tried, auth2_method_allowed, AuthDecide
    <2>7. CASE ~(q.op \in AuthDecide /\ a = TRUE)
      <3>1. ~mon'.ok /\ ~Undecided'
        BY <2>7 DEF Undecided
      <3>2. mon'.used = child.used /\ mon'.lists = child.lists /\ Due' = mon'.lists
        BY <2>3, <2>7, <3>1 DEF Due, AuthDecide
      <3>3. Onward(child, <<>>)'
        BY <2>1, <2>3, <3>1, <3>2 DEF Onward, GssListed, auth2_method_allowed
      <3>4. /\ child.ask \notin GssOver \cup {"GSSSTEP"} => Gates(child.handlers)'
            /\ child.ask = "GSSSTEP" => Gates(child.handlers \ {"TOKEN"})'
        BY <1>1, <2>1, <2>2 DEF GssOver, Gates
      <3> QED
        BY <1>1, <2>4, <2>5, <2>7, <3>1, <3>3, <3>4 DEF Told, Tried, auth2_method_allowed, Gates
    <2> QED
      BY <2>6, <2>7
  <1>9. Together'
    <2>1. Told(child, Answer)'
      BY <1>3, <1>8
    <2>2. toChild' # <<>>
      BY <1>2
    <2> QED
      BY <2>1, <2>2 DEF Together
  <1>10. Listed'
    <2>1. Undecided' => q.op \in AuthDecide /\ a = TRUE
      BY DEF Undecided
    <2>2. child.lists = mon.lists
      BY <1>1 DEF Onward, Due
    <2> QED
      BY <1>1, <2>1, <2>2 DEF Listed, Question, auth2_method_allowed, Found
  <1> QED
    BY <1>5, <1>6, <1>7, <1>9, <1>10 DEF JointInv

\* The monitor reads q, which the child waits to be answered.
Serves(q) ==
    /\ UNCHANGED <<conf, child>> /\ child.pc = "wait" /\ child.ask = q.op /\ toChild = <<>>
    /\ toMon' = <<>> /\ Asked(child, <<>>, q) /\ mon.pc = "read" /\ Next1 = q

\* The fields of the monitor.
MonFields == {"pc", "permit", "valid", "asked", "failures", "lists", "used", "key",
              "opts", "gss", "client", "ent", "ok", "method", "why"}

\* A password.  An empty one is never good, so a good one is for the method password in
\* both processes.
LEMMA AnswerPasswordInv ==
  ASSUME MonitorInv, JointInv, ~(Blank /\ PermitEmpty), NEW q \in Request, Serves(q), mm_answer_authpassword
  PROVE  JointInv'
  <1> DEFINE ok == auth_password(q.passwd)
             method == IF q.passwd = "empty" /\ ~mon.asked THEN "none" ELSE "password"
             m == [mon EXCEPT !.asked = TRUE]
  <1>1. /\ q.op = "AUTHPASSWORD" /\ Handled(m, "AUTHPASSWORD", method, ok) /\ toChild' = <<ok>>
    BY DEF mm_answer_authpassword, Serves, Reads, Replies
  <1>2. ok \in BOOLEAN /\ q.passwd \in {"right", "wrong", "empty"}
    BY <1>1 DEF auth_password, MonitorInv, MonitorType, Request
  <1>3. /\ DOMAIN m = MonFields
        /\ m.why = mon.why /\ m.failures = mon.failures /\ m.lists = mon.lists
        /\ m.used = mon.used /\ m.key = mon.key /\ m.permit = mon.permit
    BY DEF MonitorInv, MonitorType, MonFields
  <1>4. ok => q.passwd # "empty" /\ method = "password"
    BY <1>2 DEF auth_password
  <1>5. Tried(child, q.op) = child.cur.method /\ child.cur.method \in {"password", "none"}
        /\ (ok => child.cur.method # "none")
    BY <1>1, <1>4 DEF Serves, JointInv, Asking, Asked, Question, Tried, Gss
  <1> HIDE DEF ok, method, m
  <1>6. "AUTHPASSWORD" \notin Once /\ "AUTHPASSWORD" \in AuthDecide /\ "AUTHPASSWORD" \in Core
    BY DEF Once, AuthDecide, Core
  <1>7. /\ mon'.pc = "decide" /\ mon'.ent = q.op /\ mon'.why = mon.why /\ mon'.failures = mon.failures
        /\ mon'.lists = mon.lists /\ mon'.ok = ok /\ mon'.method = method /\ mon'.used = mon.used
        /\ mon'.key = mon.key /\ mon'.permit = mon.permit
    <2>1. /\ mon'.pc = "decide" /\ mon'.ent = "AUTHPASSWORD" /\ mon'.why = m.why
          /\ mon'.failures = m.failures /\ mon'.lists = m.lists /\ mon'.ok = ok
          /\ mon'.method = method /\ mon'.used = m.used /\ mon'.key = m.key
          /\ mon'.permit = (IF "AUTHPASSWORD" \in Once THEN m.permit \ {"AUTHPASSWORD"} ELSE m.permit)
      BY <1>1, <1>3 DEF Handled, MonFields
    <2> QED
      BY <1>1, <1>3, <1>6, <2>1
  <1>8. mon'.ok = (q.op \in AuthDecide /\ ok = TRUE)
    BY <1>1, <1>2, <1>6, <1>7
  <1>9. q.op \in AuthDecide /\ ok = TRUE => mon'.method = Tried(child, q.op) /\ Tried(child, q.op) # "none"
    BY <1>4, <1>5, <1>7
  <1> QED
    BY <1>1, <1>2, <1>7, <1>8, <1>9, AnswersInv DEF Serves

\* The look-up of a key.
LEMMA AnswerKeyAllowedInv ==
  ASSUME MonitorInv, JointInv, NEW q \in Request, Serves(q), mm_answer_keyallowed
  PROVE  JointInv'
  <1> DEFINE ok == mon.valid /\ "publickey" \in conf.enabled /\ q.key \in Authorized \ mon.used
             m == [mon EXCEPT !.key = IF ok THEN q.key ELSE NoKey]
  <1>1. q.op = "KEYALLOWED" /\ Handled(m, "KEYALLOWED", "publickey", FALSE) /\ toChild' = <<ok>>
    BY DEF mm_answer_keyallowed, Serves, Reads, Replies
  <1>2. ok \in BOOLEAN
    BY DEF MonitorInv, MonitorType
  <1>3. /\ DOMAIN m = MonFields
        /\ m.why = mon.why /\ m.failures = mon.failures /\ m.lists = mon.lists
        /\ m.used = mon.used /\ (ok => m.key = q.key) /\ m.permit = mon.permit
    BY DEF MonitorInv, MonitorType, MonFields
  <1>4. q.key = child.cur.key
    BY <1>1 DEF Serves, Asked, Question
  <1> HIDE DEF ok, m
  <1>5. "KEYALLOWED" \notin Once /\ "KEYALLOWED" \notin AuthDecide
    BY DEF Once, AuthDecide
  <1>6. /\ mon'.pc = "decide" /\ mon'.ent = q.op /\ mon'.why = mon.why /\ mon'.failures = mon.failures
        /\ mon'.lists = mon.lists /\ mon'.ok = FALSE /\ mon'.used = mon.used
        /\ (ok => mon'.key = child.cur.key) /\ mon'.permit = mon.permit
    BY <1>1, <1>3, <1>4, <1>5 DEF Handled, MonFields
  <1>7. mon'.ok = (q.op \in AuthDecide /\ ok = TRUE)
    BY <1>1, <1>5, <1>6
  <1> QED
    BY <1>1, <1>2, <1>5, <1>6, <1>7, AnswersInv DEF Serves

\* A signature: the monitor gives an answer, or is gone because its options were lost before.
LEMMA AnswerKeyVerifyInv ==
  ASSUME MonitorInv, JointInv, NEW q \in Request, Serves(q), mm_answer_keyverify
  PROVE  JointInv'
  <1>1. q.op = "KEYVERIFY" /\ q.good \in BOOLEAN /\ q.key \in Keys /\ q.key = child.cur.key
    BY DEF mm_answer_keyverify, Serves, Reads, Asked, Question, Request
  <1>2. CASE q.good /\ mon.opts = Lost
    <2>1. Dies("null") /\ UNCHANGED <<toChild, proved>>
      BY <1>2 DEF mm_answer_keyverify, Serves
    <2>2. ~Good /\ ~child.success
      <3>1. \A x : <<x>> # <<>>
        OBVIOUS
      <3>2. ~Good
        BY <3>1, Zenon DEF Good, Serves
      <3> QED
        BY <3>2 DEF Serves, JointInv, ChildType
    <2>3. toMon' \in Seq(Request) /\ mon.pc # "dead" /\ UNCHANGED <<conf, toChild, child>>
      BY <2>1 DEF Serves
    <2> QED
      BY <2>1, <2>2, <2>3, MonitorDiesInv
  <1>3. CASE ~(q.good /\ mon.opts = Lost)
    <2> DEFINE used == IF q.good THEN mon.used \cup {q.key} ELSE mon.used
               opts == IF q.good THEN sshauthopt_merge(mon.opts, Command[q.key]) ELSE mon.opts
               m == [mon EXCEPT !.key = NoKey, !.used = used, !.opts = opts]
    <2>1. Handled(m, "KEYVERIFY", "publickey", q.good) /\ toChild' = <<q.good>>
      BY <1>3 DEF mm_answer_keyverify, Serves, Replies
    <2>2. used = IF q.good = TRUE THEN mon.used \cup {child.cur.key} ELSE mon.used
      BY <1>1
    <2> HIDE DEF used, opts
    <2>3. /\ DOMAIN m = MonFields
          /\ m.why = mon.why /\ m.failures = mon.failures /\ m.lists = mon.lists
          /\ m.used = used /\ m.permit = mon.permit
      BY DEF MonitorInv, MonitorType, MonFields
    <2>4. Tried(child, q.op) = "publickey"
      BY <1>1 DEF Serves, JointInv, Asking, Tried, Gss
    <2> HIDE DEF m
    <2>5. "KEYVERIFY" \notin Once /\ "KEYVERIFY" \in AuthDecide
      BY DEF Once, AuthDecide
    <2>6. /\ mon'.pc = "decide" /\ mon'.ent = q.op /\ mon'.why = mon.why /\ mon'.failures = mon.failures
          /\ mon'.lists = mon.lists /\ mon'.ok = q.good /\ mon'.method = "publickey"
          /\ mon'.used = used /\ mon'.permit = mon.permit
      BY <1>1, <2>1, <2>3, <2>5 DEF Handled, MonFields
    <2>7. mon'.ok = (q.op \in AuthDecide /\ q.good = TRUE)
      BY <1>1, <2>5, <2>6
    <2>8. mon'.used = IF q.op = "KEYVERIFY" /\ q.good = TRUE THEN mon.used \cup {child.cur.key} ELSE mon.used
      BY <1>1, <2>2, <2>6
    <2>9. PICK a : a = q.good
      OBVIOUS
    <2>10. a \in BOOLEAN /\ toChild' = <<a>> /\ mon'.ok = (q.op \in AuthDecide /\ a = TRUE)
           /\ mon'.used = IF q.op = "KEYVERIFY" /\ a = TRUE THEN mon.used \cup {child.cur.key} ELSE mon.used
      BY <1>1, <2>1, <2>7, <2>8, <2>9
    <2> QED
      BY <1>1, <2>4, <2>6, <2>10, AnswersInv DEF Serves
  <1> QED
    BY <1>2, <1>3

\* The beginning of a GSSAPI exchange.
LEMMA AnswerGssSetupInv ==
  ASSUME MonitorInv, JointInv, NEW q \in Request, Serves(q), mm_answer_gss_setup_ctx
  PROVE  JointInv'
  <1> DEFINE m == [mon EXCEPT !.gss = "open", !.permit = @ \cup {"GSSSTEP"}]
  <1>1. q.op = "GSSSETUP" /\ Handled(m, "GSSSETUP", "unknown", FALSE)
    BY DEF mm_answer_gss_setup_ctx, Serves, Reads
  <1>2. PICK ok \in BOOLEAN : toChild' = <<ok>>
    BY DEF mm_answer_gss_setup_ctx, Replies
  <1>3. /\ DOMAIN m = MonFields
        /\ m.why = mon.why /\ m.failures = mon.failures /\ m.lists = mon.lists
        /\ m.used = mon.used /\ m.permit = mon.permit \cup {"GSSSTEP"}
    BY DEF MonitorInv, MonitorType, MonFields
  <1> HIDE DEF m
  <1>4. "GSSSETUP" \notin Once /\ "GSSSETUP" \notin AuthDecide
    BY DEF Once, AuthDecide
  <1>5. /\ mon'.pc = "decide" /\ mon'.ent = q.op /\ mon'.why = mon.why /\ mon'.failures = mon.failures
        /\ mon'.lists = mon.lists /\ mon'.ok = FALSE /\ mon'.used = mon.used
        /\ mon'.permit = mon.permit \cup {"GSSSTEP"}
    BY <1>1, <1>3, <1>4 DEF Handled, MonFields
  <1>6. mon'.ok = (q.op \in AuthDecide /\ ok = TRUE)
    BY <1>1, <1>4, <1>5
  <1> QED
    BY <1>1, <1>2, <1>4, <1>5, <1>6, AnswersInv DEF Serves

\* A token of the exchange.
LEMMA AnswerGssStepInv ==
  ASSUME MonitorInv, JointInv, NEW q \in Request, Serves(q), mm_answer_gss_accept_ctx
  PROVE  JointInv'
  <1>1. q.op = "GSSSTEP"
    BY DEF mm_answer_gss_accept_ctx, Serves, Reads
  <1>2. PICK major \in {"more", "error", "integ", "plain"}, who \in {"user", "other"} :
          /\ Replies(major)
          /\ LET m == [mon EXCEPT !.gss = major, !.client = IF major = "integ" THEN who ELSE @]
                 complete == major \in {"integ", "plain"}
             IN Handled([m EXCEPT !.permit = IF complete
                           THEN (@ \ {"GSSSTEP"}) \cup {"GSSUSEROK", "GSSCHECKMIC"} ELSE @],
                        "GSSSTEP", "unknown", FALSE)
    BY DEF mm_answer_gss_accept_ctx
  <1> DEFINE complete == major \in {"integ", "plain"}
             m == [mon EXCEPT !.gss = major, !.client = IF major = "integ" THEN who ELSE @]
             permit == IF complete THEN (mon.permit \ {"GSSSTEP"}) \cup {"GSSUSEROK", "GSSCHECKMIC"}
                       ELSE mon.permit
             n == [m EXCEPT !.permit = IF complete
                           THEN (@ \ {"GSSSTEP"}) \cup {"GSSUSEROK", "GSSCHECKMIC"} ELSE @]
  <1>3. Handled(n, "GSSSTEP", "unknown", FALSE) /\ toChild' = <<major>>
    BY <1>2 DEF Replies
  <1>4. /\ DOMAIN n = MonFields
        /\ n.why = mon.why /\ n.failures = mon.failures /\ n.lists = mon.lists
        /\ n.used = mon.used /\ n.permit = permit
    BY DEF MonitorInv, MonitorType, MonFields
  <1>5. /\ major \in {"integ", "plain"} => "GSSUSEROK" \in permit /\ "GSSCHECKMIC" \in permit
        /\ \A p \in mon.permit : p # "GSSSTEP" => p \in permit
        /\ major \in {"more", "error"} => permit = mon.permit
    OBVIOUS
  <1>6. "GSSSTEP" \in mon.permit
    BY <1>1 DEF Serves, Asked, Question, Core
  <1> HIDE DEF n, permit, complete, m
  <1>7. "GSSSTEP" \notin Once /\ "GSSSTEP" \notin AuthDecide /\ "GSSSTEP" \notin Core
    BY DEF Once, AuthDecide, Core
  <1>8. /\ mon'.pc = "decide" /\ mon'.ent = q.op /\ mon'.why = mon.why /\ mon'.failures = mon.failures
        /\ mon'.lists = mon.lists /\ mon'.ok = FALSE /\ mon'.used = mon.used
        /\ mon'.permit = permit
    BY <1>1, <1>3, <1>4, <1>7 DEF Handled, MonFields
  <1>9. mon'.ok = (q.op \in AuthDecide /\ major = TRUE)
    BY <1>1, <1>7, <1>8
  <1>10. \A p \in mon.permit : p # q.op \/ q.op \in Core => p \in mon'.permit
    BY <1>1, <1>5, <1>7, <1>8
  <1>11. /\ major = "integ" => "GSSCHECKMIC" \in mon'.permit
         /\ major = "plain" => "GSSUSEROK" \in mon'.permit
         /\ major \in {"more", "error"} => "GSSSTEP" \in mon'.permit
    BY <1>5, <1>6, <1>8
  <1>12. mon'.used = IF q.op = "KEYVERIFY" /\ major = TRUE THEN mon.used \cup {child.cur.key} ELSE mon.used
    BY <1>1, <1>8
  <1>13. q.op \notin AuthDecide /\ q.op # "KEYALLOWED" /\ q.op # "GSSSETUP" /\ q.op # "GSSCHECKMIC"
    BY <1>1, <1>7
  <1> QED
    BY <1>1, <1>3, <1>8, <1>9, <1>10, <1>11, <1>12, <1>13, AnswersInv DEF Serves

\* The integrity code of the exchange.
LEMMA AnswerGssCheckmicInv ==
  ASSUME MonitorInv, JointInv, NEW q \in Request, Serves(q), mm_answer_gss_checkmic
  PROVE  JointInv'
  <1> DEFINE ok == mon.gss = "integ" /\ q.good
             permit == IF ok THEN mon.permit \cup {"GSSUSEROK"} ELSE mon.permit
             m == [mon EXCEPT !.permit = permit]
  <1>1. q.op = "GSSCHECKMIC" /\ Handled(m, "GSSCHECKMIC", "unknown", FALSE) /\ toChild' = <<ok>>
    BY DEF mm_answer_gss_checkmic, Serves, Reads, Replies
  <1>2. ok \in BOOLEAN
    BY <1>1 DEF Request
  <1>3. ok => "GSSUSEROK" \in permit
    OBVIOUS
  <1>4. \A p \in mon.permit : p \in permit
    OBVIOUS
  <1> HIDE DEF permit, ok
  <1>5. /\ DOMAIN m = MonFields
        /\ m.why = mon.why /\ m.failures = mon.failures /\ m.lists = mon.lists
        /\ m.used = mon.used /\ m.permit = permit
    BY DEF MonitorInv, MonitorType, MonFields
  <1> HIDE DEF m
  <1>6. "GSSCHECKMIC" \in Once /\ "GSSCHECKMIC" \notin AuthDecide /\ "GSSCHECKMIC" \notin Core
    BY DEF Once, AuthDecide, Core
  <1>7. /\ mon'.pc = "decide" /\ mon'.ent = q.op /\ mon'.why = mon.why /\ mon'.failures = mon.failures
        /\ mon'.lists = mon.lists /\ mon'.ok = FALSE /\ mon'.used = mon.used
        /\ mon'.permit = permit \ {"GSSCHECKMIC"}
    BY <1>1, <1>5, <1>6 DEF Handled, MonFields
  <1>8. mon'.ok = (q.op \in AuthDecide /\ ok = TRUE)
    BY <1>1, <1>6, <1>7
  <1>9. ok = TRUE => "GSSUSEROK" \in mon'.permit
    BY <1>3, <1>7
  <1>10. \A p \in mon.permit : p # q.op \/ q.op \in Core => p \in mon'.permit
    BY <1>1, <1>4, <1>6, <1>7
  <1> QED
    BY <1>1, <1>2, <1>6, <1>7, <1>8, <1>9, <1>10, AnswersInv DEF Serves

\* Whether the exchange stands for the user.
LEMMA AnswerGssUserokInv ==
  ASSUME MonitorInv, JointInv, NEW q \in Request, Serves(q), mm_answer_gss_userok
  PROVE  JointInv'
  <1> DEFINE ok == mon.valid /\ mon.client = "user"
             client == IF mon.valid /\ ~ok THEN "none" ELSE mon.client
             m == [mon EXCEPT !.client = client]
  <1>1. q.op = "GSSUSEROK" /\ Handled(m, "GSSUSEROK", "gssapi-with-mic", ok) /\ toChild' = <<ok>>
    BY DEF mm_answer_gss_userok, Serves, Reads, Replies
  <1>2. ok \in BOOLEAN
    BY DEF MonitorInv, MonitorType
  <1> HIDE DEF ok, client
  <1>3. /\ DOMAIN m = MonFields
        /\ m.why = mon.why /\ m.failures = mon.failures /\ m.lists = mon.lists
        /\ m.used = mon.used /\ m.permit = mon.permit
    BY DEF MonitorInv, MonitorType, MonFields
  <1> HIDE DEF m
  <1>4. "GSSUSEROK" \in Once /\ "GSSUSEROK" \in AuthDecide /\ "GSSUSEROK" \notin Core
    BY DEF Once, AuthDecide, Core
  <1>5. /\ mon'.pc = "decide" /\ mon'.ent = q.op /\ mon'.why = mon.why /\ mon'.failures = mon.failures
        /\ mon'.lists = mon.lists /\ mon'.ok = ok /\ mon'.used = mon.used
        /\ mon'.method = "gssapi-with-mic" /\ mon'.permit = mon.permit \ {"GSSUSEROK"}
    BY <1>1, <1>3, <1>4 DEF Handled, MonFields
  <1>6. mon'.ok = (q.op \in AuthDecide /\ ok = TRUE)
    BY <1>1, <1>2, <1>4, <1>5
  <1>7. Tried(child, q.op) = "gssapi-with-mic"
    BY <1>1 DEF Tried, Gss
  <1>8. \A p \in mon.permit : p # q.op \/ q.op \in Core => p \in mon'.permit
    BY <1>1, <1>4, <1>5
  <1> QED
    BY <1>1, <1>2, <1>5, <1>6, <1>7, <1>8, AnswersInv DEF Serves

\* A request the child waits to be answered is permitted and in order.
LEMMA QuestionAccepted ==
  ASSUME MonitorInv, JointInv, NEW q \in Request, child.pc = "wait", child.ask = q.op, Asked(child, <<>>, q)
  PROVE  Accepts(q)
  <1>1. Question(child, q) /\ Core \subseteq mon.permit
    BY DEF Asked, Onward
  <1>2. q.op \in mon.permit
    BY <1>1 DEF Question
  <1>3. q.op = "KEYVERIFY" => q.key = mon.key /\ mon.key # NoKey
    <2>1. SUFFICES ASSUME q.op = "KEYVERIFY" PROVE q.key = mon.key /\ mon.key # NoKey
      OBVIOUS
    <2>2. child.cur.method = "publickey" /\ child.cur \in UserauthRequest
      BY <2>1 DEF JointInv, Asking, ChildType, ChildRecord
    <2>3. child.cur.key \in Keys
      BY <2>2, RequestType
    <2> QED
      BY <1>1, <2>1, <2>3, KeysAssumption DEF Question
  <1> QED
    BY <1>1, <1>2, <1>3 DEF Accepts, Question

\* A step of the monitor that answers nothing and decides nothing: what does not depend on
\* what the two processes are doing.
LEMMA QuietInv ==
  ASSUME MonitorInv, JointInv, UNCHANGED <<conf, child, toChild>>, toMon' \in Seq(Request),
         mon.pc = "read", mon'.pc = "decide", mon'.ok = FALSE, mon'.ent \notin AuthDecide,
         mon'.why = mon.why, mon'.failures = mon.failures, Together'
  PROVE  JointInv'
  <1>1. ChildType' /\ Asking'
    BY DEF JointInv, ChildType, Asking, Answer
  <1>2. Good' = Good /\ Bad' = Bad
    BY DEF Good, Bad
  <1>3. Fate'
    BY <1>2 DEF JointInv, Fate, Tried
  <1>4. Counted' = Counted
    BY DEF Counted, IsFailure, MonitorInv, MonitorType
  <1>5. Counts'
    BY <1>2, <1>4 DEF JointInv, Counts, Tally
  <1>6. Listed'
    BY DEF Listed, Undecided
  <1> QED
    BY <1>1, <1>3, <1>5, <1>6 DEF JointInv

\* The naming of the service: from here on the child may ask.
LEMMA AnswerAuthservInv ==
  ASSUME MonitorInv, JointInv, UNCHANGED <<conf, child>>, mon.pc = "read", toMon # <<>>,
         Next1 = AuthservRequest, toMon' = Tail(toMon), mm_answer_authserv
  PROVE  JointInv'
  <1> DEFINE m == [mon EXCEPT !.permit = @ \cup IsAuth]
  <1>1. Handled(m, "AUTHSERV", "unknown", FALSE) /\ UNCHANGED <<toChild, proved>>
    BY DEF mm_answer_authserv
  <1>2. /\ DOMAIN m = MonFields
        /\ m.why = mon.why /\ m.failures = mon.failures /\ m.lists = mon.lists
        /\ m.used = mon.used /\ m.permit = mon.permit \cup IsAuth /\ m.key = mon.key
    BY DEF MonitorInv, MonitorType, MonFields
  <1> HIDE DEF m
  <1>3. "AUTHSERV" \in Once /\ "AUTHSERV" \notin AuthDecide /\ "AUTHSERV" \notin Core
        /\ AuthservRequest.op = "AUTHSERV" /\ AuthservRequest \in Request
    BY DEF Once, AuthDecide, Core, AuthservRequest, Request
  <1>4. /\ mon'.pc = "decide" /\ mon'.ent = "AUTHSERV" /\ mon'.why = mon.why
        /\ mon'.failures = mon.failures /\ mon'.lists = mon.lists /\ mon'.ok = FALSE
        /\ mon'.used = mon.used /\ mon'.key = mon.key
        /\ mon'.permit = (mon.permit \cup IsAuth) \ {"AUTHSERV"}
    BY <1>1, <1>2, <1>3 DEF Handled, MonFields
  <1>5. Core \subseteq mon'.permit /\ (\A p \in mon.permit : p # "AUTHSERV" => p \in mon'.permit)
    BY <1>4 DEF Core, IsAuth
  <1>6. toMon \in Seq(Request) /\ toMon' \in Seq(Request) /\ mon.pc # "dead" /\ Together
    BY TailPipe DEF JointInv, ChildType
  <1>7. ~Undecided /\ ~Undecided' /\ Due' = Due
    BY <1>4 DEF Undecided, Due
  <1>8. toMon = <<AuthservRequest>> => toMon' = <<>>
    BY <1>3, <1>6, TailPipe
  <1>9. Together'
    <2>1. ~Naming
      <3>1. SUFFICES ASSUME Naming PROVE FALSE
        OBVIOUS
      <3>2. PICK known \in BOOLEAN : toMon = <<[op |-> "PWNAM", known |-> known]>>
        BY <3>1 DEF Naming
      <3>3. [op |-> "PWNAM", known |-> known] \in Request
        BY DEF Request
      <3>4. Next1 = [op |-> "PWNAM", known |-> known]
        BY <1>6, <3>2, <3>3, TailPipe
      <3> QED
        BY <1>3, <3>4
    <2>2. CASE child.pc = "idle" /\ toChild = <<>> /\ Ready(child, toMon)
      <3>1. toMon = <<AuthservRequest>>
        BY <2>2 DEF Ready, Onward
      <3>2. child.handlers = {} /\ child.attempt > 0 /\ child.lists = Due /\ child.used = mon.used
        BY <2>2, <3>1 DEF Ready, Onward
      <3>3. Ready(child, <<>>)'
        BY <1>4, <1>5, <1>7, <3>2 DEF Ready, Onward, Gates, GssListed
      <3>4. Ready(child, toMon)'
        BY <1>8, <3>1, <3>3
      <3> QED
        BY <1>1, <2>2, <3>4 DEF Together
    <2>3. CASE /\ child.pc = "wait" /\ toChild = <<>>
               /\ \E q \in Request, pipe \in {<<>>, <<AuthservRequest>>} :
                     toMon = Append(pipe, q) /\ q.op = child.ask /\ Asked(child, pipe, q)
      <3>1. PICK q \in Request, pipe \in {<<>>, <<AuthservRequest>>} :
                     toMon = Append(pipe, q) /\ q.op = child.ask /\ Asked(child, pipe, q)
        BY <2>3
      <3>2. pipe # <<>>
        <4>1. SUFFICES ASSUME pipe = <<>> PROVE FALSE
          OBVIOUS
        <4>2. toMon = <<q>>
          BY <3>1, <4>1
        <4>3. Next1 = q
          BY <1>6, <4>2, TailPipe
        <4> QED
          BY <1>3, <3>1, <4>3 DEF Asked, Question, Core, Gss
      <3>3. toMon' = Append(<<>>, q)
        BY <1>3, <1>6, <3>1, <3>2, TailPipe
      <3>4. /\ child.handlers = {} /\ child.lists = Due /\ child.used = mon.used
            /\ q.op \in Core /\ Question(child, q)
        BY <3>1, <3>2 DEF Asked, Onward
      <3>5. Onward(child, <<>>)'
        BY <1>4, <1>5, <1>7, <3>4 DEF Onward, GssListed
      <3>6. Question(child, q)'
        BY <1>4, <1>5, <3>4 DEF Question, Tried, auth2_method_allowed
      <3>7. Asked(child, <<>>, q)'
        BY <3>4, <3>5, <3>6 DEF Asked, Gates
      <3> QED
        BY <1>1, <2>3, <3>1, <3>3, <3>7 DEF Together
    <2>4. CASE child.pc = "exit" /\ toMon = <<KeyExport>> /\ Admits
      BY <1>7, <2>4 DEF Admits
    <2>5. CASE /\ child.pc = "dead" /\ ~child.success /\ toMon \in {<<>>, <<AuthservRequest>>}
               /\ toMon # <<>> => "AUTHSERV" \in mon.permit /\ mon.pc # "keystate" /\ ~Undecided
      BY <1>4, <1>8, <2>5 DEF Together
    <2> QED
      BY <1>6, <2>1, <2>2, <2>3, <2>4, <2>5 DEF Together
  <1> QED
    BY <1>1, <1>3, <1>4, <1>6, <1>9, QuietInv

\* The naming of the user.
LEMMA AnswerPwnamInv ==
  ASSUME MonitorInv, JointInv, UNCHANGED <<conf, child>>, mon.pc = "read", Naming,
         NEW known \in BOOLEAN, toMon = <<[op |-> "PWNAM", known |-> known]>>, toChild = <<>>,
         mon.permit = {"PWNAM"}, child.pc = "wait", child.ask = "PWNAM", child.attempt = 1,
         Next1 = [op |-> "PWNAM", known |-> known], toMon' = <<>>, mm_answer_pwnamallow
  PROVE  JointInv'
  <1> DEFINE m == [mon EXCEPT !.valid = known, !.lists = auth2_setup_methods_lists,
                              !.permit = @ \cup {"AUTHSERV"}]
  <1>1. Handled(m, "PWNAM", "unknown", FALSE) /\ toChild' = <<known>>
    BY DEF mm_answer_pwnamallow, Replies
  <1>2. /\ DOMAIN m = MonFields
        /\ m.why = mon.why /\ m.failures = mon.failures /\ m.lists = auth2_setup_methods_lists
        /\ m.used = mon.used /\ m.permit = mon.permit \cup {"AUTHSERV"}
    BY DEF MonitorInv, MonitorType, MonFields
  <1> HIDE DEF m
  <1>3. "PWNAM" \in Once /\ "PWNAM" \notin AuthDecide
    BY DEF Once, AuthDecide
  <1>4. /\ mon'.pc = "decide" /\ mon'.ent = "PWNAM" /\ mon'.why = mon.why
        /\ mon'.failures = mon.failures /\ mon'.lists = auth2_setup_methods_lists /\ mon'.ok = FALSE
        /\ mon'.used = mon.used /\ mon'.permit = (mon.permit \cup {"AUTHSERV"}) \ {"PWNAM"}
    BY <1>1, <1>2, <1>3 DEF Handled, MonFields
  <1>5. Answer' = known /\ toChild' = <<Answer'>>
    <2>1. \A x : Head(<<x>>) = x
      OBVIOUS
    <2> QED
      BY <1>1, <2>1, Zenon DEF Answer
  <1>6. ~Good /\ ~Bad /\ ~Good' /\ ~Bad' /\ <<>> \in Seq(Request)
    <2>1. child.ask \notin AuthDecide /\ child'.ask \notin AuthDecide
      BY <1>3
    <2>2. ~Good /\ ~Bad /\ ~Good' /\ ~Bad'
      BY <2>1, Zenon DEF Good, Bad
    <2>3. <<>> \in Seq(Request)
      OBVIOUS
    <2> QED
      BY <2>2, <2>3
  <1>7. ChildType' /\ Asking'
    <2>1. /\ child' \in ChildRecord /\ toMon' \in Seq(Request)
          /\ child'.pc \in {"success", "exit"} => child'.success
          /\ child'.success => child'.pc \in {"success", "exit", "dead"}
          /\ child'.handlers # {} => child'.attempt > 0
          /\ child'.pc \in {"idle", "success", "exit"} => toChild' = <<>>
      BY <1>6 DEF JointInv, ChildType
    <2>2. /\ toChild' = <<Answer'>>
          /\ child'.ask = "GSSSTEP" => Answer' \in {"more", "error", "integ", "plain"}
          /\ child'.ask # "GSSSTEP" => Answer' \in BOOLEAN
      BY <1>5
    <2> QED
      BY <2>1, <2>2 DEF JointInv, ChildType, Asking
  <1>8. Fate'
    BY <1>4, <1>6 DEF JointInv, Fate, Tried
  <1>9. Counted' = Counted
    BY <1>3, <1>4 DEF Counted, IsFailure, MonitorInv, MonitorType
  <1>10. Counts'
    BY <1>4, <1>6, <1>9 DEF JointInv, Counts, Tally
  <1>11. Together' /\ Listed'
    <2>1. ~Undecided' /\ "AUTHSERV" \in mon'.permit
      BY <1>4 DEF Undecided
    <2>2. auth2_setup_methods_lists' = auth2_setup_methods_lists
      BY DEF auth2_setup_methods_lists, auth2_methods_valid
    <2>3. Naming'
      BY <1>1, <1>4, <2>1, <2>2 DEF Naming
    <2> QED
      BY <2>1, <2>3 DEF Together, Listed
  <1> QED
    BY <1>7, <1>8, <1>10, <1>11 DEF JointInv

\* A request that the monitor reads is one it permits, and its answer is what the child
\* waits for.
LEMMA ReadJointInv ==
  ASSUME MonitorInv, JointInv, ~(Blank /\ PermitEmpty), monitor_read, UNCHANGED child
  PROVE  JointInv'
  <1>1. /\ mon.pc = "read" /\ toMon # <<>> /\ toMon' = Tail(toMon) /\ UNCHANGED <<conf, child>>
        /\ IF ~Accepts(Next1)
           THEN Dies("refused") /\ UNCHANGED <<toChild, proved>>
           ELSE \/ mm_answer_pwnamallow \/ mm_answer_authserv \/ mm_answer_authpassword
                \/ mm_answer_keyallowed \/ mm_answer_keyverify
                \/ mm_answer_gss_setup_ctx \/ mm_answer_gss_accept_ctx
                \/ mm_answer_gss_checkmic \/ mm_answer_gss_userok
    BY DEF monitor_read
  <1>2. toMon \in Seq(Request) /\ Together /\ ~Undecided
    BY <1>1 DEF JointInv, ChildType, Undecided
  <1>3. AuthservRequest \in Request /\ AuthservRequest.op = "AUTHSERV"
    BY DEF AuthservRequest, Request
  <1>4. ASSUME Next1 = AuthservRequest, "AUTHSERV" \in mon.permit
        PROVE  JointInv'
    <2>1. Accepts(Next1)
      BY <1>3, <1>4 DEF Accepts, Gss
    <2>2. mm_answer_authserv
      BY <1>1, <1>3, <1>4, <2>1
         DEF Reads, mm_answer_pwnamallow, mm_answer_authpassword, mm_answer_keyallowed,
             mm_answer_keyverify, mm_answer_gss_setup_ctx, mm_answer_gss_accept_ctx,
             mm_answer_gss_checkmic, mm_answer_gss_userok
    <2> QED
      BY <1>1, <1>4, <2>2, AnswerAuthservInv
  <1>5. CASE Naming
    <2>1. PICK known \in BOOLEAN : toMon = <<[op |-> "PWNAM", known |-> known]>>
      BY <1>1, <1>5 DEF Naming
    <2>2. /\ toChild = <<>> /\ mon.permit = {"PWNAM"} /\ child.pc = "wait" /\ child.ask = "PWNAM"
          /\ child.attempt = 1
      BY <1>1, <1>5 DEF Naming
    <2> DEFINE q == [op |-> "PWNAM", known |-> known]
    <2>3. q \in Request /\ q.op = "PWNAM"
      BY DEF Request
    <2>4. Next1 = q /\ toMon' = <<>>
      BY <1>1, <1>2, <2>1, <2>3, TailPipe
    <2>5. Next1.op = "PWNAM"
      BY <2>3, <2>4
    <2>6. Accepts(Next1)
      BY <2>2, <2>5 DEF Accepts, Gss
    <2>7. mm_answer_pwnamallow
      BY <1>1, <2>5, <2>6
         DEF Reads, mm_answer_authserv, mm_answer_authpassword, mm_answer_keyallowed,
             mm_answer_keyverify, mm_answer_gss_setup_ctx, mm_answer_gss_accept_ctx,
             mm_answer_gss_checkmic, mm_answer_gss_userok
    <2> QED
      BY <1>1, <1>5, <2>1, <2>2, <2>4, <2>7, AnswerPwnamInv
  <1>6. CASE child.pc = "idle" /\ toChild = <<>> /\ Ready(child, toMon)
    <2>1. toMon = <<AuthservRequest>> /\ "AUTHSERV" \in mon.permit
      BY <1>1, <1>6 DEF Ready, Onward
    <2> QED
      BY <1>1, <1>2, <1>3, <1>4, <2>1, TailPipe
  <1>7. CASE /\ child.pc = "wait" /\ toChild = <<>>
             /\ \E q \in Request, pipe \in {<<>>, <<AuthservRequest>>} :
                   toMon = Append(pipe, q) /\ q.op = child.ask /\ Asked(child, pipe, q)
    <2>1. PICK q \in Request, pipe \in {<<>>, <<AuthservRequest>>} :
                   toMon = Append(pipe, q) /\ q.op = child.ask /\ Asked(child, pipe, q)
      BY <1>7
    <2>2. CASE pipe = <<AuthservRequest>>
      <3>1. "AUTHSERV" \in mon.permit
        BY <2>1, <2>2 DEF Asked, Onward
      <3>2. Next1 = AuthservRequest
        BY <1>1, <1>2, <1>3, <2>1, <2>2, TailPipe
      <3> QED
        BY <1>4, <3>1, <3>2
    <2>3. CASE pipe = <<>>
      <3>1. toMon = <<q>>
        BY <2>1, <2>3
      <3>2. Next1 = q /\ toMon' = <<>>
        BY <1>1, <1>2, <3>1, TailPipe
      <3>3. Asked(child, <<>>, q)
        BY <2>1, <2>3
      <3>4. Serves(q)
        BY <1>1, <1>7, <2>1, <3>2, <3>3 DEF Serves
      <3>5. Accepts(Next1) /\ q.op \in Core \cup Gss
        BY <1>7, <2>1, <3>2, <3>3, QuestionAccepted DEF Asked, Question
      <3>6. Next1.op \notin {"PWNAM", "AUTHSERV"}
        BY <3>2, <3>5 DEF Core, Gss
      <3>7. \/ mm_answer_authpassword
            \/ mm_answer_keyallowed \/ mm_answer_keyverify
            \/ mm_answer_gss_setup_ctx \/ mm_answer_gss_accept_ctx
            \/ mm_answer_gss_checkmic \/ mm_answer_gss_userok
        BY <1>1, <3>5, <3>6 DEF mm_answer_pwnamallow, mm_answer_authserv, Reads
      <3> QED
        BY <3>4, <3>7, AnswerPasswordInv, AnswerKeyAllowedInv, AnswerKeyVerifyInv,
           AnswerGssSetupInv, AnswerGssStepInv, AnswerGssCheckmicInv, AnswerGssUserokInv
    <2> QED
      BY <2>2, <2>3
  <1>8. CASE child.pc = "exit" /\ toMon = <<KeyExport>> /\ Admits
    BY <1>1, <1>2, <1>8 DEF Admits
  <1>9. CASE /\ child.pc = "dead" /\ toMon \in {<<>>, <<AuthservRequest>>}
             /\ toMon # <<>> => "AUTHSERV" \in mon.permit
    BY <1>1, <1>2, <1>3, <1>4, <1>9, TailPipe
  <1> QED
    BY <1>1, <1>2, <1>5, <1>6, <1>7, <1>8, <1>9 DEF Together

-----------------------------------------------------------------------------
(* The whole.                                                              *)

\* The ends of the processes leave what the monitor keeps to.
LEMMA MonitorEndsInv ==
  ASSUME MonitorInv, privsep_postauth \/ MonitorSeesEof \/ grace_alarm_handler
  PROVE  MonitorInv'
  <1>1. {"options", "eof", "alarm"} \subseteq Reason
    BY DEF Reason
  <1>2. CASE privsep_postauth
    <2>1. CASE mon.opts = Lost
      BY <1>1, <1>2, <2>1, DiesInv DEF privsep_postauth
    <2>2. CASE mon.opts # Lost
      BY <1>2, <2>2, TowardsSession DEF privsep_postauth, LoggedIn
    <2> QED
      BY <2>1, <2>2
  <1>3. CASE MonitorSeesEof
    BY <1>1, <1>3, DiesInv DEF MonitorSeesEof
  <1>4. CASE grace_alarm_handler
    BY <1>1, <1>4, DiesInv DEF grace_alarm_handler
  <1> QED
    BY <1>2, <1>3, <1>4

\* What the monitor keeps to does not depend on the child.
LEMMA MonitorUntouched ==
  ASSUME MonitorInv, UNCHANGED <<conf, mon, proved>>
  PROVE  MonitorInv'
  BY DEF MonitorInv, MonitorType, UserSettled, KeysOnce, OptionsKept, ListsTrue, FirstWillDo,
         LastIsDecided, LoggedIn, Undecided, Progress, Settled, auth2_methods_valid

-----------------------------------------------------------------------------
(* What the child sends, whatever it is told: enough for what the monitor  *)
(* keeps to by itself.                                                     *)

Spoken ==
    /\ child \in ChildRecord
    /\ toMon \in Seq(Request)
    /\ child.pc = "wait" /\ child.ask \in {"KEYALLOWED", "KEYVERIFY"} => child.cur.method = "publickey"

\* The end of an attempt.
LEMMA FinishSpoken ==
  ASSUME Spoken, NEW c \in ChildRecord, NEW sent \in {<<>>, <<AuthservRequest>>}, NEW ok, NEW method,
         Finishes(c, sent, ok, method)
  PROVE  Spoken'
  <1> DEFINE lists == IF ok /\ conf.lists # <<>> THEN Remaining(c.lists, method) ELSE c.lists
             counts == ~ok /\ ~c.caused /\ (c.attempt > 1 \/ method # "none")
             failed == c.failures + (IF counts THEN 1 ELSE 0)
  <1>1. lists \in Lists /\ failed \in Nat
    BY RemainingType DEF ChildRecord
  <1>2. \E f \in {c, [c EXCEPT !.lists = lists]} : \E n \in Nat, p \in {"idle", "success", "dead"},
           w \in {c.why, "internal", "methods", "tries"}, s \in {c.success, TRUE} :
             child' = [f EXCEPT !.pc = p, !.failures = n, !.why = w, !.success = s]
    <2> DEFINE l == [c EXCEPT !.lists = IF ok /\ conf.lists # <<>> THEN Remaining(@, method) ELSE @]
    <2>1. l = [c EXCEPT !.lists = lists]
      BY DEF ChildRecord
    <2>2. \/ child' = [c EXCEPT !.pc = "dead", !.why = "internal"]
          \/ child' = [c EXCEPT !.pc = "dead", !.why = "methods"]
          \/ child' = [l EXCEPT !.pc = "idle"]
          \/ child' = [l EXCEPT !.pc = "success", !.success = TRUE]
          \/ child' = [[l EXCEPT !.failures = failed] EXCEPT !.pc = "dead", !.why = "tries"]
          \/ child' = [l EXCEPT !.pc = "idle", !.failures = failed]
      BY DEF Finishes, userauth_finish, Ends
    <2> HIDE DEF lists, failed, l
    <2>3. /\ DOMAIN l = DOMAIN c /\ l.failures = c.failures /\ l.why = c.why /\ l.success = c.success
          /\ c.failures \in Nat
      BY <2>1 DEF ChildRecord
    <2>4. \E f \in {c, l} : \E n \in Nat, p \in {"idle", "success", "dead"},
           w \in {c.why, "internal", "methods", "tries"}, s \in {c.success, TRUE} :
             child' = [f EXCEPT !.pc = p, !.failures = n, !.why = w, !.success = s]
      <3>1. CASE child' = [c EXCEPT !.pc = "dead", !.why = "internal"]
        <4>1. child' = [c EXCEPT !.pc = "dead", !.failures = c.failures, !.why = "internal", !.success = c.success]
          BY <3>1 DEF ChildRecord
        <4> QED
          BY <2>3, <4>1
      <3>2. CASE child' = [c EXCEPT !.pc = "dead", !.why = "methods"]
        <4>1. child' = [c EXCEPT !.pc = "dead", !.failures = c.failures, !.why = "methods", !.success = c.success]
          BY <3>2 DEF ChildRecord
        <4> QED
          BY <2>3, <4>1
      <3>3. CASE child' = [l EXCEPT !.pc = "idle"]
        <4>1. child' = [l EXCEPT !.pc = "idle", !.failures = l.failures, !.why = l.why, !.success = l.success]
          BY <3>3, <2>3 DEF ChildRecord
        <4> QED
          BY <2>3, <4>1
      <3>4. CASE child' = [l EXCEPT !.pc = "success", !.success = TRUE]
        <4>1. child' = [l EXCEPT !.pc = "success", !.failures = l.failures, !.why = l.why, !.success = TRUE]
          BY <3>4, <2>3 DEF ChildRecord
        <4> QED
          BY <2>3, <4>1
      <3>5. CASE child' = [[l EXCEPT !.failures = failed] EXCEPT !.pc = "dead", !.why = "tries"]
        <4>1. child' = [l EXCEPT !.pc = "dead", !.failures = failed, !.why = "tries", !.success = l.success]
          BY <3>5, <2>3 DEF ChildRecord
        <4> QED
          BY <1>1, <2>3, <4>1
      <3>6. CASE child' = [l EXCEPT !.pc = "idle", !.failures = failed]
        <4>1. child' = [l EXCEPT !.pc = "idle", !.failures = failed, !.why = l.why, !.success = l.success]
          BY <3>6, <2>3 DEF ChildRecord
        <4> QED
          BY <1>1, <2>3, <4>1
      <3> QED
        BY <2>2, <3>1, <3>2, <3>3, <3>4, <3>5, <3>6
    <2> QED
      BY <2>1, <2>4
  <1> HIDE DEF lists
  <1>3. PICK f \in {c, [c EXCEPT !.lists = lists]} : \E n \in Nat, p \in {"idle", "success", "dead"},
           w \in {c.why, "internal", "methods", "tries"}, s \in {c.success, TRUE} :
             child' = [f EXCEPT !.pc = p, !.failures = n, !.why = w, !.success = s]
    BY <1>2
  <1>4. f \in ChildRecord /\ f.why = c.why /\ f.success = c.success
    BY <1>1, <1>3 DEF ChildRecord
  <1>5. child' \in ChildRecord /\ child'.pc # "wait"
    <2>1. PICK n \in Nat, p \in {"idle", "success", "dead"},
             w \in {c.why, "internal", "methods", "tries"}, s \in {c.success, TRUE} :
               child' = [f EXCEPT !.pc = p, !.failures = n, !.why = w, !.success = s]
      BY <1>3
    <2>2. /\ s \in BOOLEAN /\ p \in {"idle", "wait", "success", "exit", "dead"} /\ p # "wait"
          /\ w \in {"none", "tries", "client", "internal", "methods", "nomethods", "killed"}
      BY DEF ChildRecord
    <2>3. child' \in ChildRecord
      BY <1>4, <2>1, <2>2, ZenonT(60) DEF ChildRecord
    <2>4. child'.pc = p
      BY <1>4, <2>1 DEF ChildRecord
    <2> QED
      BY <2>2, <2>3, <2>4
  <1>6. toMon' \in Seq(Request)
    BY PipeType DEF Finishes, Spoken
  <1> QED
    BY <1>5, <1>6 DEF Spoken

\* A question.
LEMMA AskSpoken ==
  ASSUME Spoken, NEW c \in ChildRecord, NEW sent \in {<<>>, <<AuthservRequest>>}, NEW q \in Request,
         Asks(c, sent, q), q.op \in Entry,
         q.op \in {"KEYALLOWED", "KEYVERIFY"} => c.cur.method = "publickey"
  PROVE  Spoken'
  <1>1. child' \in ChildRecord /\ child'.ask = q.op /\ child'.cur = c.cur
    BY DEF Asks, ChildRecord
  <1>2. toMon' \in Seq(Request)
    BY QuestionPipe DEF Asks, Spoken
  <1> QED
    BY <1>1, <1>2 DEF Spoken

\* A method that is tried.
LEMMA TrySpoken ==
  ASSUME Spoken, NEW c \in ChildRecord, NEW sent \in {<<>>, <<AuthservRequest>>},
         TryMethod(c, sent, c.cur), conf.enabled \subseteq Methods
  PROVE  Spoken'
  <1> DEFINE t == [c EXCEPT !.handlers = @ \ {"TOKEN", "COMPLETE"}, !.postponed = FALSE,
                            !.caused = FALSE]
             r == c.cur
             n == [t EXCEPT !.none = FALSE]
             d == [t EXCEPT !.caused = TRUE]
             password == [op |-> "AUTHPASSWORD", passwd |-> "empty"]
             given == [op |-> "AUTHPASSWORD", passwd |-> r.passwd]
             allowed == [op |-> "KEYALLOWED", key |-> r.key]
             setup == [op |-> "GSSSETUP"]
  <1>1. t \in ChildRecord /\ t.cur = c.cur /\ n \in ChildRecord /\ d \in ChildRecord
    BY DEF ChildRecord
  <1>2. /\ r.method = "password" => r.passwd \in {"right", "wrong", "empty"}
        /\ r.method = "publickey" => r.key \in Keys
    BY RequestType DEF ChildRecord
  <1>3. IF ~authmethod_lookup(t, r.method) THEN Finishes(t, sent, FALSE, r.method)
        ELSE CASE r.method = "none" -> userauth_none(t, sent)
              [] r.method = "password" -> userauth_passwd(t, sent, r)
              [] r.method = "publickey" -> userauth_pubkey(t, sent, r)
              [] r.method = "gssapi-with-mic" -> userauth_gssapi(t, sent, r)
    BY DEF TryMethod
  <1>4. authmethod_lookup(t, r.method) => r.method \in Methods \cup {"none"}
    BY DEF authmethod_lookup
  <1>5. \/ \E u \in {t, n, d} : \E method : Finishes(u, sent, FALSE, method)
        \/ Asks(n, sent, password)
        \/ r.method = "password" /\ Asks(t, sent, given)
        \/ r.method = "publickey" /\ Asks(t, sent, allowed)
        \/ Asks(t, sent, setup)
    <2> HIDE DEF t, n, d, password, given, allowed, setup
    <2>1. CASE ~authmethod_lookup(t, r.method)
      BY <1>3, <2>1
    <2>2. CASE authmethod_lookup(t, r.method) /\ r.method = "none"
      BY <1>3, <2>2 DEF userauth_none, n, password
    <2>3. CASE authmethod_lookup(t, r.method) /\ r.method = "password"
      BY <1>3, <2>3 DEF userauth_passwd, given
    <2>4. CASE authmethod_lookup(t, r.method) /\ r.method = "publickey"
      BY <1>3, <2>4 DEF userauth_pubkey, allowed
    <2>5. CASE authmethod_lookup(t, r.method) /\ r.method = "gssapi-with-mic"
      BY <1>3, <2>5 DEF userauth_gssapi, setup, d
    <2> QED
      BY <1>4, <2>1, <2>2, <2>3, <2>4, <2>5 DEF Methods
  <1>6. /\ password \in Request /\ password.op = "AUTHPASSWORD" /\ setup \in Request
        /\ setup.op = "GSSSETUP" /\ given.op = "AUTHPASSWORD" /\ allowed.op = "KEYALLOWED"
        /\ r.method = "password" => given \in Request
        /\ r.method = "publickey" => allowed \in Request
    BY <1>2 DEF Request
  <1>7. {"AUTHPASSWORD", "GSSSETUP", "KEYALLOWED"} \subseteq Entry
    BY DEF Entry, Gss
  <1> HIDE DEF t, n, d, password, given, allowed, setup
  <1>8. ASSUME NEW u \in {t, n, d}, NEW method, Finishes(u, sent, FALSE, method)
        PROVE  Spoken'
    BY <1>1, <1>8, FinishSpoken
  <1>9. CASE Asks(n, sent, password)
    BY <1>1, <1>6, <1>7, <1>9, AskSpoken
  <1>10. CASE r.method = "password" /\ Asks(t, sent, given)
    BY <1>1, <1>6, <1>7, <1>10, AskSpoken
  <1>11. CASE r.method = "publickey" /\ Asks(t, sent, allowed)
    BY <1>1, <1>6, <1>7, <1>11, AskSpoken
  <1>12. CASE Asks(t, sent, setup)
    BY <1>1, <1>6, <1>7, <1>12, AskSpoken
  <1> QED
    BY <1>5, <1>8, <1>9, <1>10, <1>11, <1>12

\* The answers of the monitor, whatever they are.
LEMMA ChildSpoken ==
  ASSUME Spoken, MonitorInv, ChildStep
  PROVE  Spoken'
  <1>1. child \in ChildRecord /\ toMon \in Seq(Request) /\ toMon \o <<>> = toMon
    BY DEF Spoken
  <1>2. ASSUME NEW service, mm_getpwnamallow(service)
        PROVE  Spoken'
    <2> DEFINE v == Answer /\ service = "ssh-connection"
               c == [child EXCEPT !.valid = v, !.lists = auth2_setup_methods_lists]
               sent == <<[op |-> "AUTHSERV"]>>
    <2>1. IF conf.lists # <<>> /\ DOMAIN c.lists = {}
          THEN child' = Ends(c, "nomethods") /\ toMon' = toMon \o sent
          ELSE TryMethod(c, sent, c.cur)
      BY <1>2 DEF mm_getpwnamallow
    <2>2. v \in BOOLEAN /\ auth2_setup_methods_lists \in Lists
      BY SetUpType DEF MonitorInv
    <2> HIDE DEF v
    <2>3. c \in ChildRecord
      BY <1>1, <2>2 DEF ChildRecord
    <2>4. sent = <<AuthservRequest>> /\ conf.enabled \subseteq Methods
      BY DEF AuthservRequest, MonitorInv, MonitorType
    <2> HIDE DEF c, sent
    <2>5. CASE child' = Ends(c, "nomethods") /\ toMon' = toMon \o sent
      <3>1. child' \in ChildRecord /\ child'.pc = "dead"
        BY <2>3, <2>5 DEF Ends, ChildRecord
      <3> QED
        BY <1>1, <2>4, <2>5, <3>1, PipeType DEF Spoken
    <2>6. CASE TryMethod(c, sent, c.cur)
      BY <2>3, <2>4, <2>6, TrySpoken
    <2> QED
      BY <2>1, <2>5, <2>6
  <1>3. CASE mm_auth_password
    BY <1>1, <1>3, FinishSpoken DEF mm_auth_password
  <1>4. CASE mm_user_key_allowed
    <2> DEFINE c == [child EXCEPT !.postponed = TRUE]
               q == [op |-> "KEYVERIFY", key |-> child.cur.key, good |-> child.cur.sig = "good"]
    <2>1. /\ child.pc = "wait" /\ child.ask = "KEYALLOWED"
          /\ \/ Finishes(child, <<>>, FALSE, "publickey")
             \/ Finishes(c, <<>>, FALSE, "publickey")
             \/ Asks(child, <<>>, q)
      BY <1>4 DEF mm_user_key_allowed, Answered
    <2>2. child.cur.method = "publickey" /\ child.cur \in UserauthRequest
      BY <1>1, <2>1 DEF Spoken, ChildRecord
    <2>3. child.cur.key \in Keys
      BY <2>2, RequestType
    <2>4. c \in ChildRecord
      BY <1>1 DEF ChildRecord
    <2>5. q \in Request /\ q.op = "KEYVERIFY" /\ q.op \in Entry
      BY <2>3 DEF Request, Entry
    <2> HIDE DEF c, q
    <2>6. CASE Finishes(child, <<>>, FALSE, "publickey")
      BY <1>1, <2>6, FinishSpoken
    <2>7. CASE Finishes(c, <<>>, FALSE, "publickey")
      BY <2>4, <2>7, FinishSpoken
    <2>8. CASE Asks(child, <<>>, q)
      BY <1>1, <2>2, <2>5, <2>8, AskSpoken
    <2> QED
      BY <2>1, <2>6, <2>7, <2>8
  <1>5. CASE mm_sshkey_verify
    <2> DEFINE used == IF Answer THEN child.used \cup {child.cur.key} ELSE child.used
               c == [child EXCEPT !.used = used]
    <2>1. /\ child.pc = "wait" /\ child.ask = "KEYVERIFY" /\ Finishes(c, <<>>, Answer, "publickey")
      BY <1>5 DEF mm_sshkey_verify, Answered
    <2>2. child.cur.method = "publickey" /\ child.cur \in UserauthRequest
      BY <1>1, <2>1 DEF Spoken, ChildRecord
    <2>3. child.cur.key \in Keys
      BY <2>2, RequestType
    <2>4. used \in SUBSET Keys
      BY <1>1, <2>3 DEF ChildRecord
    <2> HIDE DEF used
    <2>5. c \in ChildRecord
      BY <1>1, <2>4 DEF ChildRecord
    <2> HIDE DEF c
    <2> QED
      BY <2>1, <2>5, FinishSpoken
  <1>6. CASE mm_ssh_gssapi_server_ctx
    <2> DEFINE c == [child EXCEPT !.postponed = TRUE, !.handlers = @ \cup {"TOKEN", "ERRTOK"}]
               u == [child EXCEPT !.caused = TRUE]
    <2>1. \/ Finishes(c, <<>>, FALSE, "gssapi-with-mic")
          \/ Finishes(u, <<>>, FALSE, "gssapi-with-mic")
      BY <1>6 DEF mm_ssh_gssapi_server_ctx
    <2>2. c \in ChildRecord /\ u \in ChildRecord
      BY <1>1 DEF ChildRecord
    <2> HIDE DEF c, u
    <2> QED
      BY <2>1, <2>2, FinishSpoken
  <1>7. CASE mm_ssh_gssapi_accept_ctx
    <2> DEFINE c == [child EXCEPT !.postponed = FALSE, !.handlers = @ \ {"TOKEN", "ERRTOK"}]
               handlers == CASE Answer = "integ" -> (child.handlers \ {"TOKEN"}) \cup {"MIC"}
                             [] Answer = "plain" -> (child.handlers \ {"TOKEN"}) \cup {"COMPLETE"}
                             [] OTHER -> child.handlers
               u == [child EXCEPT !.pc = "idle", !.handlers = handlers]
    <2>1. Finishes(c, <<>>, FALSE, "gssapi-with-mic") \/ (child' = u /\ UNCHANGED toMon)
      BY <1>7 DEF mm_ssh_gssapi_accept_ctx
    <2>2. handlers \in SUBSET {"TOKEN", "ERRTOK", "MIC", "COMPLETE"}
      BY <1>1 DEF ChildRecord
    <2> HIDE DEF handlers
    <2>3. c \in ChildRecord /\ u \in ChildRecord /\ u.pc = "idle"
      BY <1>1, <2>2 DEF ChildRecord
    <2> HIDE DEF c, u
    <2>4. CASE Finishes(c, <<>>, FALSE, "gssapi-with-mic")
      BY <2>3, <2>4, FinishSpoken
    <2>5. CASE child' = u /\ UNCHANGED toMon
      BY <1>1, <2>3, <2>5 DEF Spoken
    <2> QED
      BY <2>1, <2>4, <2>5
  <1>8. CASE mm_ssh_gssapi_checkmic
    <2> DEFINE c == GssDone(child)
               q == [op |-> "GSSUSEROK"]
    <2>1. Finishes(c, <<>>, FALSE, "gssapi-with-mic") \/ Asks(child, <<>>, q)
      BY <1>8 DEF mm_ssh_gssapi_checkmic
    <2>2. c \in ChildRecord /\ q \in Request /\ q.op = "GSSUSEROK" /\ q.op \in Entry
      BY <1>1 DEF GssDone, ChildRecord, Request, Entry, Gss
    <2> HIDE DEF c, q
    <2> QED
      BY <1>1, <2>1, <2>2, FinishSpoken, AskSpoken
  <1>9. CASE mm_ssh_gssapi_userok
    <2> DEFINE e == child.excused \/ (~Answer /\ child.caused)
               c == [GssDone(child) EXCEPT !.excused = @ \/ (~Answer /\ child.caused)]
    <2>1. Finishes(c, <<>>, Answer, "gssapi-with-mic")
      BY <1>9 DEF mm_ssh_gssapi_userok
    <2>2. e \in BOOLEAN
      BY <1>1 DEF ChildRecord
    <2>3. c = [child EXCEPT !.postponed = FALSE, !.handlers = {}, !.excused = e]
      BY <1>1 DEF GssDone, ChildRecord
    <2> HIDE DEF c, e
    <2>4. c \in ChildRecord
      BY <1>1, <2>2, <2>3 DEF ChildRecord
    <2> QED
      BY <2>1, <2>4, FinishSpoken
  <1>10. CASE mm_send_keystate
    <2>1. KeyExport \in Request
      BY DEF KeyExport, Request
    <2>2. child' \in ChildRecord /\ child'.pc = "exit" /\ toMon' = Append(toMon, KeyExport)
      BY <1>1, <1>10 DEF mm_send_keystate, ChildRecord, KeyExport
    <2>3. toMon' \in Seq(Request)
      BY <1>1, <2>1, <2>2
    <2> QED
      BY <2>2, <2>3 DEF Spoken
  <1> QED
    BY <1>2, <1>3, <1>4, <1>5, <1>6, <1>7, <1>8, <1>9, <1>10 DEF ChildStep

\* The packets of the client.
LEMMA ClientSpoken ==
  ASSUME Spoken, MonitorInv, ClientStep
  PROVE  Spoken'
  <1>1. child \in ChildRecord /\ toMon \in Seq(Request) /\ conf.enabled \subseteq Methods
    BY DEF Spoken, MonitorInv, MonitorType
  <1>2. ASSUME NEW r \in UserauthRequest, NEW known \in BOOLEAN, FirstRequest(r, known)
        PROVE  Spoken'
    <2> DEFINE c == [child EXCEPT !.attempt = 1, !.cur = r]
               q == [op |-> "PWNAM", known |-> known]
    <2>1. Asks(c, <<>>, q)
      BY <1>2 DEF FirstRequest
    <2>2. c \in ChildRecord /\ q \in Request /\ q.op = "PWNAM" /\ q.op \in Entry
      BY <1>1 DEF ChildRecord, Request, Entry
    <2> HIDE DEF c, q
    <2> QED
      BY <2>1, <2>2, AskSpoken
  <1>3. ASSUME NEW r \in UserauthRequest, input_userauth_request(r)
        PROVE  Spoken'
    <2> DEFINE n == child.attempt + 1
               c == [child EXCEPT !.attempt = n, !.cur = r]
    <2>1. \/ child' = Ends(child, "tries") /\ UNCHANGED toMon
          \/ TryMethod(c, <<>>, r)
      BY <1>3 DEF input_userauth_request
    <2>2. n \in Nat
      BY <1>1 DEF ChildRecord
    <2> HIDE DEF n
    <2>3. c \in ChildRecord /\ c.cur = r
      BY <1>1, <2>2 DEF ChildRecord
    <2> HIDE DEF c
    <2>4. CASE child' = Ends(child, "tries") /\ UNCHANGED toMon
      <3>1. child' \in ChildRecord /\ child'.pc = "dead"
        BY <1>1, <2>4 DEF Ends, ChildRecord
      <3> QED
        BY <1>1, <2>4, <3>1 DEF Spoken
    <2>5. CASE TryMethod(c, <<>>, r)
      BY <1>1, <2>3, <2>5, TrySpoken
    <2> QED
      BY <2>1, <2>4, <2>5
  <1>4. CASE input_gssapi_token \/ input_gssapi_exchange_complete
    <2>1. PICK q \in {[op |-> "GSSSTEP"], [op |-> "GSSUSEROK"]} : Asks(child, <<>>, q)
      BY <1>4 DEF input_gssapi_token, input_gssapi_exchange_complete
    <2>2. q \in Request /\ q.op \in {"GSSSTEP", "GSSUSEROK"} /\ q.op \in Entry
      BY DEF Request, Entry, Gss
    <2> QED
      BY <1>1, <2>1, <2>2, AskSpoken
  <1>5. ASSUME NEW good \in BOOLEAN, input_gssapi_mic(good)
        PROVE  Spoken'
    <2> DEFINE q == [op |-> "GSSCHECKMIC", good |-> good]
    <2>1. Asks(child, <<>>, q)
      BY <1>5 DEF input_gssapi_mic
    <2>2. q \in Request /\ q.op = "GSSCHECKMIC" /\ q.op \in Entry
      BY DEF Request, Entry, Gss
    <2> HIDE DEF q
    <2> QED
      BY <1>1, <2>1, <2>2, AskSpoken
  <1>6. CASE input_gssapi_errtok
    <2> DEFINE c == [child EXCEPT !.postponed = FALSE, !.handlers = {}]
    <2>1. Finishes(c, <<>>, FALSE, "gssapi-with-mic") /\ c \in ChildRecord
      BY <1>1, <1>6 DEF input_gssapi_errtok, ChildRecord
    <2> HIDE DEF c
    <2> QED
      BY <2>1, FinishSpoken
  <1>7. CASE ClientEnds
    <2>1. child' \in ChildRecord /\ child'.pc = "dead" /\ UNCHANGED toMon
      BY <1>1, <1>7 DEF ClientEnds, Ends, ChildRecord
    <2> QED
      BY <1>1, <2>1 DEF Spoken
  <1> QED
    BY <1>2, <1>3, <1>4, <1>5, <1>6, <1>7 DEF ClientStep

\* What the monitor keeps to says that a login is earned.
LEMMA InvEarned ==
  ASSUME MonitorInv
  PROVE  LoginEarned
  <1>1. SUFFICES ASSUME LoggedIn
                 PROVE  /\ mon.valid
                        /\ \A i, j \in DOMAIN proved : i # j /\ proved[i].key = proved[j].key => proved[i].key = NoKey
                        /\ IF conf.lists = <<>> THEN Len(proved) = 1
                           ELSE \E l \in DOMAIN conf.lists :
                                  auth2_methods_valid(conf.lists[l]) /\ Follows(conf.lists[l], proved)
    BY DEF LoginEarned, LoggedIn
  <1>2. proved \in Seq(Proof) /\ DOMAIN proved = 1 .. Len(proved) /\ Len(proved) \in Nat
    BY DEF MonitorInv, MonitorType
  <1>3. mon.valid /\ ~Undecided
    BY <1>1 DEF MonitorInv, UserSettled, LoggedIn, Undecided
  <1>4. \A i, j \in DOMAIN proved : i # j /\ proved[i].key = proved[j].key => proved[i].key = NoKey
    BY <1>2 DEF MonitorInv, KeysOnce
  <1>5. conf.lists = <<>> => Len(proved) = 1
    BY <1>1 DEF MonitorInv, FirstWillDo, LoggedIn
  <1>6. ASSUME conf.lists # <<>>
        PROVE  \E l \in DOMAIN conf.lists :
                  auth2_methods_valid(conf.lists[l]) /\ Follows(conf.lists[l], proved)
    <2>1. PICK l \in DOMAIN mon.lists : mon.lists[l] = <<>>
      BY <1>1, <1>6 DEF MonitorInv, ListsTrue
    <2>2. l \in DOMAIN conf.lists /\ auth2_methods_valid(conf.lists[l]) /\ Progress(l)
      BY <2>1 DEF MonitorInv, ListsTrue
    <2>3. conf.lists[l] \in Seq(Methods)
      BY <2>2 DEF MonitorInv, MonitorType
    <2> DEFINE list == conf.lists[l]
    <2>4. PICK k \in 0 .. Len(list) : Behind(<<>>, list, k) /\ Earned(proved, list, k, Len(proved))
      BY <1>3, <2>1, <2>2 DEF Progress, Settled
    <2> HIDE DEF list
    <2>5. Len(list) = k /\ DOMAIN list = 1 .. k
      BY <2>3, <2>4 DEF Behind, list
    <2>6. Follows(list, proved)
      BY <1>2, <2>4, <2>5 DEF Earned, Follows
    <2> QED
      BY <2>2, <2>6 DEF list
  <1> QED
    BY <1>3, <1>4, <1>5, <1>6

\* Every step of a login keeps what the monitor keeps to, for every client and every setting.
LEMMA EarnedStep ==
  ASSUME MonitorInv, Spoken, [Next]_vars
  PROVE  MonitorInv' /\ Spoken'
  <1>1. CASE UNCHANGED vars
    BY <1>1, MonitorUntouched DEF vars, Spoken
  <1>2. CASE ClientStep
    <2>1. UNCHANGED <<conf, mon, proved>>
      BY <1>2 DEF ClientStep, FirstRequest, input_userauth_request, input_gssapi_token,
                  input_gssapi_errtok, input_gssapi_exchange_complete, input_gssapi_mic, ClientEnds
    <2> QED
      BY <1>2, <2>1, MonitorUntouched, ClientSpoken
  <1>3. CASE ChildStep
    <2>1. UNCHANGED <<conf, mon, proved>>
      BY <1>3 DEF ChildStep, mm_getpwnamallow, mm_auth_password, mm_user_key_allowed, mm_sshkey_verify,
                  mm_ssh_gssapi_server_ctx, mm_ssh_gssapi_accept_ctx, mm_ssh_gssapi_checkmic,
                  mm_ssh_gssapi_userok, mm_send_keystate, Answered
    <2> QED
      BY <1>3, <2>1, MonitorUntouched, ChildSpoken
  <1>4. CASE MonitorStep /\ UNCHANGED child
    <2>1. toMon' = toMon \/ (toMon # <<>> /\ toMon' = Tail(toMon))
      BY <1>4 DEF MonitorStep, monitor_read, monitor_decide, mm_get_keystate
    <2>2. toMon' \in Seq(Request)
      BY <2>1, TailPipe DEF Spoken
    <2> QED
      BY <1>4, <2>2, MonitorStepInv DEF Spoken
  <1>5. CASE privsep_postauth \/ MonitorSeesEof \/ grace_alarm_handler
    <2>1. UNCHANGED <<toMon, child>>
      BY <1>5 DEF privsep_postauth, MonitorSeesEof, grace_alarm_handler
    <2> QED
      BY <1>5, <2>1, MonitorEndsInv DEF Spoken
  <1>6. CASE cleanup_exit
    <2>1. UNCHANGED <<conf, mon, proved, toMon>> /\ child' = Ends(child, "killed")
      BY <1>6 DEF cleanup_exit
    <2>2. child' \in ChildRecord /\ child'.pc = "dead"
      BY <2>1 DEF Spoken, Ends, ChildRecord
    <2> QED
      BY <2>1, <2>2, MonitorUntouched DEF Spoken
  <1> QED
    BY <1>1, <1>2, <1>3, <1>4, <1>5, <1>6 DEF Next, ProcessEnds

\* The beginning of a login.
LEMMA LoginInit ==
  ASSUME Init
  PROVE  MonitorInv /\ Spoken /\ JointInv
  <1>1. MonitorInv
    BY MonitorInitInv DEF Init
  <1>2. child \in ChildRecord
    <2>1. [method |-> "other"] \in UserauthRequest /\ "PWNAM" \in Entry
      BY DEF UserauthRequest, Entry
    <2>2. <<>> \in Lists
      <3>1. <<>> \in [{} -> Seq(Methods)] /\ {} \in SUBSET Nat
        OBVIOUS
      <3> QED
        BY <3>1 DEF Lists
    <2> QED
      BY <2>1, <2>2 DEF Init, ChildRecord
  <1>3. toMon = <<>> /\ toChild = <<>> /\ toMon \in Seq(Request)
    BY DEF Init, MonInit
  <1>4. Spoken
    BY <1>2, <1>3 DEF Spoken, Init
  <1>5. ~Good /\ ~Bad
    <2>1. \A x : <<x>> # <<>>
      OBVIOUS
    <2> QED
      BY <1>3, <2>1, Zenon DEF Good, Bad
  <1>6. ChildType /\ Asking
    BY <1>2, <1>3 DEF Init, ChildType, Asking
  <1>7. Fate
    BY <1>5 DEF Init, MonInit, Fate
  <1>8. Counted = 0 /\ ~Undecided
    BY DEF Init, MonInit, Counted, Undecided
  <1>9. Counts
    BY <1>5, <1>8, TriesAssumption DEF Init, MonInit, Counts, Tally
  <1>10. Together /\ Listed
    BY <1>3, <1>8 DEF Init, MonInit, Together, Naming, Listed
  <1> QED
    BY <1>1, <1>4, <1>6, <1>7, <1>9, <1>10 DEF JointInv

\* For every client, every order of messages, all keys, lists and settings: the monitor logs
\* in only who has proved, in order, all the methods of one list whose methods are enabled,
\* with different keys (monitor_child_preauth, auth2_update_methods_lists).
THEOREM LoginIsEarned == Spec => []LoginEarned
  <1>1. Init => MonitorInv /\ Spoken
    BY LoginInit
  <1>2. (MonitorInv /\ Spoken) /\ [Next]_vars => (MonitorInv /\ Spoken)'
    BY EarnedStep
  <1>3. MonitorInv /\ Spoken => LoginEarned
    BY InvEarned
  <1> QED
    BY <1>1, <1>2, <1>3, PTL DEF Spec

\* A session runs under the forced command of every key that was used for it; when two keys
\* have different ones, there is no session (auth_activate_options, sshauthopt_merge).
THEOREM ForcedCommandIsKept == Spec => []ForcedCommandKept
  <1>1. Init => MonitorInv /\ Spoken
    BY LoginInit
  <1>2. (MonitorInv /\ Spoken) /\ [Next]_vars => (MonitorInv /\ Spoken)'
    BY EarnedStep
  <1>3. MonitorInv /\ Spoken => ForcedCommandKept
    BY DEF MonitorInv, OptionsKept, ForcedCommandKept
  <1> QED
    BY <1>1, <1>2, <1>3, PTL DEF Spec

\* Every step keeps what child and monitor have in common.
LEMMA JointStep ==
  ASSUME ~(Blank /\ PermitEmpty), MonitorInv, Spoken, JointInv, [Next]_vars
  PROVE  JointInv'
  <1>1. CASE UNCHANGED vars
    <2> USE <1>1 DEF vars
    <2>1. /\ Answer' = Answer /\ Good' = Good /\ Bad' = Bad /\ Undecided' = Undecided
          /\ Counted' = Counted /\ Due' = Due /\ Admits' = Admits
      BY DEF Answer, Good, Bad, Undecided, Counted, IsFailure, Due, Admits
    <2>2. ChildType' /\ Asking' /\ Fate' /\ Counts' /\ Listed' = Listed
      BY <2>1 DEF JointInv, ChildType, Asking, Fate, Counts, Listed, Tried, Tally
    <2>3. \A p : Onward(child, p)' = Onward(child, p)
      BY <2>1 DEF Onward, GssListed, auth2_method_allowed
    <2>4. \A h : Gates(h)' = Gates(h)
      BY DEF Gates
    <2>5. Ready(child, toMon)' = Ready(child, toMon)
      BY <2>1 DEF Ready, Onward, GssListed, Gates, auth2_method_allowed
    <2>6. \A p, q : Asked(child, p, q)' = Asked(child, p, q)
      BY <2>3 DEF Asked, Gates, Question, Tried, auth2_method_allowed
    <2>7. Naming' = Naming
      BY <2>1 DEF Naming, auth2_setup_methods_lists, auth2_methods_valid
    <2>8. Won(child)' = Won(child)
      BY DEF Won, Enough, Tried, GssListed, Gates, auth2_method_allowed
    <2>9. \A a : Told(child, a)' = Told(child, a)
      BY <2>1, <2>3, <2>8 DEF Told, Tried, Gates, auth2_method_allowed
    <2>10. Told(child, Answer)' = Told(child, Answer)
      BY <2>1, <2>9
    <2>11. Together' = Together
      BY <2>1, <2>5, <2>6, <2>7, <2>10 DEF Together
    <2> QED
      BY <2>2, <2>11 DEF JointInv
  <1>2. CASE ClientStep \/ ChildStep
    BY <1>2, ChildStepInv
  <1>3. CASE MonitorStep /\ UNCHANGED child
    BY <1>3, ReadJointInv, DecideJointInv, GetKeystateInv DEF MonitorStep
  <1>4. CASE ProcessEnds \/ grace_alarm_handler
    BY <1>4, PostauthInv, SeesEofInv, CleanupInv, AlarmInv DEF ProcessEnds
  <1> QED
    BY <1>1, <1>2, <1>3, <1>4 DEF Next

\* What child and monitor have in common at every moment of a login.
LEMMA InvJoint ==
  ASSUME MonitorInv, JointInv
  PROVE  NeverRefused /\ SameVerdict /\ TriesAgree
  <1>1. NeverRefused
    BY DEF JointInv, Fate, NeverRefused
  <1>2. SameVerdict
    <2>1. child.success => \/ mon.pc \in {"keystate", "reap", "session"}
                           \/ mon.pc = "decide" /\ mon.ok
                           \/ mon.pc = "dead" /\ mon.why \in {"alarm", "options"}
      BY DEF JointInv, ChildType, Fate, Together, Naming, Admits, Undecided
    <2>2. mon.pc \in {"reap", "session"} => child.success
      <3>1. SUFFICES ASSUME mon.pc \in {"reap", "session"} PROVE child.success
        OBVIOUS
      <3>2. \A q, pipe : ~Asked(child, pipe, q) /\ ~Ready(child, pipe)
        BY <3>1 DEF Asked, Onward, Ready
      <3>3. \A a : ~Told(child, a)
        BY <3>1 DEF Told, Won, Onward
      <3> QED
        BY <3>1, <3>2, <3>3 DEF JointInv, ChildType, Together, Naming
    <2>3. child.pc = "idle" => mon.pc # "keystate"
      BY DEF JointInv, Together, Naming, Ready, Onward
    <2>4. child.pc = "idle" /\ mon.pc = "read" /\ child.attempt > 0
             => child.lists = mon.lists /\ child.used = mon.used
      BY DEF JointInv, Together, Naming, Ready, Onward, Due, Undecided
    <2> QED
      BY <2>1, <2>2, <2>3, <2>4 DEF SameVerdict
  <1>3. TriesAgree
    <2>1. child.pc \in {"idle", "wait"} => child.failures < MaxAuthTries
      BY DEF JointInv, Counts
    <2>2. mon.failures > MaxAuthTries <=> mon.why = "tries"
      BY DEF JointInv, Counts
    <2>3. ASSUME mon.why = "tries", ~child.excused
          PROVE  /\ child.failures >= MaxAuthTries - 1
                 /\ child.pc \notin {"idle", "success", "exit"}
      <3>1. mon.pc = "dead" /\ Counted = mon.failures /\ mon.failures > MaxAuthTries /\ ~child.success
        BY <2>2, <2>3 DEF JointInv, Fate, Counted, MonitorInv, MonitorType
      <3>2. child.failures \in Nat /\ mon.failures \in Nat /\ MaxAuthTries \in Nat
        BY TriesAssumption DEF JointInv, ChildType, ChildRecord, MonitorInv, MonitorType
      <3>3. mon.failures <= child.failures + (IF Bad THEN 1 ELSE 0) + (IF child.none THEN 0 ELSE 1)
        BY <2>3, <3>1 DEF JointInv, Counts, Tally
      <3>4. child.failures >= MaxAuthTries - 1
        BY <3>1, <3>2, <3>3
      <3>5. child.pc \notin {"success", "exit"}
        BY <3>1 DEF JointInv, ChildType
      <3>6. child.pc # "idle"
        <4>1. SUFFICES ASSUME child.pc = "idle" PROVE FALSE
          OBVIOUS
        <4>2. ~Bad
          <5>1. \A x : <<x>> # <<>>
            OBVIOUS
          <5>2. toChild = <<>>
            BY <4>1 DEF JointInv, ChildType
          <5> QED
            BY <5>1, <5>2, Zenon DEF Bad
        <4>3. child.failures < MaxAuthTries
          BY <2>1, <4>1
        <4> QED
          BY <3>1, <3>2, <3>3, <4>2, <4>3
      <3> QED
        BY <3>4, <3>5, <3>6
    <2> QED
      BY <2>1, <2>2, <2>3 DEF TriesAgree
  <1> QED
    BY <1>1, <1>2, <1>3

\* Unless a blank password opens the account, the child never asks what the monitor does not
\* permit, and no success is for a method outside the lists, for every client and every
\* order of messages (monitor_read, userauth_finish).
THEOREM MonitorNeverRefuses ==
  ASSUME ~(Blank /\ PermitEmpty)
  PROVE  Spec => []NeverRefused
  <1>1. Init => MonitorInv /\ Spoken /\ JointInv
    BY LoginInit
  <1>2. (MonitorInv /\ Spoken /\ JointInv) /\ [Next]_vars => (MonitorInv /\ Spoken /\ JointInv)'
    BY EarnedStep, JointStep
  <1>3. MonitorInv /\ Spoken /\ JointInv => NeverRefused
    BY InvJoint
  <1> QED
    BY <1>1, <1>2, <1>3, PTL DEF Spec

\* Under the same setting child and monitor come to the same result (userauth_finish against
\* monitor_child_preauth).
THEOREM VerdictIsTheSame ==
  ASSUME ~(Blank /\ PermitEmpty)
  PROVE  Spec => []SameVerdict
  <1>1. Init => MonitorInv /\ Spoken /\ JointInv
    BY LoginInit
  <1>2. (MonitorInv /\ Spoken /\ JointInv) /\ [Next]_vars => (MonitorInv /\ Spoken /\ JointInv)'
    BY EarnedStep, JointStep
  <1>3. MonitorInv /\ Spoken /\ JointInv => SameVerdict
    BY InvJoint
  <1> QED
    BY <1>1, <1>2, <1>3, PTL DEF Spec

\* Under the same setting the two counts of failures agree as far as a client can tell
\* (auth2.c:userauth_finish, monitor.c:monitor_child_preauth).
THEOREM TriesAlwaysAgree ==
  ASSUME ~(Blank /\ PermitEmpty)
  PROVE  Spec => []TriesAgree
  <1>1. Init => MonitorInv /\ Spoken /\ JointInv
    BY LoginInit
  <1>2. (MonitorInv /\ Spoken /\ JointInv) /\ [Next]_vars => (MonitorInv /\ Spoken /\ JointInv)'
    BY EarnedStep, JointStep
  <1>3. MonitorInv /\ Spoken /\ JointInv => TriesAgree
    BY InvJoint
  <1> QED
    BY <1>1, <1>2, <1>3, PTL DEF Spec
=============================================================================
