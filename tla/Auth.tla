-------------------------------- MODULE Auth ---------------------------------
(***************************************************************************)
(* A login: the unprivileged child that speaks with the client (auth2.c,   *)
(* auth2-none.c, auth2-passwd.c, auth2-pubkey.c, auth2-gss.c) composed     *)
(* with the Monitor it asks.  The client is any client: it may send every  *)
(* request and every message of the GSSAPI exchange whenever the child     *)
(* reads.  The child reads the next packet only when it is done with the   *)
(* last one, but the monitor decides after it has answered, so child and   *)
(* monitor each keep their own count of failures and their own copy of the *)
(* lists of methods, and nothing but the protocol between them keeps these *)
(* in step.                                                                *)
(***************************************************************************)
EXTENDS Monitor

CONSTANT AttemptLimit     \* 1024 in the code: requests read on one connection

ASSUME LimitAssumption == AttemptLimit \in Nat \ {0}

VARIABLE child

vars == <<conf, mon, toMon, toChild, proved, child>>

(***************************************************************************)
(* What a client may ask for.  "other" stands for every request refused    *)
(* without a question to the monitor: an unknown method, a password change,*)
(* a key that cannot be used, keyboard-interactive without a device.       *)
(***************************************************************************)
UserauthRequest ==
    [method : {"none", "other"}]
    \cup [method : {"password"}, passwd : {"right", "wrong", "empty"}]
    \cup [method : {"publickey"}, key : Keys, sig : {"query", "good", "bad"}]
    \cup [method : {"gssapi-with-mic"}, supported : BOOLEAN]

Init ==
    /\ MonInit
    /\ child = [pc |-> "idle", attempt |-> 0, failures |-> 0, valid |-> FALSE, lists |-> <<>>,
                used |-> {}, none |-> TRUE, postponed |-> FALSE, caused |-> FALSE,
                handlers |-> {}, success |-> FALSE, excused |-> FALSE, cur |-> [method |-> "other"], ask |-> "PWNAM", why |-> "none"]

Ends(c, why) == [c EXCEPT !.pc = "dead", !.why = why]

(***************************************************************************)
(* userauth_finish: what the client is told.                               *)
(***************************************************************************)
TooMany(failures) == failures >= MaxAuthTries

Enough_Partial(c, method) == TRUE

\* one success will do, or it completes a list
Enough(c, method) == conf.lists = <<>> \/ Completes(c.lists, method)

userauth_finish(c, authenticated, method) ==
    LET multiple == conf.lists # <<>>
        l == [c EXCEPT !.lists = IF authenticated /\ multiple THEN Remaining(@, method) ELSE @]
        counts == ~authenticated /\ ~c.caused /\ (c.attempt > 1 \/ method # "none")
        failed == c.failures + (IF counts THEN 1 ELSE 0)
    IN IF authenticated /\ (~c.valid \/ c.postponed) THEN Ends(c, "internal")
       ELSE IF authenticated /\ multiple /\ ~Found(c.lists, method) THEN Ends(c, "methods")
       ELSE IF c.postponed THEN [l EXCEPT !.pc = "idle"]
       ELSE IF authenticated /\ Enough(c, method) THEN [l EXCEPT !.pc = "success", !.success = TRUE]
       ELSE IF TooMany(failed) THEN Ends([l EXCEPT !.failures = failed], "tries")
       ELSE [l EXCEPT !.pc = "idle", !.failures = failed]

\* A question to the monitor, after what has been sent before it, and the end of an attempt.
Asks(c, sent, r) ==
    /\ child' = [c EXCEPT !.pc = "wait", !.ask = r.op]
    /\ toMon' = toMon \o Append(sent, r)

Finishes(c, sent, authenticated, method) ==
    /\ child' = userauth_finish(c, authenticated, method)
    /\ toMon' = toMon \o sent

(***************************************************************************)
(* The methods: each either asks the monitor or fails at once.             *)
(***************************************************************************)
userauth_none(c, sent) ==
    IF PermitEmpty /\ "password" \in conf.enabled
    THEN Asks([c EXCEPT !.none = FALSE], sent, [op |-> "AUTHPASSWORD", passwd |-> "empty"])
    ELSE Finishes([c EXCEPT !.none = FALSE], sent, FALSE, "none")

userauth_passwd(c, sent, r) ==
    Asks(c, sent, [op |-> "AUTHPASSWORD", passwd |-> r.passwd])

userauth_pubkey(c, sent, r) ==
    IF r.key \in c.used \/ ~c.valid
    THEN Finishes(c, sent, FALSE, "publickey")
    ELSE Asks(c, sent, [op |-> "KEYALLOWED", key |-> r.key])

userauth_gssapi(c, sent, r) ==
    IF r.supported THEN Asks(c, sent, [op |-> "GSSSETUP"])
                   ELSE Finishes([c EXCEPT !.caused = TRUE], sent, FALSE, "gssapi-with-mic")

authmethod_lookup(c, method) ==
    /\ method \in conf.enabled \cup (IF c.none THEN {"none"} ELSE {})
    /\ auth2_method_allowed(c.lists, method)

\* The second half of input_userauth_request: forget the last exchange, try the method.
TryMethod(c, sent, r) ==
    LET t == [c EXCEPT !.handlers = @ \ {"TOKEN", "COMPLETE"}, !.postponed = FALSE,
                      !.caused = FALSE]
    IN IF ~authmethod_lookup(t, r.method)
       THEN Finishes(t, sent, FALSE, r.method)
       ELSE CASE r.method = "none" -> userauth_none(t, sent)
              [] r.method = "password" -> userauth_passwd(t, sent, r)
              [] r.method = "publickey" -> userauth_pubkey(t, sent, r)
              [] r.method = "gssapi-with-mic" -> userauth_gssapi(t, sent, r)

(***************************************************************************)
(* The packets of the client.                                              *)
(***************************************************************************)
\* The first request names the user and the service.
FirstRequest(r, known) ==
    /\ child.pc = "idle" /\ child.attempt = 0
    /\ Asks([child EXCEPT !.attempt = 1, !.cur = r], <<>>, [op |-> "PWNAM", known |-> known])
    /\ UNCHANGED <<conf, mon, toChild, proved>>

input_userauth_request(r) ==
    /\ child.pc = "idle" /\ child.attempt > 0
    /\ IF child.attempt >= AttemptLimit
       THEN child' = Ends(child, "tries") /\ UNCHANGED toMon
       ELSE TryMethod([child EXCEPT !.attempt = @ + 1, !.cur = r], <<>>, r)
    /\ UNCHANGED <<conf, mon, toChild, proved>>

input_gssapi_token ==
    /\ child.pc = "idle" /\ "TOKEN" \in child.handlers
    /\ Asks(child, <<>>, [op |-> "GSSSTEP"])
    /\ UNCHANGED <<conf, mon, toChild, proved>>

input_gssapi_errtok ==
    /\ child.pc = "idle" /\ "ERRTOK" \in child.handlers
    /\ Finishes([child EXCEPT !.postponed = FALSE, !.handlers = {}], <<>>,
                FALSE, "gssapi-with-mic")
    /\ UNCHANGED <<conf, mon, toChild, proved>>

input_gssapi_exchange_complete ==
    /\ child.pc = "idle" /\ "COMPLETE" \in child.handlers
    /\ Asks(child, <<>>, [op |-> "GSSUSEROK"])
    /\ UNCHANGED <<conf, mon, toChild, proved>>

input_gssapi_mic(good) ==
    /\ child.pc = "idle" /\ "MIC" \in child.handlers
    /\ Asks(child, <<>>, [op |-> "GSSCHECKMIC", good |-> good])
    /\ UNCHANGED <<conf, mon, toChild, proved>>

\* The client goes away, asks for another user or service, or sends a packet the
\* child cannot parse or has no handler for.
ClientEnds ==
    /\ child.pc = "idle"
    /\ child' = Ends(child, "client")
    /\ UNCHANGED <<conf, mon, toMon, toChild, proved>>

(***************************************************************************)
(* The answers of the monitor.                                             *)
(***************************************************************************)
Answered(op) ==
    /\ child.pc = "wait" /\ child.ask = op /\ toChild # <<>>
    /\ toChild' = <<>>
    /\ UNCHANGED <<conf, mon, proved>>

Answer == Head(toChild)

\* The user is valid only for the service ssh-connection, which the monitor does not check.
mm_getpwnamallow(service) ==
    /\ Answered("PWNAM")
    /\ LET c == [child EXCEPT !.valid = Answer /\ service = "ssh-connection",
                              !.lists = auth2_setup_methods_lists]
           sent == <<[op |-> "AUTHSERV"]>>
       IN IF conf.lists # <<>> /\ DOMAIN c.lists = {}
          THEN child' = Ends(c, "nomethods") /\ toMon' = toMon \o sent
          ELSE TryMethod(c, sent, c.cur)

mm_auth_password ==
    /\ Answered("AUTHPASSWORD")
    /\ Finishes(child, <<>>, Answer, child.cur.method)

mm_user_key_allowed_Ignored ==
    /\ Answered("KEYALLOWED")
    /\ LET r == child.cur
       IN CASE r.sig = "query" -> Finishes([child EXCEPT !.postponed = Answer], <<>>, FALSE, "publickey")
            [] OTHER -> Asks(child, <<>>, [op |-> "KEYVERIFY", key |-> r.key, good |-> r.sig = "good"])

\* a query is answered with PK_OK and leaves the attempt open
mm_user_key_allowed ==
    /\ Answered("KEYALLOWED")
    /\ LET r == child.cur
       IN CASE ~Answer -> Finishes(child, <<>>, FALSE, "publickey")
            [] Answer /\ r.sig = "query" ->
                  Finishes([child EXCEPT !.postponed = TRUE], <<>>, FALSE, "publickey")
            [] OTHER -> Asks(child, <<>>, [op |-> "KEYVERIFY", key |-> r.key, good |-> r.sig = "good"])

\* The child is sent "true" for every forced command, so to it the options always agree.
mm_sshkey_verify ==
    /\ Answered("KEYVERIFY")
    /\ Finishes([child EXCEPT !.used = IF Answer THEN @ \cup {child.cur.key} ELSE @], <<>>,
                Answer, "publickey")

mm_ssh_gssapi_server_ctx ==
    /\ Answered("GSSSETUP")
    /\ IF Answer
       THEN Finishes([child EXCEPT !.postponed = TRUE, !.handlers = @ \cup {"TOKEN", "ERRTOK"}],
                     <<>>, FALSE, "gssapi-with-mic")
       ELSE Finishes([child EXCEPT !.caused = TRUE], <<>>, FALSE, "gssapi-with-mic")

mm_ssh_gssapi_accept_ctx ==
    /\ Answered("GSSSTEP")
    /\ IF Answer = "error"
       THEN Finishes([child EXCEPT !.postponed = FALSE, !.handlers = @ \ {"TOKEN", "ERRTOK"}],
                     <<>>, FALSE, "gssapi-with-mic")
       ELSE /\ child' = [child EXCEPT !.pc = "idle",
                  !.handlers = CASE Answer = "integ" -> (@ \ {"TOKEN"}) \cup {"MIC"}
                                 [] Answer = "plain" -> (@ \ {"TOKEN"}) \cup {"COMPLETE"}
                                 [] OTHER -> @]
            /\ UNCHANGED toMon

GssDone(c) == [c EXCEPT !.postponed = FALSE, !.handlers = {}]

mm_ssh_gssapi_checkmic ==
    /\ Answered("GSSCHECKMIC")
    /\ IF Answer THEN Asks(child, <<>>, [op |-> "GSSUSEROK"])
                 ELSE Finishes(GssDone(child), <<>>, FALSE, "gssapi-with-mic")

\* History: excused notes a failure that the monitor counts and the child does not,
\* because server_caused_failure is left from a later request than the one that fails.
mm_ssh_gssapi_userok ==
    /\ Answered("GSSUSEROK")
    /\ Finishes([GssDone(child) EXCEPT !.excused = @ \/ (~Answer /\ child.caused)], <<>>,
                Answer, "gssapi-with-mic")

\* do_authentication2 returns: the keys of the connection go to the monitor, the child exits
mm_send_keystate ==
    /\ child.pc = "success"
    /\ child' = [child EXCEPT !.pc = "exit"]
    /\ toMon' = Append(toMon, [op |-> "KEYEXPORT"])
    /\ UNCHANGED <<conf, mon, toChild, proved>>

(***************************************************************************)
(* The end of the one process seen by the other.                           *)
(***************************************************************************)
\* The monitor has the keys and sees the child exit with status 0; the process of the
\* session is started, and dies if it cannot be given its options.
privsep_postauth ==
    /\ mon.pc = "reap" /\ child.pc = "exit"
    /\ IF mon.opts = Lost THEN Dies("options") ELSE mon' = [mon EXCEPT !.pc = "session"]
    /\ UNCHANGED <<conf, toMon, toChild, proved, child>>

MonitorSeesEof ==
    /\ mon.pc \in {"read", "keystate"} /\ toMon = <<>> /\ child.pc = "dead"
    /\ Dies("eof")
    /\ UNCHANGED <<conf, toMon, toChild, proved, child>>

grace_alarm_handler ==
    /\ mon.pc \notin {"dead", "session"}
    /\ Dies("alarm")
    /\ UNCHANGED <<conf, toMon, toChild, proved, child>>

\* cleanup_exit of the monitor kills the child, wherever it is
cleanup_exit ==
    /\ mon.pc = "dead" /\ child.pc \notin {"dead", "exit"}
    /\ child' = Ends(child, "killed")
    /\ UNCHANGED <<conf, mon, toMon, toChild, proved>>

ChildStep ==
    \/ \E service \in {"ssh-connection", "other"} : mm_getpwnamallow(service)
    \/ mm_auth_password \/ mm_user_key_allowed \/ mm_sshkey_verify
    \/ mm_ssh_gssapi_server_ctx \/ mm_ssh_gssapi_accept_ctx
    \/ mm_ssh_gssapi_checkmic \/ mm_ssh_gssapi_userok
    \/ mm_send_keystate

ClientStep ==
    \/ \E r \in UserauthRequest :
          \/ \E known \in BOOLEAN : FirstRequest(r, known)
          \/ input_userauth_request(r)
    \/ input_gssapi_token \/ input_gssapi_errtok \/ input_gssapi_exchange_complete
    \/ \E good \in BOOLEAN : input_gssapi_mic(good)
    \/ ClientEnds

ProcessEnds == privsep_postauth \/ MonitorSeesEof \/ cleanup_exit

Next ==
    \/ ClientStep
    \/ ChildStep
    \/ MonitorStep /\ UNCHANGED child
    \/ ProcessEnds
    \/ grace_alarm_handler

Spec == Init /\ [][Next]_vars

\* Both processes run; the client need not send anything and the alarm need not go off.
FairSpec == Spec /\ WF_vars(ChildStep \/ (MonitorStep /\ UNCHANGED child) \/ ProcessEnds)

-----------------------------------------------------------------------------
(***************************************************************************)
(* Properties.                                                             *)
(***************************************************************************)

\* list is what is left of the proofs when some are left out
Follows(list, proofs) ==
    \E at \in [DOMAIN list -> DOMAIN proofs] :
        /\ \A i, j \in DOMAIN list : i < j => at[i] < at[j]
        /\ \A i \in DOMAIN list : proofs[at[i]].method = list[i]

\* The monitor logs a user in only if the user exists, no key was used twice, and the
\* credentials found good are, in order, all of one list of AuthenticationMethods whose
\* methods are enabled; without lists, one credential (monitor_child_preauth,
\* auth2_update_methods_lists, auth2_key_already_used).
LoginEarned ==
    mon.pc \in {"keystate", "reap", "session"} =>
        /\ mon.valid
        /\ \A i, j \in DOMAIN proved : i # j /\ proved[i].key = proved[j].key => proved[i].key = NoKey
        /\ IF conf.lists = <<>> THEN Len(proved) = 1
           ELSE \E l \in DOMAIN conf.lists :
                   auth2_methods_valid(conf.lists[l]) /\ Follows(conf.lists[l], proved)

\* A session runs the forced command of every key that was used for it, however the
\* methods were combined (auth_activate_options, sshauthopt_merge).
ForcedCommandKept ==
    mon.pc = "session" => \A k \in mon.used : Command[k] \in {NoCommand, mon.opts}

\* Child and monitor come to the same result: a client that was told SUCCESS has been
\* logged in by the monitor or is about to be, and one that was not told so never has a
\* session; when the child reads on, it and the monitor have crossed off the same methods
\* (userauth_finish against monitor_child_preauth).
SameVerdict ==
    /\ child.success => \/ mon.pc \in {"keystate", "reap", "session"}
                        \/ mon.pc = "decide" /\ mon.ok
                        \/ mon.pc = "dead" /\ mon.why \in {"alarm", "options"}
    /\ mon.pc \in {"reap", "session"} => child.success
    /\ child.pc = "idle" => mon.pc # "keystate"
    /\ child.pc = "idle" /\ mon.pc = "read" /\ child.attempt > 0
          => child.lists = mon.lists /\ child.used = mon.used

\* Whatever the order of the client's messages, the child asks the monitor nothing that
\* is not permitted then, no success is for a method outside the lists ("This should not
\* happen, but would be bad if it did", auth2.c), and nothing but the keys of the
\* connection follows a login (monitor_read, mm_get_keystate).
NeverRefused ==
    /\ mon.why \notin {"refused", "methods", "keystate"}
    /\ child.why # "methods"

\* MaxAuthTries holds in both processes, which count for themselves: a child that reads
\* on is below it, and the monitor gives up for too many attempts only when the child is
\* there as well, so it never cuts off a client that has attempts left ("Shouldn't
\* happen", monitor.c:358).  The one exception is a client that finishes a GSSAPI
\* exchange behind a later request which failed on the server's account.
TriesAgree ==
    /\ child.pc \in {"idle", "wait"} => child.failures < MaxAuthTries
    /\ mon.failures > MaxAuthTries => mon.why = "tries"
    /\ mon.why = "tries" /\ ~child.excused =>
          /\ child.failures >= MaxAuthTries - 1
          /\ child.pc \notin {"idle", "success", "exit"}

\* Every request of the client is answered, the connection is given up or the session
\* starts: child and monitor never wait for each other (mm_request_receive).
RequestAnswered ==
    child.pc # "idle" ~> child.pc \in {"idle", "dead"} \/ mon.pc \in {"session", "dead"}
=============================================================================
