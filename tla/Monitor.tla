------------------------------- MODULE Monitor -------------------------------
(***************************************************************************)
(* The privileged half of a login (monitor.c): the process that holds the  *)
(* keys, answers the questions of the unprivileged child one at a time     *)
(* through a pair of pipes, and itself decides whether the user is logged  *)
(* in.  A request is answered only while its entry of the dispatch table   *)
(* is permitted; the decision is taken after the answer has been sent, so  *)
(* the child already runs on while the monitor counts the failure, crosses *)
(* the method off the lists or gives up.                                   *)
(*                                                                         *)
(* The methods are the ones a Windows build offers: none, password,        *)
(* publickey and gssapi-with-mic.  A list of AuthenticationMethods is a    *)
(* sequence of methods; no list stands for "any".  Of the options of a key *)
(* only the forced command is kept.                                        *)
(***************************************************************************)
EXTENDS Naturals, Sequences, FiniteSets

CONSTANTS
    Keys,            \* the public keys a client may offer
    Authorized,      \* the keys in the user's authorized_keys
    Command,         \* the forced command of each key, or NoCommand
    NoKey,
    NoCommand,
    Lost,            \* auth_opts is the null pointer
    Blank,           \* the account's password is empty
    PermitEmpty,     \* PermitEmptyPasswords
    MaxAuthTries,
    Configs          \* the settings a run starts from: AuthenticationMethods, enabled methods

ASSUME KeysAssumption == /\ Authorized \subseteq Keys
                         /\ NoKey \notin Keys
                         /\ Command \in [Keys -> {Command[k] : k \in Keys}]
                         /\ \A k \in Keys : Command[k] # Lost
                         /\ NoCommand # Lost
ASSUME TriesAssumption == MaxAuthTries \in Nat \ {0}

\* The methods a list may name; "none" is not one of them.
Methods == {"password", "publickey", "gssapi-with-mic"}

ASSUME ConfigsAssumption == Configs \subseteq [lists : Seq(Seq(Methods)), enabled : SUBSET Methods]

VARIABLES
    conf,       \* [lists, enabled]: the configuration of this connection
    mon,        \* the monitor
    toMon,      \* requests on their way to the monitor
    toChild,    \* its answer on the way back
    proved      \* history: the credentials the monitor has found to be good

(***************************************************************************)
(* The lists of AuthenticationMethods (auth2.c), which child and monitor   *)
(* keep each for themselves.                                               *)
(***************************************************************************)

list_starts_with(list, method) == list # <<>> /\ Head(list) = method

auth2_methods_valid(list) == \A i \in DOMAIN list : list[i] \in conf.enabled

\* Lists that need a disabled method are left out; the others keep their place.
auth2_setup_methods_lists ==
    [i \in {j \in DOMAIN conf.lists : auth2_methods_valid(conf.lists[j])} |-> conf.lists[i]]

auth2_method_allowed(lists, method) ==
    conf.lists = <<>> \/ \E i \in DOMAIN lists : list_starts_with(lists[i], method)

remove_method_Anywhere(list, method) == SelectSeq(list, LAMBDA m : m # method)

remove_method(list, method) ==
    IF list_starts_with(list, method) THEN Tail(list) ELSE list

\* auth2_update_methods_lists: what is left, whether the method was there at all,
\* and whether it completed a list
Remaining(lists, method) == [i \in DOMAIN lists |-> remove_method(lists[i], method)]
Found(lists, method) == \E i \in DOMAIN lists : list_starts_with(lists[i], method)
Completes(lists, method) == \E i \in DOMAIN lists : Remaining(lists, method)[i] = <<>>

sshauthopt_merge_Latest(old, new) == IF new = NoCommand THEN old ELSE new

\* two forced commands must be the same one; otherwise there is no result
sshauthopt_merge(old, new) ==
    CASE new = NoCommand \/ old = new -> old
      [] old = NoCommand -> new
      [] OTHER -> Lost

(***************************************************************************)
(* The dispatch table.                                                     *)
(***************************************************************************)
Once       == {"PWNAM", "AUTHSERV", "GSSUSEROK", "GSSCHECKMIC"}
IsAuth     == {"AUTHPASSWORD", "KEYALLOWED", "KEYVERIFY", "GSSSETUP", "GSSUSEROK"}
AuthDecide == {"AUTHPASSWORD", "KEYVERIFY", "GSSUSEROK"}
Gss        == {"GSSSETUP", "GSSSTEP", "GSSUSEROK", "GSSCHECKMIC"}

\* Once the key exchange has been signed, who wants to log in may be asked.
MonInit ==
    /\ conf \in Configs
    /\ mon = [pc |-> "read", permit |-> {"PWNAM"}, valid |-> FALSE, asked |-> FALSE,
              failures |-> 0, lists |-> <<>>, used |-> {}, key |-> NoKey, opts |-> NoCommand,
              gss |-> "none", client |-> "none", ent |-> "PWNAM", ok |-> FALSE,
              method |-> "unknown", why |-> "none"]
    /\ toMon = <<>>
    /\ toChild = <<>>
    /\ proved = <<>>

Dies(why) == mon' = [mon EXCEPT !.pc = "dead", !.why = why]

(***************************************************************************)
(* The next request, and whether it may be made now.                       *)
(***************************************************************************)
Next1 == Head(toMon)

\* the handlers of a disabled method, and a signature for a key that was not found allowed, are fatal
Accepts(r) ==
    /\ r.op \in mon.permit
    /\ r.op = "AUTHPASSWORD" => "password" \in conf.enabled
    /\ r.op \in Gss => "gssapi-with-mic" \in conf.enabled
    /\ r.op = "KEYVERIFY" => mon.key # NoKey /\ r.key = mon.key

\* the entry of the request at hand
Reads(op) == Next1.op = op

\* the handler is done: its entry goes if it may be used once, the decision is next
Handled(m, op, method, ok) ==
    mon' = [m EXCEPT !.pc = "decide", !.ent = op, !.method = method, !.ok = ok,
                     !.permit = IF op \in Once THEN @ \ {op} ELSE @]

Replies(answer) == toChild' = <<answer>>

Proves(ok, method, key) ==
    proved' = IF ok THEN Append(proved, [method |-> method, key |-> key]) ELSE proved

(***************************************************************************)
(* The handlers.                                                           *)
(***************************************************************************)
mm_answer_pwnamallow ==
    /\ Reads("PWNAM")
    /\ Handled([mon EXCEPT !.valid = Next1.known, !.lists = auth2_setup_methods_lists,
                           !.permit = @ \cup {"AUTHSERV"}], "PWNAM", "unknown", FALSE)
    /\ Replies(Next1.known)
    /\ UNCHANGED proved

\* monitor_permit_authentications(1); the only request without an answer
mm_answer_authserv ==
    /\ Reads("AUTHSERV")
    /\ Handled([mon EXCEPT !.permit = @ \cup IsAuth], "AUTHSERV", "unknown", FALSE)
    /\ UNCHANGED <<toChild, proved>>

auth_password(passwd) ==
    /\ passwd = "empty" => PermitEmpty
    /\ passwd = (IF Blank THEN "empty" ELSE "right")
    /\ mon.valid

mm_answer_authpassword ==
    /\ Reads("AUTHPASSWORD")
    /\ LET ok == auth_password(Next1.passwd)
           method == IF Next1.passwd = "empty" /\ ~mon.asked THEN "none" ELSE "password"
       IN /\ Handled([mon EXCEPT !.asked = TRUE], "AUTHPASSWORD", method, ok)
          /\ Replies(ok)
          /\ Proves(ok, "password", NoKey)

mm_answer_keyallowed_Silent ==
    /\ Reads("KEYALLOWED")
    /\ LET allowed == /\ mon.valid /\ "publickey" \in conf.enabled
                      /\ Next1.key \in Authorized \ mon.used
       IN /\ Handled([mon EXCEPT !.key = IF allowed THEN Next1.key ELSE NoKey],
                     "KEYALLOWED", "publickey", FALSE)
          /\ IF allowed THEN Replies(allowed) ELSE UNCHANGED toChild
    /\ UNCHANGED proved

mm_answer_keyallowed ==
    /\ Reads("KEYALLOWED")
    /\ LET allowed == /\ mon.valid /\ "publickey" \in conf.enabled
                      /\ Next1.key \in Authorized \ mon.used
       IN /\ Handled([mon EXCEPT !.key = IF allowed THEN Next1.key ELSE NoKey],
                     "KEYALLOWED", "publickey", FALSE)
          /\ Replies(allowed)
    /\ UNCHANGED proved

\* The result of auth_activate_options is not looked at.  Merging into options that
\* were lost before reads through the null pointer: the monitor is gone.
mm_answer_keyverify ==
    /\ Reads("KEYVERIFY")
    /\ IF Next1.good /\ mon.opts = Lost
       THEN Dies("null") /\ UNCHANGED <<toChild, proved>>
       ELSE /\ Handled([mon EXCEPT !.key = NoKey,
                          !.used = IF Next1.good THEN @ \cup {Next1.key} ELSE @,
                          !.opts = IF Next1.good THEN sshauthopt_merge(@, Command[Next1.key]) ELSE @],
                       "KEYVERIFY", "publickey", Next1.good)
            /\ Replies(Next1.good)
            /\ Proves(Next1.good, "publickey", Next1.key)

\* the credentials of the service may not be found
mm_answer_gss_setup_ctx ==
    /\ Reads("GSSSETUP")
    /\ Handled([mon EXCEPT !.gss = "open", !.permit = @ \cup {"GSSSTEP"}],
               "GSSSETUP", "unknown", FALSE)
    /\ \E ok \in BOOLEAN : Replies(ok)
    /\ UNCHANGED proved

\* What the mechanism makes of a token: it wants more, it fails, or the context
\* stands, with or without integrity; only one with it sets gssapi_client.
mm_answer_gss_accept_ctx ==
    /\ Reads("GSSSTEP")
    /\ \E major \in {"more", "error", "integ", "plain"}, who \in {"user", "other"} :
          /\ Replies(major)
          /\ LET m == [mon EXCEPT !.gss = major, !.client = IF major = "integ" THEN who ELSE @]
                 complete == major \in {"integ", "plain"}
             IN Handled([m EXCEPT !.permit = IF complete
                           THEN (@ \ {"GSSSTEP"}) \cup {"GSSUSEROK", "GSSCHECKMIC"} ELSE @],
                        "GSSSTEP", "unknown", FALSE)
    /\ UNCHANGED proved

mm_answer_gss_checkmic ==
    /\ Reads("GSSCHECKMIC")
    /\ LET ok == mon.gss = "integ" /\ Next1.good
       IN /\ Replies(ok)
          /\ Handled([mon EXCEPT !.permit = IF ok THEN @ \cup {"GSSUSEROK"} ELSE @],
                     "GSSCHECKMIC", "unknown", FALSE)
    /\ UNCHANGED proved

\* a name the mechanism refuses is forgotten
mm_answer_gss_userok ==
    /\ Reads("GSSUSEROK")
    /\ LET ok == mon.valid /\ mon.client = "user"
       IN /\ Replies(ok)
          /\ Handled([mon EXCEPT !.client = IF mon.valid /\ ~ok THEN "none" ELSE @],
                     "GSSUSEROK", "gssapi-with-mic", ok)
          /\ Proves(ok, "gssapi-with-mic", NoKey)

(***************************************************************************)
(* The rest of the loop of monitor_child_preauth: cross the method off,    *)
(* decide, count.                                                          *)
(***************************************************************************)
IsFailure_Any == ~mon.ok /\ mon.ent \in IsAuth

\* only a request that decides counts
IsFailure == ~mon.ok /\ mon.ent \in AuthDecide

monitor_decide ==
    /\ mon.pc = "decide"
    /\ LET multiple == conf.lists # <<>>
           authenticated == mon.ok /\ (~multiple \/ Completes(mon.lists, mon.method))
           failures == mon.failures + (IF IsFailure THEN 1 ELSE 0)
           m == [mon EXCEPT !.failures = failures,
                    !.lists = IF mon.ok /\ multiple THEN Remaining(@, mon.method) ELSE @]
       IN IF mon.ok /\ multiple /\ ~Found(mon.lists, mon.method) THEN Dies("methods")
          ELSE IF failures > MaxAuthTries THEN mon' = [m EXCEPT !.pc = "dead", !.why = "tries"]
          ELSE IF authenticated THEN mon' = [m EXCEPT !.pc = "keystate"]
          ELSE mon' = [m EXCEPT !.pc = "read"]
    /\ UNCHANGED <<conf, toMon, toChild, proved>>

monitor_read ==
    /\ mon.pc = "read" /\ toMon # <<>>
    /\ toMon' = Tail(toMon)
    /\ UNCHANGED conf
    /\ IF ~Accepts(Next1)
       THEN Dies("refused") /\ UNCHANGED <<toChild, proved>>
       ELSE \/ mm_answer_pwnamallow \/ mm_answer_authserv \/ mm_answer_authpassword
            \/ mm_answer_keyallowed \/ mm_answer_keyverify
            \/ mm_answer_gss_setup_ctx \/ mm_answer_gss_accept_ctx
            \/ mm_answer_gss_checkmic \/ mm_answer_gss_userok

\* the user is logged in: nothing but the keys of the connection is expected now
mm_get_keystate ==
    /\ mon.pc = "keystate" /\ toMon # <<>>
    /\ toMon' = Tail(toMon)
    /\ IF Next1.op = "KEYEXPORT" THEN mon' = [mon EXCEPT !.pc = "reap"] ELSE Dies("keystate")
    /\ UNCHANGED <<conf, toChild, proved>>

MonitorStep == monitor_read \/ monitor_decide \/ mm_get_keystate
=============================================================================
