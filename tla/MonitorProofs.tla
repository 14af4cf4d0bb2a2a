--------------------------- MODULE MonitorProofs ---------------------------
(***************************************************************************)
(* What the monitor keeps to whatever the unprivileged child asks of it:   *)
(* the invariant of monitor.c that a login is earned and that the options  *)
(* of the keys survive.  It speaks about the monitor's own state only; a   *)
(* request is any member of Request, in any order.                         *)
(***************************************************************************)
EXTENDS Monitor, TLAPS

\* The requests monitor_read can take from the pipe.
Request ==
    [op : {"PWNAM"}, known : BOOLEAN]
    \cup [op : {"AUTHSERV", "GSSSETUP", "GSSSTEP", "GSSUSEROK", "KEYEXPORT"}]
    \cup [op : {"AUTHPASSWORD"}, passwd : {"right", "wrong", "empty"}]
    \cup [op : {"KEYALLOWED"}, key : Keys]
    \cup [op : {"KEYVERIFY"}, key : Keys, good : BOOLEAN]
    \cup [op : {"GSSCHECKMIC"}, good : BOOLEAN]

Entry == {"PWNAM", "AUTHSERV", "AUTHPASSWORD", "KEYALLOWED", "KEYVERIFY"} \cup Gss

Options == {NoCommand, Lost} \cup {Command[k] : k \in Keys}

Reason == {"none", "refused", "null", "methods", "tries", "keystate", "eof", "alarm", "options"}

Lists == UNION {[D -> Seq(Methods)] : D \in SUBSET Nat}

Proof == [method : Methods, key : Keys \cup {NoKey}]

MonitorType ==
    /\ conf \in [lists : Seq(Seq(Methods)), enabled : SUBSET Methods]
    /\ mon \in [pc : {"read", "decide", "keystate", "reap", "session", "dead"},
                permit : SUBSET Entry, valid : BOOLEAN, asked : BOOLEAN, failures : Nat,
                lists : Lists, used : SUBSET Keys, key : Keys \cup {NoKey}, opts : Options,
                gss : {"none", "open", "more", "error", "integ", "plain"},
                client : {"none", "user", "other"}, ent : Entry, ok : BOOLEAN,
                method : Methods \cup {"none", "unknown"}, why : Reason]
    /\ proved \in Seq(Proof)

LoggedIn == mon.pc \in {"keystate", "reap", "session"}

\* A credential was found good and monitor_decide has not seen it yet.
Undecided == mon.pc = "decide" /\ mon.ok

\* Who the user is gets settled once, before anything can be proved.
UserSettled ==
    /\ "PWNAM" \in mon.permit => /\ mon.permit = {"PWNAM"} /\ mon.key = NoKey /\ proved = <<>>
                                 /\ mon.pc \in {"read", "dead"}
    /\ mon.key # NoKey => mon.valid
    /\ proved # <<>> => mon.valid
    /\ Undecided \/ LoggedIn => proved # <<>>

\* Keys that were used stay out, and their forced commands are in the options.
KeysOnce ==
    /\ mon.key \notin mon.used
    /\ \A i \in 1 .. Len(proved) : proved[i].key \in mon.used \cup {NoKey}
    /\ \A i, j \in 1 .. Len(proved) : i # j /\ proved[i].key = proved[j].key => proved[i].key = NoKey

OptionsKept ==
    /\ mon.opts # Lost => \A k \in mon.used : Command[k] \in {NoCommand, mon.opts}
    /\ mon.pc = "session" => mon.opts # Lost

\* The credentials that monitor_decide has crossed off the lists.
Settled == IF Undecided THEN Len(proved) - 1 ELSE Len(proved)

\* The first k methods of list were proved, in order, by the first n of the proofs.
Earned(proofs, list, k, n) ==
    \E at \in [1 .. k -> 1 .. n] :
        /\ \A i, j \in 1 .. k : i < j => at[i] < at[j]
        /\ \A i \in 1 .. k : proofs[at[i]].method = list[i]

\* rest is list without its first k methods.
Behind(rest, list, k) ==
    /\ Len(rest) = Len(list) - k
    /\ \A j \in 1 .. Len(rest) : rest[j] = list[k + j]

Progress(i) ==
    \E k \in 0 .. Len(conf.lists[i]) :
        Behind(mon.lists[i], conf.lists[i], k) /\ Earned(proved, conf.lists[i], k, Settled)

ListsTrue ==
    /\ \A i \in DOMAIN mon.lists : /\ i \in DOMAIN conf.lists
                                   /\ auth2_methods_valid(conf.lists[i])
                                   /\ Progress(i)
    /\ LoggedIn /\ conf.lists # <<>> => \E i \in DOMAIN mon.lists : mon.lists[i] = <<>>

\* Without lists the first credential is the last.
FirstWillDo ==
    conf.lists = <<>> /\ mon.pc # "dead" => Len(proved) = (IF Undecided \/ LoggedIn THEN 1 ELSE 0)

\* A credential that awaits its decision is the last one, of the method decided on.
LastIsDecided ==
    Undecided => proved[Len(proved)].method = mon.method \/ mon.method = "none"

MonitorInv ==
    /\ MonitorType /\ UserSettled /\ KeysOnce /\ OptionsKept
    /\ ListsTrue /\ FirstWillDo /\ LastIsDecided

-----------------------------------------------------------------------------
(* Types.                                                                  *)

\* A list that has been set up is a function into lists of methods.
LEMMA SetUpType ==
  ASSUME MonitorType
  PROVE  /\ auth2_setup_methods_lists \in Lists
         /\ \A i \in DOMAIN auth2_setup_methods_lists :
               /\ i \in DOMAIN conf.lists /\ auth2_methods_valid(conf.lists[i])
               /\ auth2_setup_methods_lists[i] = conf.lists[i]
  <1> DEFINE D == {j \in DOMAIN conf.lists : auth2_methods_valid(conf.lists[j])}
  <1>1. conf.lists \in Seq(Seq(Methods))
    BY DEF MonitorType
  <1>2. D \in SUBSET Nat
    BY <1>1
  <1>3. auth2_setup_methods_lists \in [D -> Seq(Methods)]
    BY <1>1 DEF auth2_setup_methods_lists
  <1> QED
    BY <1>2, <1>3 DEF Lists, auth2_setup_methods_lists

\* Crossing a method off (auth2_update_methods_lists) leaves lists of methods.
LEMMA RemainingType ==
  ASSUME NEW lists \in Lists, NEW method
  PROVE  /\ Remaining(lists, method) \in Lists
         /\ DOMAIN Remaining(lists, method) = DOMAIN lists
         /\ \A i \in DOMAIN lists :
               /\ lists[i] \in Seq(Methods)
               /\ Remaining(lists, method)[i] = remove_method(lists[i], method)
  <1>1. PICK D \in SUBSET Nat : lists \in [D -> Seq(Methods)]
    BY DEF Lists
  <1>2. ASSUME NEW i \in D
        PROVE  remove_method(lists[i], method) \in Seq(Methods)
    BY <1>1, <1>2 DEF remove_method, list_starts_with
  <1>3. Remaining(lists, method) \in [D -> Seq(Methods)]
    BY <1>1, <1>2 DEF Remaining
  <1> QED
    BY <1>1, <1>3 DEF Lists, Remaining

\* A credential found good is kept as what it is.
LEMMA ProofType ==
  ASSUME MonitorType, NEW m \in Methods, NEW q \in Keys \cup {NoKey}
  PROVE  Append(proved, [method |-> m, key |-> q]) \in Seq(Proof) /\ proved \in Seq(Proof)
  <1>1. [method |-> m, key |-> q] \in Proof
    BY DEF Proof
  <1> QED
    BY <1>1 DEF MonitorType

\* Merging options (sshauthopt_merge) gives options or nothing.
LEMMA MergeType ==
  ASSUME NEW old \in Options, NEW new \in Options
  PROVE  /\ sshauthopt_merge(old, new) \in Options
         /\ sshauthopt_merge(old, new) # Lost =>
               /\ new \in {NoCommand, sshauthopt_merge(old, new)}
               /\ old \in {NoCommand, sshauthopt_merge(old, new)}
  BY KeysAssumption DEF sshauthopt_merge, Options

-----------------------------------------------------------------------------
(* Steps of the monitor.                                                   *)

\* What was earned stays earned when there are more proofs.
LEMMA EarnedGrows ==
  ASSUME NEW old, NEW new, NEW list, NEW k \in Nat, NEW m \in Nat, NEW n \in Nat, m <= n,
         \A i \in 1 .. m : new[i] = old[i],
         Earned(old, list, k, m)
  PROVE  Earned(new, list, k, n)
  <1>1. PICK at \in [1 .. k -> 1 .. m] :
           /\ \A i, j \in 1 .. k : i < j => at[i] < at[j]
           /\ \A i \in 1 .. k : old[at[i]].method = list[i]
    BY DEF Earned
  <1>2. at \in [1 .. k -> 1 .. n]
    <2>1. 1 .. m \subseteq 1 .. n
      OBVIOUS
    <2> QED
      BY <2>1, <1>1
  <1>3. \A i \in 1 .. k : new[at[i]].method = list[i]
    BY <1>1
  <1> QED
    BY <1>1, <1>2, <1>3 DEF Earned

\* A step that leaves lists and credentials alone, and does not make a decided
\* credential undecided, keeps what the lists say.
LEMMA ListsUntouched ==
  ASSUME MonitorInv, MonitorType', UNCHANGED <<conf, proved>>, mon'.lists = mon.lists,
         Undecided' => Undecided, LoggedIn' => LoggedIn
  PROVE  ListsTrue'
  <1>1. ASSUME NEW i \in DOMAIN mon.lists
        PROVE  Progress(i)'
    <2>1. PICK k \in 0 .. Len(conf.lists[i]) :
             Behind(mon.lists[i], conf.lists[i], k) /\ Earned(proved, conf.lists[i], k, Settled)
      BY <1>1 DEF MonitorInv, ListsTrue, Progress
    <2>2. Settled \in 0 .. Len(proved) /\ Settled' \in 0 .. Len(proved') /\ Settled <= Settled'
      BY DEF MonitorInv, MonitorType, Settled, Undecided, UserSettled
    <2>3. conf.lists[i] \in Seq(Methods)
      BY <1>1 DEF MonitorInv, MonitorType, ListsTrue
    <2>4. Earned(proved', conf'.lists[i], k, Settled')
      BY <2>1, <2>2, <2>3, EarnedGrows
    <2>5. Behind(mon'.lists[i], conf'.lists[i], k)
      BY <2>1
    <2> QED
      BY <2>1, <2>4, <2>5 DEF Progress
  <1> QED
    BY <1>1 DEF MonitorInv, ListsTrue, auth2_methods_valid

\* A handler that proves nothing: the decision that follows has nothing to do.
LEMMA QuietHandler ==
  ASSUME MonitorInv, MonitorType', UNCHANGED <<conf, proved>>,
         mon.pc = "read", mon'.pc = "decide", ~mon'.ok,
         mon'.lists = mon.lists, mon'.used = mon.used, mon'.opts = mon.opts,
         mon'.valid = mon.valid, "PWNAM" \notin mon'.permit,
         mon'.key \notin mon.used, mon'.key # NoKey => mon.valid
  PROVE  MonitorInv'
  <1>1. ListsTrue'
    BY ListsUntouched DEF Undecided, LoggedIn
  <1>2. UserSettled' /\ KeysOnce' /\ OptionsKept'
    BY DEF MonitorInv, UserSettled, KeysOnce, OptionsKept, Undecided, LoggedIn
  <1>3. FirstWillDo' /\ LastIsDecided'
    BY DEF MonitorInv, FirstWillDo, LastIsDecided, Undecided, LoggedIn
  <1> QED
    BY <1>1, <1>2, <1>3 DEF MonitorInv

\* A handler that finds a credential of method m good, with key q for a public
\* key and NoKey for the others: it is put behind the others and awaits its
\* decision.
LEMMA ProvingHandler ==
  ASSUME MonitorInv, MonitorType', UNCHANGED conf,
         NEW m \in Methods, NEW q \in Keys \cup {NoKey},
         proved' = Append(proved, [method |-> m, key |-> q]),
         mon.pc = "read", mon'.pc = "decide", mon'.ok, mon'.method \in {m, "none"},
         mon'.lists = mon.lists, mon.valid, mon'.valid = mon.valid,
         "PWNAM" \notin mon'.permit,
         mon'.used = mon.used \cup ({q} \ {NoKey}), q \notin mon.used,
         mon'.key \in {mon.key, NoKey}, mon'.key = NoKey \/ q = NoKey,
         q = NoKey => mon'.opts = mon.opts,
         q # NoKey => mon'.opts = sshauthopt_merge(mon.opts, Command[q])
  PROVE  MonitorInv'
  <1> DEFINE n == Len(proved)
  <1>1. /\ proved \in Seq(Proof) /\ n \in Nat /\ Len(proved') = n + 1
        /\ \A i \in 1 .. n : proved'[i] = proved[i]
        /\ proved'[n + 1] = [method |-> m, key |-> q]
    BY DEF MonitorInv, MonitorType, Proof
  <1>2. Settled = n /\ Settled' = n /\ Undecided' /\ ~Undecided /\ ~LoggedIn /\ ~LoggedIn'
    BY <1>1 DEF Settled, Undecided, LoggedIn
  <1>3. ListsTrue'
    <2>1. ASSUME NEW i \in DOMAIN mon.lists
          PROVE  Progress(i)'
      <3>1. PICK k \in 0 .. Len(conf.lists[i]) :
               Behind(mon.lists[i], conf.lists[i], k) /\ Earned(proved, conf.lists[i], k, Settled)
        BY <2>1 DEF MonitorInv, ListsTrue, Progress
      <3>2. conf.lists[i] \in Seq(Methods)
        BY <2>1 DEF MonitorInv, MonitorType, ListsTrue
      <3>3. k \in Nat /\ Earned(proved, conf.lists[i], k, n)
        BY <1>2, <3>1, <3>2
      <3>4. Earned(proved', conf.lists[i], k, n)
        <4>1. PICK at \in [1 .. k -> 1 .. n] :
                 /\ \A a, b \in 1 .. k : a < b => at[a] < at[b]
                 /\ \A a \in 1 .. k : proved[at[a]].method = conf.lists[i][a]
          BY <3>3 DEF Earned
        <4>2. \A a \in 1 .. k : proved'[at[a]].method = conf.lists[i][a]
          BY <1>1, <4>1
        <4> QED
          BY <4>1, <4>2 DEF Earned
      <3> QED
        BY <1>2, <3>1, <3>4 DEF Progress
    <2> QED
      BY <1>2, <2>1 DEF MonitorInv, ListsTrue, auth2_methods_valid
  <1>4. UserSettled'
    BY <1>1, <1>2 DEF MonitorInv, UserSettled
  <1>5. KeysOnce'
    <2>1. mon'.key \notin mon'.used
      BY KeysAssumption DEF MonitorInv, MonitorType, KeysOnce
    <2>2. \A i \in 1 .. n + 1 : proved'[i].key \in mon'.used \cup {NoKey}
      BY <1>1 DEF MonitorInv, KeysOnce
    <2>3. \A i \in 1 .. n : proved'[i].key = q => q = NoKey
      BY <1>1 DEF MonitorInv, KeysOnce
    <2>4. \A i, j \in 1 .. n : i # j /\ proved'[i].key = proved'[j].key => proved'[i].key = NoKey
      BY <1>1 DEF MonitorInv, KeysOnce
    <2>5. ASSUME NEW i \in 1 .. n + 1, NEW j \in 1 .. n + 1, i # j,
                 proved'[i].key = proved'[j].key
          PROVE  proved'[i].key = NoKey
      BY <1>1, <2>3, <2>4, <2>5
    <2> QED
      BY <1>1, <2>1, <2>2, <2>5 DEF KeysOnce
  <1>6. OptionsKept'
    <2>1. mon.opts \in Options /\ (q # NoKey => Command[q] \in Options)
      BY DEF MonitorInv, MonitorType, Options
    <2>2. CASE q = NoKey
      BY <2>2 DEF MonitorInv, OptionsKept
    <2>3. CASE q # NoKey
      <3>1. mon'.opts # Lost => /\ Command[q] \in {NoCommand, mon'.opts}
                                /\ mon.opts \in {NoCommand, mon'.opts}
        BY <2>1, <2>3, MergeType
      <3>2. mon.opts # Lost => \A k \in mon.used : Command[k] \in {NoCommand, mon.opts}
        BY DEF MonitorInv, OptionsKept
      <3>3. mon'.used = mon.used \cup {q}
        BY <2>3
      <3>4. mon'.opts # Lost => mon.opts # Lost
        BY <3>1, KeysAssumption
      <3> QED
        BY <3>1, <3>2, <3>3, <3>4 DEF OptionsKept
    <2> QED
      BY <2>2, <2>3
  <1>7. FirstWillDo' /\ LastIsDecided'
    BY <1>1, <1>2 DEF MonitorInv, FirstWillDo, LastIsDecided
  <1> QED
    BY <1>3, <1>4, <1>5, <1>6, <1>7 DEF MonitorInv

\* The first request: which user, and which lists there are to work off.
LEMMA PwnamInv ==
  ASSUME MonitorInv, mon.pc = "read", Next1 \in Request, Accepts(Next1), UNCHANGED conf,
         mm_answer_pwnamallow
  PROVE  MonitorInv'
  <1>1. /\ Next1.op = "PWNAM" /\ Next1.known \in BOOLEAN /\ proved' = proved
        /\ mon' = [mon EXCEPT !.valid = Next1.known, !.lists = auth2_setup_methods_lists,
                      !.pc = "decide", !.ent = "PWNAM", !.method = "unknown", !.ok = FALSE,
                      !.permit = (@ \cup {"AUTHSERV"}) \ {"PWNAM"}]
    <2>1. Next1.op = "PWNAM" /\ Next1.known \in BOOLEAN
      BY DEF mm_answer_pwnamallow, Reads, Request
    <2> QED
      BY <2>1 DEF mm_answer_pwnamallow, Handled, Once, MonitorInv, MonitorType
  <1>2. mon.key = NoKey /\ proved = <<>>
    BY <1>1 DEF MonitorInv, UserSettled, Accepts
  <1>3. MonitorType'
    BY <1>1, SetUpType DEF MonitorInv, MonitorType, Entry
  <1>4. ListsTrue'
    <2>1. DOMAIN mon'.lists = DOMAIN auth2_setup_methods_lists
      BY <1>1 DEF MonitorInv, MonitorType
    <2>2. ASSUME NEW i \in DOMAIN mon'.lists
          PROVE  /\ i \in DOMAIN conf.lists /\ auth2_methods_valid(conf.lists[i])
                 /\ mon'.lists[i] = conf.lists[i] /\ conf.lists[i] \in Seq(Methods)
      BY <1>1, <2>1, <2>2, SetUpType DEF MonitorInv, MonitorType
    <2>3. ASSUME NEW i \in DOMAIN mon'.lists
          PROVE  Progress(i)'
      <3>1. Behind(mon'.lists[i], conf.lists[i], 0)
        BY <2>2, <2>3 DEF Behind
      <3>2. Earned(proved', conf.lists[i], 0, Settled')
        <4>1. [j \in {} |-> 0] \in [1 .. 0 -> 1 .. Settled']
          OBVIOUS
        <4> QED
          BY <4>1 DEF Earned
      <3>3. 0 \in 0 .. Len(conf.lists[i])
        BY <2>2, <2>3
      <3> QED
        BY <3>1, <3>2, <3>3 DEF Progress
    <2> QED
      BY <1>1, <2>2, <2>3 DEF MonitorInv, MonitorType, ListsTrue, LoggedIn, auth2_methods_valid
  <1>5. UserSettled' /\ KeysOnce' /\ OptionsKept'
    BY <1>1, <1>2 DEF MonitorInv, MonitorType, UserSettled, KeysOnce, OptionsKept, Undecided, LoggedIn
  <1>6. FirstWillDo' /\ LastIsDecided'
    BY <1>1, <1>2 DEF MonitorInv, MonitorType, FirstWillDo, LastIsDecided, Undecided, LoggedIn
  <1> QED
    BY <1>3, <1>4, <1>5, <1>6 DEF MonitorInv

\* Requests after the first find the user settled.
LEMMA AfterPwnam ==
  ASSUME MonitorInv, Accepts(Next1), Next1.op # "PWNAM"
  PROVE  "PWNAM" \notin mon.permit
  BY DEF Accepts, MonitorInv, UserSettled

\* The service is named: from now on methods may be tried.
LEMMA AuthservInv ==
  ASSUME MonitorInv, mon.pc = "read", Next1 \in Request, Accepts(Next1), UNCHANGED conf,
         mm_answer_authserv
  PROVE  MonitorInv'
  <1>1. Next1.op = "AUTHSERV" /\ "PWNAM" \notin mon.permit
    BY AfterPwnam DEF mm_answer_authserv, Reads
  <1>2. /\ proved' = proved
        /\ mon' = [mon EXCEPT !.pc = "decide", !.ent = "AUTHSERV", !.method = "unknown", !.ok = FALSE,
                      !.permit = (@ \cup IsAuth) \ {"AUTHSERV"}]
    BY <1>1 DEF mm_answer_authserv, Handled, Once, MonitorInv, MonitorType
  <1>3. MonitorType'
    BY <1>2 DEF MonitorInv, MonitorType, Entry, IsAuth, Gss
  <1>4. /\ mon'.pc = "decide" /\ ~mon'.ok /\ mon'.lists = mon.lists /\ mon'.used = mon.used
        /\ mon'.opts = mon.opts /\ mon'.valid = mon.valid /\ "PWNAM" \notin mon'.permit
        /\ mon'.key = mon.key
    BY <1>1, <1>2 DEF MonitorInv, MonitorType, IsAuth
  <1>5. mon.key \notin mon.used /\ (mon.key # NoKey => mon.valid)
    BY DEF MonitorInv, KeysOnce, UserSettled
  <1> QED
    BY <1>2, <1>3, <1>4, <1>5, QuietHandler

\* A password: one that is right for a known user is a credential.
LEMMA PasswordInv ==
  ASSUME MonitorInv, mon.pc = "read", Next1 \in Request, Accepts(Next1), UNCHANGED conf,
         mm_answer_authpassword
  PROVE  MonitorInv'
  <1> DEFINE ok == auth_password(Next1.passwd)
             method == IF Next1.passwd = "empty" /\ ~mon.asked THEN "none" ELSE "password"
  <1>1. Next1.op = "AUTHPASSWORD" /\ "PWNAM" \notin mon.permit
    BY AfterPwnam DEF mm_answer_authpassword, Reads
  <1>2. ok \in BOOLEAN /\ (ok => mon.valid)
    BY DEF auth_password
  <1>3. /\ proved' = IF ok THEN Append(proved, [method |-> "password", key |-> NoKey]) ELSE proved
        /\ mon' = [mon EXCEPT !.asked = TRUE, !.pc = "decide", !.ent = "AUTHPASSWORD",
                              !.method = method, !.ok = ok]
    BY <1>1 DEF mm_answer_authpassword, Handled, Proves, Once, MonitorInv, MonitorType
  <1>3a. method \in {"password", "none"} /\ method \in Methods \cup {"none", "unknown"}
    BY DEF Methods
  <1> HIDE DEF ok, method
  <1>4. MonitorType'
    <2>1. proved' \in Seq(Proof)
      BY <1>2, <1>3, ProofType DEF MonitorInv, Methods
    <2> QED
      BY <1>2, <1>3, <1>3a, <2>1 DEF MonitorInv, MonitorType, Entry
  <1>5. /\ mon'.pc = "decide" /\ mon'.ok = ok /\ mon'.lists = mon.lists /\ mon'.used = mon.used
        /\ mon'.opts = mon.opts /\ mon'.valid = mon.valid /\ "PWNAM" \notin mon'.permit
        /\ mon'.key = mon.key /\ mon'.method \in {"password", "none"}
    BY <1>1, <1>3, <1>3a DEF MonitorInv, MonitorType
  <1>6. /\ mon.key \notin mon.used /\ (mon.key # NoKey => mon.valid)
        /\ NoKey \notin mon.used
    BY KeysAssumption DEF MonitorInv, MonitorType, KeysOnce, UserSettled
  <1>7. CASE ~ok
    BY <1>3, <1>4, <1>5, <1>6, <1>7, QuietHandler
  <1>8. CASE ok
    <2>1. /\ mon'.used = mon.used \cup ({NoKey} \ {NoKey}) /\ mon'.key \in {mon.key, NoKey}
          /\ mon.valid /\ "password" \in Methods
      BY <1>2, <1>5, <1>8 DEF Methods
    <2>2. proved' = Append(proved, [method |-> "password", key |-> NoKey])
      BY <1>3, <1>8
    <2> QED
      BY <1>4, <1>5, <1>6, <1>8, <2>1, <2>2, ProvingHandler
  <1> QED
    BY <1>2, <1>7, <1>8

\* A key is looked up: it may be used if it was not used before.
LEMMA KeyAllowedInv ==
  ASSUME MonitorInv, mon.pc = "read", Next1 \in Request, Accepts(Next1), UNCHANGED conf,
         mm_answer_keyallowed
  PROVE  MonitorInv'
  <1>1. Next1.op = "KEYALLOWED" /\ "PWNAM" \notin mon.permit
    BY AfterPwnam DEF mm_answer_keyallowed, Reads
  <1> DEFINE allowed == /\ mon.valid /\ "publickey" \in conf.enabled
                        /\ Next1.key \in Authorized \ mon.used
             key == IF allowed THEN Next1.key ELSE NoKey
  <1>2. /\ key \in Keys \cup {NoKey} /\ key \notin mon.used
        /\ (key # NoKey => mon.valid)
    BY KeysAssumption DEF MonitorInv, MonitorType
  <1>3. /\ proved' = proved
        /\ mon' = [mon EXCEPT !.key = key, !.pc = "decide", !.ent = "KEYALLOWED",
                              !.method = "publickey", !.ok = FALSE]
    BY <1>1 DEF mm_answer_keyallowed, Handled, Once, MonitorInv, MonitorType
  <1> HIDE DEF key
  <1>4. MonitorType'
    BY <1>2, <1>3 DEF MonitorInv, MonitorType, Entry, Methods
  <1>5. /\ mon'.pc = "decide" /\ ~mon'.ok /\ mon'.lists = mon.lists /\ mon'.used = mon.used
        /\ mon'.opts = mon.opts /\ mon'.valid = mon.valid /\ "PWNAM" \notin mon'.permit
        /\ mon'.key = key
    BY <1>1, <1>3 DEF MonitorInv, MonitorType
  <1> QED
    BY <1>2, <1>3, <1>4, <1>5, QuietHandler

\* A GSSAPI exchange begins.
LEMMA GssSetupInv ==
  ASSUME MonitorInv, mon.pc = "read", Next1 \in Request, Accepts(Next1), UNCHANGED conf,
         mm_answer_gss_setup_ctx
  PROVE  MonitorInv'
  <1>1. Next1.op = "GSSSETUP" /\ "PWNAM" \notin mon.permit
    BY AfterPwnam DEF mm_answer_gss_setup_ctx, Reads
  <1>2. /\ proved' = proved
        /\ mon' = [mon EXCEPT !.gss = "open", !.permit = @ \cup {"GSSSTEP"}, !.pc = "decide",
                              !.ent = "GSSSETUP", !.method = "unknown", !.ok = FALSE]
    BY <1>1 DEF mm_answer_gss_setup_ctx, Handled, Once, MonitorInv, MonitorType
  <1>3. MonitorType'
    BY <1>2 DEF MonitorInv, MonitorType, Entry, Gss
  <1>4. /\ mon'.pc = "decide" /\ ~mon'.ok /\ mon'.lists = mon.lists /\ mon'.used = mon.used
        /\ mon'.opts = mon.opts /\ mon'.valid = mon.valid /\ "PWNAM" \notin mon'.permit
        /\ mon'.key = mon.key
    BY <1>1, <1>2 DEF MonitorInv, MonitorType
  <1>5. mon.key \notin mon.used /\ (mon.key # NoKey => mon.valid)
    BY DEF MonitorInv, KeysOnce, UserSettled
  <1> QED
    BY <1>2, <1>3, <1>4, <1>5, QuietHandler

\* A token of the exchange.
LEMMA GssStepInv ==
  ASSUME MonitorInv, mon.pc = "read", Next1 \in Request, Accepts(Next1), UNCHANGED conf,
         mm_answer_gss_accept_ctx
  PROVE  MonitorInv'
  <1>1. Next1.op = "GSSSTEP" /\ "PWNAM" \notin mon.permit
    BY AfterPwnam DEF mm_answer_gss_accept_ctx, Reads
  <1>2. PICK major \in {"more", "error", "integ", "plain"}, client \in {"none", "user", "other"},
             permit \in SUBSET Entry :
          /\ "PWNAM" \notin permit
          /\ mon' = [mon EXCEPT !.gss = major, !.client = client, !.permit = permit, !.pc = "decide",
                                !.ent = "GSSSTEP", !.method = "unknown", !.ok = FALSE]
    <2>1. PICK major \in {"more", "error", "integ", "plain"}, who \in {"user", "other"} :
            LET m == [mon EXCEPT !.gss = major, !.client = IF major = "integ" THEN who ELSE @]
                complete == major \in {"integ", "plain"}
            IN Handled([m EXCEPT !.permit = IF complete
                           THEN (@ \ {"GSSSTEP"}) \cup {"GSSUSEROK", "GSSCHECKMIC"} ELSE @],
                       "GSSSTEP", "unknown", FALSE)
      BY DEF mm_answer_gss_accept_ctx
    <2> DEFINE client == IF major = "integ" THEN who ELSE mon.client
               permit == IF major \in {"integ", "plain"}
                         THEN (mon.permit \ {"GSSSTEP"}) \cup {"GSSUSEROK", "GSSCHECKMIC"}
                         ELSE mon.permit
    <2>2. /\ client \in {"none", "user", "other"} /\ permit \in SUBSET Entry
          /\ "PWNAM" \notin permit
      BY <1>1 DEF MonitorInv, MonitorType, Entry, Gss
    <2>3. mon' = [mon EXCEPT !.gss = major, !.client = client, !.permit = permit, !.pc = "decide",
                             !.ent = "GSSSTEP", !.method = "unknown", !.ok = FALSE]
      BY <2>1 DEF Handled, Once, MonitorInv, MonitorType
    <2> QED
      BY <2>2, <2>3
  <1>3. proved' = proved
    BY DEF mm_answer_gss_accept_ctx
  <1>4. MonitorType'
    BY <1>2, <1>3 DEF MonitorInv, MonitorType, Entry, Gss
  <1>5. /\ mon'.pc = "decide" /\ ~mon'.ok /\ mon'.lists = mon.lists /\ mon'.used = mon.used
        /\ mon'.opts = mon.opts /\ mon'.valid = mon.valid /\ "PWNAM" \notin mon'.permit
        /\ mon'.key = mon.key
    BY <1>1, <1>2 DEF MonitorInv, MonitorType
  <1>6. mon.key \notin mon.used /\ (mon.key # NoKey => mon.valid)
    BY DEF MonitorInv, KeysOnce, UserSettled
  <1> QED
    BY <1>3, <1>4, <1>5, <1>6, QuietHandler

\* The integrity code of the exchange.
LEMMA GssCheckmicInv ==
  ASSUME MonitorInv, mon.pc = "read", Next1 \in Request, Accepts(Next1), UNCHANGED conf,
         mm_answer_gss_checkmic
  PROVE  MonitorInv'
  <1>1. Next1.op = "GSSCHECKMIC" /\ "PWNAM" \notin mon.permit
    BY AfterPwnam DEF mm_answer_gss_checkmic, Reads
  <1>2. PICK ok \in BOOLEAN :
          mon' = [mon EXCEPT !.permit = (IF ok THEN @ \cup {"GSSUSEROK"} ELSE @) \ {"GSSCHECKMIC"},
                             !.pc = "decide", !.ent = "GSSCHECKMIC", !.method = "unknown",
                             !.ok = FALSE]
    <2>1. (mon.gss = "integ" /\ Next1.good) \in BOOLEAN
      OBVIOUS
    <2> QED
      BY <1>1, <2>1 DEF mm_answer_gss_checkmic, Handled, Once, MonitorInv, MonitorType
  <1>3. proved' = proved
    BY DEF mm_answer_gss_checkmic
  <1>4. MonitorType'
    BY <1>2, <1>3 DEF MonitorInv, MonitorType, Entry, Gss
  <1>5. /\ mon'.pc = "decide" /\ ~mon'.ok /\ mon'.lists = mon.lists /\ mon'.used = mon.used
        /\ mon'.opts = mon.opts /\ mon'.valid = mon.valid /\ "PWNAM" \notin mon'.permit
        /\ mon'.key = mon.key
    BY <1>1, <1>2 DEF MonitorInv, MonitorType
  <1>6. mon.key \notin mon.used /\ (mon.key # NoKey => mon.valid)
    BY DEF MonitorInv, KeysOnce, UserSettled
  <1> QED
    BY <1>3, <1>4, <1>5, <1>6, QuietHandler

\* The exchange is over: is the name it established the user's?
LEMMA GssUserokInv ==
  ASSUME MonitorInv, mon.pc = "read", Next1 \in Request, Accepts(Next1), UNCHANGED conf,
         mm_answer_gss_userok
  PROVE  MonitorInv'
  <1>1. Next1.op = "GSSUSEROK" /\ "PWNAM" \notin mon.permit
    BY AfterPwnam DEF mm_answer_gss_userok, Reads
  <1> DEFINE ok == mon.valid /\ mon.client = "user"
             client == IF mon.valid /\ ~ok THEN "none" ELSE mon.client
  <1>2. ok \in BOOLEAN /\ (ok => mon.valid) /\ client \in {"none", "user", "other"}
    BY DEF MonitorInv, MonitorType
  <1>3. /\ proved' = IF ok THEN Append(proved, [method |-> "gssapi-with-mic", key |-> NoKey])
                     ELSE proved
        /\ mon' = [mon EXCEPT !.client = client, !.pc = "decide", !.ent = "GSSUSEROK",
                              !.method = "gssapi-with-mic", !.ok = ok, !.permit = @ \ {"GSSUSEROK"}]
    BY <1>1 DEF mm_answer_gss_userok, Handled, Proves, Once, MonitorInv, MonitorType
  <1> HIDE DEF ok, client
  <1>4. MonitorType'
    <2>1. proved' \in Seq(Proof)
      BY <1>2, <1>3, ProofType DEF MonitorInv, Methods
    <2>2. PICK permit \in SUBSET Entry :
             mon' = [mon EXCEPT !.client = client, !.pc = "decide", !.ent = "GSSUSEROK",
                                !.method = "gssapi-with-mic", !.ok = ok, !.permit = permit]
      <3>1. mon.permit \ {"GSSUSEROK"} \in SUBSET Entry
        BY DEF MonitorInv, MonitorType
      <3> QED
        BY <1>3, <3>1
    <2>3. "GSSUSEROK" \in Entry /\ "gssapi-with-mic" \in Methods \cup {"none", "unknown"}
      BY DEF Entry, Gss, Methods
    <2> QED
      BY <1>2, <2>1, <2>2, <2>3 DEF MonitorInv, MonitorType
  <1>5. /\ mon'.pc = "decide" /\ mon'.ok = ok /\ mon'.lists = mon.lists /\ mon'.used = mon.used
        /\ mon'.opts = mon.opts /\ mon'.valid = mon.valid /\ "PWNAM" \notin mon'.permit
        /\ mon'.key = mon.key /\ mon'.method = "gssapi-with-mic"
    BY <1>1, <1>3 DEF MonitorInv, MonitorType
  <1>6. /\ mon.key \notin mon.used /\ (mon.key # NoKey => mon.valid)
        /\ NoKey \notin mon.used
    BY KeysAssumption DEF MonitorInv, MonitorType, KeysOnce, UserSettled
  <1>7. CASE ~ok
    BY <1>3, <1>4, <1>5, <1>6, <1>7, QuietHandler
  <1>8. CASE ok
    <2>1. /\ mon'.used = mon.used \cup ({NoKey} \ {NoKey}) /\ mon'.key \in {mon.key, NoKey}
          /\ mon.valid /\ "gssapi-with-mic" \in Methods
      BY <1>2, <1>5, <1>8 DEF Methods
    <2>2. proved' = Append(proved, [method |-> "gssapi-with-mic", key |-> NoKey])
      BY <1>3, <1>8
    <2> QED
      BY <1>4, <1>5, <1>6, <1>8, <2>1, <2>2, ProvingHandler
  <1> QED
    BY <1>2, <1>7, <1>8

\* The monitor gives up: nothing is decided any more.
LEMMA DiesInv ==
  ASSUME MonitorInv, NEW why \in Reason, Dies(why), UNCHANGED <<conf, proved>>
  PROVE  MonitorInv'
  <1>1. MonitorType'
    BY DEF Dies, MonitorInv, MonitorType
  <1>2. /\ mon'.pc = "dead" /\ mon'.lists = mon.lists /\ mon'.used = mon.used /\ mon'.opts = mon.opts
        /\ mon'.valid = mon.valid /\ mon'.permit = mon.permit /\ mon'.key = mon.key
    BY DEF Dies, MonitorInv, MonitorType
  <1>3. ~Undecided' /\ ~LoggedIn'
    BY <1>2 DEF Undecided, LoggedIn
  <1>4. ListsTrue'
    BY <1>1, <1>2, <1>3, ListsUntouched
  <1>5. UserSettled' /\ KeysOnce' /\ OptionsKept' /\ FirstWillDo' /\ LastIsDecided'
    BY <1>2, <1>3 DEF MonitorInv, UserSettled, KeysOnce, OptionsKept, FirstWillDo, LastIsDecided
  <1> QED
    BY <1>1, <1>4, <1>5 DEF MonitorInv

\* A signature for the key found allowed last.
LEMMA KeyVerifyInv ==
  ASSUME MonitorInv, mon.pc = "read", Next1 \in Request, Accepts(Next1), UNCHANGED conf,
         mm_answer_keyverify
  PROVE  MonitorInv'
  <1>1. Next1.op = "KEYVERIFY" /\ "PWNAM" \notin mon.permit
    BY AfterPwnam DEF mm_answer_keyverify, Reads
  <1>2. /\ Next1.good \in BOOLEAN /\ Next1.key \in Keys /\ Next1.key = mon.key
        /\ mon.valid /\ mon.key # NoKey /\ mon.key \notin mon.used
    <2>1. Next1.good \in BOOLEAN /\ Next1.key \in Keys
      BY <1>1 DEF Request
    <2> QED
      BY <1>1, <2>1 DEF Accepts, MonitorInv, UserSettled, KeysOnce
  <1>3. CASE Next1.good /\ mon.opts = Lost
    <2>1. Dies("null") /\ UNCHANGED <<toChild, proved>>
      BY <1>3 DEF mm_answer_keyverify
    <2>2. UNCHANGED <<conf, proved>>
      BY <2>1
    <2>3. "null" \in Reason
      BY DEF Reason
    <2> QED
      BY <2>1, <2>2, <2>3, DiesInv
  <1>4. CASE ~(Next1.good /\ mon.opts = Lost)
    <2> DEFINE used == IF Next1.good THEN mon.used \cup {Next1.key} ELSE mon.used
               opts == IF Next1.good THEN sshauthopt_merge(mon.opts, Command[Next1.key])
                       ELSE mon.opts
    <2>1. used \in SUBSET Keys /\ opts \in Options
      <3>1. mon.used \in SUBSET Keys /\ mon.opts \in Options /\ Command[Next1.key] \in Options
        BY <1>2 DEF MonitorInv, MonitorType, Options
      <3> QED
        BY <3>1, <1>2, MergeType
    <2>2. /\ proved' = IF Next1.good
                       THEN Append(proved, [method |-> "publickey", key |-> Next1.key])
                       ELSE proved
          /\ mon' = [mon EXCEPT !.key = NoKey, !.used = used, !.opts = opts, !.pc = "decide",
                        !.ent = "KEYVERIFY", !.method = "publickey", !.ok = Next1.good]
      <3>1. /\ Handled([mon EXCEPT !.key = NoKey,
                          !.used = IF Next1.good THEN @ \cup {Next1.key} ELSE @,
                          !.opts = IF Next1.good THEN sshauthopt_merge(@, Command[Next1.key]) ELSE @],
                       "KEYVERIFY", "publickey", Next1.good)
            /\ Proves(Next1.good, "publickey", Next1.key)
        BY <1>4 DEF mm_answer_keyverify
      <3>2. Handled([mon EXCEPT !.key = NoKey, !.used = used, !.opts = opts],
                    "KEYVERIFY", "publickey", Next1.good)
        BY <3>1 DEF MonitorInv, MonitorType
      <3> HIDE DEF used, opts
      <3>3. mon' = [mon EXCEPT !.key = NoKey, !.used = used, !.opts = opts, !.pc = "decide",
                       !.ent = "KEYVERIFY", !.method = "publickey", !.ok = Next1.good]
        BY <3>2 DEF Handled, Once, MonitorInv, MonitorType
      <3> QED
        BY <3>1, <3>3 DEF Proves
    <2>3. Next1.good => used = mon.used \cup {mon.key} /\ opts = sshauthopt_merge(mon.opts, Command[mon.key])
      BY <1>2
    <2>4. ~Next1.good => used = mon.used /\ opts = mon.opts
      OBVIOUS
    <2> HIDE DEF used, opts
    <2>5. MonitorType'
      <3>1. proved' \in Seq(Proof)
        BY <1>2, <2>2, ProofType DEF MonitorInv, Methods
      <3> QED
        BY <1>2, <2>1, <2>2, <3>1 DEF MonitorInv, MonitorType, Entry, Methods
    <2>6. /\ mon'.pc = "decide" /\ mon'.ok = Next1.good /\ mon'.lists = mon.lists
          /\ mon'.used = used /\ mon'.opts = opts /\ mon'.valid = mon.valid
          /\ "PWNAM" \notin mon'.permit /\ mon'.key = NoKey /\ mon'.method = "publickey"
      BY <1>1, <2>2 DEF MonitorInv, MonitorType
    <2>7. CASE ~Next1.good
      <3>1. NoKey \notin mon.used /\ proved' = proved
        BY <2>2, <2>7, KeysAssumption DEF MonitorInv, MonitorType
      <3> QED
        BY <2>4, <2>5, <2>6, <2>7, <3>1, QuietHandler
    <2>8. CASE Next1.good
      <3>1. /\ mon'.used = mon.used \cup ({mon.key} \ {NoKey})
            /\ mon'.opts = sshauthopt_merge(mon.opts, Command[mon.key])
            /\ proved' = Append(proved, [method |-> "publickey", key |-> mon.key])
            /\ mon'.key \in {mon.key, NoKey} /\ "publickey" \in Methods /\ mon.key \in Keys \cup {NoKey}
        BY <1>2, <2>2, <2>3, <2>6, <2>8 DEF Methods
      <3> QED
        BY <1>2, <2>5, <2>6, <2>8, <3>1, ProvingHandler
    <2> QED
      BY <1>2, <2>7, <2>8
  <1> QED
    BY <1>3, <1>4

-----------------------------------------------------------------------------
(* The decision that follows a request.                                    *)

\* What the decision does to the monitor: the lists lose the method only when
\* the credential was good, and then the monitor logs the user in only when a
\* list has come to its end.
LEMMA DecideShape ==
  ASSUME MonitorInv, monitor_decide
  PROVE  \E f \in Nat, l \in Lists, p \in {"read", "dead", "keystate"}, w \in Reason :
           /\ mon' = [mon EXCEPT !.failures = f, !.lists = l, !.pc = p, !.why = w]
           /\ l = mon.lists \/ (mon.ok /\ conf.lists # <<>> /\ l = Remaining(mon.lists, mon.method))
           /\ mon.ok /\ l = mon.lists /\ conf.lists # <<>> => p = "dead" \/ l = Remaining(mon.lists, mon.method)
           /\ p = "keystate" => /\ mon.ok
                                /\ conf.lists # <<>> => \E i \in DOMAIN mon.lists : l[i] = <<>>
           /\ mon.ok /\ conf.lists = <<>> => p # "read"
  <1> DEFINE multiple == conf.lists # <<>>
             failures == mon.failures + (IF IsFailure THEN 1 ELSE 0)
             rest == Remaining(mon.lists, mon.method)
             lists == IF mon.ok /\ multiple THEN rest ELSE mon.lists
             authenticated == mon.ok /\ (~multiple \/ Completes(mon.lists, mon.method))
             m == [mon EXCEPT !.failures = failures, !.lists = lists]
  <1>1. failures \in Nat /\ mon.failures \in Nat /\ mon.why \in Reason /\ mon.ok \in BOOLEAN
    BY DEF MonitorInv, MonitorType
  <1>2. mon.lists \in Lists /\ rest \in Lists /\ lists \in Lists /\ DOMAIN rest = DOMAIN mon.lists
    BY RemainingType DEF MonitorInv, MonitorType
  <1>3. Completes(mon.lists, mon.method) => \E i \in DOMAIN mon.lists : rest[i] = <<>>
    BY DEF Completes
  <1>4. \/ mon.ok /\ multiple /\ Dies("methods")
        \/ mon' = [m EXCEPT !.pc = "dead", !.why = "tries"]
        \/ authenticated /\ mon' = [m EXCEPT !.pc = "keystate"]
        \/ ~authenticated /\ mon' = [m EXCEPT !.pc = "read"]
    BY DEF monitor_decide
  <1>5. /\ lists = mon.lists \/ (mon.ok /\ multiple /\ lists = rest)
        /\ mon.ok /\ multiple => lists = rest
        /\ authenticated => mon.ok /\ (multiple => \E i \in DOMAIN mon.lists : lists[i] = <<>>)
        /\ mon.ok /\ ~multiple => authenticated
    BY <1>1, <1>3
  <1> HIDE DEF multiple, failures, rest, lists, authenticated
  <1>6. CASE mon.ok /\ multiple /\ Dies("methods")
    <2>1. mon' = [mon EXCEPT !.failures = mon.failures, !.lists = mon.lists, !.pc = "dead",
                             !.why = "methods"]
      BY <1>6 DEF Dies, MonitorInv, MonitorType
    <2>2. "methods" \in Reason
      BY DEF Reason
    <2> QED
      BY <1>1, <1>2, <1>6, <2>1, <2>2 DEF multiple
  <1>7. CASE mon' = [m EXCEPT !.pc = "dead", !.why = "tries"]
    <2>1. mon' = [mon EXCEPT !.failures = failures, !.lists = lists, !.pc = "dead", !.why = "tries"]
      BY <1>7 DEF MonitorInv, MonitorType
    <2>2. "tries" \in Reason
      BY DEF Reason
    <2> QED
      BY <1>1, <1>2, <1>5, <2>1, <2>2 DEF multiple, rest
  <1>8. CASE authenticated /\ mon' = [m EXCEPT !.pc = "keystate"]
    <2>1. mon' = [mon EXCEPT !.failures = failures, !.lists = lists, !.pc = "keystate", !.why = mon.why]
      BY <1>8 DEF MonitorInv, MonitorType
    <2> USE <1>1, <1>2
    <2> WITNESS failures \in Nat, lists \in Lists, "keystate" \in {"read", "dead", "keystate"},
                mon.why \in Reason
    <2> QED
      BY <1>1, <1>2, <1>5, <1>8, <2>1 DEF multiple, rest
  <1>9. CASE ~authenticated /\ mon' = [m EXCEPT !.pc = "read"]
    <2>1. mon' = [mon EXCEPT !.failures = failures, !.lists = lists, !.pc = "read", !.why = mon.why]
      BY <1>9 DEF MonitorInv, MonitorType
    <2> USE <1>1, <1>2
    <2> WITNESS failures \in Nat, lists \in Lists, "read" \in {"read", "dead", "keystate"},
                mon.why \in Reason
    <2> QED
      BY <1>1, <1>2, <1>5, <1>9, <2>1 DEF multiple, rest
  <1> QED
    BY <1>4, <1>6, <1>7, <1>8, <1>9

\* Crossing the method of the last proof off a list that starts with it: the
\* list is one method shorter, and one more method of it is earned.
LEMMA OneMore ==
  ASSUME NEW list \in Seq(Methods), NEW rest \in Seq(Methods), NEW k \in 0 .. Len(list),
         Behind(rest, list, k),
         NEW proofs \in Seq(Proof), NEW n \in Nat, Len(proofs) = n + 1,
         Earned(proofs, list, k, n),
         rest # <<>>, Head(rest) = proofs[n + 1].method
  PROVE  /\ k + 1 \in 0 .. Len(list)
         /\ Behind(Tail(rest), list, k + 1)
         /\ Earned(proofs, list, k + 1, n + 1)
  <1>1. Len(rest) > 0 /\ k + 1 \in 0 .. Len(list) /\ Head(rest) = list[k + 1]
    BY DEF Behind
  <1>2. Behind(Tail(rest), list, k + 1)
    <2>1. Len(Tail(rest)) = Len(rest) - 1 /\ \A j \in 1 .. Len(Tail(rest)) : Tail(rest)[j] = rest[j + 1]
      BY <1>1
    <2>2. \A j \in 1 .. Len(Tail(rest)) : rest[j + 1] = list[k + (j + 1)]
      BY <2>1 DEF Behind
    <2> QED
      BY <2>1, <2>2 DEF Behind
  <1>3. PICK at \in [1 .. k -> 1 .. n] :
           /\ \A i, j \in 1 .. k : i < j => at[i] < at[j]
           /\ \A i \in 1 .. k : proofs[at[i]].method = list[i]
    BY DEF Earned
  <1> DEFINE to == [i \in 1 .. k + 1 |-> IF i = k + 1 THEN n + 1 ELSE at[i]]
  <1>4. to \in [1 .. k + 1 -> 1 .. n + 1]
    BY <1>3
  <1>5. \A i, j \in 1 .. k + 1 : i < j => to[i] < to[j]
    BY <1>3
  <1>6. \A i \in 1 .. k + 1 : proofs[to[i]].method = list[i]
    BY <1>1, <1>3
  <1> QED
    BY <1>1, <1>2, <1>4, <1>5, <1>6 DEF Earned

\* The decision keeps everything: a good credential is crossed off the lists that
\* wait for it, and the user is logged in when one of them is at its end.
LEMMA DecideInv ==
  ASSUME MonitorInv, monitor_decide
  PROVE  MonitorInv'
  <1>1. PICK f \in Nat, l \in Lists, p \in {"read", "dead", "keystate"}, w \in Reason :
           /\ mon' = [mon EXCEPT !.failures = f, !.lists = l, !.pc = p, !.why = w]
           /\ l = mon.lists \/ (mon.ok /\ conf.lists # <<>> /\ l = Remaining(mon.lists, mon.method))
           /\ mon.ok /\ l = mon.lists /\ conf.lists # <<>> => p = "dead" \/ l = Remaining(mon.lists, mon.method)
           /\ p = "keystate" => /\ mon.ok
                                /\ conf.lists # <<>> => \E i \in DOMAIN mon.lists : l[i] = <<>>
           /\ mon.ok /\ conf.lists = <<>> => p # "read"
    BY DecideShape
  <1>2. mon.pc = "decide" /\ UNCHANGED <<conf, proved>>
    BY DEF monitor_decide
  <1>3. MonitorType'
    BY <1>1, <1>2 DEF MonitorInv, MonitorType
  <1>4. /\ mon'.pc = p /\ mon'.lists = l /\ mon'.used = mon.used /\ mon'.opts = mon.opts
        /\ mon'.valid = mon.valid /\ mon'.permit = mon.permit /\ mon'.key = mon.key
        /\ mon.ok \in BOOLEAN /\ mon'.ok = mon.ok /\ mon.method \in Methods \cup {"none", "unknown"}
    BY <1>1 DEF MonitorInv, MonitorType
  <1>5. /\ ~Undecided' /\ ~LoggedIn /\ (LoggedIn' <=> p = "keystate") /\ (Undecided <=> mon.ok)
    BY <1>2, <1>4 DEF Undecided, LoggedIn
  <1>6. UserSettled' /\ KeysOnce' /\ OptionsKept' /\ LastIsDecided'
    BY <1>1, <1>2, <1>4, <1>5
       DEF MonitorInv, UserSettled, KeysOnce, OptionsKept, LastIsDecided
  <1>7. FirstWillDo'
    BY <1>1, <1>2, <1>4, <1>5 DEF MonitorInv, FirstWillDo
  <1> DEFINE n == Len(proved)
  <1>8. /\ n \in Nat /\ Settled' = n /\ proved \in Seq(Proof)
        /\ Settled \in Nat /\ Settled <= n
        /\ mon.ok => Settled = n - 1 /\ n > 0
    BY <1>2, <1>5 DEF Settled, MonitorInv, MonitorType, UserSettled
  <1>9. DOMAIN l = DOMAIN mon.lists /\ mon.lists \in Lists
        /\ \A i \in DOMAIN mon.lists :
              /\ mon.lists[i] \in Seq(Methods)
              /\ l[i] = mon.lists[i] \/ (mon.ok /\ l[i] = remove_method(mon.lists[i], mon.method))
    <2>1. mon.lists \in Lists
      BY DEF MonitorInv, MonitorType
    <2> QED
      BY <1>1, <2>1, RemainingType
  <1>10. ASSUME NEW i \in DOMAIN l
         PROVE  /\ i \in DOMAIN conf.lists /\ auth2_methods_valid(conf.lists[i])
                /\ Progress(i)'
    <2> DEFINE list == conf.lists[i]
               rest == mon.lists[i]
    <2>1. /\ i \in DOMAIN mon.lists /\ i \in DOMAIN conf.lists
          /\ auth2_methods_valid(conf.lists[i]) /\ Progress(i)
      BY <1>9, <1>10 DEF MonitorInv, ListsTrue
    <2>2. list \in Seq(Methods) /\ rest \in Seq(Methods)
      BY <1>9, <2>1 DEF MonitorInv, MonitorType
    <2>3. PICK k \in 0 .. Len(list) : Behind(rest, list, k) /\ Earned(proved, list, k, Settled)
      BY <2>1 DEF Progress
    <2>4. CASE l[i] = rest
      <3>1. Earned(proved, list, k, n)
        BY <1>8, <2>2, <2>3, EarnedGrows
      <3> QED
        BY <1>2, <1>4, <1>8, <2>1, <2>3, <2>4, <3>1 DEF Progress
    <2>5. CASE l[i] # rest
      <3>1. mon.ok /\ rest # <<>> /\ Head(rest) = mon.method /\ l[i] = Tail(rest)
        BY <1>9, <2>1, <2>5 DEF remove_method, list_starts_with
      <3>2. mon.method # "none"
        <4>1. Head(rest) \in Methods
          <5> HIDE DEF rest
          <5> QED
            BY <2>2, <3>1
        <4> QED
          BY <3>1, <4>1 DEF Methods
      <3>3. Head(rest) = proved[n].method
        BY <1>5, <3>1, <3>2 DEF MonitorInv, LastIsDecided
      <3>4. /\ k + 1 \in 0 .. Len(list) /\ Behind(Tail(rest), list, k + 1)
            /\ Earned(proved, list, k + 1, n)
        <4>1. n - 1 \in Nat /\ (n - 1) + 1 = n /\ Earned(proved, list, k, n - 1)
          BY <1>8, <2>3, <3>1
        <4> HIDE DEF list, rest, n
        <4>2. \A m \in Nat : /\ Len(proved) = m + 1 /\ Earned(proved, list, k, m)
                             /\ Head(rest) = proved[m + 1].method
                => /\ k + 1 \in 0 .. Len(list) /\ Behind(Tail(rest), list, k + 1)
                   /\ Earned(proved, list, k + 1, m + 1)
          BY <1>8, <2>2, <2>3, <3>1, OneMore
        <4>3. Len(proved) = (n - 1) + 1 /\ Head(rest) = proved[(n - 1) + 1].method
          BY <1>8, <3>3, <4>1 DEF n
        <4> QED
          BY <4>1, <4>2, <4>3
      <3> QED
        BY <1>2, <1>4, <1>8, <2>1, <3>1, <3>4 DEF Progress
    <2> QED
      BY <2>1, <2>4, <2>5
  <1>11. ListsTrue'
    BY <1>1, <1>2, <1>4, <1>5, <1>9, <1>10 DEF ListsTrue, auth2_methods_valid
  <1> QED
    BY <1>3, <1>6, <1>7, <1>11 DEF MonitorInv

\* A step that changes nothing but where a logged-in monitor is, on its way to
\* the session.
LEMMA TowardsSession ==
  ASSUME MonitorInv, LoggedIn, UNCHANGED <<conf, proved>>,
         NEW p \in {"reap", "session"}, mon' = [mon EXCEPT !.pc = p],
         p = "session" => mon.opts # Lost
  PROVE  MonitorInv'
  <1>1. MonitorType'
    BY DEF MonitorInv, MonitorType
  <1>2. /\ mon'.pc = p /\ mon'.lists = mon.lists /\ mon'.used = mon.used /\ mon'.opts = mon.opts
        /\ mon'.valid = mon.valid /\ mon'.permit = mon.permit /\ mon'.key = mon.key
    BY DEF MonitorInv, MonitorType
  <1>3. ~Undecided' /\ ~Undecided /\ LoggedIn' /\ mon.pc # "dead"
    BY <1>2 DEF Undecided, LoggedIn
  <1>4. ListsTrue'
    BY <1>1, <1>2, <1>3, ListsUntouched
  <1>5. UserSettled' /\ KeysOnce' /\ OptionsKept' /\ FirstWillDo' /\ LastIsDecided'
    <2>1. "PWNAM" \notin mon.permit
      BY <1>3 DEF MonitorInv, UserSettled, LoggedIn
    <2> QED
      BY <1>2, <1>3, <2>1 DEF MonitorInv, UserSettled, KeysOnce, OptionsKept, FirstWillDo, LastIsDecided
  <1> QED
    BY <1>1, <1>4, <1>5 DEF MonitorInv

\* Every step of the monitor's loop keeps its invariant, whatever is in the pipe.
LEMMA MonitorStepInv ==
  ASSUME MonitorInv, toMon \in Seq(Request), MonitorStep
  PROVE  MonitorInv'
  <1>1. CASE monitor_read
    <2>1. Next1 \in Request /\ mon.pc = "read" /\ UNCHANGED conf
      BY <1>1 DEF monitor_read, Next1
    <2>2. CASE ~Accepts(Next1)
      <3>1. Dies("refused") /\ UNCHANGED <<toChild, proved>>
        BY <1>1, <2>2 DEF monitor_read
      <3>2. UNCHANGED <<conf, proved>>
        BY <2>1, <3>1
      <3>3. "refused" \in Reason
        BY DEF Reason
      <3> QED
        BY <3>1, <3>2, <3>3, DiesInv
    <2>3. CASE Accepts(Next1)
      <3>1. \/ mm_answer_pwnamallow \/ mm_answer_authserv \/ mm_answer_authpassword
            \/ mm_answer_keyallowed \/ mm_answer_keyverify
            \/ mm_answer_gss_setup_ctx \/ mm_answer_gss_accept_ctx
            \/ mm_answer_gss_checkmic \/ mm_answer_gss_userok
        BY <1>1, <2>3 DEF monitor_read
      <3> QED
        BY <2>1, <2>3, <3>1, PwnamInv, AuthservInv, PasswordInv, KeyAllowedInv, KeyVerifyInv,
           GssSetupInv, GssStepInv, GssCheckmicInv, GssUserokInv
    <2> QED
      BY <2>2, <2>3
  <1>2. CASE monitor_decide
    BY <1>2, DecideInv
  <1>3. CASE mm_get_keystate
    <2>1. LoggedIn /\ UNCHANGED <<conf, proved>>
      BY <1>3 DEF mm_get_keystate, LoggedIn
    <2>2. CASE Next1.op = "KEYEXPORT"
      <3>1. mon' = [mon EXCEPT !.pc = "reap"]
        BY <1>3, <2>2 DEF mm_get_keystate
      <3> QED
        BY <2>1, <3>1, TowardsSession
    <2>3. CASE Next1.op # "KEYEXPORT"
      <3>1. Dies("keystate") /\ "keystate" \in Reason
        BY <1>3, <2>3 DEF mm_get_keystate, Reason
      <3> QED
        BY <2>1, <3>1, DiesInv
    <2> QED
      BY <2>2, <2>3
  <1> QED
    BY <1>1, <1>2, <1>3 DEF MonitorStep

\* Before the first request nothing is permitted but to name the user.
LEMMA MonitorInitInv ==
  ASSUME MonInit
  PROVE  MonitorInv
  <1>1. /\ conf \in [lists : Seq(Seq(Methods)), enabled : SUBSET Methods] /\ proved = <<>>
        /\ proved \in Seq(Proof)
    BY ConfigsAssumption DEF MonInit
  <1>2. <<>> \in Lists /\ DOMAIN <<>> = {}
    <2>1. <<>> \in [{} -> Seq(Methods)]
      OBVIOUS
    <2> QED
      BY <2>1 DEF Lists
  <1>3. mon \in [pc : {"read", "decide", "keystate", "reap", "session", "dead"},
                permit : SUBSET Entry, valid : BOOLEAN, asked : BOOLEAN, failures : Nat,
                lists : Lists, used : SUBSET Keys, key : Keys \cup {NoKey}, opts : Options,
                gss : {"none", "open", "more", "error", "integ", "plain"},
                client : {"none", "user", "other"}, ent : Entry, ok : BOOLEAN,
                method : Methods \cup {"none", "unknown"}, why : Reason]
    BY <1>2 DEF MonInit, Entry, Options, Reason
  <1>4. /\ mon.pc = "read" /\ mon.permit = {"PWNAM"} /\ mon.key = NoKey /\ mon.lists = <<>>
        /\ mon.used = {} /\ ~mon.ok
    BY DEF MonInit
  <1>5. ~Undecided /\ ~LoggedIn
    BY <1>4 DEF Undecided, LoggedIn
  <1> QED
    BY <1>1, <1>2, <1>3, <1>4, <1>5
       DEF MonitorInv, MonitorType, UserSettled, KeysOnce, OptionsKept, ListsTrue, FirstWillDo,
           LastIsDecided
=============================================================================
