------------------------------- MODULE MCAuth -------------------------------
(* Instances of Auth for TLC: the keys and the configurations.              *)
EXTENDS Auth

\* k1 has no forced command, k2 and k3 have different ones, k4 is not authorized
Commands == [k \in Keys |-> CASE k = "k2" -> "c2" [] k = "k3" -> "c3" [] OTHER -> NoCommand]

Conf(lists, enabled) == [lists |-> lists, enabled |-> enabled]
All == {"password", "publickey", "gssapi-with-mic"}

\* any method; two or three keys; two ways to the same end; a list that needs a disabled method
\* beside one that does not; only such a list
Configurations ==
    { Conf(<<>>, All),
      Conf(<< <<"publickey", "publickey">> >>, All),
      Conf(<< <<"publickey", "publickey", "publickey">> >>, All),
      Conf(<< <<"gssapi-with-mic", "publickey">>, <<"password", "publickey">> >>, All),
      Conf(<< <<"publickey", "gssapi-with-mic">>, <<"password", "publickey">> >>, All \ {"gssapi-with-mic"}),
      Conf(<< <<"publickey", "password">> >>, {"publickey"}) }
=============================================================================
