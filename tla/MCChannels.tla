----------------------------- MODULE MCChannels -----------------------------
(* Instances of Channels for TLC: who opens which channels.                *)
EXTENDS Channels

Direct == {<<"client", "tcp">>}                         \* ssh -L
DirectAndForwarded == {<<"client", "tcp">>, <<"server", "tcp">>}   \* -L and -R
Session == {<<"client", "session">>}
=============================================================================
