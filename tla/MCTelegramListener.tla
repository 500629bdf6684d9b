------------------------- MODULE MCTelegramListener -------------------------
(* TelegramListener for TLC: one destructive command, one safe one, and    *)
(* messages of a stranger.                                                 *)
EXTENDS TelegramListener

KillOnly == {"/kill"}
YesAndStatus == {"yes", "/status"}
Strangers == {"stranger"}
=============================================================================
