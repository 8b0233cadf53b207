-------------------------- MODULE MCSessionMemory --------------------------
(***************************************************************************)
(* An instance of SessionMemory for TLC: the windows of the program, and    *)
(* one client, whose third and fourth exchange are the one that is due to   *)
(* be remembered and the one that pushes the first out of the history.      *)
(***************************************************************************)
EXTENDS SessionMemory, TLC

CONSTANTS client, o1, o2

OpenBesideTheOthers ==
  (o1 :> {"switch"}) @@ (o2 :> {"end", "reset", "refresh", "clear", "restart"})

TwoExchanges == <<"user", "avatar", "user", "avatar">>

LongThenShort == (1 :> 8) @@ (2 :> 2)

=============================================================================
