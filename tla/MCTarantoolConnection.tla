------------------------- MODULE MCTarantoolConnection -------------------------
(***************************************************************************)
(* Scenarios TLC checks TarantoolConnection in: which methods the script   *)
(* calls and what may go wrong.                                            *)
(***************************************************************************)
EXTENDS TarantoolConnection

Requests == {"call", "insert"}
Queries == {"call", "select"}
Logins == {"authenticate"} \union Queries
Mixed == {"connect", "reconnect"} \union Logins
OnlyCall == {"call"}

(***************************************************************************)
(* The stream breaks; the server also answers late; anything but a late    *)
(* greeting.                                                               *)
(***************************************************************************)
Breaks == {"drop", "write"}
BreaksLate == Breaks \union {"timeout"}
AllButLateGreetings == AllFaults \ {"greeting"}
LateGreeting == {"greeting"}
CutWrite == {"write"}
=============================================================================
