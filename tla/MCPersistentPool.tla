--------------------------- MODULE MCPersistentPool ---------------------------
(***************************************************************************)
(* Two logins, one persistent_id and none: connections that share a login  *)
(* and connections that do not.  One login is the beginning of the other,  *)
(* which goes on with the persistent_id.                                   *)
(***************************************************************************)
EXTENDS PersistentPool

TwoObjects == {"a", "b"}
ThreePieces == {"u", "x", "["}
TwoLogins == {<<"u">>, <<"u", "x">>}
OneSuffix == {<<"x">>}
=============================================================================
