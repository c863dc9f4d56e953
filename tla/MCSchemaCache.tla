----------------------------- MODULE MCSchemaCache -----------------------------
(***************************************************************************)
(* Scenarios TLC checks SchemaCache in.  Bytes1 and Bytes2 are the four    *)
(* bytes of a number; in Clash those of number 2 are also a name.          *)
(***************************************************************************)
EXTENDS SchemaCache, TLC

CONSTANTS NameA, NameB, Bytes1, Bytes2

OneId == {1}
TwoIds == {1, 2}
TwoNames == {NameA, NameB}
Plain == 1 :> Bytes1 @@ 2 :> Bytes2
Clash == 1 :> Bytes1 @@ 2 :> NameA

(***************************************************************************)
(* Where no name is also a number, the names can be exchanged.             *)
(***************************************************************************)
Exchange == Permutations(TwoNames)
=============================================================================
