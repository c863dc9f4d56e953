----------------------------- MODULE MCSchemaHash -----------------------------
(***************************************************************************)
(* Scenario TLC checks SchemaHash, and MHash under it, in: three small     *)
(* primes, and hashes with which the chains of keys meet in the tables of  *)
(* 7 and of 13 buckets and a walk that goes on from 7 to 13 passes over a  *)
(* pair that moved to slots 0 and 1.  Two rows share a number, as those of *)
(* a space that was renamed do.                                            *)
(***************************************************************************)
EXTENDS SchemaHash

SomeKeys == 1 .. 7
Hashes == <<26, 27, 18, 1, 39, 35, 6>>
FewRows == {[name |-> 1, number |-> 2], [name |-> 3, number |-> 4],
            [name |-> 5, number |-> 6], [name |-> 7, number |-> 2]}
Shared == [row : FewRows, gen : 1 .. MaxRows]
ThreePrimes == <<3, 7, 13>>
=============================================================================
