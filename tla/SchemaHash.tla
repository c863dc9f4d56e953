------------------------------ MODULE SchemaHash ------------------------------
(***************************************************************************)
(* The schema on top of its hash table: schema_add_space puts two records  *)
(* of every row, and schema_space_free walks the table slot by slot and    *)
(* deletes the two records of the one it is at.  A delete may finish a     *)
(* resize, and then the walk goes on in another table.                     *)
(* schema_add_index and schema_index_free do the same with an index.       *)
(***************************************************************************)
EXTENDS MHash, FiniteSets

CONSTANTS
    Rows,       \* rows of _vspace: the keys of name and number
    MaxRows,    \* bound: rows added
    MaxFlushes  \* bound: flushes

ASSUME RowsAssumption == Rows \subseteq [name : Keys, number : Keys]
ASSUME BoundsAssumption == MaxRows \in Nat /\ MaxFlushes \in Nat
ASSUME ValuesAssumption == Values = [row : Rows, gen : 1 .. MaxRows]

VARIABLES
    step,     \* where the schema is
    value,    \* what the two records of the row at hand share
    pos,      \* the slot of the walk
    gen,      \* rows added
    flushes,  \* flushes begun
    calm,     \* no resize went on when the last flush began
    freed     \* what was freed since then

schemaVars == <<step, value, pos, gen, flushes, calm, freed>>
vars == <<hashVars, schemaVars>>

(***************************************************************************)
(* The table is one of mhash.h, and what was freed are rows once added.    *)
(***************************************************************************)
SchemaHashTypeOK ==
    /\ HashTypeOK
    /\ step \in {"ready", "number", "turn", "name", "free", "flushed"}
    /\ value \in Values \union {Null}
    /\ pos \in Nat
    /\ gen \in 0 .. MaxRows
    /\ flushes \in 0 .. MaxFlushes
    /\ calm \in BOOLEAN
    /\ freed \subseteq Values

Init ==
    /\ HashInit
    /\ step = "ready" /\ value = Null /\ pos = 0
    /\ gen = 0 /\ flushes = 0 /\ calm = TRUE /\ freed = {}

(***************************************************************************)
(* mh_schema_space_put, _find and _del.  Bound: MayAsk, the primes last.   *)
(***************************************************************************)
Client(r) == MayAsk(r) /\ Ask(r)
AskPut(k, v) == Client([do |-> "put", node |-> [key |-> k, value |-> v]])
AskDelete(k) == Client([do |-> "delete", key |-> k])

(***************************************************************************)
(* schema_add_space: the record under the name, then that of the number.   *)
(***************************************************************************)
AddRow(r) ==
    /\ step \in {"ready", "flushed"}
    /\ gen < MaxRows
    /\ gen' = gen + 1
    /\ value' = [row |-> r, gen |-> gen + 1]
    /\ AskPut(r.name, value')
    /\ step' = "number"
    /\ UNCHANGED <<pos, flushes, calm, freed>>

AddNumber ==
    /\ step = "number"
    /\ AskPut(value.row.number, value)
    /\ step' = "ready"
    /\ UNCHANGED <<value, pos, gen, flushes, calm, freed>>

(***************************************************************************)
(* mh_first and mh_next, in the table as it is now: the next slot in use,  *)
(* or n_buckets.                                                           *)
(***************************************************************************)
UsedFrom(x) == {y \in Used(h) : y >= x}
FirstOf(rest) ==
    {y \in rest : \A z \in rest : y <= z} \union {y \in {h.n_buckets} : rest = {}}

(***************************************************************************)
(* Faulty variant: the slot after the one at hand is passed over.          *)
(***************************************************************************)
NextButOne(x) == FirstOf(UsedFrom(x + 2))

NextUsed(x) == FirstOf(UsedFrom(x + 1))

(***************************************************************************)
(* schema_space_free                                                       *)
(***************************************************************************)
StartFlush ==
    /\ step \in {"ready", "flushed"} /\ pc = "idle"
    /\ flushes < MaxFlushes
    /\ flushes' = flushes + 1
    /\ calm' = (resize_position = 0)
    /\ freed' = {}
    /\ pos' \in NextUsed(-1)
    /\ step' = "turn"
    /\ UNCHANGED <<hashVars, value, gen>>

FlushNumber ==
    /\ step = "turn" /\ pos < h.n_buckets
    /\ value' = h.p[pos].value
    /\ AskDelete(value'.row.number)
    /\ step' = "name"
    /\ UNCHANGED <<pos, gen, flushes, calm, freed>>

(***************************************************************************)
(* Faulty variant: the record under the name stays in the table.           *)
(***************************************************************************)
FlushNumberAgain ==
    /\ step = "name"
    /\ AskDelete(value.row.number)
    /\ step' = "free"
    /\ UNCHANGED <<value, pos, gen, flushes, calm, freed>>

FlushName ==
    /\ step = "name"
    /\ AskDelete(value.row.name)
    /\ step' = "free"
    /\ UNCHANGED <<value, pos, gen, flushes, calm, freed>>

FlushFree ==
    /\ step = "free" /\ pc = "idle"
    /\ freed' = freed \union {value}
    /\ pos' \in NextUsed(pos)
    /\ step' = "turn"
    /\ UNCHANGED <<hashVars, value, gen, flushes, calm>>

FlushDone ==
    /\ step = "turn" /\ pos >= h.n_buckets
    /\ pos' = 0
    /\ value' = Null
    /\ step' = "flushed"
    /\ UNCHANGED <<hashVars, gen, flushes, calm, freed>>

(***************************************************************************)
(* The script made all its calls.                                          *)
(***************************************************************************)
Finished ==
    /\ pc = "idle" /\ step \in {"ready", "flushed"}
    /\ gen = MaxRows /\ flushes = MaxFlushes
    /\ UNCHANGED vars

Next ==
    \/ \E r \in Rows : AddRow(r)
    \/ AddNumber
    \/ StartFlush \/ FlushNumber \/ FlushName \/ FlushFree \/ FlushDone
    \/ Step /\ UNCHANGED schemaVars
    \/ Finished

Spec == Init /\ [][Next]_vars
-----------------------------------------------------------------------------
(***************************************************************************)
(* What a flush frees is freed once: no record of the table shares what    *)
(* was freed, also after the walk went on in a bigger table, where a       *)
(* record may come before the slot the walk is at.                         *)
(***************************************************************************)
FreedIsGone == \A x \in Used(h) : h.p[x].value \notin freed

(***************************************************************************)
(* A flush that no resize runs into removes everything.                    *)
(***************************************************************************)
CalmFlushEmpties == step = "flushed" /\ calm => Used(h) = {}

(***************************************************************************)
(* Removes everything: "Remove space/index schema from client."            *)
(* (README.md:197)                                                         *)
(***************************************************************************)
FlushEmpties == step = "flushed" => Used(h) = {}
=============================================================================
