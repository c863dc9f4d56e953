---------------------------- MODULE SchemaHashProofs ----------------------------
(***************************************************************************)
(* The schema uses its hash table as MHash expects, so all that is proved  *)
(* of the table holds under it; and a flush frees nothing that stays in    *)
(* the table, whatever resizes the walk runs into.                         *)
(***************************************************************************)
EXTENDS SchemaHash, MHashProofs

LEMMA ValueFields ==
    ASSUME NEW v \in Values
    PROVE  /\ v.row \in Rows /\ v.gen \in 1 .. MaxRows
           /\ v.row.name \in Keys /\ v.row.number \in Keys
BY RowsAssumption, ValuesAssumption

LEMMA NewValue ==
    ASSUME SchemaHashTypeOK, gen < MaxRows, NEW r \in Rows
    PROVE  /\ [row |-> r, gen |-> gen + 1] \in Values
           /\ gen + 1 \in 0 .. MaxRows
BY ValuesAssumption, BoundsAssumption DEF SchemaHashTypeOK

KeysOf(v) == {v.row.name, v.row.number}

(***************************************************************************)
(* What is found under a key is of a row with that key, was added and was  *)
(* not freed since the last flush began.                                   *)
(***************************************************************************)
OwnKeys ==
    \A k \in Keys : Found(h, k) # Null =>
        /\ Found(h, k) \in Values /\ k \in KeysOf(Found(h, k))
        /\ Found(h, k).gen <= gen

NotFreed == \A k \in Keys : Found(h, k) \notin freed

(***************************************************************************)
(* The request at hand, by where the schema is.                            *)
(***************************************************************************)
Putting ==
    /\ asked.do = "put" /\ step \in {"ready", "number"}
    /\ asked.node.value \in Values /\ asked.node.key \in KeysOf(asked.node.value)
    /\ asked.node.value.gen <= gen /\ asked.node.value \notin freed

Deleting ==
    /\ asked.do = "delete" /\ step \in {"name", "free"}
    /\ asked.key = IF step = "name" THEN value.row.number ELSE value.row.name

(***************************************************************************)
(* What the schema is in the middle of.  Once its request is carried out,  *)
(* a key of the record that is being freed leads to nothing.               *)
(***************************************************************************)
AtHand ==
    /\ asked # Null => Putting \/ Deleting
    /\ step = "number" => value \in Values /\ value.gen <= gen /\ value \notin freed
    /\ step \in {"name", "free"} => value \in Values /\ value.gen <= gen
    /\ step \in {"turn", "flushed"} => pc = "idle" /\ asked = Null
    /\ step = "turn" =>
          pos \in 0 .. h.n_buckets /\ (pos < h.n_buckets => pos \in Used(h))
    /\ step = "name" /\ asked = Null => Found(h, value.row.number) = Null
    /\ step = "free" =>
          /\ Found(h, value.row.number) = Null
          /\ asked = Null => Found(h, value.row.name) = Null

FreedOld == \A v \in freed : v \in Values /\ v.gen <= gen

SchemaInv ==
    /\ HashInv /\ SchemaHashTypeOK
    /\ OwnKeys /\ NotFreed /\ AtHand /\ FreedOld
-----------------------------------------------------------------------------
LEMMA InitSchemaInv == Init => SchemaInv
<1> SUFFICES ASSUME Init PROVE SchemaInv
  OBVIOUS
<1>1. HashInv
  BY InitHashInv DEF Init
<1>2. \A k \in Keys : Found(h, k) = Null
  BY InitMap DEF Init, AsMap!MapInit
<1>3. SchemaHashTypeOK
  BY <1>1, BoundsAssumption DEF Init, SchemaHashTypeOK, HashInv
<1> QED
  BY <1>1, <1>2, <1>3 DEF Init, HashInit, SchemaInv, OwnKeys, NotFreed, AtHand, FreedOld

(***************************************************************************)
(* The schema asks for nothing but requests the table can carry out.       *)
(***************************************************************************)
LEMMA StepIsHashStep ==
    ASSUME SchemaInv, [Next]_vars
    PROVE  [HashNext]_hashVars
<1>1. ASSUME NEW r, r \in Requests, Client(r)
      PROVE  HashNext
  BY <1>1 DEF Client, HashNext
<1>2. ASSUME NEW r \in Rows, AddRow(r)
      PROVE  HashNext
  <2>1. value' \in Values /\ r.name \in Keys
    BY <1>2, NewValue, RowsAssumption DEF AddRow, SchemaInv
  <2> QED
    BY <1>1, <1>2, <2>1 DEF AddRow, AskPut, Requests, Node
<1>3. CASE AddNumber
  BY <1>1, <1>3, ValueFields DEF AddNumber, AskPut, Requests, Node, SchemaInv, AtHand
<1>4. CASE FlushNumber
  <2>1. value' \in Values
    BY <1>4, UsedNode DEF FlushNumber, SchemaInv, AtHand, HashInv, HashTypeOK, Node
  <2> QED
    BY <1>1, <1>4, <2>1, ValueFields DEF FlushNumber, AskDelete, Requests
<1>5. CASE FlushName
  BY <1>1, <1>5, ValueFields DEF FlushName, AskDelete, Requests, SchemaInv, AtHand
<1>6. CASE StartFlush \/ FlushFree \/ FlushDone \/ Finished \/ UNCHANGED vars
  BY <1>6 DEF StartFlush, FlushFree, FlushDone, Finished, vars
<1>7. CASE Step /\ UNCHANGED schemaVars
  BY <1>7 DEF HashNext
<1> QED
  BY <1>2, <1>3, <1>4, <1>5, <1>6, <1>7 DEF Next

-----------------------------------------------------------------------------
(***************************************************************************)
(* The steps of the table change what is found under one key at most, and  *)
(* that is the key asked about.                                            *)
(***************************************************************************)
LEMMA TableStep ==
    ASSUME SchemaInv, HashInv', Step, UNCHANGED schemaVars
    PROVE  SchemaInv'
<1>1. [AsMap!MapNext]_<<MapOf(h), asked>>
  BY StepMap DEF SchemaInv, HashNext
<1>2. \A k \in Keys : MapOf(h)[k] = Found(h, k) /\ MapOf(h')[k] = Found(h', k)
  BY DEF MapOf
<1>3. SchemaHashTypeOK'
  BY DEF SchemaInv, SchemaHashTypeOK, schemaVars, HashInv
<1>4. pc # "idle"
  BY DEF Step, GoOnResizing, StartResize, PutAsked, SweepSlot, SweepPause, SweepEnd,
         Insert, DeleteNothing, Delete, DeleteAsked
<1>5. step \notin {"turn", "flushed"}
  BY <1>4 DEF SchemaInv, AtHand
<1>6. CASE UNCHANGED asked /\ \A k \in Keys : Found(h', k) = Found(h, k)
  BY <1>3, <1>5, <1>6, ValueFields
     DEF SchemaInv, OwnKeys, NotFreed, AtHand, FreedOld, Putting, Deleting, schemaVars, KeysOf
<1>7. CASE AsMap!CarryOut
  <2>1. asked # Null /\ asked' = Null
    BY <1>7 DEF AsMap!CarryOut
  <2>2. CASE Putting
    <3>1. asked.node.key \in Keys
      BY <2>2, ValueFields DEF Putting, KeysOf
    <3>2. \A k \in Keys : Found(h', k) = IF k = asked.node.key THEN asked.node.value
                                         ELSE Found(h, k)
      BY <1>2, <1>7, <2>2, <3>1 DEF AsMap!CarryOut, Putting, MapOf
    <3> QED
      BY <1>3, <1>5, <2>1, <2>2, <3>2
         DEF SchemaInv, OwnKeys, NotFreed, AtHand, FreedOld, Putting, schemaVars, KeysOf
  <2>3. CASE Deleting
    <3>1. asked.key \in Keys /\ value \in Values /\ value.row.number \in Keys
      BY <2>3, ValueFields DEF Deleting, SchemaInv, AtHand
    <3>2. \A k \in Keys : Found(h', k) = IF k = asked.key THEN Null ELSE Found(h, k)
      BY <1>2, <1>7, <2>3, <3>1 DEF AsMap!CarryOut, Deleting, MapOf
    <3>3. Null \notin freed
      BY NoNodeAssumption DEF SchemaInv, FreedOld
    <3> QED
      BY <1>3, <1>5, <2>1, <2>3, <3>1, <3>2, <3>3
         DEF SchemaInv, OwnKeys, NotFreed, AtHand, FreedOld, Deleting, schemaVars, KeysOf
  <2> QED
    BY <2>1, <2>2, <2>3 DEF SchemaInv, AtHand
<1>8. ~ AsMap!Request
  <2>1. asked' = asked \/ asked' = Null
    BY DEF Step, GoOnResizing, StartResize, SweepSlot, SweepPause, SweepEnd, Insert,
           DeleteNothing, Delete, DeleteAsked
  <2>2. Null \notin AsMap!Requests
    BY NoNodeAssumption DEF AsMap!Requests, AsMap!Node, Requests, Node
  <2> QED
    BY <2>1, <2>2 DEF AsMap!Request
<1>9. CASE UNCHANGED <<MapOf(h), asked>>
  BY <1>2, <1>6, <1>9
<1> QED
  BY <1>1, <1>7, <1>8, <1>9 DEF AsMap!MapNext

(***************************************************************************)
(* The steps of the schema.                                                *)
(***************************************************************************)
LEMMA AskedTable ==
    ASSUME NEW r, Client(r)
    PROVE  pc = "idle" /\ asked' = r /\ pc' # "idle" /\ h' = h
BY DEF Client, Ask, tableVars

LEMMA IdleIsDone ==
    ASSUME SchemaInv, pc = "idle"
    PROVE  asked = Null
BY DEF SchemaInv, HashInv, Course

LEMMA NextIs ==
    ASSUME IsTable(h), NEW x, NEW y \in NextUsed(x)
    PROVE  y \in 0 .. h.n_buckets /\ (y < h.n_buckets => y \in Used(h))
BY TableFields, UsedNode DEF NextUsed, FirstOf, UsedFrom, Slots

LEMMA SchemaStep ==
    ASSUME SchemaInv, HashInv', [Next]_vars
    PROVE  SchemaInv'
<1> SUFFICES SchemaHashTypeOK' /\ OwnKeys' /\ NotFreed' /\ AtHand' /\ FreedOld'
  BY DEF SchemaInv
<1> HashTypeOK'
  BY DEF HashInv
<1>1. ASSUME NEW r \in Rows, AddRow(r)
      PROVE  SchemaInv'
  <2>1. /\ value' \in Values /\ value'.gen = gen + 1 /\ r.name \in KeysOf(value')
        /\ gen' = gen + 1 /\ gen' \in 0 .. MaxRows /\ gen \in Nat
    BY <1>1, NewValue, ValuesAssumption DEF AddRow, SchemaInv, SchemaHashTypeOK, KeysOf
  <2>2. value' \notin freed /\ \A v \in freed : v \in Values /\ v.gen <= gen'
    BY <2>1, ValueFields DEF SchemaInv, FreedOld
  <2>3. asked' = [do |-> "put", node |-> [key |-> r.name, value |-> value']] /\ h' = h
    BY <1>1, AskedTable DEF AddRow, AskPut
  <2>4. SchemaHashTypeOK' /\ FreedOld'
    BY <1>1, <2>1, <2>2 DEF AddRow, SchemaInv, SchemaHashTypeOK, FreedOld
  <2>5. OwnKeys'
    BY <2>1, <2>3, ValueFields DEF SchemaInv, OwnKeys
  <2>6. AtHand'
    BY <1>1, <2>1, <2>2, <2>3 DEF AddRow, AtHand, Putting
  <2> QED
    BY <1>1, <2>3, <2>4, <2>5, <2>6 DEF AddRow, SchemaInv, NotFreed
<1>2. CASE AddNumber
  <2>1. asked' = [do |-> "put", node |-> [key |-> value.row.number, value |-> value]]
        /\ h' = h
    BY <1>2, AskedTable DEF AddNumber, AskPut
  <2> QED
    BY <1>2, <2>1 DEF AddNumber, SchemaInv, SchemaHashTypeOK, OwnKeys, NotFreed, AtHand,
       Putting, FreedOld, KeysOf
<1>3. CASE StartFlush
  <2>1. asked = Null /\ h' = h /\ pc' = "idle" /\ asked' = Null
    BY <1>3, IdleIsDone DEF StartFlush, hashVars, tableVars
  <2>2. pos' \in 0 .. h.n_buckets /\ (pos' < h.n_buckets => pos' \in Used(h))
    BY <1>3, NextIs DEF StartFlush, SchemaInv, HashInv, HashTypeOK
  <2> QED
    BY <1>3, <2>1, <2>2, BoundsAssumption DEF StartFlush, SchemaInv, SchemaHashTypeOK,
       OwnKeys, NotFreed, AtHand, FreedOld
<1>4. CASE FlushNumber
  <2>1. pos \in Used(h) /\ IsTable(h) /\ Whole(h)
    BY <1>4 DEF FlushNumber, SchemaInv, AtHand, HashInv, HashTypeOK, ChainsWhole
  <2>2. h.p[pos].key \in Keys /\ Found(h, h.p[pos].key) = value' /\ value' \in Values
    BY <1>4, <2>1, FoundIs, UsedNode DEF FlushNumber, Node
  <2>3. value' \in Values /\ value'.gen <= gen
    BY <2>2, NoNodeAssumption DEF SchemaInv, OwnKeys
  <2>4. asked' = [do |-> "delete", key |-> value'.row.number] /\ h' = h
    BY <1>4, AskedTable DEF FlushNumber, AskDelete
  <2>5. Null # asked'
    BY <2>3, <2>4, ValueFields, NoNodeAssumption DEF Requests
  <2> QED
    BY <1>4, <2>3, <2>4, <2>5 DEF FlushNumber, SchemaInv, SchemaHashTypeOK, OwnKeys, NotFreed,
       AtHand, Deleting, FreedOld
<1>5. CASE FlushName
  <2>1. asked' = [do |-> "delete", key |-> value.row.name] /\ h' = h /\ asked = Null
    BY <1>5, AskedTable, IdleIsDone DEF FlushName, AskDelete
  <2>2. Null # asked'
    BY <1>5, <2>1, ValueFields, NoNodeAssumption DEF Requests, FlushName, SchemaInv, AtHand
  <2> QED
    BY <1>5, <2>1, <2>2 DEF FlushName, SchemaInv, SchemaHashTypeOK, OwnKeys, NotFreed,
       AtHand, Deleting, FreedOld
<1>6. CASE FlushFree
  <2>1. asked = Null /\ h' = h /\ pc' = "idle" /\ asked' = Null
    BY <1>6, IdleIsDone DEF FlushFree, hashVars, tableVars
  <2>2. pos' \in 0 .. h.n_buckets /\ (pos' < h.n_buckets => pos' \in Used(h))
    BY <1>6, NextIs DEF FlushFree, SchemaInv, HashInv, HashTypeOK
  <2>3. \A k \in Keys : Found(h, k) # value
    BY <1>6, <2>1, NoNodeAssumption DEF FlushFree, SchemaInv, OwnKeys, AtHand, KeysOf
  <2> QED
    BY <1>6, <2>1, <2>2, <2>3 DEF FlushFree, SchemaInv, SchemaHashTypeOK,
       OwnKeys, NotFreed, AtHand, FreedOld
<1>7. CASE FlushDone
  <2>1. /\ step = "turn" /\ step' = "flushed"
        /\ UNCHANGED <<h, pc, asked, gen, freed, calm, flushes>>
    BY <1>7 DEF FlushDone, hashVars, tableVars
  <2>2. value' = Null /\ pos' = 0
    BY <1>7 DEF FlushDone
  <2> QED
    BY <2>1, <2>2 DEF SchemaInv, SchemaHashTypeOK, OwnKeys, NotFreed, AtHand, FreedOld
<1>9. CASE Finished \/ UNCHANGED vars
  <2>1. UNCHANGED <<h, pc, asked, schemaVars>>
    BY <1>9 DEF Finished, vars, hashVars, tableVars
  <2> QED
    BY <2>1 DEF schemaVars, SchemaInv, SchemaHashTypeOK, OwnKeys, NotFreed, AtHand,
       Putting, Deleting, FreedOld
<1>8. CASE Step /\ UNCHANGED schemaVars
  BY <1>8, TableStep DEF SchemaInv
<1> QED
  BY <1>1, <1>2, <1>3, <1>4, <1>5, <1>6, <1>7, <1>8, <1>9 DEF Next, SchemaInv

-----------------------------------------------------------------------------
LEMMA SchemaInductive == SchemaInv /\ [Next]_vars => SchemaInv' /\ [HashNext]_hashVars
<1> SUFFICES ASSUME SchemaInv, [Next]_vars
             PROVE  SchemaInv' /\ [HashNext]_hashVars
  OBVIOUS
<1>1. [HashNext]_hashVars
  BY StepIsHashStep
<1>2. HashInv'
  BY <1>1, NextHashInv DEF SchemaInv
<1> QED
  BY <1>1, <1>2, SchemaStep

(***************************************************************************)
(* What holds of the schema and its table at every step of                 *)
(* schema_add_space and schema_space_free.                                 *)
(***************************************************************************)
THEOREM SchemaHashInvariant == Spec => []SchemaInv
<1> QED
  BY InitSchemaInv, SchemaInductive, PTL DEF Spec

(***************************************************************************)
(* The schema is a client of MHash: whatever is proved of the table, for   *)
(* any client, holds for the schema.                                       *)
(***************************************************************************)
THEOREM SchemaIsClient == Spec => HashSpec
<1>1. Init => HashInit
  BY DEF Init
<1> QED
  BY <1>1, SchemaInductive, SchemaHashInvariant, PTL DEF Spec, HashSpec

(***************************************************************************)
(* The variables of the schema keep their types.                           *)
(***************************************************************************)
THEOREM SchemaHashTyped == Spec => []SchemaHashTypeOK
<1>1. SchemaInv => SchemaHashTypeOK
  BY DEF SchemaInv
<1> QED
  BY <1>1, SchemaHashInvariant, PTL

(***************************************************************************)
(* A flush deletes both records of what it frees, and nothing brings one   *)
(* back: not the resize the deletes go on with, and not a row added later. *)
(***************************************************************************)
THEOREM FreedNotReachable == Spec => []FreedIsGone
<1>1. SchemaInv => FreedIsGone
  <2> SUFFICES ASSUME SchemaInv, NEW x \in Used(h)
               PROVE  h.p[x].value \notin freed
    BY DEF FreedIsGone
  <2>1. Found(h, h.p[x].key) = h.p[x].value /\ h.p[x].key \in Keys
    BY FoundIs, UsedNode DEF SchemaInv, HashInv, HashTypeOK, ChainsWhole
  <2> QED
    BY <2>1 DEF SchemaInv, NotFreed
<1> QED
  BY <1>1, SchemaHashInvariant, PTL

(***************************************************************************)
(* Under the schema, too, the table is a map.                              *)
(***************************************************************************)
THEOREM SchemaTableIsMap == Spec => IsMap
<1> QED
  BY SchemaIsClient, TableIsMap, PTL

(***************************************************************************)
(* No lookup in the schema, no row added and no flush loops for ever in    *)
(* the table: however many rows were added and however many flushes left   *)
(* their dirty slots behind, in both tables every search has an end.       *)
(***************************************************************************)
THEOREM SchemaSearchesEnd == Spec => []NoSearchHangs
<1> QED
  BY SchemaIsClient, SearchesEnd, PTL
-----------------------------------------------------------------------------
(***************************************************************************)
(* A flush that began with no resize under way meets none: only puts start *)
(* one.  Then the slots before the walk are empty, and the slot it is at   *)
(* has the value at hand or is empty, too.                                 *)
(***************************************************************************)
Behind ==
    calm /\ step \in {"turn", "name", "free"} =>
        /\ resize_position = 0 /\ pc \in {"idle", "asked"}
        /\ \A x \in Used(h) : x >= pos /\ (x = pos /\ step # "turn" => h.p[x].value = value)

CalmInv == Behind /\ CalmFlushEmpties

LEMMA NextLeavesNone ==
    ASSUME IsTable(h), NEW x \in Int, NEW y \in NextUsed(x), NEW z \in Used(h), z > x
    PROVE  z >= y
BY UsedNode DEF NextUsed, FirstOf, UsedFrom, Slots

LEMMA CalmTableStep ==
    ASSUME SchemaInv, Behind, Step, UNCHANGED schemaVars
    PROVE  Behind'
<1> SUFFICES ASSUME calm, step \in {"turn", "name", "free"}
             PROVE  /\ resize_position' = 0 /\ pc' \in {"idle", "asked"}
                    /\ \A x \in Used(h') :
                          x >= pos /\ (x = pos /\ step # "turn" => h'.p[x].value = value)
  BY DEF Behind, schemaVars
<1>1. resize_position = 0 /\ pc \in {"idle", "asked"}
  BY DEF Behind
<1>2. pc = "asked" /\ asked # Null
  BY <1>1 DEF Step, GoOnResizing, StartResize, PutAsked, SweepSlot, SweepPause, SweepEnd,
     Insert, DeleteNothing, Delete, DeleteAsked, SchemaInv, HashInv, Course
<1>3. asked.do = "delete" /\ asked.key \in Keys
  <2>1. Deleting
    BY <1>2 DEF SchemaInv, AtHand, Putting
  <2> QED
    BY <2>1, ValueFields DEF Deleting, SchemaInv, AtHand
<1>4. CASE DeleteNothing
  BY <1>1, <1>4 DEF DeleteNothing, tableVars, Behind
<1>5. CASE Delete
  <2>1. Find(h, asked.key) \in Used(h) /\ IsTable(h)
    BY <1>3, <1>5, FindSlot DEF Delete, SchemaInv, HashInv, HashTypeOK, ChainsWhole
  <2>2. /\ h' = Del(h, Find(h, asked.key)) /\ resize_position' = 0 /\ pc' = "idle"
    BY <1>1, <1>5 DEF Delete
  <2>3. \A x \in Used(h') : x \in Used(h) /\ h'.p[x] = h.p[x]
    <3> DEFINE d == Find(h, asked.key)
    <3>1. d \in Used(h) /\ IsTable(h) /\ h' = Del(h, d)
      BY <2>1, <2>2
    <3> HIDE DEF d
    <3>2. Used(h') = Used(h) \ {d} /\ h'.p = [h.p EXCEPT ![d] = Null]
      BY <3>1, DelIs
    <3> QED
      BY <3>1, <3>2, TableFields DEF Used
  <2> QED
    BY <2>2, <2>3 DEF Behind
<1> QED
  BY <1>1, <1>2, <1>3, <1>4, <1>5 DEF Step, GoOnResizing, StartResize, PutAsked, SweepSlot,
     SweepPause, SweepEnd, Insert

LEMMA CalmStep ==
    ASSUME SchemaInv, CalmInv, [Next]_vars
    PROVE  CalmInv'
<1>0. IsTable(h) /\ Whole(h)
  BY DEF SchemaInv, HashInv, HashTypeOK, ChainsWhole
<1>1. CASE (\E r \in Rows : AddRow(r)) \/ AddNumber
  BY <1>1 DEF AddRow, AddNumber, CalmInv, Behind, CalmFlushEmpties
<1>2. CASE StartFlush
  <2>1. \A z \in Used(h) : z > -1
    BY <1>0, UsedNode DEF Slots
  <2>2. \A z \in Used(h) : z >= pos'
    BY <1>0, <1>2, <2>1, NextLeavesNone DEF StartFlush
  <2> QED
    BY <1>2, <2>2 DEF StartFlush, CalmInv, Behind, CalmFlushEmpties, hashVars, tableVars
<1>3. CASE FlushNumber
  <2>1. h' = h /\ pc' = "asked" /\ resize_position' = resize_position
    BY <1>3 DEF FlushNumber, AskDelete, Client, Ask, tableVars
  <2> QED
    BY <1>3, <2>1 DEF FlushNumber, CalmInv, Behind, CalmFlushEmpties
<1>4. CASE FlushName
  <2>1. h' = h /\ pc' = "asked" /\ resize_position' = resize_position
    BY <1>4 DEF FlushName, AskDelete, Client, Ask, tableVars
  <2> QED
    BY <1>4, <2>1 DEF FlushName, CalmInv, Behind, CalmFlushEmpties
<1>5. CASE FlushFree
  <2>1. \A k \in Keys : Found(h, k) # value
    BY <1>5, IdleIsDone, NoNodeAssumption
       DEF FlushFree, SchemaInv, OwnKeys, AtHand, KeysOf
  <2>2. \A x \in Used(h) : h.p[x].value # value
    BY <1>0, <2>1, FoundIs, UsedNode
  <2>3. pos \in Int /\ \A x \in Used(h) : x \in Int
    BY <1>0, UsedNode DEF SchemaInv, SchemaHashTypeOK, Slots
  <2>4. calm => \A x \in Used(h) : x > pos
    BY <1>5, <2>2, <2>3 DEF FlushFree, CalmInv, Behind
  <2>5. calm => \A x \in Used(h) : x >= pos'
    BY <1>0, <1>5, <2>3, <2>4, NextLeavesNone DEF FlushFree
  <2> QED
    BY <1>5, <2>5 DEF FlushFree, CalmInv, Behind, CalmFlushEmpties, hashVars, tableVars
<1>6. CASE FlushDone
  <2>1. calm => Used(h) = {}
    <3>1. \A x \in Used(h) : x \in Int /\ x < h.n_buckets
      BY <1>0, UsedNode, TableFields DEF Slots
    <3>2. pos \in Int /\ h.n_buckets \in Int
      BY <1>0, TableFields DEF SchemaInv, SchemaHashTypeOK
    <3> QED
      BY <1>6, <3>1, <3>2 DEF FlushDone, CalmInv, Behind
  <2> QED
    BY <1>6, <2>1 DEF FlushDone, CalmInv, Behind, CalmFlushEmpties, hashVars, tableVars
<1>7. CASE Finished \/ UNCHANGED vars
  BY <1>7 DEF Finished, vars, hashVars, tableVars, schemaVars, CalmInv, Behind,
     CalmFlushEmpties
<1>8. CASE Step /\ UNCHANGED schemaVars
  <2>1. pc # "idle"
    BY <1>8 DEF Step, GoOnResizing, StartResize, PutAsked, SweepSlot, SweepPause, SweepEnd,
       Insert, DeleteNothing, Delete, DeleteAsked
  <2>2. step # "flushed"
    BY <2>1 DEF SchemaInv, AtHand
  <2> QED
    BY <1>8, <2>2, CalmTableStep DEF CalmInv, CalmFlushEmpties, schemaVars
<1> QED
  BY <1>1, <1>2, <1>3, <1>4, <1>5, <1>6, <1>7, <1>8 DEF Next

(***************************************************************************)
(* A flush that no resize runs into removes every record, whatever the     *)
(* hash function, the sizes and what is in the table.                      *)
(***************************************************************************)
THEOREM CalmFlushIsComplete == Spec => []CalmFlushEmpties
<1>1. Init => CalmInv
  BY DEF Init, CalmInv, Behind, CalmFlushEmpties
<1>2. SchemaInv /\ CalmInv /\ [Next]_vars => CalmInv'
  BY CalmStep
<1>3. CalmInv => CalmFlushEmpties
  BY DEF CalmInv
<1> QED
  BY <1>1, <1>2, <1>3, SchemaHashInvariant, PTL DEF Spec
=============================================================================
