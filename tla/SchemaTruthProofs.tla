--------------------------- MODULE SchemaTruthProofs ---------------------------
(***************************************************************************)
(* What is cached was true: CacheWasTrue, for any instance of SchemaCache  *)
(* in which no name is the bytes of a number.  With such a name it does    *)
(* not hold, see NameMeansSpace.                                           *)
(***************************************************************************)
EXTENDS SchemaCacheProofs, FiniteSetTheorems

NoClash == \A i \in Ids : NumKey[i] \notin Names

(***************************************************************************)
(* All a record says, and all a response says before it is added, was      *)
(* true.  An index record belongs to a response that was added already, so *)
(* the contents of a later response get none of it.                        *)
(***************************************************************************)
ContentsWereTrue ==
    \A k \in Keys : space_hash[k] # Null =>
        [number |-> space_hash[k].number, name |-> space_hash[k].name] \in seen

IndexesAreOld == \A e \in index_hash : e.of.gen <= gen

RowsSeen == SpaceRows \union IndexRows \subseteq seen

ReplySeen ==
    /\ reply.spaces \union reply.indexes \subseteq seen
    /\ pc = "flush" => reply = NoRows

TruthInv ==
    /\ ContentsWereTrue
    /\ IndexesWereTrue
    /\ IndexesAreOld
    /\ RowsSeen
    /\ ReplySeen
-----------------------------------------------------------------------------
LEMMA KeyIsNumber ==
    ASSUME NoClash, NEW i \in SpaceIds, NEW c \in Shared, NumKey[i] \in KeysOf(c)
    PROVE  c.number = i
<1>1. i \in Ids /\ c.number \in Ids /\ c.name \in Names
  BY DEF Ids, Shared
<1>2. NumKey[i] = NumKey[c.number]
  BY <1>1 DEF NoClash, KeysOf
<1> QED
  BY <1>1, <1>2, NumKeyAssumption

LEMMA TruthImpliesCacheWasTrue ==
    ASSUME NoClash, CacheInv, TruthInv
    PROVE  CacheWasTrue
<1>1. ASSUME NEW n \in Names, space_hash[n] # Null
      PROVE  [number |-> space_hash[n].number, name |-> n] \in seen
  <2>1. n \in Keys
    BY DEF Keys
  <2>2. space_hash[n] \in Shared /\ n \in KeysOf(space_hash[n])
    BY <1>1, <2>1 DEF CacheInv, SchemaTypeOK, KeysInContent
  <2>3. n = space_hash[n].name
    BY <2>2 DEF KeysOf, NoClash, Shared, Ids
  <2> QED
    BY <1>1, <2>1, <2>3 DEF TruthInv, ContentsWereTrue
<1> QED
  BY <1>1 DEF CacheWasTrue, SpacesWereTrue, TruthInv

LEMMA InitTruth ==
    ASSUME Init
    PROVE  TruthInv
BY DEF Init, TruthInv, ContentsWereTrue, IndexesWereTrue, IndexesAreOld, RowsSeen, ReplySeen,
       NoRows

(***************************************************************************)
(* The steps that leave the schema alone.                                  *)
(***************************************************************************)
LEMMA ReadTruth ==
    ASSUME CacheInv, TruthInv,
           UNCHANGED <<space_hash, index_hash, gen, serverVars, historyVars>>,
           reply' = NoRows \/ (reply' = reply /\ pc' # "flush")
    PROVE  TruthInv'
<1>1. ContentsWereTrue' /\ IndexesWereTrue' /\ IndexesAreOld'
  BY DEF TruthInv, ContentsWereTrue, IndexesWereTrue, IndexesAreOld, historyVars
<1>2. RowsSeen'
  BY DEF TruthInv, RowsSeen, SpaceRows, IndexRows, serverVars, historyVars
<1>3. ReplySeen'
  BY DEF TruthInv, ReplySeen, NoRows, historyVars
<1> QED
  BY <1>1, <1>2, <1>3 DEF TruthInv

LEMMA AddSpacesTruth ==
    ASSUME CacheInv, TruthInv, LearnSpace \/ LearnField \/ LearnSpaces
    PROVE  TruthInv'
<1>1. /\ AddSpaces(reply.spaces) /\ UNCHANGED <<serverVars, historyVars>>
      /\ reply' \in {reply, NoRows} /\ pc' # "flush" /\ pc # "flush"
  BY DEF LearnSpace, LearnField, LearnSpaces, Return, GoTo
<1>2. reply.spaces \in SUBSET SpaceRow /\ Unique(reply.spaces) /\ SchemaTypeOK
  BY DEF CacheInv, SchemaTypeOK, RowsUnique
<1>3. gen \in Nat /\ gen' = gen + 1 /\ index_hash' = index_hash /\ UNCHANGED seen
  BY <1>1, <1>2, AddSpacesType DEF SchemaTypeOK, historyVars
<1>4. ContentsWereTrue'
  <2>1. ASSUME NEW k \in Keys, space_hash'[k] # Null
        PROVE  [number |-> space_hash'[k].number, name |-> space_hash'[k].name] \in seen
    <3>1. CASE space_hash'[k] = space_hash[k]
      BY <2>1, <3>1 DEF TruthInv, ContentsWereTrue
    <3>2. CASE \E r \in reply.spaces :
                  space_hash'[k] = [number |-> r.number, name |-> r.name, gen |-> gen + 1]
      <4>1. PICK r \in reply.spaces :
               space_hash'[k] = [number |-> r.number, name |-> r.name, gen |-> gen + 1]
        BY <3>2
      <4>2. r \in SpaceRow /\ r \in seen
        BY <1>2 DEF TruthInv, ReplySeen
      <4>3. [number |-> r.number, name |-> r.name] = r
        BY <4>2 DEF SpaceRow
      <4> QED
        BY <4>1, <4>2, <4>3
    <3> QED
      BY <1>1, <1>2, <3>1, <3>2, AddedUnderKey
  <2> QED
    BY <1>3, <2>1 DEF ContentsWereTrue
<1>5. IndexesWereTrue'
  <2>1. ASSUME NEW e \in index_hash, NEW k \in Keys, space_hash'[k] = e.of
        PROVE  space_hash[k] = e.of
    <3>1. e.of \in Shared /\ e.of.gen <= gen
      BY DEF CacheInv, SchemaTypeOK, IndexRecord, TruthInv, IndexesAreOld
    <3>2. e.of.gen \in Nat
      BY <3>1 DEF Shared
    <3>3. space_hash'[k] = space_hash[k] \/ space_hash'[k].gen = gen + 1
      <4>1. CASE \E r \in reply.spaces :
                    space_hash'[k] = [number |-> r.number, name |-> r.name, gen |-> gen + 1]
        BY <4>1
      <4> QED
        BY <1>1, <1>2, <4>1, AddedUnderKey
    <3> QED
      BY <1>3, <2>1, <3>1, <3>2, <3>3
  <2> QED
    BY <1>3, <2>1 DEF TruthInv, IndexesWereTrue
<1>6. IndexesAreOld'
  <2>1. ASSUME NEW e \in index_hash
        PROVE  e.of.gen <= gen + 1
    <3>1. e.of.gen \in Nat
      BY DEF CacheInv, SchemaTypeOK, IndexRecord, Shared
    <3> QED
      BY <1>3, <3>1 DEF TruthInv, IndexesAreOld
  <2> QED
    BY <1>3, <2>1 DEF IndexesAreOld
<1>7. RowsSeen'
  BY <1>1 DEF TruthInv, RowsSeen, SpaceRows, IndexRows, serverVars, historyVars
<1>8. ReplySeen'
  BY <1>1, <1>3 DEF TruthInv, ReplySeen, NoRows
<1> QED
  BY <1>4, <1>5, <1>6, <1>7, <1>8 DEF TruthInv

LEMMA AddIndexesTruth ==
    ASSUME NoClash, CacheInv, TruthInv, LearnIndex \/ LearnIndexes
    PROVE  TruthInv'
<1>1. /\ AddIndexes(reply.indexes) /\ UNCHANGED <<serverVars, historyVars>>
      /\ UNCHANGED <<space_hash, gen>>
      /\ reply' = NoRows /\ pc' = "idle"
  BY DEF LearnIndex, LearnIndexes, Return
<1>2. reply.indexes \in SUBSET IndexRow /\ reply.indexes \subseteq seen /\ SchemaTypeOK
  BY DEF CacheInv, SchemaTypeOK, TruthInv, ReplySeen
<1>3. index_hash' \subseteq IndexRecord
  BY <1>1, <1>2, AddIndexesType
<1>4. ASSUME NEW e \in index_hash'
      PROVE  \/ e \in index_hash
             \/ \E r \in reply.indexes :
                   /\ e.of = Home(r) /\ e.key \in KeysOf(r) /\ e.number = r.number
  BY <1>1 DEF AddIndexes, WithIndexes
<1>5. ASSUME NEW e \in index_hash', NEW r \in reply.indexes,
             e.of = Home(r), e.key \in KeysOf(r), e.number = r.number
      PROVE  /\ e.of.gen <= gen
             /\ e.key \in Names =>
                   [space |-> e.of.number, number |-> e.number, name |-> e.key] \in seen
  <2>1. /\ r \in IndexRow /\ r \in seen
        /\ r.space \in SpaceIds /\ r.number \in IndexIds /\ r.number \in Ids
    BY <1>2 DEF IndexRow, Ids
  <2>2. e.of \in Shared
    BY <1>3 DEF IndexRecord
  <2>3. NumKey[r.space] \in KeysOf(e.of) /\ e.of.gen <= gen
    BY <1>5, <2>1, <2>2, KeysOfSpaceRow, NullAssumption DEF Home, CacheInv, KeysInContent
  <2>4. e.of.number = r.space
    BY <2>1, <2>2, <2>3, KeyIsNumber
  <2>5. e.key \in Names => e.key = r.name
    BY <1>5, <2>1 DEF KeysOf, NoClash
  <2>6. [space |-> r.space, number |-> r.number, name |-> r.name] = r
    BY <2>1 DEF IndexRow
  <2> QED
    BY <1>5, <2>1, <2>3, <2>4, <2>5, <2>6
<1>6. IndexesWereTrue'
  <2>1. ASSUME NEW e \in index_hash', e.key \in Names, \E k \in Keys : space_hash[k] = e.of
        PROVE  [space |-> e.of.number, number |-> e.number, name |-> e.key] \in seen
    BY <1>4, <1>5, <2>1 DEF TruthInv, IndexesWereTrue
  <2> QED
    BY <1>1, <2>1 DEF IndexesWereTrue, historyVars
<1>7. IndexesAreOld'
  BY <1>1, <1>4, <1>5 DEF TruthInv, IndexesAreOld
<1>8. ContentsWereTrue'
  BY <1>1 DEF TruthInv, ContentsWereTrue, historyVars
<1>9. RowsSeen'
  BY <1>1 DEF TruthInv, RowsSeen, SpaceRows, IndexRows, serverVars, historyVars
<1>10. ReplySeen'
  BY <1>1 DEF ReplySeen, NoRows
<1> QED
  BY <1>6, <1>7, <1>8, <1>9, <1>10 DEF TruthInv

(***************************************************************************)
(* A turn of the flush takes records out.  At its end there are none, and  *)
(* seen starts again with what the server has.                             *)
(***************************************************************************)
LEMMA FlushTruth ==
    ASSUME CacheInv, TruthInv, FlushTurn \/ FlushDone
    PROVE  TruthInv'
<1>1. CASE FlushTurn
  <2>1. PICK k \in Keys : FreeRecord(k)
    BY <1>1 DEF FlushTurn
  <2>2. /\ UNCHANGED callVars /\ UNCHANGED <<serverVars, historyVars>>
        /\ gen' = gen /\ index_hash' \subseteq index_hash
    BY <1>1, <2>1 DEF FlushTurn, FreeRecord
  <2>3. ASSUME NEW j \in Keys
        PROVE  space_hash'[j] \in {space_hash[j], Null}
    BY <2>1 DEF FreeRecord
  <2>4. ContentsWereTrue'
    BY <2>2, <2>3 DEF TruthInv, ContentsWereTrue, historyVars
  <2>5. IndexesWereTrue'
    <3>1. ASSUME NEW e \in index_hash', NEW j \in Keys, space_hash'[j] = e.of
          PROVE  space_hash[j] = e.of
      <4>1. e.of # Null
        BY <2>2, NullAssumption DEF CacheInv, SchemaTypeOK, IndexRecord
      <4> QED
        BY <2>3, <3>1, <4>1
    <3> QED
      BY <2>2, <3>1 DEF TruthInv, IndexesWereTrue, historyVars
  <2>6. IndexesAreOld' /\ ReplySeen'
    BY <2>2 DEF TruthInv, IndexesAreOld, ReplySeen, callVars, historyVars
  <2>7. RowsSeen'
    BY <2>2 DEF TruthInv, RowsSeen, SpaceRows, IndexRows, serverVars, historyVars
  <2> QED
    BY <2>4, <2>5, <2>6, <2>7 DEF TruthInv
<1>2. CASE FlushDone
  <2>1. /\ UNCHANGED cacheVars /\ UNCHANGED serverVars
        /\ reply' = NoRows /\ seen' = SpaceRows \union IndexRows
        /\ \A k \in Keys : space_hash'[k] = Null
    BY <1>2 DEF FlushDone, cacheVars, TruthInv, ReplySeen
  <2>2. ContentsWereTrue'
    BY <2>1 DEF ContentsWereTrue
  <2>3. IndexesWereTrue'
    <3>1. \A e \in index_hash' : e.of # Null
      BY <2>1, NullAssumption DEF CacheInv, SchemaTypeOK, IndexRecord, cacheVars
    <3> QED
      BY <2>1, <3>1 DEF IndexesWereTrue
  <2>4. IndexesAreOld'
    BY <2>1 DEF TruthInv, IndexesAreOld, cacheVars
  <2>5. RowsSeen' /\ ReplySeen'
    BY <2>1 DEF RowsSeen, ReplySeen, NoRows, SpaceRows, IndexRows, serverVars
  <2> QED
    BY <2>2, <2>3, <2>4, <2>5 DEF TruthInv
<1> QED
  BY <1>1, <1>2

LEMMA ServeTruth ==
    ASSUME CacheInv, TruthInv, Server
    PROVE  TruthInv'
<1>1. /\ UNCHANGED cacheVars /\ UNCHANGED <<serverVars, historyVars>>
      /\ pc' # "flush"
      /\ reply'.spaces \subseteq SpaceRows \union reply.spaces
      /\ reply'.indexes \subseteq IndexRows
  <2>1. CASE ServeSpace
    BY <2>1 DEF ServeSpace, Serve, GoTo, NoRows
  <2>2. CASE ServeIndex
    BY <2>2 DEF ServeIndex, Serve, GoTo, NoRows
  <2>3. CASE ServeField
    BY <2>3 DEF ServeField, Serve, GoTo, NoRows
  <2>4. CASE ServeSpaces
    BY <2>4 DEF ServeSpaces, Serve, GoTo, NoRows, FirstSpaces
  <2>5. CASE ServeIndexes
    BY <2>5 DEF ServeIndexes, Serve, GoTo, FirstIndexes, CacheInv, SchemaTypeOK
  <2> QED
    BY <2>1, <2>2, <2>3, <2>4, <2>5 DEF Server
<1>2. ContentsWereTrue' /\ IndexesWereTrue' /\ IndexesAreOld'
  BY <1>1
  DEF TruthInv, ContentsWereTrue, IndexesWereTrue, IndexesAreOld, cacheVars, historyVars
<1>3. RowsSeen'
  BY <1>1 DEF TruthInv, RowsSeen, SpaceRows, IndexRows, serverVars, historyVars
<1>4. ReplySeen'
  BY <1>1 DEF TruthInv, RowsSeen, ReplySeen, historyVars
<1> QED
  BY <1>2, <1>3, <1>4 DEF TruthInv

(***************************************************************************)
(* A change of the definitions adds to seen the row it puts.               *)
(***************************************************************************)
LEMMA DDLTruth ==
    ASSUME CacheInv, TruthInv, DDL
    PROVE  TruthInv'
<1>1. PICK i \in SpaceIds :
        \/ \E n \in Names : PutSpace(i, n)
        \/ DropSpace(i)
        \/ \E j \in IndexIds, n \in Names : PutIndex(i, j, n)
        \/ \E j \in IndexIds : DropIndex(i, j)
  BY DEF DDL
<1>2. /\ UNCHANGED callVars /\ UNCHANGED cacheVars /\ seen \subseteq seen'
  BY <1>1 DEF PutSpace, DropSpace, PutIndex, DropIndex, Change
<1>3. ContentsWereTrue' /\ IndexesWereTrue' /\ IndexesAreOld'
  BY <1>2 DEF TruthInv, ContentsWereTrue, IndexesWereTrue, IndexesAreOld, cacheVars
<1>4. ReplySeen'
  BY <1>2 DEF TruthInv, ReplySeen, callVars
<1>5. SpaceRows' \union IndexRows' \subseteq seen'
  <2>1. spaces \in [SpaceIds -> Names \union {Null}] /\ DOMAIN indexes = SpaceIds
    BY DEF CacheInv, SchemaTypeOK
  <2>2. ASSUME NEW r \in SpaceRow, spaces'[r.number] = r.name
        PROVE  r \in seen'
    <3>1. r.number \in SpaceIds /\ r.name # Null /\ r = [number |-> r.number, name |-> r.name]
      BY NullAssumption DEF SpaceRow
    <3>2. CASE spaces[r.number] = r.name
      BY <1>2, <3>2 DEF TruthInv, RowsSeen, SpaceRows
    <3>3. CASE spaces[r.number] # r.name
      <4>1. PICK n \in Names : PutSpace(i, n)
        BY <1>1, <2>1, <2>2, <3>1, <3>3 DEF DropSpace, PutIndex, DropIndex
      <4>2. r.number = i /\ r.name = n
        BY <2>1, <2>2, <3>1, <3>3, <4>1 DEF PutSpace
      <4> QED
        BY <3>1, <4>1, <4>2 DEF PutSpace, Change
    <3> QED
      BY <3>2, <3>3
  <2>3. ASSUME NEW r \in IndexRow, indexes'[r.space][r.number] = r.name
        PROVE  r \in seen'
    <3>1. /\ r.space \in SpaceIds /\ r.number \in IndexIds /\ r.name # Null
          /\ r = [space |-> r.space, number |-> r.number, name |-> r.name]
      BY NullAssumption DEF IndexRow
    <3>2. CASE indexes[r.space][r.number] = r.name
      BY <1>2, <3>2 DEF TruthInv, RowsSeen, IndexRows
    <3>3. CASE indexes[r.space][r.number] # r.name
      <4>1. indexes \in [SpaceIds -> [IndexIds -> Names \union {Null}]]
        BY DEF CacheInv, SchemaTypeOK
      <4>2. ASSUME NEW j \in IndexIds, NEW v, indexes' = [indexes EXCEPT ![i][j] = v]
            PROVE  r.space = i /\ r.number = j /\ r.name = v
        BY <2>3, <3>1, <3>3, <4>1, <4>2
      <4>3. PICK j \in IndexIds, n \in Names : PutIndex(i, j, n)
        BY <1>1, <2>3, <3>1, <3>3, <4>2 DEF PutSpace, DropSpace, DropIndex
      <4>4. r.space = i /\ r.number = j /\ r.name = n
        BY <4>2, <4>3 DEF PutIndex
      <4> QED
        BY <3>1, <4>3, <4>4 DEF PutIndex, Change
    <3> QED
      BY <3>2, <3>3
  <2> QED
    BY <2>2, <2>3 DEF SpaceRows, IndexRows
<1> QED
  BY <1>3, <1>4, <1>5 DEF TruthInv, RowsSeen

LEMMA StepTruth ==
    ASSUME NoClash, CacheInv, TruthInv, [Next]_vars
    PROVE  TruthInv'
<1>1. CASE StartLookup \/ StartField \/ StartFlush
  <2>1. /\ UNCHANGED <<space_hash, index_hash, gen, serverVars, historyVars>>
        /\ reply' = NoRows
    BY <1>1 DEF StartLookup, StartField, StartFlush, Start, cacheVars
  <2> QED
    BY <2>1, ReadTruth
<1>2. CASE SpaceHit \/ SpaceMiss \/ IndexHit \/ IndexMiss \/ FieldHit \/ FieldMiss
  <2>1. /\ UNCHANGED <<space_hash, index_hash, gen, serverVars, historyVars>>
        /\ reply' = NoRows \/ (reply' = reply /\ pc' # "flush")
    BY <1>2
    DEF SpaceHit, SpaceMiss, IndexHit, IndexMiss, FieldHit, FieldMiss, Return, GoTo, cacheVars
  <2> QED
    BY <2>1, ReadTruth
<1>3. CASE UNCHANGED vars
  BY <1>3
  DEF TruthInv, ContentsWereTrue, IndexesWereTrue, IndexesAreOld, RowsSeen, ReplySeen,
      SpaceRows, IndexRows, vars, serverVars, callVars, cacheVars, historyVars
<1> QED
  BY <1>1, <1>2, <1>3, AddSpacesTruth, AddIndexesTruth, FlushTruth, ServeTruth, DDLTruth
  DEF Next, Extension, Finished
-----------------------------------------------------------------------------
(***************************************************************************)
(* What the schema says of a name was true since the last flush: a flush   *)
(* forgets every definition, and a response that is added over an older    *)
(* one leaves nothing of it in reach that was not true.                    *)
(***************************************************************************)
THEOREM CacheTrue == ASSUME NoClash PROVE Spec => []CacheWasTrue
<1>1. Init => CacheInv /\ TruthInv
  BY InitInv, InitTruth
<1>2. CacheInv /\ TruthInv /\ [Next]_vars => (CacheInv /\ TruthInv)'
  BY StepKeeps, StepTruth
<1>3. CacheInv /\ TruthInv => CacheWasTrue
  BY TruthImpliesCacheWasTrue
<1> QED
  BY <1>1, <1>2, <1>3, PTL DEF Spec
-----------------------------------------------------------------------------
(***************************************************************************)
(* The number a call goes on with belonged to the name it was given.       *)
(***************************************************************************)
NameInv ==
    /\ space \in Names /\ sid # Null => [number |-> sid, name |-> space] \in seen
    /\ pc = "flush" => sid = Null /\ kind # "lookup"
    /\ pc \in {"fieldAsked", "fieldServed"} => kind = "field"
    /\ kind = "lookup" /\ outcome = "ok" => sid # Null

LEMMA NameIsKey ==
    ASSUME NEW n \in Names
    PROVE  n \in Keys /\ KeyOf(n) = n
BY NamesAssumption DEF Keys, KeyOf, Ids

LEMMA StepNames ==
    ASSUME CacheInv, NameInv, CacheWasTrue, CacheWasTrue', [Next]_vars
    PROVE  NameInv'
<1>1. CASE StartLookup \/ StartField \/ StartFlush
  BY <1>1 DEF StartLookup, StartField, StartFlush, Start, NameInv
<1>2. CASE SpaceHit \/ LearnSpace
  <2>1. /\ UNCHANGED <<space, kind, historyVars>> /\ pc' \in {"index", "idle"}
        /\ outcome' \in {outcome, "undefined"}
    BY <1>2 DEF SpaceHit, LearnSpace, Return, GoTo
  <2>2. \/ sid' = sid /\ outcome' = "undefined"
        \/ /\ space_hash'[KeyOf(space)] # Null
           /\ sid' = space_hash'[KeyOf(space)].number
    BY <1>2 DEF SpaceHit, LearnSpace, cacheVars, Return
  <2>3. CASE sid' = sid /\ outcome' = "undefined"
    BY <2>1, <2>3 DEF NameInv, historyVars
  <2>4. CASE /\ space_hash'[KeyOf(space)] # Null
             /\ sid' = space_hash'[KeyOf(space)].number
    <3>1. space \in Names => [number |-> sid', name |-> space] \in seen'
      BY <2>4, NameIsKey DEF CacheWasTrue, SpacesWereTrue
    <3>2. space # Null /\ KeyOf(space) \in Keys
      <4>1. pc \in {"space", "spaceServed"}
        BY <1>2 DEF SpaceHit, LearnSpace
      <4> QED
        BY <4>1, KeyOfInKeys DEF CacheInv, Resolved, SchemaTypeOK
    <3>3. space_hash'[KeyOf(space)] \in Shared
      <4>1. CacheInv'
        BY <1>2, ReadKeeps, LearnSpacesKeeps
      <4> QED
        BY <2>4, <3>2, <4>1 DEF CacheInv, SchemaTypeOK
    <3>4. sid' # Null
      BY <2>4, <3>3, NullAssumption DEF Shared, Ids
    <3> QED
      BY <2>1, <3>1, <3>4 DEF NameInv
  <2> QED
    BY <2>2, <2>3, <2>4
<1>3. CASE IndexHit \/ LearnIndex
  <2>1. sid # Null /\ UNCHANGED <<sid, space, kind, historyVars>> /\ pc' = "idle"
    BY <1>3 DEF IndexHit, LearnIndex, Return, CacheInv, Resolved
  <2> QED
    BY <2>1 DEF NameInv, historyVars
<1>4. CASE LearnField \/ LearnSpaces \/ LearnIndexes \/ FieldHit
  <2>1. /\ UNCHANGED <<sid, space, kind, historyVars>> /\ pc' \in {"idle", "batchLearned"}
        /\ kind # "lookup" \/ outcome' = outcome
    BY <1>4
    DEF LearnField, LearnSpaces, LearnIndexes, FieldHit, Return, GoTo, NameInv, CacheInv, Resolved
  <2> QED
    BY <2>1 DEF NameInv, historyVars
<1>5. CASE SpaceMiss \/ IndexMiss \/ FieldMiss
  <2>1. UNCHANGED <<sid, space, kind, outcome, historyVars>>
    BY <1>5 DEF SpaceMiss, IndexMiss, FieldMiss, GoTo
  <2>2. pc' \in {"spaceAsked", "indexAsked"} \/ (pc' = "fieldAsked" /\ kind = "field")
    BY <1>5 DEF SpaceMiss, IndexMiss, FieldMiss, GoTo
  <2> QED
    BY <2>1, <2>2 DEF NameInv, historyVars
<1>6. CASE FlushTurn
  BY <1>6 DEF FlushTurn, callVars, historyVars, NameInv
<1>7. CASE FlushDone
  BY <1>7 DEF FlushDone, NameInv
<1>8. CASE Server
  <2>1. UNCHANGED <<sid, space, kind, outcome, historyVars>>
    BY <1>8
    DEF Server, ServeSpace, ServeIndex, ServeField, ServeSpaces, ServeIndexes, Serve, GoTo
  <2>2. pc' # "flush" /\ pc' # "fieldAsked" /\ (pc' = "fieldServed" => pc = "fieldAsked")
    BY <1>8
    DEF Server, ServeSpace, ServeIndex, ServeField, ServeSpaces, ServeIndexes, Serve, GoTo
  <2> QED
    BY <2>1, <2>2 DEF NameInv, historyVars
<1>9. CASE DDL
  <2>1. UNCHANGED callVars /\ seen \subseteq seen'
    BY <1>9 DEF DDL, PutSpace, DropSpace, PutIndex, DropIndex, Change
  <2> QED
    BY <2>1 DEF NameInv, callVars
<1>10. CASE UNCHANGED vars
  BY <1>10 DEF NameInv, vars, callVars, historyVars
<1> QED
  BY <1>1, <1>2, <1>3, <1>4, <1>5, <1>6, <1>7, <1>8, <1>9, <1>10 DEF Next, Extension, Finished

(***************************************************************************)
(* A lookup by name goes on with a number the name had since the last      *)
(* flush.                                                                  *)
(***************************************************************************)
THEOREM NamesMeanSpaces == ASSUME NoClash PROVE Spec => []NameMeansSpace
<1>1. Init => CacheInv /\ TruthInv
  BY InitInv, InitTruth
<1>2. CacheInv /\ TruthInv /\ [Next]_vars => (CacheInv /\ TruthInv)'
  BY StepKeeps, StepTruth
<1>3. CacheInv /\ TruthInv => CacheWasTrue
  BY TruthImpliesCacheWasTrue
<1>4. Init => NameInv
  BY DEF Init, NameInv
<1>5. CacheInv /\ NameInv /\ CacheWasTrue /\ CacheWasTrue' /\ [Next]_vars => NameInv'
  BY StepNames
<1>6. NameInv => NameMeansSpace
  BY DEF NameInv, NameMeansSpace
<1> QED
  BY <1>1, <1>2, <1>3, <1>4, <1>5, <1>6, PTL DEF Spec
-----------------------------------------------------------------------------
(***************************************************************************)
(* The batch of an authentication, while the definitions stay as they were *)
(* when the flush ended: what each response holds, and what it leaves in   *)
(* the schema.                                                             *)
(***************************************************************************)
IndexesDistinct ==
    /\ \A i \in SpaceIds : Distinct(indexes[i])
    /\ \A i \in SpaceIds, j \in IndexIds : indexes[i][j] # Null => spaces[i] # Null

BatchPlaces ==
    kind = "authenticate" =>
        pc \in {"idle", "flush", "batchAsked", "batchHalf", "batchServed", "batchLearned"}

SpacesKnown ==
    \A r \in SpaceRows : \A k \in KeysOf(r) :
        space_hash[k] # Null /\ space_hash[k].number = r.number

IndexesKnown ==
    \A r \in IndexRows : \E e \in index_hash :
        e.of = Home(r) /\ e.key = r.name /\ e.number = r.number

Steady == kind = "authenticate" /\ ddl = flushedAt /\ Fits

BatchProgress ==
    Steady =>
        /\ pc \in {"batchHalf", "batchServed"} => reply.spaces = SpaceRows
        /\ pc \in {"batchServed", "batchLearned"} => reply.indexes = IndexRows
        /\ pc \in {"batchLearned", "idle"} => SpacesKnown
        /\ pc = "idle" => outcome = "ok" /\ IndexesKnown

BatchInv == flushedAt <= ddl /\ IndexesDistinct /\ BatchPlaces /\ BatchProgress

(***************************************************************************)
(* A response that is not cut off holds every definition.                  *)
(***************************************************************************)
LEMMA RowsFinite ==
    ASSUME SchemaTypeOK
    PROVE  IsFiniteSet(SpaceRows) /\ IsFiniteSet(IndexRows)
<1>1. IsFiniteSet(SpaceRows)
  <2>. DEFINE f == [r \in SpaceRows |-> r.number]
  <2>1. f \in Injection(SpaceRows, SpaceIds)
    BY DEF SpaceRows, SpaceRow, Injection, IsInjective
  <2>. QED BY <2>1, FS_Injection, FiniteIdsAssumption
<1>2. IsFiniteSet(IndexRows)
  <2>. DEFINE f == [r \in IndexRows |-> <<r.space, r.number>>]
  <2>1. f \in Injection(IndexRows, SpaceIds \X IndexIds)
    BY DEF IndexRows, IndexRow, Injection, IsInjective
  <2>2. IsFiniteSet(SpaceIds \X IndexIds)
    BY FS_Product, FiniteIdsAssumption
  <2>. QED BY <2>1, <2>2, FS_Injection
<1>. QED BY <1>1, <1>2

LEMMA WholeResponses ==
    ASSUME SchemaTypeOK, Fits
    PROVE  FirstSpaces = SpaceRows /\ FirstIndexes = IndexRows
<1>1. ASSUME NEW rows, IsFiniteSet(rows), Cardinality(rows) <= Limit, NEW part \in SUBSET rows
      PROVE  Cardinality(part) <= Limit
  <2>1. IsFiniteSet(part) /\ Cardinality(part) <= Cardinality(rows)
    BY <1>1, FS_Subset
  <2>2. Cardinality(part) \in Nat /\ Cardinality(rows) \in Nat
    BY <1>1, <2>1, FS_CardinalityType
  <2>. QED BY <1>1, <2>1, <2>2, LimitAssumption
<1>2. FirstSpaces = SpaceRows
  <2>1. ASSUME NEW r \in SpaceRows
        PROVE  Cardinality({q \in SpaceRows : UpTo(q, r)}) <= Limit
    BY <1>1, RowsFinite DEF Fits
  <2>. QED BY <2>1 DEF FirstSpaces
<1>3. FirstIndexes = IndexRows
  <2>1. ASSUME NEW r \in IndexRows
        PROVE  Cardinality({q \in IndexRows : UpToIndex(q, r)}) <= Limit
    BY <1>1, RowsFinite DEF Fits
  <2>. QED BY <2>1 DEF FirstIndexes
<1>. QED BY <1>2, <1>3

(***************************************************************************)
(* Both records of every row are there after it was added: no other row    *)
(* has one of its keys.                                                    *)
(***************************************************************************)
LEMMA SpacesLearned ==
    ASSUME NoClash, SchemaTypeOK, NEW rows \in SUBSET SpaceRow, Unique(rows), AddSpaces(rows),
           NEW r \in rows, NEW k \in KeysOf(r)
    PROVE  space_hash'[k] # Null /\ space_hash'[k].number = r.number
<1>1. r \in SpaceRow /\ r.number \in SpaceIds /\ r.name \in Names /\ r.number \in Ids
  BY DEF SpaceRow, Ids
<1>2. k \in Keys
  BY <1>1 DEF KeysOf, Keys
<1>3. PICK q \in rows :
        /\ k \in KeysOf(q)
        /\ space_hash'[k] = [number |-> q.number, name |-> q.name, gen |-> gen + 1]
  BY <1>2, AddedUnderKey
<1>4. q.number \in Ids /\ q.name \in Names /\ q \in SpaceRow
  BY DEF SpaceRow, Ids
<1>5. q.number = r.number \/ q.name = r.name
  BY <1>1, <1>3, <1>4, NumKeyAssumption DEF KeysOf, NoClash
<1>6. q = r
  BY <1>5 DEF Unique
<1>7. space_hash'[k] \in Shared
  <2>1. gen \in Nat
    BY DEF SchemaTypeOK
  <2>. QED BY <1>3, <1>4, <2>1 DEF Shared, SpaceRow
<1>. QED BY <1>3, <1>6, <1>7, NullAssumption

(***************************************************************************)
(* The record under the name of an index is there after its row was added, *)
(* when every row has a space and no two rows of a space have one name.    *)
(***************************************************************************)
LEMMA IndexesLearned ==
    ASSUME NoClash, NEW rows \in SUBSET IndexRow, AddIndexes(rows),
           \A r \in rows : Home(r) # Null /\ Home(r).number = r.space,
           \A q, r \in rows : q.space = r.space /\ q.name = r.name => q = r,
           NEW r \in rows
    PROVE  \E e \in index_hash' : e.of = Home(r) /\ e.key = r.name /\ e.number = r.number
<1>. DEFINE Goes(q, c, k) == Home(q) = c /\ k \in KeysOf(q)
            Last(p, k) == \A q \in rows : Goes(q, Home(p), k) => UpToIndex(q, p)
<1>1. Homeless(rows) = {}
  BY DEF Homeless
<1>2. {q \in rows : \A h \in Homeless(rows) : ~ UpToIndex(h, q)} = rows
  BY <1>1
<1>3. index_hash' = WithIndexes(rows)
  BY <1>2 DEF AddIndexes
<1>4. r.name \in KeysOf(r) /\ r.name \in Names /\ r.number \in Nat /\ r.space \in Nat
  BY IdsAssumption DEF KeysOf, IndexRow
<1>5. Last(r, r.name)
  <2>. SUFFICES ASSUME NEW q \in rows, Goes(q, Home(r), r.name)
                PROVE  UpToIndex(q, r)
    OBVIOUS
  <2>1. q.space = r.space
    OBVIOUS
  <2>2. q.name = r.name
    BY <1>4 DEF KeysOf, NoClash, IndexRow, Ids
  <2>3. q = r
    BY <2>1, <2>2
  <2>. QED BY <1>4, <2>3 DEF UpToIndex
<1>6. [of |-> Home(r), key |-> r.name, number |-> r.number] \in WithIndexes(rows)
  BY <1>4, <1>5 DEF WithIndexes
<1>. QED BY <1>3, <1>6

(***************************************************************************)
(* BatchInv is inductive.                                                  *)
(***************************************************************************)
LEMMA InitBatch == Init => BatchInv
BY DEF Init, BatchInv, IndexesDistinct, BatchPlaces, BatchProgress, Steady

LEMMA DDLBatch ==
    ASSUME CacheInv, BatchInv, DDL
    PROVE  BatchInv'
<1>1. PICK i \in SpaceIds :
        \/ \E n \in Names : PutSpace(i, n)
        \/ DropSpace(i)
        \/ \E j \in IndexIds, n \in Names : PutIndex(i, j, n)
        \/ \E j \in IndexIds : DropIndex(i, j)
  BY DEF DDL
<1>2. UNCHANGED callVars /\ UNCHANGED flushedAt /\ ddl' = ddl + 1
  BY <1>1 DEF PutSpace, DropSpace, PutIndex, DropIndex, Change
<1>3. flushedAt' < ddl'
  BY <1>2 DEF BatchInv, CacheInv, SchemaTypeOK
<1>4. /\ spaces \in [SpaceIds -> Names \union {Null}]
      /\ indexes \in [SpaceIds -> [IndexIds -> Names \union {Null}]]
      /\ Null \notin Names
  BY NullAssumption DEF CacheInv, SchemaTypeOK
<1>5. IndexesDistinct'
  <2>1. CASE UNCHANGED indexes /\ \A j \in SpaceIds :
                spaces'[j] = spaces[j] \/ spaces'[j] # Null \/ \A m \in IndexIds : indexes[j][m] = Null
    BY <2>1 DEF BatchInv, IndexesDistinct, Distinct
  <2>2. ASSUME NEW n \in Names, PutSpace(i, n)
        PROVE  \A j \in SpaceIds : spaces'[j] = spaces[j] \/ spaces'[j] # Null
    BY <1>4, <2>2 DEF PutSpace
  <2>3. ASSUME DropSpace(i)
        PROVE  \A j \in SpaceIds :
                  spaces'[j] = spaces[j] \/ \A m \in IndexIds : indexes[j][m] = Null
    BY <1>4, <2>3 DEF DropSpace
  <2>4. ASSUME NEW j \in IndexIds, NEW n \in Names \union {Null},
               indexes' = [indexes EXCEPT ![i][j] = n], UNCHANGED spaces,
               n # Null => spaces[i] # Null /\ \A m \in IndexIds : indexes[i][m] # n
        PROVE  IndexesDistinct'
    <3>1. ASSUME NEW a \in SpaceIds, NEW b \in IndexIds
          PROVE  indexes'[a][b] = IF a = i /\ b = j THEN n ELSE indexes[a][b]
      BY <1>4, <2>4
    <3>2. \A a \in SpaceIds : DOMAIN indexes[a] = IndexIds /\ DOMAIN indexes'[a] = IndexIds
      BY <1>4, <2>4
    <3>3. ASSUME NEW a \in SpaceIds
          PROVE  Distinct(indexes'[a])
      <4>1. Distinct(indexes[a])
        BY DEF BatchInv, IndexesDistinct
      <4>. QED BY <2>4, <3>1, <3>2, <4>1 DEF Distinct
    <3>4. ASSUME NEW a \in SpaceIds, NEW b \in IndexIds, indexes'[a][b] # Null
          PROVE  spaces'[a] # Null
      BY <2>4, <3>1, <3>4 DEF BatchInv, IndexesDistinct
    <3>. QED BY <3>3, <3>4 DEF IndexesDistinct
  <2>. QED BY <1>1, <2>1, <2>2, <2>3, <2>4 DEF PutSpace, DropSpace, PutIndex, DropIndex
<1>. QED BY <1>2, <1>3, <1>5 DEF BatchInv, BatchPlaces, BatchProgress, Steady, callVars,
                                 CacheInv, SchemaTypeOK

(***************************************************************************)
(* The definitions stay, and the call is no batch or is not past its       *)
(* first response.                                                         *)
(***************************************************************************)
LEMMA OtherBatch ==
    ASSUME BatchInv, UNCHANGED serverVars, flushedAt' <= ddl',
           \/ kind' # "authenticate"
           \/ pc' \in {"flush", "batchAsked"}
    PROVE  BatchInv'
BY DEF BatchInv, IndexesDistinct, BatchPlaces, BatchProgress, Steady, serverVars, Fits,
       SpaceRows, IndexRows

LEMMA ServerRows ==
    ASSUME UNCHANGED serverVars
    PROVE  SpaceRows' = SpaceRows /\ IndexRows' = IndexRows /\ Fits' = Fits
BY DEF serverVars, SpaceRows, IndexRows, Fits

LEMMA StepBatch ==
    ASSUME NoClash, CacheInv, CacheInv', BatchInv, [Next]_vars
    PROVE  BatchInv'
<1>1. CASE StartLookup \/ StartField \/ StartFlush
  <2>1. UNCHANGED serverVars /\ UNCHANGED historyVars
        /\ (kind' # "authenticate" \/ pc' = "flush")
    BY <1>1 DEF StartLookup, StartField, StartFlush, Start
  <2>. QED BY <2>1, OtherBatch DEF BatchInv, serverVars, historyVars
<1>2. CASE \/ SpaceHit \/ SpaceMiss \/ LearnSpace \/ IndexHit \/ IndexMiss \/ LearnIndex
           \/ FieldHit \/ FieldMiss \/ LearnField \/ ServeSpace \/ ServeIndex \/ ServeField
  <2>1. /\ UNCHANGED serverVars /\ UNCHANGED historyVars /\ UNCHANGED kind
        /\ pc \notin {"idle", "flush", "batchAsked", "batchHalf", "batchServed", "batchLearned"}
    BY <1>2
    DEF SpaceHit, SpaceMiss, LearnSpace, IndexHit, IndexMiss, LearnIndex, FieldHit, FieldMiss,
        LearnField, ServeSpace, ServeIndex, ServeField, Serve, GoTo, Return
  <2>. QED BY <2>1, OtherBatch DEF BatchInv, BatchPlaces, serverVars, historyVars
<1>3. CASE FlushTurn
  <2>1. UNCHANGED serverVars /\ UNCHANGED historyVars /\ pc' = "flush"
    BY <1>3 DEF FlushTurn, callVars
  <2>. QED BY <2>1, OtherBatch DEF BatchInv, serverVars, historyVars
<1>4. CASE FlushDone
  <2>1. /\ UNCHANGED serverVars /\ flushedAt' = ddl /\ UNCHANGED kind /\ ddl \in Nat
        /\ kind # "authenticate" \/ pc' = "batchAsked"
    BY <1>4 DEF FlushDone, CacheInv, SchemaTypeOK
  <2>2. flushedAt' <= ddl'
    BY <2>1 DEF serverVars
  <2>. QED BY <2>1, <2>2, OtherBatch
<1>5. CASE DDL
  BY <1>5, DDLBatch
<1>6. CASE UNCHANGED vars
  BY <1>6 DEF vars, serverVars, callVars, cacheVars, historyVars, BatchInv, IndexesDistinct,
              BatchPlaces, BatchProgress, Steady, Fits, SpaceRows, IndexRows, SpacesKnown,
              IndexesKnown, Home
<1>7. ASSUME UNCHANGED <<kind, flushedAt, serverVars>>,
             pc' \in {"idle", "batchHalf", "batchServed", "batchLearned"},
             Steady => BatchProgress'
      PROVE  BatchInv'
  <2>1. IndexesDistinct' /\ flushedAt' <= ddl'
    BY <1>7 DEF BatchInv, IndexesDistinct, serverVars
  <2>2. Steady' => Steady
    BY <1>7, ServerRows DEF Steady, serverVars
  <2>3. BatchProgress'
    BY <1>7, <2>2 DEF BatchProgress
  <2>. QED BY <1>7, <2>1, <2>3 DEF BatchInv, BatchPlaces
<1>8. CASE ServeSpaces
  <2>1. /\ UNCHANGED <<kind, flushedAt, serverVars>> /\ pc' = "batchHalf"
        /\ reply'.spaces = FirstSpaces
    BY <1>8 DEF ServeSpaces, Serve, GoTo, NoRows, historyVars
  <2>2. Steady => BatchProgress'
    BY <2>1, ServerRows, WholeResponses DEF Steady, BatchProgress, CacheInv
  <2>. QED BY <1>7, <2>1, <2>2
<1>9. CASE ServeIndexes
  <2>1. /\ UNCHANGED <<kind, flushedAt, serverVars>> /\ pc' = "batchServed" /\ pc = "batchHalf"
        /\ reply' = [reply EXCEPT !.indexes = FirstIndexes]
    BY <1>9 DEF ServeIndexes, Serve, GoTo, historyVars
  <2>2. reply'.spaces = reply.spaces /\ reply'.indexes = FirstIndexes
    BY <2>1 DEF CacheInv, SchemaTypeOK
  <2>3. Steady => BatchProgress'
    BY <2>1, <2>2, ServerRows, WholeResponses DEF Steady, BatchProgress, CacheInv, BatchInv
  <2>. QED BY <1>7, <2>1, <2>3
<1>10. CASE LearnSpaces
  <2>1. /\ UNCHANGED <<kind, flushedAt, serverVars, reply>>
        /\ pc' = "batchLearned" /\ pc = "batchServed" /\ AddSpaces(reply.spaces)
    BY <1>10 DEF LearnSpaces, GoTo, historyVars
  <2>2. reply.spaces \in SUBSET SpaceRow /\ Unique(reply.spaces) /\ SchemaTypeOK
    BY DEF CacheInv, SchemaTypeOK, RowsUnique
  <2>3. ASSUME Steady
        PROVE  SpacesKnown'
    <3>1. reply.spaces = SpaceRows
      BY <2>1, <2>3 DEF BatchInv, BatchProgress
    <3>2. \A r \in SpaceRows : \A k \in KeysOf(r) :
             space_hash'[k] # Null /\ space_hash'[k].number = r.number
      BY <2>1, <2>2, <3>1, SpacesLearned
    <3>. QED BY <2>1, <3>2, ServerRows DEF SpacesKnown
  <2>4. Steady => BatchProgress'
    BY <2>1, <2>3, ServerRows DEF BatchProgress, BatchInv
  <2>. QED BY <1>7, <2>1, <2>4
<1>11. CASE LearnIndexes
  <2>1. /\ UNCHANGED <<kind, flushedAt, serverVars, space_hash>>
        /\ pc' = "idle" /\ pc = "batchLearned" /\ AddIndexes(reply.indexes)
        /\ outcome' = IF Homeless(reply.indexes) = {} THEN "ok" ELSE "parse"
    BY <1>11 DEF LearnIndexes, Return, historyVars
  <2>2. ASSUME Steady
        PROVE  SpacesKnown' /\ outcome' = "ok" /\ IndexesKnown'
    <3>1. reply.indexes = IndexRows /\ SpacesKnown
      BY <2>1, <2>2 DEF BatchInv, BatchProgress
    <3>2. IndexRows \in SUBSET IndexRow
      BY DEF IndexRows
    <3>3. ASSUME NEW r \in IndexRows
          PROVE  Home(r) # Null /\ Home(r).number = r.space
      <4>1. r.space \in SpaceIds /\ r.number \in IndexIds /\ indexes[r.space][r.number] # Null
        BY NullAssumption DEF IndexRows, IndexRow
      <4>2. spaces[r.space] # Null
        BY <4>1 DEF BatchInv, IndexesDistinct
      <4>3. spaces[r.space] \in Names
        BY <4>1, <4>2 DEF CacheInv, SchemaTypeOK
      <4>4. [number |-> r.space, name |-> spaces[r.space]] \in SpaceRows
        BY <4>1, <4>3 DEF SpaceRows, SpaceRow
      <4>. QED BY <3>1, <4>4 DEF SpacesKnown, KeysOf, Home
    <3>4. ASSUME NEW q \in IndexRows, NEW r \in IndexRows, q.space = r.space, q.name = r.name
          PROVE  q = r
      <4>1. /\ r.space \in SpaceIds /\ r.number \in IndexIds /\ q.number \in IndexIds
            /\ indexes[r.space][r.number] = r.name /\ indexes[r.space][q.number] = r.name
            /\ r.name # Null /\ DOMAIN indexes[r.space] = IndexIds
        BY <3>4, NullAssumption DEF IndexRows, IndexRow, CacheInv, SchemaTypeOK
      <4>2. q.number = r.number
        BY <4>1 DEF BatchInv, IndexesDistinct, Distinct
      <4>. QED BY <3>4, <4>2 DEF IndexRows, IndexRow
    <3>5. Homeless(IndexRows) = {}
      BY <3>3 DEF Homeless
    <3>6. \A r \in IndexRows : \E e \in index_hash' :
             e.of = Home(r) /\ e.key = r.name /\ e.number = r.number
      BY <2>1, <3>1, <3>2, <3>3, <3>4, IndexesLearned
    <3>7. IndexesKnown'
      BY <2>1, <3>6, ServerRows DEF IndexesKnown, Home
    <3>8. SpacesKnown'
      BY <2>1, <3>1, ServerRows DEF SpacesKnown
    <3>. QED BY <2>1, <3>1, <3>5, <3>7, <3>8
  <2>3. Steady => BatchProgress'
    BY <2>1, <2>2 DEF BatchProgress
  <2>. QED BY <1>7, <2>1, <2>3
<1>. QED BY <1>1, <1>2, <1>3, <1>4, <1>5, <1>6, <1>8, <1>9, <1>10, <1>11
         DEF Next, Extension, Server, Finished

(***************************************************************************)
(* After an authentication during which no definition changed the schema   *)
(* is complete, when the definitions fit into the rows it asks for: every  *)
(* space is found under its name, and every index in the table of its      *)
(* space.                                                                  *)
(***************************************************************************)
THEOREM BatchComplete == ASSUME NoClash PROVE Spec => []BatchIsComplete
<1>1. Init => CacheInv
  BY InitInv
<1>2. CacheInv /\ [Next]_vars => CacheInv'
  BY StepKeeps
<1>3. CacheInv /\ CacheInv' /\ BatchInv /\ [Next]_vars => BatchInv'
  BY StepBatch
<1>4. BatchInv => BatchIsComplete
  BY DEF BatchInv, BatchProgress, Steady, BatchIsComplete, SpacesKnown, IndexesKnown, KeysOf, Home
<1>. QED BY <1>1, <1>2, <1>3, <1>4, InitBatch, PTL DEF Spec
=============================================================================
