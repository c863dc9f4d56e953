--------------------------- MODULE SchemaCacheProofs ---------------------------
(***************************************************************************)
(* Theorems about SchemaCache, for any spaces, indexes, names, bytes of    *)
(* numbers, limit, and number of calls and changes.                        *)
(***************************************************************************)
EXTENDS SchemaCache, TLAPS

(***************************************************************************)
(* The rows of a response: no two of one number or one name.               *)
(***************************************************************************)
Unique(rows) == \A q, r \in rows : q.number = r.number \/ q.name = r.name => q = r

RowsUnique == Distinct(spaces) /\ Unique(reply.spaces)

(***************************************************************************)
(* A record lies under a key that its own content names, which is why the  *)
(* turn that frees the content takes every record of it out of the table.  *)
(***************************************************************************)
KeysInContent ==
    \A k \in Keys : space_hash[k] # Null =>
        /\ k \in KeysOf(space_hash[k])
        /\ space_hash[k].gen <= gen

FreedIsOld == \A c \in freed : c # Null /\ c.gen <= gen

(***************************************************************************)
(* Outside a flush the number of a record leads to a record.               *)
(***************************************************************************)
PairedTable ==
    \A k \in Keys : space_hash[k] # Null =>
        space_hash[NumKey[space_hash[k].number]] # Null

Paired == pc # "flush" => PairedTable

(***************************************************************************)
(* What a call has established where it is.                                *)
(***************************************************************************)
Resolved ==
    /\ pc \in {"space", "spaceAsked", "spaceServed"} => space # Null
    /\ pc \in {"index", "indexAsked", "indexServed"} =>
          sid # Null /\ space_hash[NumKey[sid]] # Null
    /\ pc = "indexServed" => \A r \in reply.indexes : r.space = sid
    /\ pc \in {"batchAsked", "batchHalf", "batchServed", "batchLearned"} =>
          kind = "authenticate"

CacheInv ==
    /\ SchemaTypeOK
    /\ RowsUnique
    /\ KeysInContent
    /\ FreedIsOld
    /\ NoDanglingKeys
    /\ Paired
    /\ Resolved
    /\ LookupParses
-----------------------------------------------------------------------------
LEMMA KeysOfSpaceRow ==
    ASSUME NEW i \in SpaceIds
    PROVE  NumKey[i] \in Keys /\ i \in Ids
BY DEF Keys, Ids

LEMMA KeyOfInKeys ==
    ASSUME NEW x \in Names \union SpaceIds
    PROVE  KeyOf(x) \in Keys
BY DEF Keys, Ids, KeyOf

(***************************************************************************)
(* Of the rows of a response with one key there is a last one: the key is  *)
(* the name of one of them at most, and the number of one at most.         *)
(***************************************************************************)
LEMMA LastRow ==
    ASSUME NEW rows \in SUBSET SpaceRow, Unique(rows),
           NEW k, \E r \in rows : k \in KeysOf(r)
    PROVE  \E r \in rows : /\ k \in KeysOf(r)
                           /\ \A q \in rows : k \in KeysOf(q) => UpTo(q, r)
<1>1. PICK r \in rows : k \in KeysOf(r)
  OBVIOUS
<1>2. CASE \A q \in rows : k \in KeysOf(q) => UpTo(q, r)
  BY <1>1, <1>2
<1>3. CASE \E q \in rows : k \in KeysOf(q) /\ ~ UpTo(q, r)
  <2>1. PICK q \in rows : k \in KeysOf(q) /\ ~ UpTo(q, r)
    BY <1>3
  <2>2. r.number \in Nat /\ q.number \in Nat /\ q.number > r.number
    <3>1. r.number \in SpaceIds /\ q.number \in SpaceIds
      BY DEF SpaceRow
    <3>2. SpaceIds \subseteq Nat
      BY IdsAssumption
    <3>3. r.number \in Nat /\ q.number \in Nat
      BY <3>1, <3>2
    <3>4. ~ (q.number <= r.number)
      BY <2>1 DEF UpTo
    <3> QED
      BY <3>3, <3>4
  <2>3. ASSUME NEW p \in rows, k \in KeysOf(p)
        PROVE  p = q \/ p = r
    <3>1. \A a, b \in rows : NumKey[a.number] = NumKey[b.number] => a = b
      BY NumKeyAssumption DEF Unique, SpaceRow, Ids
    <3>2. \A a, b \in rows : a.name = b.name => a = b
      BY DEF Unique
    <3> QED
      BY <1>1, <2>1, <2>2, <2>3, <3>1, <3>2 DEF KeysOf
  <2>4. UpTo(q, q) /\ UpTo(r, q)
    BY <2>2 DEF UpTo
  <2> QED
    BY <2>1, <2>3, <2>4
<1> QED
  BY <1>2, <1>3

(***************************************************************************)
(* What AddSpaces leaves under a key: the older record, or that of a row   *)
(* that has the key.                                                       *)
(***************************************************************************)
LEMMA AddedUnderKey ==
    ASSUME SchemaTypeOK, NEW rows \in SUBSET SpaceRow, Unique(rows), AddSpaces(rows),
           NEW k \in Keys
    PROVE  \/ /\ space_hash'[k] = space_hash[k]
              /\ \A r \in rows : k \notin KeysOf(r)
           \/ \E r \in rows :
                 /\ k \in KeysOf(r)
                 /\ space_hash'[k] = [number |-> r.number, name |-> r.name, gen |-> gen + 1]
<1> DEFINE Last(r) == k \in KeysOf(r) /\ \A q \in rows : k \in KeysOf(q) => UpTo(q, r)
           Row == CHOOSE r \in rows : Last(r)
<1>1. CASE \E r \in rows : k \in KeysOf(r)
  <2>1. \E r \in rows : Last(r)
    BY <1>1, LastRow
  <2>2. Row \in rows /\ k \in KeysOf(Row)
    BY <2>1
  <2>3. space_hash'[k] = [number |-> Row.number, name |-> Row.name, gen |-> gen + 1]
    BY <1>1 DEF AddSpaces
  <2> QED
    BY <2>2, <2>3
<1>2. CASE ~ \E r \in rows : k \in KeysOf(r)
  BY <1>2 DEF AddSpaces
<1> QED
  BY <1>1, <1>2

LEMMA AddSpacesType ==
    ASSUME SchemaTypeOK, NEW rows \in SUBSET SpaceRow, Unique(rows), AddSpaces(rows)
    PROVE  /\ space_hash' \in [Keys -> Shared \union {Null}]
           /\ gen' \in Nat /\ gen' = gen + 1
           /\ index_hash' = index_hash /\ freed' = freed
<1>1. gen \in Nat /\ gen + 1 \in Nat
  BY DEF SchemaTypeOK
<1>2. ASSUME NEW k \in Keys
      PROVE  space_hash'[k] \in Shared \union {Null}
  <2>1. space_hash[k] \in Shared \union {Null}
    BY DEF SchemaTypeOK
  <2>2. ASSUME NEW r \in rows
        PROVE  [number |-> r.number, name |-> r.name, gen |-> gen + 1] \in Shared
    BY <1>1 DEF SpaceRow, Shared
  <2> QED
    BY <2>1, <2>2, AddedUnderKey
<1> DEFINE Under(k) ==
             IF \E r \in rows : k \in KeysOf(r)
             THEN LET r == CHOOSE r \in rows :
                             /\ k \in KeysOf(r)
                             /\ \A q \in rows : k \in KeysOf(q) => UpTo(q, r)
                  IN  [number |-> r.number, name |-> r.name, gen |-> gen + 1]
             ELSE space_hash[k]
<1>3. space_hash' = [k \in Keys |-> Under(k)]
  BY DEF AddSpaces
<1> HIDE DEF Under
<1>4. space_hash' \in [Keys -> Shared \union {Null}]
  BY <1>2, <1>3
<1> QED
  BY <1>1, <1>4 DEF AddSpaces

LEMMA AddSpacesKeeps ==
    ASSUME SchemaTypeOK, KeysInContent, FreedIsOld, NoDanglingKeys,
           NEW rows \in SUBSET SpaceRow, Unique(rows), AddSpaces(rows)
    PROVE  KeysInContent' /\ FreedIsOld' /\ NoDanglingKeys'
<1>1. gen \in Nat /\ gen' = gen + 1 /\ freed' = freed /\ freed \subseteq Shared
  BY AddSpacesType DEF SchemaTypeOK
<1>2. ASSUME NEW c \in freed
      PROVE  c # Null /\ c.gen \in Nat /\ c.gen <= gen
  BY <1>1 DEF FreedIsOld, Shared
<1>3. ASSUME NEW k \in Keys, space_hash'[k] # Null
      PROVE  /\ k \in KeysOf(space_hash'[k])
             /\ space_hash'[k].gen <= gen'
             /\ space_hash'[k] \notin freed
  <2>1. CASE space_hash'[k] = space_hash[k]
    <3>1. space_hash[k] \in Shared
      BY <1>3, <2>1 DEF SchemaTypeOK
    <3>2. space_hash[k].gen \in Nat
      BY <3>1 DEF Shared
    <3>3. k \in KeysOf(space_hash[k]) /\ space_hash[k].gen <= gen
      BY <1>3, <2>1 DEF KeysInContent
    <3> QED
      BY <1>1, <2>1, <3>2, <3>3 DEF NoDanglingKeys
  <2>2. CASE \E r \in rows :
                /\ k \in KeysOf(r)
                /\ space_hash'[k] = [number |-> r.number, name |-> r.name, gen |-> gen + 1]
    <3>1. space_hash'[k].gen = gen + 1 /\ k \in KeysOf(space_hash'[k])
      BY <2>2 DEF KeysOf
    <3>2. space_hash'[k] \notin freed
      BY <1>1, <1>2, <3>1
    <3> QED
      BY <1>1, <3>1, <3>2
  <2> QED
    BY <2>1, <2>2, AddedUnderKey
<1>4. KeysInContent'
  BY <1>3 DEF KeysInContent
<1>5. FreedIsOld'
  BY <1>1, <1>2 DEF FreedIsOld
<1>6. NoDanglingKeys'
  <2>1. Null \notin freed
    BY <1>2
  <2> QED
    BY <1>1, <1>3, <2>1 DEF NoDanglingKeys
<1> QED
  BY <1>4, <1>5, <1>6

(***************************************************************************)
(* Both records of a row are put, and what is put is never taken out.      *)
(***************************************************************************)
LEMMA AddSpacesPairs ==
    ASSUME SchemaTypeOK, PairedTable,
           NEW rows \in SUBSET SpaceRow, Unique(rows), AddSpaces(rows)
    PROVE  /\ PairedTable'
           /\ \A k \in Keys : space_hash[k] # Null => space_hash'[k] # Null
<1>1. ASSUME NEW k \in Keys, \E r \in rows : k \in KeysOf(r)
      PROVE  space_hash'[k] # Null
  <2>1. PICK r \in rows :
           space_hash'[k] = [number |-> r.number, name |-> r.name, gen |-> gen + 1]
    BY <1>1, AddedUnderKey
  <2>2. space_hash'[k] \in Shared
    BY <2>1, AddSpacesType DEF SpaceRow, Shared
  <2> QED
    BY <2>2, NullAssumption
<1>2. \A k \in Keys : space_hash[k] # Null => space_hash'[k] # Null
  BY <1>1, AddedUnderKey
<1>3. ASSUME NEW k \in Keys, space_hash'[k] # Null
      PROVE  space_hash'[NumKey[space_hash'[k].number]] # Null
  <2>1. CASE space_hash'[k] = space_hash[k]
    <3>1. space_hash[k].number \in SpaceIds
      BY <1>3, <2>1 DEF SchemaTypeOK, Shared
    <3>2. space_hash[NumKey[space_hash[k].number]] # Null
      BY <1>3, <2>1 DEF PairedTable
    <3> QED
      BY <1>2, <2>1, <3>1, <3>2, KeysOfSpaceRow
  <2>2. CASE \E r \in rows :
                space_hash'[k] = [number |-> r.number, name |-> r.name, gen |-> gen + 1]
    <3>1. PICK r \in rows :
             space_hash'[k] = [number |-> r.number, name |-> r.name, gen |-> gen + 1]
      BY <2>2
    <3>2. NumKey[r.number] \in Keys /\ NumKey[r.number] \in KeysOf(r)
      BY KeysOfSpaceRow DEF SpaceRow, KeysOf
    <3> QED
      BY <1>1, <3>1, <3>2
  <2> QED
    BY <2>1, <2>2, AddedUnderKey
<1> QED
  BY <1>2, <1>3 DEF PairedTable

(***************************************************************************)
(* No row without a space is added.                                        *)
(***************************************************************************)
LEMMA AddIndexesType ==
    ASSUME SchemaTypeOK, NEW rows \in SUBSET IndexRow, AddIndexes(rows)
    PROVE  index_hash' \subseteq IndexRecord
<1> DEFINE added == {r \in rows : \A h \in Homeless(rows) : ~ UpToIndex(h, r)}
<1>1. ASSUME NEW r \in added
      PROVE  /\ Home(r) \in Shared
             /\ r.number \in IndexIds
             /\ KeysOf(r) \subseteq Keys
  <2>1. r \in IndexRow
    OBVIOUS
  <2>2. r.space \in SpaceIds /\ r.number \in IndexIds /\ r.name \in Names
    BY <2>1 DEF IndexRow
  <2>3. r.number \in Nat
    BY <2>2, IdsAssumption
  <2>4. UpToIndex(r, r)
    BY <2>3 DEF UpToIndex
  <2>5. Home(r) # Null
    BY <2>4 DEF Homeless
  <2>6. Home(r) \in Shared \union {Null}
    BY <2>2, KeysOfSpaceRow DEF Home, SchemaTypeOK
  <2> QED
    BY <2>2, <2>5, <2>6 DEF KeysOf, Keys, Ids
<1> HIDE DEF added
<1>2. ASSUME NEW r \in added, NEW k \in KeysOf(r)
      PROVE  [of |-> Home(r), key |-> k, number |-> r.number] \in IndexRecord
  BY <1>1 DEF IndexRecord
<1>3. index_hash' = WithIndexes(added)
  BY DEF AddIndexes, added
<1>4. ASSUME NEW e \in index_hash'
      PROVE  \/ e \in index_hash
             \/ \E r \in added : \E k \in KeysOf(r) :
                   e = [of |-> Home(r), key |-> k, number |-> r.number]
  BY <1>3 DEF WithIndexes
<1> QED
  BY <1>2, <1>4 DEF SchemaTypeOK

(***************************************************************************)
(* A turn of the flush: the content it frees has all its records taken     *)
(* out, and what another record shares was not freed before.               *)
(***************************************************************************)
LEMMA FreeRecordKeeps ==
    ASSUME SchemaTypeOK, KeysInContent, FreedIsOld, NoDanglingKeys,
           NEW k \in Keys, FreeRecord(k)
    PROVE  /\ space_hash' \in [Keys -> Shared \union {Null}]
           /\ index_hash' \subseteq IndexRecord
           /\ gen' = gen
           /\ freed' \subseteq Shared
           /\ KeysInContent' /\ FreedIsOld' /\ NoDanglingKeys'
<1> DEFINE c == space_hash[k]
<1>1. c # Null /\ gen' = gen /\ freed' = freed \union {c}
  BY DEF FreeRecord
<1>2. c \in Shared
  BY <1>1 DEF SchemaTypeOK
<1>3. ASSUME NEW j \in Keys
      PROVE  space_hash'[j] = IF j \in KeysOf(c) THEN Null ELSE space_hash[j]
  BY DEF FreeRecord
<1>4. ASSUME NEW j \in Keys, space_hash'[j] # Null
      PROVE  /\ space_hash'[j] = space_hash[j]
             /\ j \in KeysOf(space_hash[j]) /\ space_hash[j].gen <= gen
             /\ space_hash[j] # c
  BY <1>3, <1>4 DEF KeysInContent
<1>5. space_hash' \in [Keys -> Shared \union {Null}]
  <2>1. space_hash' = [j \in Keys |-> IF j \in KeysOf(c) THEN Null ELSE space_hash[j]]
    BY DEF FreeRecord
  <2> QED
    BY <2>1 DEF SchemaTypeOK
<1>6. index_hash' \subseteq IndexRecord /\ freed' \subseteq Shared
  BY <1>1, <1>2 DEF FreeRecord, SchemaTypeOK
<1>7. KeysInContent'
  BY <1>1, <1>4 DEF KeysInContent
<1>8. FreedIsOld'
  BY <1>1 DEF FreedIsOld, KeysInContent
<1>9. NoDanglingKeys'
  <2>1. Null \notin freed'
    BY <1>1, <1>2, NullAssumption DEF FreedIsOld
  <2>2. ASSUME NEW j \in Keys, space_hash'[j] # Null
        PROVE  space_hash'[j] \notin freed'
    BY <1>1, <1>4, <2>2 DEF NoDanglingKeys
  <2> QED
    BY <2>1, <2>2 DEF NoDanglingKeys
<1> QED
  BY <1>1, <1>5, <1>6, <1>7, <1>8, <1>9
-----------------------------------------------------------------------------
(***************************************************************************)
(* The parts of CacheInv a step leaves alone.                              *)
(***************************************************************************)
LEMMA TableStays ==
    ASSUME CacheInv, UNCHANGED cacheVars
    PROVE  /\ KeysInContent' /\ FreedIsOld' /\ NoDanglingKeys'
           /\ space_hash' \in [Keys -> Shared \union {Null}]
           /\ index_hash' \subseteq IndexRecord
           /\ gen' \in Nat /\ freed' \subseteq Shared
           /\ PairedTable => PairedTable'
BY DEF CacheInv, SchemaTypeOK, KeysInContent, FreedIsOld, NoDanglingKeys, PairedTable, cacheVars

LEMMA ServerStays ==
    ASSUME CacheInv, UNCHANGED <<serverVars, historyVars>>
    PROVE  /\ spaces' \in [SpaceIds -> Names \union {Null}]
           /\ indexes' \in [SpaceIds -> [IndexIds -> Names \union {Null}]]
           /\ ddl' \in Nat /\ seen' \subseteq SpaceRow \union IndexRow /\ flushedAt' \in Nat
           /\ Distinct(spaces)'
BY DEF CacheInv, SchemaTypeOK, RowsUnique, Distinct, serverVars, historyVars

LEMMA NoRowsUnique ==
    /\ NoRows \in [spaces : SUBSET SpaceRow, indexes : SUBSET IndexRow]
    /\ Unique(NoRows.spaces)
BY DEF NoRows, Unique

LEMMA InitInv ==
    ASSUME Init
    PROVE  CacheInv
<1>1. SchemaTypeOK
  <2>1. SpaceRows \union IndexRows \subseteq SpaceRow \union IndexRow
    BY DEF SpaceRows, IndexRows
  <2> QED
    BY <2>1, NoRowsUnique DEF Init, SchemaTypeOK, Waits, Served
<1>2. RowsUnique
  BY NoRowsUnique DEF Init, RowsUnique
<1> QED
  BY <1>1, <1>2
  DEF Init, CacheInv, KeysInContent, FreedIsOld, NoDanglingKeys, Paired, PairedTable,
      Resolved, LookupParses

LEMMA StartKeeps ==
    ASSUME CacheInv, StartLookup \/ StartField \/ StartFlush
    PROVE  CacheInv'
<1>1. PICK k \in {"lookup", "field", "authenticate", "flush"},
           where \in {"space", "flush"},
           x \in Names \union SpaceIds \union {Null}, y \in Names \union {Null} :
        /\ Start(k, where, x, y)
        /\ where = "space" => x # Null
  BY NullAssumption DEF StartLookup, StartField, StartFlush, Ids
<1>2. UNCHANGED <<serverVars, historyVars>>
  BY <1>1 DEF Start
<1>3. UNCHANGED <<space_hash, index_hash, gen>> /\ (freed' = freed \/ freed' = {})
  BY DEF StartLookup, StartField, StartFlush, cacheVars
<1>4. SchemaTypeOK'
  BY <1>1, <1>2, <1>3, ServerStays, NoRowsUnique
  DEF CacheInv, SchemaTypeOK, Start, Waits, Served
<1>5. RowsUnique'
  BY <1>1, <1>2, ServerStays, NoRowsUnique DEF Start, RowsUnique
<1>6. KeysInContent' /\ FreedIsOld' /\ NoDanglingKeys'
  BY <1>3 DEF CacheInv, KeysInContent, FreedIsOld, NoDanglingKeys
<1>7. Paired'
  BY <1>1, <1>3 DEF CacheInv, Paired, PairedTable, Start, StartFlush
<1>8. Resolved' /\ LookupParses'
  BY <1>1 DEF Start, Resolved, LookupParses
<1> QED
  BY <1>4, <1>5, <1>6, <1>7, <1>8 DEF CacheInv

(***************************************************************************)
(* The steps of a call that read the schema and leave it alone.            *)
(***************************************************************************)
LEMMA ReadKeeps ==
    ASSUME CacheInv,
           SpaceHit \/ SpaceMiss \/ IndexHit \/ IndexMiss \/ FieldHit \/ FieldMiss
    PROVE  CacheInv'
<1>1. /\ UNCHANGED cacheVars /\ UNCHANGED <<serverVars, historyVars>>
      /\ UNCHANGED <<calls, kind, space, index>>
      /\ reply' \in {reply, NoRows}
      /\ outcome' \in {outcome, "ok"}
      /\ pc \notin {"flush", "batchAsked", "batchHalf", "batchServed", "batchLearned"}
      /\ pc' \in {"idle", "index", "spaceAsked", "indexAsked", "fieldAsked"}
      /\ pc' = "spaceAsked" => pc = "space"
      /\ pc' = "indexAsked" => pc = "index"
      /\ pc' # "index" => sid' = sid
  BY DEF SpaceHit, SpaceMiss, IndexHit, IndexMiss, FieldHit, FieldMiss, Return, GoTo
<1>2. ASSUME pc' = "index"
      PROVE  sid' \in SpaceIds /\ space_hash[NumKey[sid']] # Null
  <2>1. /\ pc = "space" /\ space_hash[KeyOf(space)] # Null
        /\ sid' = space_hash[KeyOf(space)].number
    BY <1>1, <1>2 DEF SpaceHit, SpaceMiss, IndexHit, IndexMiss, FieldHit, FieldMiss, Return, GoTo
  <2>2. KeyOf(space) \in Keys
    BY <2>1, KeyOfInKeys DEF CacheInv, Resolved, SchemaTypeOK
  <2>3. space_hash[KeyOf(space)] \in Shared /\ PairedTable
    BY <2>1, <2>2 DEF CacheInv, SchemaTypeOK, Paired
  <2> QED
    BY <2>1, <2>2, <2>3 DEF Shared, PairedTable
<1>3. sid' \in SpaceIds \union {Null}
  BY <1>1, <1>2 DEF CacheInv, SchemaTypeOK
<1>4. SchemaTypeOK'
  BY <1>1, <1>3, TableStays, ServerStays, NoRowsUnique DEF CacheInv, SchemaTypeOK, Waits, Served
<1>5. RowsUnique'
  BY <1>1, ServerStays, NoRowsUnique DEF CacheInv, RowsUnique
<1>6. Paired'
  BY <1>1, TableStays DEF CacheInv, Paired
<1>7. Resolved'
  <2>1. UNCHANGED space_hash
    BY <1>1 DEF cacheVars
  <2>2. pc' = "index" => sid' # Null
    BY <1>2, NullAssumption DEF Ids
  <2>3. pc' = "indexAsked" => sid' # Null /\ space_hash'[NumKey[sid']] # Null
    BY <1>1, <2>1 DEF CacheInv, Resolved
  <2>4. pc' = "spaceAsked" => space' # Null
    BY <1>1 DEF CacheInv, Resolved
  <2> QED
    BY <1>1, <1>2, <2>1, <2>2, <2>3, <2>4 DEF Resolved
<1>8. LookupParses'
  BY <1>1 DEF CacheInv, LookupParses
<1> QED
  BY <1>1, <1>4, <1>5, <1>6, <1>7, <1>8, TableStays DEF CacheInv

(***************************************************************************)
(* The steps that add the rows of a response to the table of the spaces.   *)
(***************************************************************************)
LEMMA LearnSpacesKeeps ==
    ASSUME CacheInv, LearnSpace \/ LearnField \/ LearnSpaces
    PROVE  CacheInv'
<1>1. /\ AddSpaces(reply.spaces) /\ UNCHANGED <<serverVars, historyVars>>
      /\ UNCHANGED <<calls, kind, space, index>>
      /\ reply' \in {reply, NoRows}
      /\ outcome' \in {outcome, "ok", "undefined"}
      /\ pc \in {"spaceServed", "fieldServed", "batchServed"}
      /\ pc' \in {"idle", "index", "batchLearned"}
      /\ pc' = "batchLearned" => pc = "batchServed"
      /\ pc' # "index" => sid' = sid
      /\ pc' = "index" => /\ pc = "spaceServed" /\ space_hash'[KeyOf(space)] # Null
                          /\ sid' = space_hash'[KeyOf(space)].number
  BY DEF LearnSpace, LearnField, LearnSpaces, Return, GoTo
<1>2. /\ reply.spaces \in SUBSET SpaceRow /\ Unique(reply.spaces)
      /\ SchemaTypeOK /\ KeysInContent /\ FreedIsOld /\ NoDanglingKeys
      /\ PairedTable
  BY <1>1 DEF CacheInv, SchemaTypeOK, RowsUnique, Paired
<1>3. /\ space_hash' \in [Keys -> Shared \union {Null}]
      /\ gen' \in Nat /\ index_hash' = index_hash /\ freed' = freed
  BY <1>1, <1>2, AddSpacesType
<1>4. KeysInContent' /\ FreedIsOld' /\ NoDanglingKeys'
  BY <1>1, <1>2, AddSpacesKeeps
<1>5. PairedTable'
  BY <1>1, <1>2, AddSpacesPairs
<1>6. ASSUME pc' = "index"
      PROVE  sid' \in SpaceIds /\ space_hash'[NumKey[sid']] # Null
  <2>1. KeyOf(space) \in Keys
    BY <1>1, <1>6, KeyOfInKeys DEF CacheInv, Resolved, SchemaTypeOK
  <2>2. space_hash'[KeyOf(space)] \in Shared
    BY <1>1, <1>3, <1>6, <2>1
  <2> QED
    BY <1>1, <1>5, <1>6, <2>1, <2>2 DEF Shared, PairedTable
<1>7. SchemaTypeOK'
  <2>1. sid' \in SpaceIds \union {Null}
    BY <1>1, <1>6 DEF CacheInv, SchemaTypeOK
  <2> QED
    BY <1>1, <1>2, <1>3, <2>1, ServerStays, NoRowsUnique DEF SchemaTypeOK, Waits, Served
<1>8. RowsUnique'
  BY <1>1, ServerStays, NoRowsUnique DEF CacheInv, RowsUnique
<1>9. Resolved'
  <2>1. pc' = "index" => sid' # Null
    BY <1>6, NullAssumption DEF Ids
  <2> QED
    BY <1>1, <1>6, <2>1 DEF CacheInv, Resolved
<1>10. LookupParses'
  BY <1>1 DEF CacheInv, LookupParses
<1> QED
  BY <1>4, <1>5, <1>7, <1>8, <1>9, <1>10 DEF CacheInv, Paired

(***************************************************************************)
(* The steps that add the rows of a response to the tables of indexes.     *)
(***************************************************************************)
LEMMA LearnIndexesKeeps ==
    ASSUME CacheInv, LearnIndex \/ LearnIndexes
    PROVE  CacheInv'
<1>1. /\ AddIndexes(reply.indexes) /\ UNCHANGED <<serverVars, historyVars>>
      /\ UNCHANGED <<calls, kind, space, index, sid, space_hash, gen, freed>>
      /\ reply' = NoRows /\ pc' = "idle"
      /\ outcome' \in {"ok", "undefined", "parse"}
      /\ pc \in {"indexServed", "batchLearned"}
      /\ outcome' = "parse" => Homeless(reply.indexes) # {}
  BY DEF LearnIndex, LearnIndexes, Return
<1>2. reply.indexes \in SUBSET IndexRow /\ SchemaTypeOK
  BY DEF CacheInv, SchemaTypeOK
<1>3. index_hash' \subseteq IndexRecord
  BY <1>1, <1>2, AddIndexesType
<1>4. SchemaTypeOK'
  BY <1>1, <1>2, <1>3, ServerStays, NoRowsUnique DEF SchemaTypeOK
<1>5. RowsUnique'
  BY <1>1, ServerStays, NoRowsUnique DEF RowsUnique
<1>6. KeysInContent' /\ FreedIsOld' /\ NoDanglingKeys' /\ Paired'
  BY <1>1
  DEF CacheInv, KeysInContent, FreedIsOld, NoDanglingKeys, Paired, PairedTable
<1>7. Resolved'
  BY <1>1 DEF Resolved
<1>8. LookupParses'
  <2>1. CASE pc = "indexServed"
    <3>1. Homeless(reply.indexes) = {}
      BY <2>1 DEF CacheInv, Resolved, Homeless, Home
    <3> QED
      BY <1>1, <3>1 DEF LookupParses
  <2>2. CASE pc = "batchLearned"
    BY <1>1, <2>2 DEF CacheInv, Resolved, LookupParses
  <2> QED
    BY <1>1, <2>1, <2>2
<1> QED
  BY <1>4, <1>5, <1>6, <1>7, <1>8 DEF CacheInv

LEMMA FlushKeeps ==
    ASSUME CacheInv, FlushTurn \/ FlushDone
    PROVE  CacheInv'
<1>1. CASE FlushTurn
  <2>1. PICK k \in Keys : FreeRecord(k)
    BY <1>1 DEF FlushTurn
  <2>2. pc = "flush" /\ UNCHANGED callVars /\ UNCHANGED <<serverVars, historyVars>>
    BY <1>1 DEF FlushTurn
  <2>3. /\ space_hash' \in [Keys -> Shared \union {Null}]
        /\ index_hash' \subseteq IndexRecord /\ gen' = gen /\ freed' \subseteq Shared
        /\ KeysInContent' /\ FreedIsOld' /\ NoDanglingKeys'
    BY <2>1, FreeRecordKeeps DEF CacheInv
  <2>4. SchemaTypeOK'
    BY <2>2, <2>3, ServerStays DEF CacheInv, SchemaTypeOK, callVars
  <2> QED
    BY <2>2, <2>3, <2>4, ServerStays
    DEF CacheInv, RowsUnique, Paired, Resolved, LookupParses, callVars
<1>2. CASE FlushDone
  <2>1. /\ UNCHANGED <<calls, kind, space, index, sid, reply>>
        /\ UNCHANGED cacheVars /\ UNCHANGED serverVars
        /\ seen' = SpaceRows \union IndexRows /\ flushedAt' = ddl
        /\ outcome' \in {outcome, "ok"}
        /\ pc' \in {"idle", "batchAsked"}
        /\ pc' = "batchAsked" => kind = "authenticate"
        /\ \A k \in Keys : space_hash[k] = Null
    BY <1>2 DEF FlushDone
  <2>2. SchemaTypeOK'
    <3>1. seen' \subseteq SpaceRow \union IndexRow
      BY <2>1 DEF SpaceRows, IndexRows
    <3> QED
      BY <2>1, <3>1, TableStays DEF CacheInv, SchemaTypeOK, Waits, Served, serverVars
  <2>3. RowsUnique'
    BY <2>1 DEF CacheInv, RowsUnique, Distinct, serverVars
  <2>4. Paired'
    BY <2>1 DEF Paired, PairedTable, cacheVars
  <2>5. Resolved' /\ LookupParses'
    BY <2>1 DEF CacheInv, Resolved, LookupParses
  <2> QED
    BY <2>1, <2>2, <2>3, <2>4, <2>5, TableStays DEF CacheInv
<1> QED
  BY <1>1, <1>2

(***************************************************************************)
(* The server answers a select: no two of its spaces have one name.        *)
(***************************************************************************)
LEMMA ServeKeeps ==
    ASSUME CacheInv, Server
    PROVE  CacheInv'
<1> DEFINE Reply == [spaces : SUBSET SpaceRow, indexes : SUBSET IndexRow]
<1>1. Unique(SpaceRows) /\ SpaceRows \subseteq SpaceRow /\ IndexRows \subseteq IndexRow
  <2>1. SpaceRows \subseteq SpaceRow /\ IndexRows \subseteq IndexRow
    BY DEF SpaceRows, IndexRows
  <2>2. ASSUME NEW q \in SpaceRows, NEW r \in SpaceRows,
               q.number = r.number \/ q.name = r.name
        PROVE  q = r
    <3>1. /\ q \in SpaceRow /\ r \in SpaceRow
          /\ spaces[q.number] = q.name /\ spaces[r.number] = r.name
      BY DEF SpaceRows
    <3>2. q.number \in SpaceIds /\ r.number \in SpaceIds /\ q.name # Null
      BY <3>1, NullAssumption DEF SpaceRow
    <3>3. DOMAIN spaces = SpaceIds /\ Distinct(spaces)
      BY DEF CacheInv, SchemaTypeOK, RowsUnique
    <3>4. q.number = r.number /\ q.name = r.name
      BY <2>2, <3>1, <3>2, <3>3 DEF Distinct
    <3> QED
      BY <3>1, <3>4 DEF SpaceRow
  <2> QED
    BY <2>1, <2>2 DEF Unique
<1>2. PICK asked \in Waits, served \in (Waits \union Served), rows \in Reply :
        /\ Serve(asked, served, rows)
        /\ Unique(rows.spaces)
        /\ served = "indexServed" =>
              asked = "indexAsked" /\ \A r \in rows.indexes : r.space = sid
        /\ served = "spaceServed" => asked = "spaceAsked"
        /\ served \in {"batchHalf", "batchServed"} => asked \in {"batchAsked", "batchHalf"}
        /\ served \notin {"spaceAsked", "indexAsked", "fieldAsked", "batchAsked", "batchLearned"}
  <2>1. CASE ServeSpace
    <3> DEFINE rows == [NoRows EXCEPT !.spaces = {r \in SpaceRows : space \in {r.name, r.number}}]
    <3>1. rows \in Reply /\ Unique(rows.spaces)
      BY <1>1 DEF NoRows, Unique
    <3>2. Serve("spaceAsked", "spaceServed", rows)
      BY <2>1 DEF ServeSpace
    <3> HIDE DEF rows
    <3> QED
      BY <3>1, <3>2 DEF Waits, Served
  <2>2. CASE ServeIndex
    <3> DEFINE rows == [NoRows EXCEPT !.indexes = {r \in IndexRows : r.space = sid /\ r.name = index}]
    <3>1. rows \in Reply /\ Unique(rows.spaces)
      BY <1>1 DEF NoRows, Unique
    <3>2. Serve("indexAsked", "indexServed", rows)
      BY <2>2 DEF ServeIndex
    <3> QED
      BY <3>1, <3>2 DEF Waits, Served, NoRows
  <2>3. CASE ServeField
    <3> DEFINE rows == [NoRows EXCEPT !.spaces = {r \in SpaceRows : r.name = index}]
    <3>1. rows \in Reply /\ Unique(rows.spaces)
      BY <1>1 DEF NoRows, Unique
    <3>2. Serve("fieldAsked", "fieldServed", rows)
      BY <2>3 DEF ServeField
    <3> HIDE DEF rows
    <3> QED
      BY <3>1, <3>2 DEF Waits, Served
  <2>4. CASE ServeSpaces
    <3> DEFINE rows == [NoRows EXCEPT !.spaces = FirstSpaces]
    <3>1. rows \in Reply /\ Unique(rows.spaces)
      BY <1>1 DEF NoRows, Unique, FirstSpaces, FirstIndexes, CacheInv, SchemaTypeOK, RowsUnique
    <3>2. Serve("batchAsked", "batchHalf", rows)
      BY <2>4 DEF ServeSpaces
    <3> HIDE DEF rows
    <3> QED
      BY <3>1, <3>2 DEF Waits, Served
  <2>5. CASE ServeIndexes
    <3> DEFINE rows == [reply EXCEPT !.indexes = FirstIndexes]
    <3>1. rows \in Reply /\ Unique(rows.spaces)
      BY <1>1 DEF NoRows, Unique, FirstSpaces, FirstIndexes, CacheInv, SchemaTypeOK, RowsUnique
    <3>2. Serve("batchHalf", "batchServed", rows)
      BY <2>5 DEF ServeIndexes
    <3> HIDE DEF rows
    <3> QED
      BY <3>1, <3>2 DEF Waits, Served
  <2> QED
    BY <2>1, <2>2, <2>3, <2>4, <2>5 DEF Server
<1>3. /\ UNCHANGED <<serverVars, historyVars>> /\ UNCHANGED cacheVars
      /\ UNCHANGED <<calls, kind, space, index, sid, outcome>>
      /\ pc \in Waits /\ pc = asked /\ pc' = served /\ reply' = rows
  BY <1>2 DEF Serve, GoTo
<1>4. SchemaTypeOK'
  BY <1>2, <1>3, ServerStays, TableStays DEF CacheInv, SchemaTypeOK
<1>5. RowsUnique'
  BY <1>2, <1>3, ServerStays DEF RowsUnique
<1>6. Paired'
  BY <1>2, <1>3, TableStays DEF CacheInv, Paired, Waits
<1>7. UNCHANGED space_hash
  BY <1>3 DEF cacheVars
<1>8. Resolved' /\ LookupParses'
  BY <1>2, <1>3, <1>7 DEF CacheInv, Resolved, LookupParses, Waits, Served
<1> QED
  BY <1>3, <1>4, <1>5, <1>6, <1>8, TableStays DEF CacheInv

(***************************************************************************)
(* A change of the definitions keeps the names of the spaces apart.        *)
(***************************************************************************)
LEMMA DDLKeeps ==
    ASSUME CacheInv, DDL
    PROVE  CacheInv'
<1>1. PICK i \in SpaceIds :
        \/ \E n \in Names : PutSpace(i, n)
        \/ DropSpace(i)
        \/ \E j \in IndexIds, n \in Names : PutIndex(i, j, n)
        \/ \E j \in IndexIds : DropIndex(i, j)
  BY DEF DDL
<1>2. PICK now \in SUBSET (SpaceRow \union IndexRow) : Change(now)
  <2>1. ASSUME NEW n \in Names, PutSpace(i, n)
        PROVE  \E now \in SUBSET (SpaceRow \union IndexRow) : Change(now)
    <3>1. [number |-> i, name |-> n] \in SpaceRow
      BY DEF SpaceRow
    <3> QED
      BY <2>1, <3>1 DEF PutSpace
  <2>2. ASSUME NEW j \in IndexIds, NEW n \in Names, PutIndex(i, j, n)
        PROVE  \E now \in SUBSET (SpaceRow \union IndexRow) : Change(now)
    <3>1. [space |-> i, number |-> j, name |-> n] \in IndexRow
      BY DEF IndexRow
    <3> QED
      BY <2>2, <3>1 DEF PutIndex
  <2> QED
    BY <1>1, <2>1, <2>2 DEF DropSpace, DropIndex
<1>3. /\ UNCHANGED callVars /\ UNCHANGED cacheVars /\ UNCHANGED flushedAt
      /\ ddl' = ddl + 1 /\ seen' = seen \union now
  BY <1>2 DEF Change
<1>4. /\ spaces' \in [SpaceIds -> Names \union {Null}]
      /\ Distinct(spaces)'
  <2>1. CASE UNCHANGED spaces
    BY <2>1 DEF CacheInv, SchemaTypeOK, RowsUnique, Distinct
  <2>2. CASE \E n \in Names : PutSpace(i, n)
    BY <2>2 DEF CacheInv, SchemaTypeOK, RowsUnique, Distinct, PutSpace
  <2>3. CASE DropSpace(i)
    BY <2>3 DEF CacheInv, SchemaTypeOK, RowsUnique, Distinct, DropSpace
  <2> QED
    BY <1>1, <2>1, <2>2, <2>3 DEF PutIndex, DropIndex
<1>5. indexes' \in [SpaceIds -> [IndexIds -> Names \union {Null}]]
  <2>1. indexes \in [SpaceIds -> [IndexIds -> Names \union {Null}]]
    BY DEF CacheInv, SchemaTypeOK
  <2>2. ASSUME NEW j \in IndexIds, NEW n \in Names \union {Null},
               indexes' = [indexes EXCEPT ![i][j] = n]
        PROVE  indexes' \in [SpaceIds -> [IndexIds -> Names \union {Null}]]
    <3>1. indexes' = [indexes EXCEPT ![i] = [indexes[i] EXCEPT ![j] = n]]
      BY <2>2
    <3>2. [indexes[i] EXCEPT ![j] = n] \in [IndexIds -> Names \union {Null}]
      BY <2>1
    <3> QED
      BY <2>1, <3>1, <3>2
  <2> QED
    BY <1>1, <2>1, <2>2 DEF PutSpace, DropSpace, PutIndex, DropIndex
<1>6. SchemaTypeOK'
  BY <1>2, <1>3, <1>4, <1>5, TableStays DEF CacheInv, SchemaTypeOK, callVars
<1>7. RowsUnique'
  BY <1>3, <1>4 DEF CacheInv, RowsUnique, callVars
<1>8. Paired' /\ Resolved' /\ LookupParses'
  BY <1>3, TableStays DEF CacheInv, Paired, Resolved, LookupParses, callVars, cacheVars
<1> QED
  BY <1>3, <1>6, <1>7, <1>8, TableStays DEF CacheInv

LEMMA StutterKeeps ==
    ASSUME CacheInv, UNCHANGED vars
    PROVE  CacheInv'
BY DEF CacheInv, SchemaTypeOK, RowsUnique, Distinct, KeysInContent, FreedIsOld,
       NoDanglingKeys, Paired, PairedTable, Resolved, LookupParses,
       vars, serverVars, callVars, cacheVars, historyVars

LEMMA StepKeeps ==
    ASSUME CacheInv, [Next]_vars
    PROVE  CacheInv'
BY StartKeeps, ReadKeeps, LearnSpacesKeeps, LearnIndexesKeeps, FlushKeeps, ServeKeeps,
   DDLKeeps, StutterKeeps
   DEF Next, Extension, Finished
-----------------------------------------------------------------------------
(***************************************************************************)
(* CacheInv holds in every reachable state.                                *)
(***************************************************************************)
THEOREM CacheInvariant == Spec => []CacheInv
<1>1. Init => CacheInv
  BY InitInv
<1>2. CacheInv /\ [Next]_vars => CacheInv'
  BY StepKeeps
<1> QED
  BY <1>1, <1>2, PTL DEF Spec

(***************************************************************************)
(* Every variable keeps its type: in particular no index is added to the   *)
(* table of a space that has no record.                                    *)
(***************************************************************************)
THEOREM SchemaTypeCorrect == Spec => []SchemaTypeOK
<1>1. CacheInv => SchemaTypeOK
  BY DEF CacheInv
<1> QED
  BY <1>1, CacheInvariant, PTL

(***************************************************************************)
(* A flush frees nothing twice and leaves nothing that was freed in the    *)
(* table, whatever names and numbers the server's definitions gave to its  *)
(* spaces in between, a name with the bytes of a number included.          *)
(***************************************************************************)
THEOREM NothingDangles == Spec => []NoDanglingKeys
<1>1. CacheInv => NoDanglingKeys
  BY DEF CacheInv
<1> QED
  BY <1>1, CacheInvariant, PTL

(***************************************************************************)
(* The space of every index a lookup adds has a record.                    *)
(***************************************************************************)
THEOREM LookupsParse == Spec => []LookupParses
<1>1. CacheInv => LookupParses
  BY DEF CacheInv
<1> QED
  BY <1>1, CacheInvariant, PTL
=============================================================================
