------------------------------ MODULE SchemaCache ------------------------------
(***************************************************************************)
(* The schema an object keeps of the server's spaces and indexes           *)
(* (src/src/tarantool_schema.c), how methods fill it and read it           *)
(* (get_spaceno_by_name, get_indexno_by_name, get_fieldno_by_name and      *)
(* __tarantool_authenticate in src/src/tarantool.c), and how it is freed.  *)
(*                                                                         *)
(* The server's definitions change while the extension waits for a         *)
(* response, and between two calls.  The stream is left to                 *)
(* TarantoolConnection: here every request is answered.                    *)
(*                                                                         *)
(* A row of _vspace becomes two records of space_hash, one under the name  *)
(* and one under the four bytes of the number.  The two share what they    *)
(* point to: the name, the format and the table of the indexes.  A shared  *)
(* part is identified by the row and the response that brought it.         *)
(***************************************************************************)
EXTENDS Integers, FiniteSets

CONSTANTS
    SpaceIds,  \* numbers of spaces
    IndexIds,  \* numbers of the indexes of a space
    Names,     \* names of spaces and indexes, and of fields looked up
    NumKey,    \* NumKey[i]: the string of bytes the number i is stored as
    Limit,     \* rows a select of the batch asks for (4096 in the build)
    Null,      \* not an id, not a name
    MaxCalls,  \* bound: API calls the script makes
    MaxDDL     \* bound: changes of the server's definitions

Ids == SpaceIds \union IndexIds
Keys == Names \union {NumKey[i] : i \in Ids}

ASSUME IdsAssumption == SpaceIds \subseteq Nat /\ IndexIds \subseteq Nat
ASSUME FiniteIdsAssumption == IsFiniteSet(SpaceIds) /\ IsFiniteSet(IndexIds)  \* uint32_t
ASSUME NamesAssumption == Names \intersect Ids = {}
ASSUME NumKeyAssumption ==
    /\ DOMAIN NumKey = Ids
    /\ \A i, j \in Ids : NumKey[i] = NumKey[j] => i = j
ASSUME LimitAssumption == Limit \in Nat \ {0}
ASSUME SchemaBoundsAssumption == MaxCalls \in Nat /\ MaxDDL \in Nat

VARIABLES
    \* the server
    spaces,      \* spaces[i]: the name of space i, or Null
    indexes,     \* indexes[i][j]: the name of index j of space i, or Null
    ddl,         \* changes so far
    \* the extension
    calls,       \* API calls started
    kind,        \* the last one: "lookup", "field", "authenticate", "flush"
    pc,          \* where it is
    space,       \* the space it was given, by name or number
    index,       \* the name of the index it was given, or Null
    sid,         \* space_no
    reply,       \* the rows of the response it waits for
    outcome,     \* how it ended
    space_hash,  \* space_hash[k]: the shared part of the record under key k
    index_hash,  \* the records of all index tables
    gen,         \* responses added to the schema
    \* what the properties need to know
    freed,       \* shared parts freed since the last flush began
    seen,        \* definitions the server had at some time since the last flush
    flushedAt    \* changes at the end of the last flush

serverVars == <<spaces, indexes, ddl>>
callVars == <<calls, kind, pc, space, index, sid, reply, outcome>>
cacheVars == <<space_hash, index_hash, gen, freed>>
historyVars == <<seen, flushedAt>>
vars == <<serverVars, callVars, cacheVars, historyVars>>

SpaceRow == [number : SpaceIds, name : Names]
IndexRow == [space : SpaceIds, number : IndexIds, name : Names]

(***************************************************************************)
(* What the string and the number record of a row share, and a record of   *)
(* the table of the indexes it owns.                                       *)
(***************************************************************************)
Shared == [number : SpaceIds, name : Names, gen : Nat]
IndexRecord == [of : Shared, key : Keys, number : IndexIds]

ASSUME NullAssumption == Null \notin Ids \union Names /\ Null \notin Shared

SpaceRows == {r \in SpaceRow : spaces[r.number] = r.name}
IndexRows == {r \in IndexRow : indexes[r.space][r.number] = r.name}

NoRows == [spaces |-> {}, indexes |-> {}]

Waits == {"spaceAsked", "indexAsked", "fieldAsked", "batchAsked", "batchHalf"}
Served == {"spaceServed", "indexServed", "fieldServed", "batchServed", "batchLearned"}

(***************************************************************************)
(* The definitions are the server's, the records those of responses that   *)
(* were added.                                                             *)
(***************************************************************************)
SchemaTypeOK ==
    /\ spaces \in [SpaceIds -> Names \union {Null}]
    /\ indexes \in [SpaceIds -> [IndexIds -> Names \union {Null}]]
    /\ ddl \in Nat
    /\ calls \in Nat
    /\ kind \in {"none", "lookup", "field", "authenticate", "flush"}
    /\ pc \in {"idle", "space", "index", "flush"} \union Waits \union Served
    /\ space \in Names \union SpaceIds \union {Null}
    /\ index \in Names \union {Null}
    /\ sid \in SpaceIds \union {Null}
    /\ reply \in [spaces : SUBSET SpaceRow, indexes : SUBSET IndexRow]
    /\ outcome \in {"none", "ok", "undefined", "parse"}
    /\ space_hash \in [Keys -> Shared \union {Null}]
    /\ index_hash \subseteq IndexRecord
    /\ gen \in Nat
    /\ freed \subseteq Shared
    /\ seen \subseteq SpaceRow \union IndexRow
    /\ flushedAt \in Nat

Distinct(f) == \A i, j \in DOMAIN f : f[i] = f[j] /\ f[i] # Null => i = j

(***************************************************************************)
(* tarantool_schema_new: an empty table.                                   *)
(***************************************************************************)
Init ==
    /\ spaces \in [SpaceIds -> Names \union {Null}]
    /\ Distinct(spaces)
    /\ indexes \in [SpaceIds -> [IndexIds -> Names \union {Null}]]
    /\ \A i \in SpaceIds : Distinct(indexes[i])
    /\ \A i \in SpaceIds, j \in IndexIds : indexes[i][j] # Null => spaces[i] # Null
    /\ ddl = 0
    /\ calls = 0 /\ kind = "none" /\ pc = "idle"
    /\ space = Null /\ index = Null /\ sid = Null
    /\ reply = NoRows /\ outcome = "none"
    /\ space_hash = [k \in Keys |-> Null]
    /\ index_hash = {} /\ gen = 0 /\ freed = {}
    /\ seen = SpaceRows \union IndexRows
    /\ flushedAt = 0
-----------------------------------------------------------------------------
(***************************************************************************)
(* tarantool_schema.c                                                      *)
(***************************************************************************)
KeysOf(r) == {r.name, NumKey[r.number]}
KeyOf(x) == IF x \in SpaceIds THEN NumKey[x] ELSE x

(***************************************************************************)
(* The order of the rows of a response is that of the primary index.       *)
(***************************************************************************)
UpTo(q, r) == q.number <= r.number
UpToIndex(q, r) == q.space < r.space \/ (q.space = r.space /\ q.number <= r.number)

(***************************************************************************)
(* Faulty variant: only the record under the name is put.                  *)
(***************************************************************************)
AddSpacesByName(rows) ==
    /\ gen' = gen + 1
    /\ space_hash' =
        [k \in Keys |->
            IF \E r \in rows : r.name = k
            THEN LET r == CHOOSE r \in rows : r.name = k
                 IN  [number |-> r.number, name |-> r.name, gen |-> gen + 1]
            ELSE space_hash[k]]
    /\ UNCHANGED <<index_hash, freed>>

(***************************************************************************)
(* tarantool_schema_add_spaces: both records of every row are put; of the  *)
(* rows with the same key the last one stays, also over an older record.   *)
(***************************************************************************)
AddSpaces(rows) ==
    /\ gen' = gen + 1
    /\ space_hash' =
        [k \in Keys |->
            IF \E r \in rows : k \in KeysOf(r)
            THEN LET r == CHOOSE r \in rows :
                            /\ k \in KeysOf(r)
                            /\ \A q \in rows : k \in KeysOf(q) => UpTo(q, r)
                 IN  [number |-> r.number, name |-> r.name, gen |-> gen + 1]
            ELSE space_hash[k]]
    /\ UNCHANGED <<index_hash, freed>>

(***************************************************************************)
(* The space a row of _vindex belongs to, and the rows that have none.     *)
(***************************************************************************)
Home(r) == space_hash[NumKey[r.space]]
Homeless(rows) == {r \in rows : Home(r) = Null}

(***************************************************************************)
(* The records of rows added one after the other, over older ones.         *)
(***************************************************************************)
WithIndexes(added) ==
    LET Goes(r, c, k) == Home(r) = c /\ k \in KeysOf(r)
        Last(r, k) == \A q \in added : Goes(q, Home(r), k) => UpToIndex(q, r)
    IN  {e \in index_hash : \A r \in added : ~ Goes(r, e.of, e.key)}
        \union UNION {{[of |-> Home(r), key |-> k, number |-> r.number] :
                           k \in {k \in KeysOf(r) : Last(r, k)}} : r \in added}

(***************************************************************************)
(* Faulty variants: no test for a space without a record, and a loop that  *)
(* ends one row early.                                                     *)
(***************************************************************************)
AddIndexesUnchecked(rows) == index_hash' = WithIndexes(rows)

AddIndexesShort(rows) ==
    index_hash' = WithIndexes({r \in rows : \E q \in rows : ~ UpToIndex(q, r)})

(***************************************************************************)
(* tarantool_schema_add_indexes stops at the first row whose space has no  *)
(* record under its number.  The rows before it go to the table of their   *)
(* space, both records of each.                                            *)
(***************************************************************************)
AddIndexes(rows) ==
    index_hash' = WithIndexes({r \in rows : \A h \in Homeless(rows) : ~ UpToIndex(h, r)})

(***************************************************************************)
(* The index tables of c hold a record under key k.                        *)
(***************************************************************************)
HasIndex(hash, c, k) == \E e \in hash : e.of = c /\ e.key = k

(***************************************************************************)
(* Faulty variant: the partner of the record is left in the table.         *)
(***************************************************************************)
FreeRecordAlone(k) ==
    LET c == space_hash[k]
    IN  /\ c # Null
        /\ space_hash' = [space_hash EXCEPT ![k] = Null]
        /\ index_hash' = {e \in index_hash : e.of # c}
        /\ freed' = freed \union {c}
        /\ UNCHANGED gen

(***************************************************************************)
(* schema_space_free, one turn of its loop: the record at hand names its   *)
(* number and its name, the records under both keys are deleted and freed, *)
(* and what it shared is freed, the index table included.                  *)
(***************************************************************************)
FreeRecord(k) ==
    LET c == space_hash[k]
    IN  /\ c # Null
        /\ space_hash' = [j \in Keys |-> IF j \in KeysOf(c) THEN Null ELSE space_hash[j]]
        /\ index_hash' = {e \in index_hash : e.of # c}
        /\ freed' = freed \union {c}
        /\ UNCHANGED gen
-----------------------------------------------------------------------------
(***************************************************************************)
(* The script starts an API call.                                          *)
(***************************************************************************)
Start(k, where, x, y) ==
    /\ pc = "idle"
    /\ calls < MaxCalls
    /\ calls' = calls + 1
    /\ kind' = k /\ pc' = where
    /\ space' = x /\ index' = y /\ sid' = Null
    /\ reply' = NoRows /\ outcome' = "none"
    /\ UNCHANGED <<serverVars, historyVars>>

(***************************************************************************)
(* A method with a space, by name or number, and perhaps the name of an    *)
(* index.                                                                  *)
(***************************************************************************)
StartLookup ==
    \E x \in Names \union SpaceIds, y \in Names \union {Null} :
        Start("lookup", "space", x, y) /\ UNCHANGED cacheVars

(***************************************************************************)
(* update and upsert with an operation on a field given by its name.       *)
(***************************************************************************)
StartField ==
    \E x \in Names \union SpaceIds, y \in Names :
        Start("field", "space", x, y) /\ UNCHANGED cacheVars

(***************************************************************************)
(* flush_schema, and __tarantool_authenticate, which begins with a flush.  *)
(***************************************************************************)
StartFlush ==
    \E k \in {"flush", "authenticate"} :
        /\ Start(k, "flush", Null, Null)
        /\ freed' = {}
        /\ UNCHANGED <<space_hash, index_hash, gen>>

Return(how) ==
    /\ pc' = "idle"
    /\ outcome' = how
    /\ reply' = NoRows
    /\ UNCHANGED <<calls, kind, space, index, serverVars, historyVars>>

GoTo(where) ==
    /\ pc' = where
    /\ UNCHANGED <<calls, kind, space, index, outcome>>

(***************************************************************************)
(* get_spaceno_by_name                                                     *)
(***************************************************************************)
SpaceHit ==
    /\ pc = "space"
    /\ space_hash[KeyOf(space)] # Null
    /\ sid' = space_hash[KeyOf(space)].number
    /\ GoTo("index")
    /\ UNCHANGED <<reply, cacheVars, serverVars, historyVars>>

SpaceMiss ==
    /\ pc = "space"
    /\ space_hash[KeyOf(space)] = Null
    /\ GoTo("spaceAsked")
    /\ UNCHANGED <<sid, reply, cacheVars, serverVars, historyVars>>

(***************************************************************************)
(* The rows are added and the name is looked up once more.                 *)
(***************************************************************************)
LearnSpace ==
    /\ pc = "spaceServed"
    /\ AddSpaces(reply.spaces)
    /\ \/ /\ space_hash'[KeyOf(space)] = Null
          /\ Return("undefined")
          /\ UNCHANGED sid
       \/ /\ space_hash'[KeyOf(space)] # Null
          /\ sid' = space_hash'[KeyOf(space)].number
          /\ GoTo("index")
          /\ reply' = NoRows
          /\ UNCHANGED <<serverVars, historyVars>>

(***************************************************************************)
(* get_indexno_by_name: no name is index 0.                                *)
(***************************************************************************)
IndexHit ==
    /\ pc = "index" /\ kind = "lookup"
    /\ index = Null \/ HasIndex(index_hash, space_hash[NumKey[sid]], index)
    /\ Return("ok")
    /\ UNCHANGED <<sid, cacheVars>>

IndexMiss ==
    /\ pc = "index" /\ kind = "lookup"
    /\ index # Null /\ ~ HasIndex(index_hash, space_hash[NumKey[sid]], index)
    /\ GoTo("indexAsked")
    /\ UNCHANGED <<sid, reply, cacheVars, serverVars, historyVars>>

LearnIndex ==
    /\ pc = "indexServed"
    /\ AddIndexes(reply.indexes)
    /\ \/ Homeless(reply.indexes) # {} /\ Return("parse")
       \/ /\ Homeless(reply.indexes) = {}
          /\ Return(IF HasIndex(index_hash', space_hash[NumKey[sid]], index)
                    THEN "ok" ELSE "undefined")
    /\ UNCHANGED <<sid, space_hash, gen, freed>>

(***************************************************************************)
(* get_fieldno_by_name: the format of the space has the field, or the      *)
(* space that is named as the field is asked for and added.  That changes  *)
(* the format of the space at hand only if it is that space.               *)
(***************************************************************************)
FieldHit ==
    /\ pc = "index" /\ kind = "field"
    /\ Return("ok")
    /\ UNCHANGED <<sid, cacheVars>>

FieldMiss ==
    /\ pc = "index" /\ kind = "field"
    /\ GoTo("fieldAsked")
    /\ UNCHANGED <<sid, reply, cacheVars, serverVars, historyVars>>

LearnField ==
    /\ pc = "fieldServed"
    /\ AddSpaces(reply.spaces)
    /\ \/ Return("undefined")
       \/ (\E r \in reply.spaces : r.number = sid) /\ Return("ok")
    /\ UNCHANGED sid

(***************************************************************************)
(* tarantool_schema_flush, of a table that no resize moves: the loop comes *)
(* to every record, in the order of the slots.  SchemaHash has the slots,  *)
(* and the loop over a table that is being resized.                        *)
(***************************************************************************)
FlushTurn ==
    /\ pc = "flush"
    /\ \E k \in Keys : FreeRecord(k)
    /\ UNCHANGED <<callVars, serverVars, historyVars>>

(***************************************************************************)
(* Faulty variant: the loop ends with records left in the table.           *)
(***************************************************************************)
FlushDoneEarly ==
    /\ pc = "flush"
    /\ seen' = SpaceRows \union IndexRows
    /\ flushedAt' = ddl
    /\ IF kind = "authenticate"
       THEN pc' = "batchAsked" /\ UNCHANGED outcome
       ELSE pc' = "idle" /\ outcome' = "ok"
    /\ UNCHANGED <<calls, kind, space, index, sid, reply, cacheVars, serverVars>>

FlushDone ==
    /\ pc = "flush"
    /\ \A k \in Keys : space_hash[k] = Null
    /\ seen' = SpaceRows \union IndexRows
    /\ flushedAt' = ddl
    /\ IF kind = "authenticate"
       THEN pc' = "batchAsked" /\ UNCHANGED outcome
       ELSE pc' = "idle" /\ outcome' = "ok"
    /\ UNCHANGED <<calls, kind, space, index, sid, reply, cacheVars, serverVars>>

(***************************************************************************)
(* The loop of __tarantool_authenticate over the two selects.              *)
(***************************************************************************)
LearnSpaces ==
    /\ pc = "batchServed"
    /\ AddSpaces(reply.spaces)
    /\ GoTo("batchLearned")
    /\ UNCHANGED <<sid, reply, serverVars, historyVars>>

LearnIndexes ==
    /\ pc = "batchLearned"
    /\ AddIndexes(reply.indexes)
    /\ Return(IF Homeless(reply.indexes) = {} THEN "ok" ELSE "parse")
    /\ UNCHANGED <<sid, space_hash, gen, freed>>

Extension ==
    \/ SpaceHit \/ SpaceMiss \/ LearnSpace
    \/ IndexHit \/ IndexMiss \/ LearnIndex
    \/ FieldHit \/ FieldMiss \/ LearnField
    \/ FlushTurn \/ FlushDone \/ LearnSpaces \/ LearnIndexes
-----------------------------------------------------------------------------
(***************************************************************************)
(* The server executes a select at one moment.                             *)
(***************************************************************************)
Serve(asked, served, rows) ==
    /\ pc = asked
    /\ GoTo(served)
    /\ reply' = rows
    /\ UNCHANGED <<sid, cacheVars, serverVars, historyVars>>

FirstSpaces == {r \in SpaceRows : Cardinality({q \in SpaceRows : UpTo(q, r)}) <= Limit}
FirstIndexes == {r \in IndexRows : Cardinality({q \in IndexRows : UpToIndex(q, r)}) <= Limit}

ServeSpace ==
    Serve("spaceAsked", "spaceServed",
          [NoRows EXCEPT !.spaces = {r \in SpaceRows : space \in {r.name, r.number}}])

ServeIndex ==
    Serve("indexAsked", "indexServed",
          [NoRows EXCEPT !.indexes = {r \in IndexRows : r.space = sid /\ r.name = index}])

ServeField ==
    Serve("fieldAsked", "fieldServed",
          [NoRows EXCEPT !.spaces = {r \in SpaceRows : r.name = index}])

ServeSpaces == Serve("batchAsked", "batchHalf", [NoRows EXCEPT !.spaces = FirstSpaces])
ServeIndexes == Serve("batchHalf", "batchServed", [reply EXCEPT !.indexes = FirstIndexes])

Server == ServeSpace \/ ServeIndex \/ ServeField \/ ServeSpaces \/ ServeIndexes

(***************************************************************************)
(* Spaces and indexes are created, renamed and dropped, one row of a       *)
(* system space at a time.                                                 *)
(***************************************************************************)
Change(now) ==
    /\ ddl < MaxDDL
    /\ ddl' = ddl + 1
    /\ seen' = seen \union now
    /\ UNCHANGED <<callVars, cacheVars, flushedAt>>

PutSpace(i, n) ==
    /\ \A j \in SpaceIds : spaces[j] # n
    /\ spaces' = [spaces EXCEPT ![i] = n]
    /\ UNCHANGED indexes
    /\ Change({[number |-> i, name |-> n]})

DropSpace(i) ==
    /\ spaces[i] # Null
    /\ \A j \in IndexIds : indexes[i][j] = Null
    /\ spaces' = [spaces EXCEPT ![i] = Null]
    /\ UNCHANGED indexes
    /\ Change({})

PutIndex(i, j, n) ==
    /\ spaces[i] # Null
    /\ \A m \in IndexIds : indexes[i][m] # n
    /\ indexes' = [indexes EXCEPT ![i][j] = n]
    /\ UNCHANGED spaces
    /\ Change({[space |-> i, number |-> j, name |-> n]})

DropIndex(i, j) ==
    /\ indexes[i][j] # Null
    /\ indexes' = [indexes EXCEPT ![i][j] = Null]
    /\ UNCHANGED spaces
    /\ Change({})

DDL ==
    \E i \in SpaceIds :
        \/ \E n \in Names : PutSpace(i, n)
        \/ DropSpace(i)
        \/ \E j \in IndexIds, n \in Names : PutIndex(i, j, n)
        \/ \E j \in IndexIds : DropIndex(i, j)

(***************************************************************************)
(* The script has made all its calls and the server stays as it is.        *)
(***************************************************************************)
Finished == pc = "idle" /\ calls = MaxCalls /\ ddl = MaxDDL /\ UNCHANGED vars

Next ==
    \/ StartLookup \/ StartField \/ StartFlush
    \/ Extension \/ Server \/ DDL \/ Finished

Spec == Init /\ [][Next]_vars
-----------------------------------------------------------------------------
(***************************************************************************)
(* No record of the schema points to memory that was freed: the loop of    *)
(* schema_space_free never meets what it freed in an earlier turn, however *)
(* names and numbers changed between the responses that were added.        *)
(***************************************************************************)
NoDanglingKeys == \A k \in Keys : space_hash[k] \notin freed

(***************************************************************************)
(* What the schema says of a name was true on the server at some time      *)
(* since the last flush: a flush is all it takes to forget the old         *)
(* definitions, also those two records and an index table shared.  A row   *)
(* added over an older one leaves what they shared behind, unreachable.    *)
(***************************************************************************)
SpacesWereTrue ==
    \A n \in Names : space_hash[n] # Null =>
        [number |-> space_hash[n].number, name |-> n] \in seen

IndexesWereTrue ==
    \A e \in index_hash : e.key \in Names /\ (\E k \in Keys : space_hash[k] = e.of) =>
        [space |-> e.of.number, number |-> e.number, name |-> e.key] \in seen

CacheWasTrue == SpacesWereTrue /\ IndexesWereTrue

(***************************************************************************)
(* A lookup never ends with "Failed to parse schema (index)": the space of *)
(* the row it adds is in the schema, also when it was given by number      *)
(* (test/DMLTest.php:493, gh-42).                                          *)
(***************************************************************************)
LookupParses == kind \in {"lookup", "field"} => outcome # "parse"

(***************************************************************************)
(* When the definitions did not change since the flush and fit into the    *)
(* response, the batch succeeds, and no name needs a lookup after it.      *)
(***************************************************************************)
Fits == Cardinality(SpaceRows) <= Limit /\ Cardinality(IndexRows) <= Limit

BatchIsComplete ==
    pc = "idle" /\ kind = "authenticate" /\ ddl = flushedAt /\ Fits =>
        /\ outcome = "ok"
        /\ \A r \in SpaceRows :
              space_hash[r.name] # Null /\ space_hash[r.name].number = r.number
        /\ \A r \in IndexRows : \E e \in index_hash :
              e.of = space_hash[NumKey[r.space]] /\ e.key = r.name /\ e.number = r.number

(***************************************************************************)
(* "Space id to select from" (README.md:229), given as a name: the request *)
(* goes to the space of that name.                                         *)
(***************************************************************************)
NameMeansSpace ==
    kind = "lookup" /\ outcome = "ok" /\ space \in Names =>
        [number |-> sid, name |-> space] \in seen
=============================================================================
