--------------------------------- MODULE MHash ---------------------------------
(***************************************************************************)
(* The hash table the schema is kept in (src/src/third_party/mhash.h, as   *)
(* tarantool_schema.c instantiates it): open addressing with double        *)
(* hashing, a "dirty" bit on every slot a collision chain goes through,    *)
(* and an incremental resize: the nodes move to a bigger shadow table a    *)
(* batch of slots at a time, on the puts and deletes that come meanwhile.  *)
(*                                                                         *)
(* A put or a delete is a request, carried out in steps: one slot of the   *)
(* batch each, and the one that changes the table.  A search that would    *)
(* never end is a step that is not there.                                  *)
(***************************************************************************)
EXTENDS Integers, Sequences

CONSTANTS
    Keys,    \* keys of nodes
    Values,  \* what a node has beside its key
    Hash,    \* Hash[k]: PMurHash32 of key k
    Primes,  \* __ac_prime_list
    Batch,   \* slots a resize sweeps at a time (256 in the build)
    Null     \* no node, no table, no request

ASSUME HashAssumption == Hash \in [Keys -> Nat]
ASSUME PrimesAssumption ==
    /\ Primes \in Seq(Nat) /\ Primes # <<>>
    /\ \A i \in DOMAIN Primes : Primes[i] > 1
ASSUME PrimesArePrime ==
    \A i \in DOMAIN Primes : \A a, b \in 2 .. Primes[i] - 1 : a * b # Primes[i]
ASSUME BatchAssumption == Batch \in Nat \ {0}

(***************************************************************************)
(* MH_DENSITY: how much of n buckets may be dirty.  A batch is big enough  *)
(* for a resize to end before the table is full ("greater or equal to      *)
(* 1 / (1 - f)", mhash.h:481) and before its shadow needs a resize itself: *)
(* 256 is, for any two sizes of __ac_prime_list.                           *)
(***************************************************************************)
Density(n) == (7 * n) \div 10

ASSUME BatchKeepsUp ==
    \A i, j \in DOMAIN Primes :
        /\ Primes[i] <= Batch * (Primes[i] - Density(Primes[i]))
        /\ Primes[i] < Primes[j] =>
              2 * Primes[i] <= Batch * (Density(Primes[j]) - Density(Primes[i]))

Node == [key : Keys, value : Values]
Requests == [do : {"put"}, node : Node] \union [do : {"delete"}, key : Keys]

ASSUME NoNodeAssumption == Null \notin Node \union Requests \union Values

VARIABLES
    h,                \* the table
    s,                \* h->shadow while a resize goes on, or Null
    resize_position,  \* where the sweep goes on, 0 if no resize does
    asked,            \* the request at hand, or Null once it is carried out
    pc,               \* where it is
    at,               \* the slot the sweep is at
    left              \* slots left of its batch

tableVars == <<h, s, resize_position>>
hashVars == <<tableVars, asked, pc, at, left>>

Slots(n) == 0 .. n - 1

(***************************************************************************)
(* p and the exist bits as one: p[x] is the node at slot x if it exists.   *)
(***************************************************************************)
Table(n) ==
    [n_buckets : {n}, p : [Slots(n) -> Node \union {Null}],
     dirty : SUBSET Slots(n), n_dirty : Int, size : Int]

IsTable(t) == \E i \in DOMAIN Primes : t \in Table(Primes[i])

ASSUME NoTableAssumption == ~ IsTable(Null)

HashTypeOK ==
    /\ IsTable(h)
    /\ s # Null => IsTable(s)
    /\ resize_position \in Nat
    /\ asked \in Requests \union {Null}
    /\ pc \in {"idle", "asked", "sweep", "insert"}
    /\ at \in Nat
    /\ left \in Nat

New(n, size) ==
    [n_buckets |-> n, p |-> [x \in Slots(n) |-> Null],
     dirty |-> {}, n_dirty |-> 0, size |-> size]

HashInit ==
    /\ h = New(Primes[1], 0)
    /\ s = Null /\ resize_position = 0
    /\ asked = Null /\ pc = "idle" /\ at = 0 /\ left = 0

UpperBound(t) == Density(t.n_buckets)
-----------------------------------------------------------------------------
(***************************************************************************)
(* The slot a search for key k is at after j steps.  Primes are used so    *)
(* that the first n_buckets of them are all the slots.                     *)
(***************************************************************************)
Probe(n, k, j) == (Hash[k] + j * (1 + (Hash[k] % (n - 1)))) % n

Steps(t) == 0 .. t.n_buckets - 1
Spot(t, k, j) == Probe(t.n_buckets, k, j)
Holds(t, k, x) == t.p[x] # Null /\ t.p[x].key = k

(***************************************************************************)
(* mh_find and mh_get: the search for k ends at step j, at its node or at  *)
(* the end of the chain.                                                   *)
(***************************************************************************)
EndsAt(t, k, j) == Holds(t, k, Spot(t, k, j)) \/ Spot(t, k, j) \notin t.dirty

SearchEnds(t, k, j) ==
    /\ EndsAt(t, k, j)
    /\ \A i \in 0 .. j - 1 : ~ EndsAt(t, k, i)

Ends(t, k) == \E j \in Steps(t) : SearchEnds(t, k, j)

FoundAt(t, k, j) == Holds(t, k, Spot(t, k, j)) /\ SearchEnds(t, k, j)

Find(t, k) ==
    IF \E j \in Steps(t) : FoundAt(t, k, j)
    THEN Spot(t, k, CHOOSE j \in Steps(t) : FoundAt(t, k, j))
    ELSE t.n_buckets

(***************************************************************************)
(* put_slot, first loop: past the slots that hold another node.            *)
(***************************************************************************)
Taken(t, k, j) == t.p[Spot(t, k, j)] # Null /\ ~ Holds(t, k, Spot(t, k, j))

FirstFree(t, k, j) ==
    /\ ~ Taken(t, k, j)
    /\ \A i \in 0 .. j - 1 : Taken(t, k, i)

(***************************************************************************)
(* Faulty variant: the slots a put passes are not marked.                  *)
(***************************************************************************)
Unmarked(t, k, j) == t

(***************************************************************************)
(* The slots passed become part of a chain.                                *)
(***************************************************************************)
Marked(t, k, j) ==
    [t EXCEPT !.dirty = @ \union {Spot(t, k, i) : i \in 0 .. j - 1}]

(***************************************************************************)
(* Second loop: down the chain from step j, for a node with the same key.  *)
(***************************************************************************)
ChainEnds(t, k, j, i) ==
    /\ i >= j /\ EndsAt(t, k, i)
    /\ \A m \in j .. i - 1 : ~ EndsAt(t, k, m)

PutEnds(t, k) ==
    \E j \in Steps(t) :
        /\ FirstFree(t, k, j)
        /\ \E i \in Steps(t) : ChainEnds(Marked(t, k, j), k, j, i)

(***************************************************************************)
(* put_slot: the slot for a node with key k, and the table it leaves.      *)
(***************************************************************************)
FreeStep(t, k) == CHOOSE j \in Steps(t) : FirstFree(t, k, j)
Passed(t, k) == Marked(t, k, FreeStep(t, k))

(***************************************************************************)
(* Faulty variant: the first free slot is taken, with no look at the rest  *)
(* of the chain.                                                           *)
(***************************************************************************)
PutSlotFirst(t, k) == Spot(t, k, FreeStep(t, k))

PutSlot(t, k) ==
    LET j == FreeStep(t, k)
        x == Spot(t, k, CHOOSE i \in Steps(t) : ChainEnds(Passed(t, k), k, j, i))
    IN  IF Holds(t, k, x) THEN x ELSE Spot(t, k, j)

Place(t, node) == [Passed(t, node.key) EXCEPT !.p[PutSlot(t, node.key)] = node]

Fresh(t, k) == IF PutSlot(t, k) \in Passed(t, k).dirty THEN 0 ELSE 1

(***************************************************************************)
(* mh_put, from put_slot on: a new node or one in place of an old one.     *)
(***************************************************************************)
Put(t, node) ==
    IF t.p[PutSlot(t, node.key)] # Null
    THEN Place(t, node)
    ELSE [Place(t, node) EXCEPT !.size = @ + 1,
                                !.n_dirty = @ + Fresh(t, node.key)]

(***************************************************************************)
(* A node the sweep of mh_resize puts into the shadow: n_dirty is counted  *)
(* up also for a node that was there before.                               *)
(***************************************************************************)
Moved(t, node) == [Place(t, node) EXCEPT !.n_dirty = @ + 1]

(***************************************************************************)
(* Faulty variant of mh_del: a freed slot of a chain no longer counts as   *)
(* dirty.                                                                  *)
(***************************************************************************)
DelUncounted(t, x) ==
    IF x = t.n_buckets THEN t
    ELSE [t EXCEPT !.p[x] = Null, !.size = @ - 1, !.n_dirty = @ - 1]

(***************************************************************************)
(* mh_del, without the resize it goes on with.                             *)
(***************************************************************************)
Del(t, x) ==
    IF x = t.n_buckets THEN t
    ELSE [t EXCEPT !.p[x] = Null, !.size = @ - 1,
                   !.n_dirty = @ - (IF x \in t.dirty THEN 0 ELSE 1)]
-----------------------------------------------------------------------------
Ask(r) ==
    /\ pc = "idle"
    /\ asked' = r
    /\ pc' = "asked"
    /\ UNCHANGED <<tableVars, at, left>>

Sweep(from) ==
    /\ pc' = "sweep"
    /\ at' = from
    /\ left' = Batch

(***************************************************************************)
(* mh_put goes on with a resize that was started ...                       *)
(***************************************************************************)
PutAsked ==
    /\ pc = "asked" /\ asked.do = "put"
    /\ h.size # h.n_buckets

GoOnResizing ==
    /\ PutAsked
    /\ resize_position > 0
    /\ Sweep(resize_position)
    /\ UNCHANGED <<tableVars, asked>>

(***************************************************************************)
(* Faulty variant: the number of buckets asked for is taken as it is.      *)
(***************************************************************************)
StartOneMore ==
    /\ PutAsked
    /\ resize_position = 0
    /\ h.n_dirty >= UpperBound(h)
    /\ s' = New(h.n_buckets + 1, h.size)
    /\ Sweep(0)
    /\ UNCHANGED <<h, resize_position, asked>>

(***************************************************************************)
(* ... or starts one: mh_start_resize takes the next prime.                *)
(***************************************************************************)
BiggerPrimes == {n \in {Primes[i] : i \in DOMAIN Primes} : n > h.n_buckets}

StartResize ==
    /\ PutAsked
    /\ resize_position = 0
    /\ h.n_dirty >= UpperBound(h)
    /\ \E n \in BiggerPrimes :
          /\ \A m \in BiggerPrimes : n <= m
          /\ s' = New(n, h.size)
    /\ Sweep(0)
    /\ UNCHANGED <<h, resize_position, asked>>

(***************************************************************************)
(* mh_resize: one slot of the batch, the end of the batch, and the end of  *)
(* the table, where the shadow takes its place.                            *)
(***************************************************************************)
SweepSlot ==
    /\ pc = "sweep"
    /\ at < h.n_buckets /\ left > 0
    /\ h.p[at] # Null => PutEnds(s, h.p[at].key)
    /\ s' = IF h.p[at] = Null THEN s ELSE Moved(s, h.p[at])
    /\ at' = at + 1
    /\ left' = left - 1
    /\ UNCHANGED <<h, resize_position, asked, pc>>

SweepPause ==
    /\ pc = "sweep"
    /\ at < h.n_buckets /\ left = 0
    /\ resize_position' = at
    /\ pc' = IF asked = Null THEN "idle" ELSE "insert"
    /\ at' = 0
    /\ UNCHANGED <<h, s, asked, left>>

SweepEnd ==
    /\ pc = "sweep"
    /\ at = h.n_buckets
    /\ h' = [s EXCEPT !.size = h.size]
    /\ s' = Null
    /\ resize_position' = 0
    /\ pc' = IF asked = Null THEN "idle" ELSE "insert"
    /\ at' = 0 /\ left' = 0
    /\ UNCHANGED asked

(***************************************************************************)
(* Faulty variant: a put while a resize goes on misses the shadow.         *)
(***************************************************************************)
BothPutOne(node) ==
    /\ PutEnds(h, node.key)
    /\ h' = Put(h, node)
    /\ UNCHANGED s

(***************************************************************************)
(* The node goes into the shadow, which must not need a resize itself, and *)
(* into the table.                                                         *)
(***************************************************************************)
HasRoom(t) == t.size # t.n_buckets /\ t.n_dirty < UpperBound(t)

BothPut(node) ==
    /\ PutEnds(h, node.key)
    /\ h' = Put(h, node)
    /\ IF resize_position = 0
       THEN UNCHANGED s
       ELSE /\ HasRoom(s) /\ PutEnds(s, node.key)
            /\ s' = Put(s, node)

Insert ==
    /\ \/ pc = "insert"
       \/ PutAsked /\ resize_position = 0 /\ h.n_dirty < UpperBound(h)
    /\ BothPut(asked.node)
    /\ asked' = Null
    /\ pc' = "idle"
    /\ UNCHANGED <<resize_position, at, left>>

(***************************************************************************)
(* mh_find and mh_del.  A delete goes on with a resize, too.               *)
(***************************************************************************)
DeleteAsked ==
    /\ pc = "asked" /\ asked.do = "delete"
    /\ Ends(h, asked.key)
    /\ asked' = Null

DeleteNothing ==
    /\ DeleteAsked
    /\ Find(h, asked.key) = h.n_buckets
    /\ pc' = "idle"
    /\ UNCHANGED <<tableVars, at, left>>

Delete ==
    /\ DeleteAsked
    /\ Find(h, asked.key) # h.n_buckets
    /\ h' = Del(h, Find(h, asked.key))
    /\ IF resize_position = 0
       THEN /\ pc' = "idle"
            /\ UNCHANGED <<s, at, left>>
       ELSE /\ Ends(s, asked.key)
            /\ s' = Del(s, Find(s, asked.key))
            /\ Sweep(resize_position)
    /\ UNCHANGED resize_position

Step ==
    \/ GoOnResizing \/ StartResize
    \/ SweepSlot \/ SweepPause \/ SweepEnd
    \/ Insert \/ DeleteNothing \/ Delete

(***************************************************************************)
(* Any client of the table.  Bound: no put that needs a prime after the    *)
(* last one, which in the build has 4294967291 buckets.                    *)
(***************************************************************************)
MayAsk(r) ==
    r.do = "put" => h.n_dirty < UpperBound(h) \/ BiggerPrimes # {}

HashNext == (\E r \in Requests : MayAsk(r) /\ Ask(r)) \/ Step

HashSpec == HashInit /\ [][HashNext]_hashVars
-----------------------------------------------------------------------------
(***************************************************************************)
(* A node can be found: the search for its key gets to its slot, through   *)
(* dirty slots only, whatever was put and deleted in them meanwhile; and   *)
(* no two nodes have the same key.                                         *)
(***************************************************************************)
Reached(t, x) ==
    \E j \in Steps(t) :
        /\ Spot(t, t.p[x].key, j) = x
        /\ \A i \in 0 .. j - 1 :
              Spot(t, t.p[x].key, i) \in t.dirty /\ Spot(t, t.p[x].key, i) # x

Used(t) == {x \in Slots(t.n_buckets) : t.p[x] # Null}

Whole(t) ==
    /\ \A x \in Used(t) : Reached(t, x)
    /\ \A x, y \in Used(t) : t.p[x].key = t.p[y].key => x = y

ChainsWhole == Whole(h) /\ (s # Null => Whole(s))

(***************************************************************************)
(* While the nodes move, the shadow has those of the slots the sweep has   *)
(* been to, as they are now, and none that was deleted.                    *)
(***************************************************************************)
Swept == IF pc = "sweep" THEN at ELSE resize_position

InStep(t, u, m) ==
    /\ \A x \in Used(t) : x < m => \E y \in Used(u) : u.p[y] = t.p[x]
    /\ \A y \in Used(u) : \E x \in Used(t) : t.p[x] = u.p[y]

ShadowIsTrue == s # Null => InStep(h, s, Swept)

(***************************************************************************)
(* No search and no put loops for ever: in both tables the chain of every  *)
(* key has an end, however many deletes left dirty slots, and the shadow   *)
(* never fills up before the resize is over.                               *)
(***************************************************************************)
NoSearchHangs ==
    \A t \in {h, s} \ {Null} :
        /\ \A k \in Keys : Ends(t, k) /\ PutEnds(t, k)
        /\ t.size # t.n_buckets
        /\ t = s => HasRoom(t)

(***************************************************************************)
(* The table is a map: a key is found with what was put under it last, a   *)
(* key that was deleted is not found, a resize changes neither, and no     *)
(* other key changes.                                                      *)
(***************************************************************************)
Found(t, k) ==
    LET x == Find(t, k) IN IF x = t.n_buckets THEN Null ELSE t.p[x].value

AsMap == INSTANCE KeyMap WITH map <- [k \in Keys |-> Found(h, k)]

IsMap == AsMap!Map
=============================================================================
